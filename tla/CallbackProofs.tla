---------------------------- MODULE CallbackProofs ----------------------------
(* What Callback guarantees for every number of messages, rows, retries    *)
(* and failures.                                                           *)
EXTENDS Callback, TotalsProofs

USE DEF Running, Active, Status

LEMMA CallOfType ==
    \A m \in Message : CallOf(m) \in Call
  BY DEF Message, CallOf

(* The message that a call or a retry queues was not queued before.        *)
LEMMA NewMessageIsFree ==
    ASSUME NEW c \in Call, Free(c) # {}
    PROVE  /\ NewMessage(c) \in Message
           /\ CallOf(NewMessage(c)) = c
           /\ phase[NewMessage(c)] = "free"
<1>1. NewMessage(c) \in Free(c)
  BY DEF NewMessage
<1> QED
  BY <1>1 DEF Free

(* A retry ends one message of a call and queues another one.              *)
LEMMA RetryStep ==
    ASSUME TypeOK, NEW m \in Message, Retry(m)
    PROVE  /\ phase[m] = "failed" /\ retries[m] < MaxRetries
           /\ UNCHANGED <<rowVars, found, read, tellVars, posts, faults>>
           /\ \E n \in Message \ {m} :
                 /\ CallOf(n) = CallOf(m) /\ phase[n] = "free"
                 /\ phase' = [phase EXCEPT ![m] = "retried", ![n] = "queued"]
                 /\ retries' = [retries EXCEPT ![n] = retries[m] + 1]
<1>1. /\ phase[m] = "failed" /\ retries[m] < MaxRetries
      /\ UNCHANGED <<rowVars, found, read, tellVars, posts, faults>>
  BY Zenon DEF Retry
<1> DEFINE n == NewMessage(CallOf(m))
<1>2. n \in Message /\ CallOf(n) = CallOf(m) /\ phase[n] = "free"
  BY CallOfType, NewMessageIsFree, Zenon DEF Retry
<1>3. /\ phase' = [phase EXCEPT ![m] = "retried", ![n] = "queued"]
      /\ retries' = [retries EXCEPT ![n] = retries[m] + 1]
  BY Zenon DEF Retry
<1>4. n # m
  BY <1>1, <1>2
<1> HIDE DEF n
<1> QED
  BY <1>1, <1>2, <1>3, <1>4

(* So does a first message, whose retries are none.                        *)
LEMMA DelayStep ==
    ASSUME TypeOK, NEW c \in Call, Delay(c)
    PROVE  /\ source[c] = "none"
           /\ source' = [source EXCEPT ![c] = IF c \in Hook THEN "open" ELSE "committed"]
           /\ UNCHANGED <<rowVars, retries, found, read, payload, told, posts, faults>>
           /\ \E n \in Message :
                 /\ CallOf(n) = c /\ phase[n] = "free"
                 /\ phase' = [phase EXCEPT ![n] = "queued"]
<1>1. NewMessage(c) \in Message /\ CallOf(NewMessage(c)) = c /\ phase[NewMessage(c)] = "free"
  BY NewMessageIsFree DEF Delay
<1> QED
  BY <1>1, Zenon DEF Delay, MoveTo

(* Every variable keeps its type; in particular no message is retried more *)
(* than MaxRetries times.                                                  *)
THEOREM CallbackTypeCorrect == Spec => []TypeOK
<1>1. Init => TypeOK
  <2>1. Init => /\ source \in [Call -> {"none", "open", "committed"}]
                /\ payload \in [Message -> {"old", "outcome"}]
                /\ told \in SUBSET {"old", "outcome"}
    BY DEF Init
  <2>2. Init => row \in [Delivery -> Status \cup {"none"}]
    BY DEF Init
  <2>3. Init => found \in [Message -> SUBSET Delivery]
    BY DEF Init
  <2>4. Init => retries \in [Message -> 0..MaxRetries] /\ faults \in 0..MaxFaults
    BY CallbackAssumption DEF Init
  <2> QED
    BY <2>1, <2>2, <2>3, <2>4 DEF Init, TypeOK
<1>2. TypeOK /\ [Next]_vars => TypeOK'
  <2> SUFFICES ASSUME TypeOK, [Next]_vars PROVE TypeOK'
    OBVIOUS
  <2>0. \A m \in Message : CallOf(m) \in Call
    BY CallOfType
  <2>a. ASSUME NEW m \in Message, NEW S \in SUBSET Delivery, Finds(m, S)
        PROVE  found' \in [Message -> SUBSET Delivery] /\ read' \in [Message -> [Delivery -> Nat]]
    <3> DEFINE r == [d \in Delivery |-> IF d \in S THEN attempts[d] ELSE 0]
    <3>1. r \in [Delivery -> Nat]
      BY DEF TypeOK
    <3>2. found' = [found EXCEPT ![m] = S] /\ read' = [read EXCEPT ![m] = r]
      BY <2>a DEF Finds
    <3> HIDE DEF r
    <3> QED
      BY <3>1, <3>2 DEF TypeOK
  <2>c. ASSUME NEW c \in Call, Delay(c)
        PROVE  /\ UNCHANGED <<rowVars, retries, found, read, payload, told, posts, faults>>
               /\ source' = [source EXCEPT ![c] = IF c \in Hook THEN "open" ELSE "committed"]
               /\ \E n \in Message : phase' = [phase EXCEPT ![n] = "queued"]
    BY <2>c, DelayStep, Zenon
  <2>d. ASSUME NEW m \in Message, Retry(m)
        PROVE  /\ retries[m] < MaxRetries
               /\ UNCHANGED <<rowVars, found, read, tellVars, posts, faults>>
               /\ \E n \in Message :
                     /\ phase' = [phase EXCEPT ![m] = "retried", ![n] = "queued"]
                     /\ retries' = [retries EXCEPT ![n] = retries[m] + 1]
    BY <2>d, RetryStep
  <2> USE CallbackAssumption DEF TypeOK, rowVars, messageVars, tellVars, MoveTo, Forget, Fault
  <2>1. ASSUME NEW c \in Call, Delay(c) PROVE TypeOK'
    BY <2>1, <2>c
  <2>2. ASSUME NEW m \in Message, Begin(m) PROVE TypeOK'
    <3>1. PICK d \in Delivery : Finds(m, {d})
      <4>1. Target \subseteq Delivery
        BY DEF Target, Rows, Fresh
      <4> QED
        BY <4>1, <2>2, Zenon DEF Begin
    <3>2. found' \in [Message -> SUBSET Delivery] /\ read' \in [Message -> [Delivery -> Nat]]
      BY <3>1, <2>a
    <3>3. payload' \in [Message -> {"old", "outcome"}]
      BY <2>2 DEF Begin
    <3>4. /\ phase' = [phase EXCEPT ![m] = "posting"]
          /\ UNCHANGED <<row, attempts, retries, source, told, posts, faults>>
      BY <2>2, Zenon DEF Begin
    <3> QED
      BY <3>2, <3>3, <3>4
  <2>3. ASSUME NEW m \in Message, Post(m) PROVE TypeOK'
    <3>1. told' \in SUBSET {"old", "outcome"}
      BY <2>3 DEF Post
    <3>2. phase' \in [Message -> Active \cup {"free", "retried", "done", "lost"}]
      <4>1. \E ph \in {"accepted", "rejected"} : phase' = [phase EXCEPT ![m] = ph]
        BY <2>3, Zenon DEF Post
      <4> QED
        BY <4>1
    <3>3. posts' \in [Call -> Nat]
      BY <2>0, <2>3 DEF Post
    <3>4. UNCHANGED <<row, attempts, retries, found, read, source, payload, faults>>
      BY <2>3, Zenon DEF Post
    <3> QED
      BY <3>1, <3>2, <3>3, <3>4
  <2>b. ASSUME NEW m \in Message, NEW s \in Status, NEW n \in Nat, UpdateAttempt(m, s, n)
        PROVE  row' \in [Delivery -> Status \cup {"none"}] /\ attempts' \in [Delivery -> Nat]
    BY <2>b DEF UpdateAttempt
  <2>4. ASSUME NEW m \in Message, CommitDelivered(m) PROVE TypeOK'
    <3>1. UpdateAttempt(m, "delivered", 1) /\ Finds(m, {})
      BY <2>4 DEF CommitDelivered
    <3> QED
      BY <3>1, <2>4, <2>a, <2>b DEF CommitDelivered
  <2>5. ASSUME NEW m \in Message, CommitPending(m) PROVE TypeOK'
    <3>1. UpdateAttempt(m, "pending", 1) /\ Finds(m, {})
      BY <2>5 DEF CommitPending
    <3> QED
      BY <3>1, <2>5, <2>a, <2>b DEF CommitPending
  <2>6. ASSUME NEW m \in Message, Retry(m) PROVE TypeOK'
    <3>1. PICK n \in Message :
              /\ phase' = [phase EXCEPT ![m] = "retried", ![n] = "queued"]
              /\ retries' = [retries EXCEPT ![n] = retries[m] + 1]
      BY <2>6, <2>d
    <3>2. retries[m] + 1 \in 0..MaxRetries
      BY <2>6, <2>d
    <3>3. /\ phase' \in [Message -> Active \cup {"free", "retried", "done", "lost"}]
          /\ retries' \in [Message -> 0..MaxRetries]
      BY <3>1, <3>2
    <3>4. UNCHANGED <<rowVars, found, read, tellVars, posts, faults>>
      BY <2>6, <2>d
    <3> QED
      BY <3>3, <3>4
  <2>7. ASSUME NEW m \in Message, MarkRead(m) PROVE TypeOK'
    <3>1. Finds(m, {d \in Rows : row[d] # "delivered"})
      BY <2>7 DEF MarkRead
    <3>2. {d \in Rows : row[d] # "delivered"} \in SUBSET Delivery
      BY DEF Rows
    <3> QED
      BY <3>1, <3>2, <2>7, <2>a DEF MarkRead
  <2>8. ASSUME NEW m \in Message, MarkCommit(m) PROVE TypeOK'
    <3>1. UpdateAttempt(m, "failed", 0) /\ Finds(m, {})
      BY <2>8 DEF MarkCommit
    <3> QED
      BY <3>1, <2>8, <2>a, <2>b DEF MarkCommit
  <2>9. ASSUME NEW m \in Message, Dies(m) \/ Redelivered(m) PROVE TypeOK'
    <3>1. Finds(m, {}) /\ payload' = [payload EXCEPT ![m] = "old"]
      BY <2>9 DEF Dies, Redelivered
    <3>2. /\ phase' \in [Message -> Active \cup {"free", "retried", "done", "lost"}]
          /\ UNCHANGED <<row, attempts, retries, source, told, posts>>
          /\ faults < MaxFaults /\ faults' = faults + 1
      BY <2>9 DEF Dies, Redelivered
    <3>3. found' \in [Message -> SUBSET Delivery] /\ read' \in [Message -> [Delivery -> Nat]]
      BY <3>1, <2>a
    <3>4. payload' \in [Message -> {"old", "outcome"}]
      BY <3>1
    <3>5. faults' \in 0..MaxFaults
      BY <3>2
    <3> QED
      BY <3>2, <3>3, <3>4, <3>5
  <2>10. ASSUME NEW c \in Call, CommitSource(c) PROVE TypeOK'
    BY <2>10 DEF CommitSource
  <2>11. CASE UNCHANGED vars
    BY <2>11 DEF vars
  <2> QED
    BY <2>1, <2>2, <2>3, <2>4, <2>5, <2>6, <2>7, <2>8, <2>9, <2>10, <2>11
    DEF Next, Execution
<1> QED
  BY <1>1, <1>2, PTL DEF Spec

-----------------------------------------------------------------------------
(* Attempts                                                                *)

Posted == {"accepted", "rejected", "failed", "marking"}

(* The requests of a call are at least those that its messages know of.    *)
AttemptInv ==
    \A m \in Message :
        /\ phase[m] = "free" => retries[m] = 0
        /\ phase[m] # "free" =>
              posts[CallOf(m)] >= retries[m] + (IF phase[m] \in Posted THEN 1 ELSE 0)
        /\ phase[m] = "marking" => retries[m] = MaxRetries

LEMMA AttemptInvHolds == Spec => []AttemptInv
<1> USE DEF Posted
<1>1. Init => AttemptInv
  BY CallbackAssumption DEF Init, AttemptInv
<1>2. TypeOK /\ AttemptInv /\ [Next]_vars => AttemptInv'
  <2> SUFFICES ASSUME TypeOK, AttemptInv, [Next]_vars PROVE AttemptInv'
    OBVIOUS
  <2>0. \A m \in Message : CallOf(m) \in Call
    BY CallOfType
  <2> USE CallbackAssumption, <2>0
      DEF TypeOK, AttemptInv, rowVars, messageVars, tellVars, MoveTo, Forget, Fault
  <2>1. ASSUME NEW c \in Call, Delay(c) PROVE AttemptInv'
    BY <2>1, DelayStep
  <2>2. ASSUME NEW m \in Message, Begin(m) PROVE AttemptInv'
    BY <2>2 DEF Begin
  <2>3. ASSUME NEW m \in Message, Post(m) PROVE AttemptInv'
    <3>1. \E ph \in {"accepted", "rejected"} : MoveTo(m, ph)
      BY <2>3, Zenon DEF Post
    <3>2. /\ phase[m] = "posting"
          /\ posts' = [posts EXCEPT ![CallOf(m)] = @ + 1]
          /\ UNCHANGED <<retries, faults>>
      BY <2>3, Zenon DEF Post
    <3>3. PICK ph \in {"accepted", "rejected"} : phase' = [phase EXCEPT ![m] = ph]
      BY <3>1
    <3>4. phase'[m] \in {"accepted", "rejected"} /\ posts'[CallOf(m)] = posts[CallOf(m)] + 1
      BY <3>2, <3>3
    <3>5. \A n \in Message : /\ n # m => phase'[n] = phase[n]
                              /\ posts'[CallOf(n)] >= posts[CallOf(n)]
      BY <3>2, <3>3
    <3>6. \A n \in Message : posts[CallOf(n)] \in Nat /\ posts'[CallOf(n)] \in Nat
      BY <3>2
    <3> QED
      BY <3>2, <3>4, <3>5, <3>6
  <2>4. ASSUME NEW m \in Message, CommitDelivered(m) PROVE AttemptInv'
    BY <2>4 DEF CommitDelivered
  <2>5. ASSUME NEW m \in Message, CommitPending(m) PROVE AttemptInv'
    BY <2>5 DEF CommitPending
  <2>6. ASSUME NEW m \in Message, Retry(m) PROVE AttemptInv'
    <3>1. PICK n \in Message \ {m} :
              /\ CallOf(n) = CallOf(m) /\ phase[n] = "free"
              /\ phase' = [phase EXCEPT ![m] = "retried", ![n] = "queued"]
              /\ retries' = [retries EXCEPT ![n] = retries[m] + 1]
      BY <2>6, RetryStep
    <3>2. phase[m] = "failed" /\ UNCHANGED posts
      BY <2>6, RetryStep
    <3>3. posts[CallOf(m)] >= retries[m] + 1
      BY <3>2
    <3>4. /\ phase'[m] = "retried" /\ retries'[m] = retries[m]
          /\ phase'[n] = "queued" /\ retries'[n] = retries[m] + 1
          /\ \A k \in Message \ {m, n} : phase'[k] = phase[k] /\ retries'[k] = retries[k]
      BY <3>1
    <3> QED
      BY <3>1, <3>2, <3>3, <3>4
  <2>7. ASSUME NEW m \in Message, MarkRead(m) PROVE AttemptInv'
    BY <2>7 DEF MarkRead
  <2>8. ASSUME NEW m \in Message, MarkCommit(m) PROVE AttemptInv'
    BY <2>8 DEF MarkCommit
  <2>9. ASSUME NEW m \in Message, Dies(m) PROVE AttemptInv'
    BY <2>9 DEF Dies
  <2>10. ASSUME NEW m \in Message, Redelivered(m) PROVE AttemptInv'
    BY <2>10 DEF Redelivered
  <2>11. ASSUME NEW c \in Call, CommitSource(c) PROVE AttemptInv'
    BY <2>11 DEF CommitSource
  <2>12. CASE UNCHANGED vars
    BY <2>12 DEF vars
  <2> QED
    BY <2>1, <2>2, <2>3, <2>4, <2>5, <2>6, <2>7, <2>8, <2>9, <2>10, <2>11, <2>12
    DEF Next, Execution
<1> QED
  BY <1>1, <1>2, CallbackTypeCorrect, PTL DEF Spec

(* The requests that a message may still lead to, its retries included.    *)
Due(m) ==
    IF phase[m] \in {"queued", "posting"} THEN MaxRetries + 1 - retries[m]
    ELSE IF phase[m] \in {"accepted", "rejected", "failed"} THEN MaxRetries - retries[m]
    ELSE 0

DueOf(c) == [s \in Slot |-> Due(<<c, s>>)]

(* Those that a call leads to before it is made.                           *)
Uncalled(c) == IF source[c] = "none" THEN MaxRetries + 1 ELSE 0

(* The inductive strengthening of PostsBounded: what a call has cost and   *)
(* what its messages may still cost is paid for by the call itself and by  *)
(* the failures so far.  A retry hands over to a new message what the old  *)
(* one had left; a redelivery starts the old one again.                    *)
DueInv ==
    \A c \in Call :
        /\ IsFiniteSet(Tokens(DueOf(c)))
        /\ posts[c] + Total(DueOf(c)) + Uncalled(c) <= (MaxRetries + 1) * (1 + faults)

LEMMA DueType ==
    ASSUME TypeOK
    PROVE  /\ \A m \in Message : Due(m) \in 0..(MaxRetries + 1)
           /\ \A c \in Call : DueOf(c) \in [Slot -> Nat]
<1>1. \A m \in Message : Due(m) \in 0..(MaxRetries + 1)
  BY CallbackAssumption DEF TypeOK, Due
<1>2. \A c \in Call, s \in Slot : <<c, s>> \in Message
  BY DEF Message
<1> QED
  BY <1>1, <1>2, CallbackAssumption DEF DueOf

(* A message is one of its call, and of no other.                          *)
LEMMA MessageOfCall ==
    ASSUME NEW m \in Message
    PROVE  \E s \in Slot :
              /\ m = <<CallOf(m), s>>
              /\ \A c \in Call, t \in Slot : <<c, t>> = m => c = CallOf(m) /\ t = s
  BY DEF Message, CallOf

(* A step of one message changes the sum of its call by what it changes.   *)
LEMMA DueChanges ==
    ASSUME TypeOK, TypeOK', NEW m \in Message, IsFiniteSet(Tokens(DueOf(CallOf(m)))),
           \A n \in Message \ {m} : phase'[n] = phase[n] /\ retries'[n] = retries[n]
    PROVE  /\ \A c \in Call \ {CallOf(m)} : DueOf(c)' = DueOf(c)
           /\ IsFiniteSet(Tokens(DueOf(CallOf(m))'))
           /\ Total(DueOf(CallOf(m))') = Total(DueOf(CallOf(m))) - Due(m) + Due(m)'
<1> DEFINE c == CallOf(m)
<1>1. c \in Call
  BY CallOfType
<1>2. PICK s \in Slot : /\ m = <<c, s>>
                        /\ \A b \in Call, t \in Slot : <<b, t>> = m => b = c /\ t = s
  BY MessageOfCall
<1>3. \A b \in Call, t \in Slot : <<b, t>> \in Message
  BY DEF Message
<1>4. \A n \in Message \ {m} : Due(n)' = Due(n)
  BY DEF Due
<1>5. \A b \in Call \ {c} : DueOf(b)' = DueOf(b)
  <2> SUFFICES ASSUME NEW b \in Call \ {c} PROVE DueOf(b)' = DueOf(b)
    OBVIOUS
  <2>1. \A t \in Slot : Due(<<b, t>>)' = Due(<<b, t>>)
    BY <1>2, <1>3, <1>4
  <2> QED
    BY <2>1 DEF DueOf
<1>6. /\ DueOf(c) \in [Slot -> Nat] /\ DueOf(c)' \in [Slot -> Nat]
      /\ DueOf(c)[s] = Due(m) /\ DueOf(c)'[s] = Due(m)'
      /\ \A t \in Slot \ {s} : DueOf(c)'[t] = DueOf(c)[t]
  <2>1. \A t \in Slot \ {s} : Due(<<c, t>>)' = Due(<<c, t>>)
    BY <1>1, <1>2, <1>3, <1>4
  <2>2. DueOf(c) \in [Slot -> Nat]
    BY <1>1, DueType
  <2>3. DueOf(c)' \in [Slot -> Nat]
    <3>1. \A n \in Message : Due(n)' \in Nat
      BY CallbackAssumption DEF TypeOK, Due
    <3> QED
      BY <1>1, <1>3, <3>1 DEF DueOf
  <2> QED
    BY <1>2, <2>1, <2>2, <2>3 DEF DueOf
<1> QED
  BY <1>5, <1>6, TotalChanges

(* What a step of one message may add: nothing, or what a failure pays.    *)
LEMMA DuePaid ==
    ASSUME TypeOK, TypeOK', DueInv, NEW m \in Message,
           \A n \in Message \ {m} : phase'[n] = phase[n] /\ retries'[n] = retries[n],
           \A c \in Call \ {CallOf(m)} : posts'[c] = posts[c] /\ source'[c] = source[c],
           \/ /\ faults' = faults
              /\ posts'[CallOf(m)] + Due(m)' + Uncalled(CallOf(m))'
                    <= posts[CallOf(m)] + Due(m) + Uncalled(CallOf(m))
           \/ /\ faults' = faults + 1
              /\ posts'[CallOf(m)] + Due(m)' + Uncalled(CallOf(m))'
                    <= posts[CallOf(m)] + Due(m) + Uncalled(CallOf(m)) + (MaxRetries + 1)
    PROVE  DueInv'
<1> DEFINE c == CallOf(m)
           Budget == (MaxRetries + 1) * (1 + faults)
<1>1. c \in Call /\ IsFiniteSet(Tokens(DueOf(c)))
  BY CallOfType DEF DueInv
<1>2. /\ \A b \in Call \ {c} : DueOf(b)' = DueOf(b)
      /\ IsFiniteSet(Tokens(DueOf(c)'))
      /\ Total(DueOf(c)') = Total(DueOf(c)) - Due(m) + Due(m)'
  BY <1>1, DueChanges
<1>3. /\ Budget \in Nat
      /\ \/ faults' = faults /\ Budget' = Budget
         \/ faults' = faults + 1 /\ Budget' = Budget + (MaxRetries + 1)
      /\ Budget' >= Budget
  <2>1. faults \in Nat /\ MaxRetries \in Nat
    BY CallbackAssumption DEF TypeOK
  <2>2. (MaxRetries + 1) * (1 + (faults + 1)) = (MaxRetries + 1) * (1 + faults) + (MaxRetries + 1)
    BY <2>1
  <2>3. (MaxRetries + 1) * (1 + faults) \in Nat
    BY <2>1
  <2> QED
    BY <2>1, <2>2, <2>3
<1>4. \A b \in Call : posts[b] + Total(DueOf(b)) + Uncalled(b) <= Budget
  BY DEF DueInv
<1> HIDE DEF Budget
<1>5. posts'[c] + Total(DueOf(c)') + Uncalled(c)' <= Budget'
  <2>1. /\ posts[c] \in Nat /\ posts'[c] \in Nat
        /\ Due(m) \in Int /\ Due(m)' \in Int
        /\ Uncalled(c) \in Int /\ Uncalled(c)' \in Int
    BY <1>1, CallbackAssumption DEF TypeOK, Due, Uncalled
  <2>2. Total(DueOf(c)) \in Nat
    BY <1>1, TotalType
  <2>3. posts[c] + Total(DueOf(c)) + Uncalled(c) <= Budget
    BY <1>1, <1>4
  <2>4. Total(DueOf(c)') = Total(DueOf(c)) - Due(m) + Due(m)'
    BY <1>2
  <2>5. \/ /\ Budget' = Budget
           /\ posts'[c] + Due(m)' + Uncalled(c)' <= posts[c] + Due(m) + Uncalled(c)
        \/ /\ Budget' = Budget + (MaxRetries + 1)
           /\ posts'[c] + Due(m)' + Uncalled(c)'
                 <= posts[c] + Due(m) + Uncalled(c) + (MaxRetries + 1)
    <3>1. faults \in Nat
      BY CallbackAssumption DEF TypeOK
    <3> QED
      BY <1>3, <3>1
  <2> QED
    BY <1>3, <2>1, <2>2, <2>3, <2>4, <2>5, CallbackAssumption
<1>6. ASSUME NEW b \in Call \ {c}
      PROVE  /\ IsFiniteSet(Tokens(DueOf(b)'))
             /\ posts'[b] + Total(DueOf(b)') + Uncalled(b)' <= Budget'
  <2>1. /\ posts[b] \in Nat /\ Uncalled(b) \in Int
        /\ posts'[b] = posts[b] /\ Uncalled(b)' = Uncalled(b)
    BY CallbackAssumption DEF TypeOK, Uncalled
  <2>2. IsFiniteSet(Tokens(DueOf(b))) /\ DueOf(b)' = DueOf(b)
    BY <1>2 DEF DueInv
  <2>3. Total(DueOf(b)) \in Nat
    BY <2>2, TotalType
  <2>4. posts[b] + Total(DueOf(b)) + Uncalled(b) <= Budget
    BY <1>4
  <2>5. Budget' \in Int
    BY <1>3, CallbackAssumption
  <2> QED
    BY <1>3, <2>1, <2>2, <2>3, <2>4, <2>5
<1>7. ASSUME NEW b \in Call
      PROVE  /\ IsFiniteSet(Tokens(DueOf(b)'))
             /\ posts'[b] + Total(DueOf(b)') + Uncalled(b)' <= Budget'
  BY <1>2, <1>5, <1>6
<1> QED
  BY <1>7 DEF DueInv, Budget, Total, Tokens

(* A retry takes what the old message had left and gives it to the new.    *)
LEMMA RetryHandsOver ==
    ASSUME TypeOK, TypeOK', AttemptInv, DueInv, NEW m \in Message, Retry(m)
    PROVE  DueInv'
<1> DEFINE c == CallOf(m)
<1>1. PICK n \in Message \ {m} :
          /\ CallOf(n) = c /\ phase[n] = "free"
          /\ phase' = [phase EXCEPT ![m] = "retried", ![n] = "queued"]
          /\ retries' = [retries EXCEPT ![n] = retries[m] + 1]
  BY RetryStep
<1>2. /\ phase[m] = "failed" /\ retries[m] < MaxRetries
      /\ UNCHANGED <<source, posts, faults>>
  BY RetryStep DEF tellVars
<1>3. c \in Call /\ IsFiniteSet(Tokens(DueOf(c)))
  BY CallOfType DEF DueInv
<1>4. PICK s \in Slot : /\ m = <<c, s>>
                        /\ \A b \in Call, t \in Slot : <<b, t>> = m => b = c /\ t = s
  BY MessageOfCall
<1>5. PICK u \in Slot : /\ n = <<c, u>>
                        /\ \A b \in Call, t \in Slot : <<b, t>> = n => b = c /\ t = u
  BY <1>1, MessageOfCall
<1>6. s # u
  BY <1>1, <1>4, <1>5
<1>7. \A b \in Call, t \in Slot : <<b, t>> \in Message
  BY DEF Message
<1>8. \A k \in Message \ {m, n} : Due(k)' = Due(k)
  BY <1>1 DEF Due, TypeOK
<1>9. Due(m)' = 0 /\ Due(n) = 0 /\ Due(n)' = Due(m)
  <2>1. /\ phase'[m] = "retried" /\ phase'[n] = "queued" /\ retries'[n] = retries[m] + 1
    BY <1>1 DEF TypeOK
  <2>2. retries[m] \in Nat /\ MaxRetries \in Nat
    BY CallbackAssumption DEF TypeOK
  <2> QED
    BY <1>1, <1>2, <2>1, <2>2 DEF Due
<1>10. \A b \in Call \ {c} : DueOf(b)' = DueOf(b)
  <2> SUFFICES ASSUME NEW b \in Call \ {c} PROVE DueOf(b)' = DueOf(b)
    OBVIOUS
  <2>1. \A t \in Slot : Due(<<b, t>>)' = Due(<<b, t>>)
    BY <1>4, <1>5, <1>7, <1>8
  <2> QED
    BY <2>1 DEF DueOf
<1> DEFINE g == [DueOf(c) EXCEPT ![s] = 0]
<1>11. /\ DueOf(c) \in [Slot -> Nat] /\ DueOf(c)' \in [Slot -> Nat]
       /\ DueOf(c)[s] = Due(m) /\ DueOf(c)[u] = 0
       /\ DueOf(c)'[s] = 0 /\ DueOf(c)'[u] = Due(m)
       /\ \A t \in Slot \ {s, u} : DueOf(c)'[t] = DueOf(c)[t]
  <2>1. \A t \in Slot \ {s, u} : Due(<<c, t>>)' = Due(<<c, t>>)
    BY <1>3, <1>4, <1>5, <1>7, <1>8
  <2>2. DueOf(c) \in [Slot -> Nat]
    BY <1>3, DueType
  <2>3. \A k \in Message : Due(k)' \in Nat
    BY CallbackAssumption DEF TypeOK, Due
  <2>4. DueOf(c)' \in [Slot -> Nat]
    BY <1>3, <1>7, <2>3 DEF DueOf
  <2> QED
    BY <1>4, <1>5, <1>9, <2>1, <2>2, <2>4 DEF DueOf
<1>12. /\ g \in [Slot -> Nat] /\ g[s] = 0 /\ g[u] = 0
       /\ \A t \in Slot \ {s} : g[t] = DueOf(c)[t]
       /\ \A t \in Slot \ {u} : DueOf(c)'[t] = g[t]
  BY <1>6, <1>11
<1> HIDE DEF g
<1>13. IsFiniteSet(Tokens(g)) /\ Total(g) = Total(DueOf(c)) - Due(m) + 0
  BY <1>3, <1>11, <1>12, TotalChanges
<1>14. IsFiniteSet(Tokens(DueOf(c)')) /\ Total(DueOf(c)') = Total(g) - 0 + Due(m)
  BY <1>11, <1>12, <1>13, TotalChanges
<1>15. Total(DueOf(c)') = Total(DueOf(c))
  <2>1. Total(DueOf(c)) \in Nat /\ Due(m) \in Int
    BY <1>3, TotalType, DueType
  <2> QED
    BY <1>13, <1>14, <2>1
<1>16. \A b \in Call : IsFiniteSet(Tokens(DueOf(b)')) /\ Total(DueOf(b)') = Total(DueOf(b))
  BY <1>10, <1>14, <1>15 DEF DueInv
<1> QED
  BY <1>2, <1>16 DEF DueInv, Uncalled, Total, Tokens

LEMMA DueInvHolds == Spec => []DueInv
<1>1. Init => DueInv
  <2> SUFFICES ASSUME Init, NEW c \in Call
               PROVE  /\ IsFiniteSet(Tokens(DueOf(c)))
                      /\ posts[c] + Total(DueOf(c)) + Uncalled(c) <= (MaxRetries + 1) * (1 + faults)
    BY DEF DueInv
  <2>1. \A s \in Slot : <<c, s>> \in Message
    BY DEF Message
  <2>2. DueOf(c) \in [Slot -> Nat] /\ \A s \in Slot : DueOf(c)[s] = 0
    BY <2>1 DEF DueOf, Due, Init
  <2>3. IsFiniteSet(Tokens(DueOf(c))) /\ Total(DueOf(c)) = 0
    BY <2>2, TotalOfZeros
  <2> QED
    BY <2>3, CallbackAssumption DEF Init, Uncalled
<1>2. TypeOK /\ TypeOK' /\ AttemptInv /\ DueInv /\ [Next]_vars => DueInv'
  <2> SUFFICES ASSUME TypeOK, TypeOK', AttemptInv, DueInv, [Next]_vars PROVE DueInv'
    OBVIOUS
  <2>0. \A m \in Message : CallOf(m) \in Call
    BY CallOfType
  <2>a. /\ \A m \in Message : retries[m] \in 0..MaxRetries
        /\ \A c \in Call : posts[c] \in Nat
        /\ faults \in Nat /\ MaxRetries \in Nat
    BY CallbackAssumption DEF TypeOK
  <2> USE DEF rowVars, messageVars, tellVars, MoveTo, Forget, Fault
  <2>1. ASSUME NEW c \in Call, Delay(c) PROVE DueInv'
    <3>1. PICK n \in Message : /\ CallOf(n) = c /\ phase[n] = "free"
                               /\ phase' = [phase EXCEPT ![n] = "queued"]
      BY <2>1, DelayStep
    <3>2. /\ source[c] = "none" /\ source' = [source EXCEPT ![c] = IF c \in Hook THEN "open" ELSE "committed"]
          /\ UNCHANGED <<retries, posts, faults>>
      BY <2>1, DelayStep
    <3>3. Due(n) = 0 /\ Due(n)' = MaxRetries + 1
      BY <2>a, <3>1, <3>2 DEF Due, AttemptInv, TypeOK
    <3>4. Uncalled(c) = MaxRetries + 1 /\ Uncalled(c)' = 0
      BY <3>2 DEF Uncalled, TypeOK
    <3>5. \A k \in Message \ {n} : phase'[k] = phase[k] /\ retries'[k] = retries[k]
      BY <3>1, <3>2 DEF TypeOK
    <3>6. \A b \in Call \ {c} : posts'[b] = posts[b] /\ source'[b] = source[b]
      BY <3>2 DEF TypeOK
    <3>7. posts'[c] + Due(n)' + Uncalled(c)' <= posts[c] + Due(n) + Uncalled(c)
      BY <2>a, <3>2, <3>3, <3>4
    <3> QED
      BY <3>1, <3>2, <3>5, <3>6, <3>7, DuePaid
  <2>b. ASSUME NEW m \in Message, UNCHANGED <<retries, source, faults>>,
               \A n \in Message \ {m} : phase'[n] = phase[n],
               \A c \in Call \ {CallOf(m)} : posts'[c] = posts[c],
               posts'[CallOf(m)] + Due(m)' <= posts[CallOf(m)] + Due(m)
        PROVE  DueInv'
    <3>1. Due(m) \in Int /\ Due(m)' \in Int /\ posts'[CallOf(m)] \in Int
      BY <2>0, <2>a, CallbackAssumption DEF TypeOK, Due
    <3>2. Uncalled(CallOf(m))' = Uncalled(CallOf(m)) /\ Uncalled(CallOf(m)) \in Int
      BY <2>a, <2>b DEF Uncalled
    <3>3. posts'[CallOf(m)] + Due(m)' + Uncalled(CallOf(m))'
             <= posts[CallOf(m)] + Due(m) + Uncalled(CallOf(m))
      BY <2>0, <2>a, <2>b, <3>1, <3>2
    <3> QED
      BY <2>b, <3>3, DuePaid
  <2>2. ASSUME NEW m \in Message,
               \/ Begin(m) \/ CommitDelivered(m) \/ CommitPending(m) \/ MarkRead(m)
               \/ MarkCommit(m)
        PROVE  DueInv'
    <3>1. UNCHANGED <<retries, source, posts, faults>>
      BY <2>2 DEF Begin, CommitDelivered, CommitPending, MarkRead, MarkCommit
    <3>2. /\ \A n \in Message \ {m} : phase'[n] = phase[n]
          /\ Due(m)' <= Due(m)
      BY <2>2, <2>a, <3>1
      DEF Begin, CommitDelivered, CommitPending, MarkRead, MarkCommit, Due, TypeOK
    <3>3. posts[CallOf(m)] \in Nat /\ Due(m) \in Int /\ Due(m)' \in Int
      BY <2>0, <2>a, CallbackAssumption DEF TypeOK, Due
    <3> QED
      BY <3>1, <3>2, <3>3, <2>b
  <2>3. ASSUME NEW m \in Message, Post(m) PROVE DueInv'
    <3>1. \E ph \in {"accepted", "rejected"} : phase' = [phase EXCEPT ![m] = ph]
      BY <2>3, Zenon DEF Post
    <3>2. /\ phase[m] = "posting" /\ posts' = [posts EXCEPT ![CallOf(m)] = @ + 1]
          /\ UNCHANGED <<retries, source, faults>>
      BY <2>3 DEF Post
    <3>3. Due(m) = MaxRetries + 1 - retries[m] /\ Due(m)' = MaxRetries - retries[m]
      BY <3>1, <3>2 DEF Due, TypeOK
    <3>4. posts'[CallOf(m)] = posts[CallOf(m)] + 1 /\ posts[CallOf(m)] \in Nat
      BY <2>0, <3>2 DEF TypeOK
    <3>5. /\ \A n \in Message \ {m} : phase'[n] = phase[n]
          /\ \A c \in Call \ {CallOf(m)} : posts'[c] = posts[c]
      BY <3>1, <3>2 DEF TypeOK
    <3>6. posts'[CallOf(m)] + Due(m)' <= posts[CallOf(m)] + Due(m)
      BY <2>a, <3>3, <3>4
    <3> QED
      BY <2>b, <3>2, <3>5, <3>6
  <2>4. ASSUME NEW m \in Message, Retry(m) PROVE DueInv'
    BY <2>4, RetryHandsOver
  <2>5. ASSUME NEW m \in Message, Dies(m) \/ Redelivered(m) PROVE DueInv'
    <3>1. UNCHANGED <<retries, source, posts>> /\ faults' = faults + 1
      BY <2>5 DEF Dies, Redelivered
    <3>2. /\ \A n \in Message \ {m} : phase'[n] = phase[n] /\ retries'[n] = retries[n]
          /\ Due(m)' <= MaxRetries + 1 /\ 0 <= Due(m) /\ Due(m)' \in Int /\ Due(m) \in Int
      BY <2>5, <2>a, <3>1 DEF Dies, Redelivered, Due, TypeOK
    <3>3. Uncalled(CallOf(m))' = Uncalled(CallOf(m)) /\ Uncalled(CallOf(m)) \in Int
      BY <2>a, <3>1 DEF Uncalled
    <3>4. posts'[CallOf(m)] + Due(m)' + Uncalled(CallOf(m))'
             <= posts[CallOf(m)] + Due(m) + Uncalled(CallOf(m)) + (MaxRetries + 1)
      BY <2>0, <2>a, <3>1, <3>2, <3>3
    <3> QED
      BY <3>1, <3>2, <3>4, DuePaid
  <2>6. ASSUME UNCHANGED <<phase, retries, posts, faults>>,
               \A c \in Call : Uncalled(c)' = Uncalled(c)
        PROVE  DueInv'
    <3>1. \A c \in Call : DueOf(c)' = DueOf(c)
      BY <2>6 DEF DueOf, Due
    <3> QED
      BY <2>6, <3>1 DEF DueInv, Total, Tokens
  <2>7. ASSUME NEW c \in Call, CommitSource(c) PROVE DueInv'
    <3>1. UNCHANGED <<phase, retries, posts, faults>>
      BY <2>7 DEF CommitSource
    <3>2. \A b \in Call : Uncalled(b)' = Uncalled(b)
      BY <2>7 DEF CommitSource, Uncalled, TypeOK
    <3> QED
      BY <2>6, <3>1, <3>2
  <2>8. CASE UNCHANGED vars
    BY <2>6, <2>8 DEF vars, Uncalled
  <2> QED
    BY <2>1, <2>2, <2>3, <2>4, <2>5, <2>7, <2>8 DEF Next, Execution
<1> QED
  BY <1>1, <1>2, CallbackTypeCorrect, AttemptInvHolds, PTL DEF Spec

(* A client gets at most MaxRetries + 1 requests for a call of             *)
(* deliver_webhook, and as many again for each failure, also for that of a *)
(* worker that dies between the publication of the next attempt and the    *)
(* acknowledgement of its own message.                                     *)
THEOREM PostsBoundedHolds == Spec => []PostsBounded
<1>1. TypeOK /\ DueInv => PostsBounded
  <2> SUFFICES ASSUME TypeOK, DueInv, NEW c \in Call
               PROVE  posts[c] <= (MaxRetries + 1) * (1 + faults)
    BY DEF PostsBounded
  <2> DEFINE Budget == (MaxRetries + 1) * (1 + faults)
  <2>0. posts[c] \in Nat /\ faults \in Nat /\ MaxRetries \in Nat
    BY CallbackAssumption DEF TypeOK
  <2>1. posts[c] \in Nat /\ Uncalled(c) \in Nat /\ Budget \in Nat
    BY <2>0 DEF Uncalled
  <2>2. Total(DueOf(c)) \in Nat /\ posts[c] + Total(DueOf(c)) + Uncalled(c) <= Budget
    BY TotalType DEF DueInv
  <2> HIDE DEF Budget
  <2>3. posts[c] <= Budget
    BY <2>1, <2>2
  <2> QED
    BY <2>3 DEF Budget
<1> QED
  BY <1>1, CallbackTypeCorrect, DueInvHolds, PTL

-----------------------------------------------------------------------------
(* Statuses                                                                *)

HeardInv ==
    /\ StatusIsTrue
    /\ \A m \in Message : phase[m] = "accepted" => told # {}

(* DELIVERED and FAILED are written only when they are true, by whichever  *)
(* of the concurrent executions, and they stay true.                       *)
THEOREM StatusIsTrueHolds == Spec => []StatusIsTrue
<1>1. Init => HeardInv
  BY DEF Init, HeardInv, StatusIsTrue
<1>2. TypeOK /\ AttemptInv /\ HeardInv /\ [Next]_vars => HeardInv'
  <2> SUFFICES ASSUME TypeOK, AttemptInv, HeardInv, [Next]_vars PROVE HeardInv'
    OBVIOUS
  <2> USE CallbackAssumption
      DEF HeardInv, StatusIsTrue, TypeOK, rowVars, messageVars, tellVars, MoveTo, Fault
  <2>1. ASSUME NEW m \in Message,
               Begin(m) \/ MarkRead(m) \/ Dies(m) \/ Redelivered(m)
        PROVE  HeardInv'
    BY <2>1 DEF Begin, MarkRead, Dies, Redelivered
  <2>a. ASSUME NEW c \in Call, Delay(c) \/ CommitSource(c) PROVE HeardInv'
    <3>1. CASE Delay(c)
      <4>1. UNCHANGED <<row, told, posts>> /\ \E n \in Message : phase' = [phase EXCEPT ![n] = "queued"]
        BY <3>1, DelayStep
      <4> QED
        BY <4>1
    <3>2. CASE CommitSource(c)
      BY <3>2 DEF CommitSource
    <3> QED
      BY <2>a, <3>1, <3>2
  <2>b. ASSUME NEW m \in Message, Retry(m) PROVE HeardInv'
    <3>1. /\ UNCHANGED <<row, told, posts>>
          /\ \E n \in Message : phase' = [phase EXCEPT ![m] = "retried", ![n] = "queued"]
      BY <2>b, RetryStep
    <3> QED
      BY <3>1
  <2>2. ASSUME NEW m \in Message, Post(m) PROVE HeardInv'
    <3>1. told # {} => told' # {}
      BY <2>2 DEF Post
    <3>2. \A c \in Call : posts'[c] \in Int /\ posts[c] \in Int /\ posts'[c] >= posts[c]
      BY <2>2, CallOfType DEF Post
    <3>3. \A n \in Message : phase'[n] = "accepted" => told' # {}
      BY <2>2, <3>1 DEF Post
    <3> QED
      BY <2>2, <3>1, <3>2, <3>3 DEF Post
  <2>3. ASSUME NEW m \in Message, CommitDelivered(m) PROVE HeardInv'
    BY <2>3 DEF CommitDelivered, UpdateAttempt
  <2>4. ASSUME NEW m \in Message, CommitPending(m) PROVE HeardInv'
    BY <2>4 DEF CommitPending, UpdateAttempt
  <2>5. ASSUME NEW m \in Message, MarkCommit(m) PROVE HeardInv'
    <3>1. CallOf(m) \in Call /\ posts[CallOf(m)] > MaxRetries
      <4>1. posts[CallOf(m)] >= retries[m] + 1 /\ retries[m] = MaxRetries
        BY <2>5 DEF MarkCommit, AttemptInv, Posted
      <4>2. CallOf(m) \in Call
        BY CallOfType
      <4> QED
        BY <4>1, <4>2
    <3> QED
      BY <2>5, <3>1 DEF MarkCommit, UpdateAttempt
  <2>6. CASE UNCHANGED vars
    BY <2>6 DEF vars
  <2> QED
    BY <2>1, <2>a, <2>b, <2>2, <2>3, <2>4, <2>5, <2>6 DEF Next, Execution
<1>3. HeardInv => StatusIsTrue
  BY DEF HeardInv
<1> QED
  BY <1>1, <1>2, <1>3, CallbackTypeCorrect, AttemptInvHolds, PTL DEF Spec

-----------------------------------------------------------------------------
(* Pending rows                                                            *)

(* A message that still has the last word on d: it is not about to end     *)
(* without writing d.                                                      *)
Decides(m, d) ==
    /\ phase[m] \in Active
    /\ phase[m] = "marking" => d \in found[m]

(* A message that has posted, or is about to, has read one row.            *)
FoundInv ==
    \A m \in Message : phase[m] \in {"posting", "accepted", "rejected"} =>
        \E d \in Delivery : found[m] = {d}

LEMMA FoundInvHolds == Spec => []FoundInv
<1>1. Init => FoundInv
  BY DEF Init, FoundInv
<1>2. TypeOK /\ FoundInv /\ [Next]_vars => FoundInv'
  <2> SUFFICES ASSUME TypeOK, FoundInv, [Next]_vars PROVE FoundInv'
    OBVIOUS
  <2>0. /\ phase \in [Message -> Active \cup {"free", "retried", "done", "lost"}]
        /\ found \in [Message -> SUBSET Delivery]
    BY DEF TypeOK
  <2>a. ASSUME NEW c \in Call, Delay(c)
        PROVE  found' = found /\ \E n \in Message : phase' = [phase EXCEPT ![n] = "queued"]
    BY <2>a, DelayStep, Zenon
  <2>b. ASSUME NEW m \in Message, Retry(m)
        PROVE  /\ found' = found
               /\ \E n \in Message : phase' = [phase EXCEPT ![m] = "retried", ![n] = "queued"]
    BY <2>b, RetryStep
  <2>c. Target \subseteq Delivery
    BY DEF Target, Rows, Fresh
  <2> USE <2>0 DEF FoundInv, messageVars, MoveTo, Forget, Finds
  <2>1. ASSUME NEW m \in Message, Begin(m) PROVE FoundInv'
    <3>1. PICK d \in Delivery : found' = [found EXCEPT ![m] = {d}]
      BY <2>1, <2>c DEF Begin
    <3> QED
      BY <2>1, <3>1 DEF Begin
  <2>2. ASSUME NEW m \in Message, Post(m) \/ Retry(m) PROVE FoundInv'
    BY <2>2, <2>b DEF Post
  <2>d. ASSUME NEW c \in Call, Delay(c) \/ CommitSource(c) PROVE FoundInv'
    BY <2>d, <2>a DEF CommitSource
  <2>3. ASSUME NEW m \in Message,
               \/ CommitDelivered(m) \/ CommitPending(m) \/ MarkRead(m) \/ MarkCommit(m)
               \/ Dies(m) \/ Redelivered(m)
        PROVE  FoundInv'
    BY <2>3 DEF CommitDelivered, CommitPending, MarkRead, MarkCommit, Dies, Redelivered
  <2>4. CASE UNCHANGED vars
    BY <2>4 DEF vars
  <2> QED
    BY <2>1, <2>2, <2>d, <2>3, <2>4 DEF Next, Execution
<1> QED
  BY <1>1, <1>2, CallbackTypeCorrect, PTL DEF Spec

PendingInv ==
    (\A m \in Message : phase[m] # "lost") =>
        \A d \in Delivery : Rows = {d} /\ row[d] = "pending" =>
            \E m \in Message : Decides(m, d)

(* As long as there is one row and no message was lost, a PENDING row has  *)
(* a message that will end it, whatever order concurrent executions read   *)
(* and commit in.                                                          *)
THEOREM PendingIsWorkedOnHolds == Spec => []PendingIsWorkedOn
<1>1. Init => PendingInv
  BY DEF Init, PendingInv
<1>2. TypeOK /\ FoundInv /\ PendingInv /\ [Next]_vars => PendingInv'
  <2> SUFFICES ASSUME TypeOK, FoundInv, PendingInv, [Next]_vars,
                      \A m \in Message : phase'[m] # "lost",
                      NEW d \in Delivery, Rows' = {d}, row'[d] = "pending"
               PROVE  \E m \in Message : Decides(m, d)'
    BY DEF PendingInv
  <2> USE DEF TypeOK, rowVars, messageVars, tellVars, MoveTo, Forget, Finds, Decides, Rows
  <2>1. ASSUME NEW m \in Message, CommitPending(m) PROVE Decides(m, d)'
    BY <2>1 DEF CommitPending
  <2>2. ASSUME NEW m \in Message, Redelivered(m) PROVE Decides(m, d)'
    BY <2>2 DEF Redelivered
  <2>3. ASSUME UNCHANGED row, \A m \in Message : phase[m] # "lost"
        PROVE  \E m \in Message : Decides(m, d)
    BY <2>3 DEF PendingInv
  <2>4. ASSUME NEW m \in Message,
               Begin(m) \/ Post(m) \/ MarkRead(m)
        PROVE  \E n \in Message : Decides(n, d)'
    <3>1. UNCHANGED row /\ \A n \in Message : phase[n] # "lost"
      BY <2>4 DEF Begin, Post, MarkRead
    <3>2. PICK n \in Message : Decides(n, d)
      BY <3>1, <2>3
    <3>3. n # m => Decides(n, d)'
      BY <2>4, <3>2 DEF Begin, Post, MarkRead
    <3>4. n = m => Decides(n, d)'
      <4>1. CASE MarkRead(m)
        <5>1. d \in found'[m] /\ phase'[m] = "marking"
          BY <4>1, <3>1 DEF MarkRead
        <5> QED
          BY <5>1
      <4>2. CASE Begin(m) \/ Post(m)
        <5>1. phase'[m] \in {"posting", "accepted", "rejected"}
          BY <4>2 DEF Begin, Post
        <5> QED
          BY <5>1
      <4> QED
        BY <2>4, <4>1, <4>2
    <3> QED
      BY <3>3, <3>4
  <2>a. ASSUME NEW c \in Call, Delay(c) \/ CommitSource(c)
        PROVE  \E n \in Message : Decides(n, d)'
    <3>1. /\ UNCHANGED <<row, found>>
          /\ UNCHANGED phase \/ \E n \in Message : phase' = [phase EXCEPT ![n] = "queued"]
      <4>1. CASE Delay(c)
        BY <4>1, DelayStep, Zenon
      <4>2. CASE CommitSource(c)
        BY <4>2 DEF CommitSource
      <4> QED
        BY <2>a, <4>1, <4>2
    <3>2. CASE UNCHANGED phase
      BY <2>3, <3>1, <3>2
    <3>3. ASSUME NEW n \in Message, phase' = [phase EXCEPT ![n] = "queued"]
          PROVE  Decides(n, d)'
      BY <3>3
    <3> QED
      BY <3>1, <3>2, <3>3
  <2>b. ASSUME NEW m \in Message, Retry(m) PROVE \E n \in Message : Decides(n, d)'
    <3>1. PICK n \in Message : phase' = [phase EXCEPT ![m] = "retried", ![n] = "queued"]
      BY <2>b, RetryStep
    <3>2. Decides(n, d)'
      BY <3>1
    <3> QED
      BY <3>2
  <2>5. ASSUME NEW m \in Message, CommitDelivered(m)
        PROVE  \E n \in Message : Decides(n, d)'
    <3>1. PICK e \in Delivery : found[m] = {e}
      BY <2>5 DEF CommitDelivered, FoundInv
    <3>2. row'[e] = "delivered"
      BY <2>5, <3>1 DEF CommitDelivered, UpdateAttempt
    <3> QED
      BY <3>2
  <2>6. ASSUME NEW m \in Message, MarkCommit(m)
        PROVE  \E n \in Message : Decides(n, d)'
    <3>1. d \notin found[m] /\ row[d] = "pending"
      BY <2>6 DEF MarkCommit, UpdateAttempt
    <3>2. Rows = {d} /\ \A n \in Message : phase[n] # "lost"
      BY <2>6, <3>1 DEF MarkCommit, UpdateAttempt
    <3>3. PICK n \in Message : Decides(n, d)
      BY <3>1, <3>2 DEF PendingInv
    <3> QED
      BY <2>6, <3>1, <3>3 DEF MarkCommit
  <2>7. ASSUME NEW m \in Message, Dies(m) PROVE FALSE
    BY <2>7 DEF Dies
  <2>8. CASE UNCHANGED vars
    BY <2>8, <2>3 DEF vars
  <2> QED
    BY <2>1, <2>2, <2>4, <2>a, <2>b, <2>5, <2>6, <2>7, <2>8 DEF Next, Execution
<1>3. TypeOK /\ PendingInv => PendingIsWorkedOn
  <2> SUFFICES ASSUME PendingInv, \A m \in Message : phase[m] # "lost",
                      Cardinality(Rows) = 1, NEW d \in Rows, row[d] = "pending"
               PROVE  \E m \in Message : phase[m] \in Active
    BY DEF PendingIsWorkedOn
  <2>1. IsFiniteSet(Rows)
    BY CallbackAssumption, FS_Subset DEF Rows
  <2>2. Rows = {d}
    BY <2>1, FS_Singleton
  <2>3. d \in Delivery
    BY DEF Rows
  <2> QED
    BY <2>2, <2>3 DEF PendingInv, Decides
<1> QED
  BY <1>1, <1>2, <1>3, CallbackTypeCorrect, FoundInvHolds, PTL DEF Spec

-----------------------------------------------------------------------------
(* What the client is told                                                 *)

(* A payload was read when the execution began; what was accepted was told,*)
(* and a message ends by telling or by giving up.                          *)
ToldInv ==
    \A m \in Message :
        /\ phase[m] # "free" /\ CallOf(m) \notin Hook => source[CallOf(m)] = "committed"
        /\ phase[m] \in {"posting", "accepted", "rejected"} /\ payload[m] = "old"
              => CallOf(m) \in Hook
        /\ phase[m] = "accepted" => payload[m] \in told
        /\ phase[m] = "done" =>
              \/ "outcome" \in told
              \/ posts[CallOf(m)] > MaxRetries
              \/ payload[m] = "old" /\ CallOf(m) \in Hook

(* A client learns the outcome of its task from every message that was     *)
(* executed after the task had one, unless the message uses up its         *)
(* attempts: whatever another message has delivered before.                *)
THEOREM ToldOutcomeHolds == Spec => []ToldOutcome
<1>1. Init => ToldInv
  BY DEF Init, ToldInv
<1>2. TypeOK /\ AttemptInv /\ ToldInv /\ [Next]_vars => ToldInv'
  <2> SUFFICES ASSUME TypeOK, AttemptInv, ToldInv, [Next]_vars PROVE ToldInv'
    OBVIOUS
  <2> USE CallbackAssumption
      DEF ToldInv, TypeOK, rowVars, messageVars, tellVars, MoveTo
  <2>0. \A m \in Message : CallOf(m) \in Call
    BY CallOfType
  <2>1. ASSUME NEW c \in Call, Delay(c) PROVE ToldInv'
    <3>1. /\ source' = [source EXCEPT ![c] = IF c \in Hook THEN "open" ELSE "committed"]
          /\ UNCHANGED <<payload, told, posts>>
      BY <2>1, DelayStep, Zenon
    <3>2. PICK n \in Message : /\ CallOf(n) = c
                               /\ phase' = [phase EXCEPT ![n] = "queued"]
      BY <2>1, DelayStep
    <3> QED
      BY <2>0, <3>1, <3>2
  <2>2. ASSUME NEW c \in Call, CommitSource(c) PROVE ToldInv'
    BY <2>0, <2>2 DEF CommitSource
  <2>3. ASSUME NEW m \in Message, Begin(m) PROVE ToldInv'
    <3>1. CallOf(m) \notin Hook => payload'[m] = "outcome"
      BY <2>0, <2>3 DEF Begin, Outcome
    <3> QED
      BY <2>3, <3>1 DEF Begin
  <2>4. ASSUME NEW m \in Message, Post(m) PROVE ToldInv'
    <3>1. told \subseteq told'
      BY <2>4 DEF Post
    <3>2. phase[m] = "posting" /\ UNCHANGED <<source, payload>>
      BY <2>4 DEF Post
    <3>3. phase'[m] \in {"accepted", "rejected"} /\ (phase'[m] = "accepted" => payload[m] \in told')
      BY <2>4 DEF Post
    <3>4. \A n \in Message : n # m => phase'[n] = phase[n]
      BY <2>4 DEF Post
    <3>5. \A n \in Message : posts[CallOf(n)] > MaxRetries => posts'[CallOf(n)] > MaxRetries
      <4>1. \A c \in Call : posts[c] > MaxRetries => posts'[c] > MaxRetries
        <5>1. posts' = [posts EXCEPT ![CallOf(m)] = @ + 1]
          BY <2>4 DEF Post
        <5> QED
          BY <2>0, <5>1
      <4> QED
        BY <2>0, <4>1
    <3> SUFFICES ASSUME NEW n \in Message
                 PROVE  /\ phase'[n] # "free" /\ CallOf(n) \notin Hook => source[CallOf(n)] = "committed"
                        /\ phase'[n] \in {"posting", "accepted", "rejected"} /\ payload[n] = "old"
                              => CallOf(n) \in Hook
                        /\ phase'[n] = "accepted" => payload[n] \in told'
                        /\ phase'[n] = "done" =>
                              \/ "outcome" \in told'
                              \/ posts'[CallOf(n)] > MaxRetries
                              \/ payload[n] = "old" /\ CallOf(n) \in Hook
      BY <3>2
    <3>7. CASE n = m
      BY <3>2, <3>3, <3>7
    <3>8. CASE n # m
      BY <3>1, <3>4, <3>5, <3>8
    <3> QED
      BY <3>7, <3>8
  <2>5. ASSUME NEW m \in Message, CommitDelivered(m) \/ CommitPending(m) PROVE ToldInv'
    BY <2>5 DEF CommitDelivered, CommitPending, Forget
  <2>6. ASSUME NEW m \in Message, MarkCommit(m) PROVE ToldInv'
    <3>1. posts[CallOf(m)] > MaxRetries
      <4>1. posts[CallOf(m)] >= retries[m] + 1 /\ retries[m] = MaxRetries
        BY <2>6 DEF MarkCommit, AttemptInv, Posted
      <4> QED
        BY <2>0, <4>1
    <3> QED
      BY <2>6, <3>1 DEF MarkCommit, Forget
  <2>7. ASSUME NEW m \in Message, Retry(m) PROVE ToldInv'
    <3>1. /\ UNCHANGED <<source, payload, told, posts>> /\ phase[m] = "failed"
          /\ \E n \in Message \ {m} :
                /\ CallOf(n) = CallOf(m)
                /\ phase' = [phase EXCEPT ![m] = "retried", ![n] = "queued"]
      BY <2>7, RetryStep
    <3> QED
      BY <3>1
  <2>8. ASSUME NEW m \in Message, MarkRead(m) PROVE ToldInv'
    BY <2>8 DEF MarkRead
  <2>9. ASSUME NEW m \in Message, Dies(m) \/ Redelivered(m) PROVE ToldInv'
    BY <2>9 DEF Dies, Redelivered, Forget
  <2>10. CASE UNCHANGED vars
    BY <2>10 DEF vars
  <2> QED
    BY <2>1, <2>2, <2>3, <2>4, <2>5, <2>6, <2>7, <2>8, <2>9, <2>10 DEF Next, Execution
<1>3. TypeOK /\ ToldInv => ToldOutcome
  BY DEF TypeOK, ToldInv, ToldOutcome
<1> QED
  BY <1>1, <1>2, <1>3, CallbackTypeCorrect, AttemptInvHolds, PTL DEF Spec

-----------------------------------------------------------------------------
(* Attempts on record                                                      *)

(* What a message adds to the attempts of a row it has posted for.         *)
Adds(m, d) == IF phase[m] \in {"accepted", "rejected"} /\ d \in found[m] THEN 1 ELSE 0

(* Attempts that are, or that a running execution may yet put, on record.  *)
Recordable(v) ==
    \A d \in Delivery : \/ v[d] <= attempts[d]
                        \/ \E m \in Message : v[d] <= read[m][d] + Adds(m, d)

(* The inductive strengthening of AttemptsWereMade.  Executions overwrite  *)
(* each other's counts, which may fall and rise again; but in whatever     *)
(* order they still commit, the rows never add up to more than the posts.  *)
RecordInv ==
    /\ \A m \in Message : phase[m] \in {"posting", "accepted", "rejected"} =>
          \E d \in Delivery : found[m] = {d}
    /\ IsFiniteSet(Tokens(posts))
    /\ \A v \in [Delivery -> Nat] :
          Recordable(v) => IsFiniteSet(Tokens(v)) /\ Total(v) <= Total(posts)

(* A step that records only what was recordable.                           *)
LEMMA NothingNewRecordable ==
    ASSUME RecordInv, UNCHANGED posts,
           \A d \in Delivery, n \in Nat :
              (\/ n <= attempts'[d]
               \/ \E m \in Message : n <= read'[m][d] + Adds(m, d)')
              => \/ n <= attempts[d]
                 \/ \E m \in Message : n <= read[m][d] + Adds(m, d),
           \A m \in Message : phase'[m] \in {"posting", "accepted", "rejected"} =>
              \E d \in Delivery : found'[m] = {d}
    PROVE  RecordInv'
<1>1. \A v \in [Delivery -> Nat] : Recordable(v)' => Recordable(v)
  BY DEF Recordable
<1> QED
  BY <1>1 DEF RecordInv, Total, Tokens

(* A post makes one more attempt recordable, of the one row it is for.     *)
LEMMA PostPaysForIt ==
    ASSUME TypeOK, TypeOK', RecordInv, NEW m \in Message, Post(m)
    PROVE  RecordInv'
<1> USE DEF MoveTo
<1>1. PICK d \in Delivery : found[m] = {d}
  BY DEF RecordInv, Post
<1>2. /\ phase[m] = "posting" /\ phase'[m] \in {"accepted", "rejected"}
      /\ \A n \in Message \ {m} : phase'[n] = phase[n]
      /\ found' = found /\ read' = read /\ attempts' = attempts
      /\ posts' = [posts EXCEPT ![CallOf(m)] = @ + 1]
  <2>1. \E ph \in {"accepted", "rejected"} : phase' = [phase EXCEPT ![m] = ph]
    BY Zenon DEF Post
  <2>2. /\ phase[m] = "posting" /\ UNCHANGED <<found, read, attempts>>
        /\ posts' = [posts EXCEPT ![CallOf(m)] = @ + 1]
    BY Zenon DEF Post, rowVars
  <2> QED
    BY <2>1, <2>2 DEF TypeOK
<1>3. IsFiniteSet(Tokens(posts')) /\ Total(posts') = Total(posts) + 1
  <2>1. CallOf(m) \in Call
    BY CallOfType
  <2>2. /\ posts \in [Call -> Nat] /\ posts' \in [Call -> Nat]
        /\ posts'[CallOf(m)] = posts[CallOf(m)] + 1
        /\ \A c \in Call \ {CallOf(m)} : posts'[c] = posts[c]
        /\ IsFiniteSet(Tokens(posts))
    BY <1>2, <2>1 DEF TypeOK, RecordInv
  <2> QED
    BY <2>1, <2>2, TotalGrows
<1>4. Total(posts) \in Nat
  BY TotalType DEF RecordInv
<1>5. /\ \A n \in Message \ {m}, e \in Delivery : Adds(n, e)' = Adds(n, e)
      /\ \A e \in Delivery \ {d} : Adds(m, e)' = Adds(m, e)
      /\ Adds(m, d)' = 1
  BY <1>1, <1>2 DEF Adds
<1>6. ASSUME NEW v \in [Delivery -> Nat], Recordable(v)'
      PROVE  IsFiniteSet(Tokens(v)) /\ Total(v) <= Total(posts')
  <2>1. CASE Recordable(v)
    <3>1. IsFiniteSet(Tokens(v)) /\ Total(v) <= Total(posts)
      BY <2>1 DEF RecordInv
    <3>2. Total(v) \in Nat
      BY <3>1, TotalType
    <3> QED
      BY <1>3, <1>4, <3>1, <3>2
  <2>2. CASE ~Recordable(v)
    <3> DEFINE w == [v EXCEPT ![d] = read[m][d]]
    <3>1. read[m][d] \in Nat
      BY DEF TypeOK
    <3>2. /\ \A e \in Delivery \ {d} :
                \/ v[e] <= attempts[e]
                \/ \E n \in Message : v[e] <= read[n][e] + Adds(n, e)
          /\ v[d] <= attempts[d] => Recordable(v)
          /\ (\E n \in Message \ {m} : v[d] <= read[n][d] + Adds(n, d)) => Recordable(v)
          /\ v[d] <= read[m][d] + 1
      BY <1>2, <1>5, <1>6, <2>2 DEF Recordable
    <3>3. v[d] = read[m][d] + 1
      <4>1. Adds(m, d) = 0
        BY <1>2 DEF Adds
      <4>2. v[d] <= read[m][d] => Recordable(v)
        BY <3>1, <3>2, <4>1 DEF Recordable
      <4> QED
        BY <2>2, <3>1, <3>2, <4>2
    <3>4. w \in [Delivery -> Nat] /\ Recordable(w)
      <4>1. Adds(m, d) = 0
        BY <1>2 DEF Adds
      <4> QED
        BY <3>1, <3>2, <4>1 DEF Recordable
    <3>5. IsFiniteSet(Tokens(w)) /\ Total(w) <= Total(posts)
      BY <3>4 DEF RecordInv
    <3>6. IsFiniteSet(Tokens(v)) /\ Total(v) = Total(w) + 1
      <4>1. v[d] = w[d] + 1 /\ \A e \in Delivery \ {d} : v[e] = w[e]
        BY <3>1, <3>3
      <4> HIDE DEF w
      <4> QED
        BY <3>4, <3>5, <4>1, TotalGrows
    <3>7. Total(w) \in Nat
      BY <3>5, TotalType
    <3> QED
      BY <1>3, <1>4, <3>5, <3>6, <3>7
  <2> QED
    BY <2>1, <2>2
<1>7. \A n \in Message : phase'[n] \in {"posting", "accepted", "rejected"} =>
          \E e \in Delivery : found'[n] = {e}
  BY <1>1, <1>2 DEF RecordInv
<1> QED
  BY <1>3, <1>6, <1>7 DEF RecordInv, Total, Tokens

LEMMA RecordInvHolds == Spec => []RecordInv
<1>1. Init => RecordInv
  <2> SUFFICES ASSUME Init PROVE RecordInv
    OBVIOUS
  <2>1. IsFiniteSet(Tokens(posts)) /\ Total(posts) = 0
    <3>1. posts \in [Call -> Nat] /\ \A c \in Call : posts[c] = 0
      BY DEF Init
    <3> QED
      BY <3>1, TotalOfZeros
  <2>2. ASSUME NEW v \in [Delivery -> Nat], Recordable(v)
        PROVE  IsFiniteSet(Tokens(v)) /\ Total(v) = 0
    <3>1. \A d \in Delivery : v[d] = 0
      BY <2>2 DEF Recordable, Adds, Init
    <3> QED
      BY <3>1, TotalOfZeros
  <2> QED
    BY <2>1, <2>2 DEF RecordInv, Init
<1>2. TypeOK /\ TypeOK' /\ RecordInv /\ [Next]_vars => RecordInv'
  <2> SUFFICES ASSUME TypeOK, TypeOK', RecordInv, [Next]_vars PROVE RecordInv'
    OBVIOUS
  <2> DEFINE Was(d, n) == \/ n <= attempts[d]
                          \/ \E m \in Message : n <= read[m][d] + Adds(m, d)
             Is(d, n) == \/ n <= attempts'[d]
                         \/ \E m \in Message : n <= read'[m][d] + Adds(m, d)'
             Paired == \A m \in Message :
                          phase'[m] \in {"posting", "accepted", "rejected"} =>
                             \E d \in Delivery : found'[m] = {d}
  <2>a. \A m \in Message : phase[m] \in {"posting", "accepted", "rejected"} =>
            \E d \in Delivery : found[m] = {d}
    BY DEF RecordInv
  <2>b. ASSUME NEW m \in Message,
               \A n \in Message \ {m} : phase'[n] = phase[n] /\ found'[n] = found[n],
               phase'[m] \in {"posting", "accepted", "rejected"} =>
                  \E d \in Delivery : found'[m] = {d}
        PROVE  Paired
    <3>1. ASSUME NEW n \in Message, phase'[n] \in {"posting", "accepted", "rejected"}
          PROVE  \E d \in Delivery : found'[n] = {d}
      BY <2>a, <2>b, <3>1
    <3> QED
      BY <3>1
  <2> USE DEF TypeOK, rowVars, messageVars, tellVars, MoveTo, Forget
  <2>1. ASSUME \/ \E c \in Call : Delay(c) \/ CommitSource(c)
               \/ \E m \in Message : Retry(m)
        PROVE  RecordInv'
    <3>1. /\ UNCHANGED <<attempts, read, found, posts>>
          /\ \A n \in Message : phase'[n] \in {"posting", "accepted", "rejected"} =>
                                   phase'[n] = phase[n]
      <4>1. ASSUME NEW c \in Call, Delay(c)
            PROVE  /\ UNCHANGED <<attempts, read, found, posts>>
                   /\ \E n \in Message : phase' = [phase EXCEPT ![n] = "queued"]
        BY <4>1, DelayStep, Zenon
      <4>2. ASSUME NEW m \in Message, Retry(m)
            PROVE  /\ UNCHANGED <<attempts, read, found, posts>>
                   /\ \E n \in Message : phase' = [phase EXCEPT ![m] = "retried", ![n] = "queued"]
        BY <4>2, RetryStep
      <4>3. ASSUME NEW c \in Call, CommitSource(c)
            PROVE  UNCHANGED <<attempts, read, found, posts, phase>>
        BY <4>3, Zenon DEF CommitSource
      <4>4. UNCHANGED <<attempts, read, found, posts>>
        BY <2>1, <4>1, <4>2, <4>3
      <4>5. \/ UNCHANGED phase
            \/ \E n \in Message : phase' = [phase EXCEPT ![n] = "queued"]
            \/ \E m, n \in Message : phase' = [phase EXCEPT ![m] = "retried", ![n] = "queued"]
        BY <2>1, <4>1, <4>2, <4>3
      <4>6. phase \in [Message -> Active \cup {"free", "retried", "done", "lost"}]
        OBVIOUS
      <4>7. \A n \in Message : phase'[n] \in {"queued", "retried"} \/ phase'[n] = phase[n]
        <5>1. ASSUME NEW k \in Message, phase' = [phase EXCEPT ![k] = "queued"], NEW n \in Message
              PROVE  phase'[n] \in {"queued", "retried"} \/ phase'[n] = phase[n]
          BY <4>6, <5>1
        <5>2. ASSUME NEW m \in Message, NEW k \in Message,
                     phase' = [phase EXCEPT ![m] = "retried", ![k] = "queued"], NEW n \in Message
              PROVE  phase'[n] \in {"queued", "retried"} \/ phase'[n] = phase[n]
          BY <4>6, <5>2
        <5> QED
          BY <4>5, <5>1, <5>2
      <4> QED
        BY <4>4, <4>7
    <3>2. \A n \in Message, d \in Delivery : Adds(n, d)' <= Adds(n, d)
      BY <3>1 DEF Adds
    <3>3. \A n \in Message, d \in Delivery : Adds(n, d) \in Nat /\ Adds(n, d)' \in Nat
      BY DEF Adds
    <3>4. \A d \in Delivery, n \in Nat : Is(d, n) => Was(d, n)
      BY <3>1, <3>2, <3>3
    <3>5. Paired
      BY <2>a, <3>1
    <3> QED
      BY <3>1, <3>4, <3>5, NothingNewRecordable
  <2>2. ASSUME NEW m \in Message, Begin(m) \/ MarkRead(m) PROVE RecordInv'
    <3>a. /\ UNCHANGED <<attempts, posts>>
          /\ phase'[m] \in {"posting", "marking"}
          /\ \A n \in Message \ {m} : phase'[n] = phase[n]
      BY <2>2 DEF Begin, MarkRead
    <3>b. \E S \in SUBSET Delivery : /\ Finds(m, S)
                                     /\ phase'[m] = "posting" => \E d \in Delivery : S = {d}
      <4>1. CASE Begin(m)
        <5>1. Target \subseteq Delivery
          BY DEF Target, Rows, Fresh
        <5>2. PICK d \in Delivery : Finds(m, {d})
          BY <4>1, <5>1, Zenon DEF Begin
        <5>3. {d} \in SUBSET Delivery
          OBVIOUS
        <5> QED
          BY <5>2, <5>3
      <4>2. CASE MarkRead(m)
        <5>1. Finds(m, {d \in Rows : row[d] # "delivered"}) /\ phase'[m] = "marking"
          BY <4>2 DEF MarkRead
        <5>2. {d \in Rows : row[d] # "delivered"} \in SUBSET Delivery
          BY DEF Rows
        <5> QED
          BY <5>1, <5>2
      <4> QED
        BY <2>2, <4>1, <4>2
    <3>1. /\ UNCHANGED <<attempts, posts>>
          /\ \A n \in Message \ {m} : read'[n] = read[n]
          /\ \A d \in Delivery : read'[m][d] \in {0, attempts[d]}
          /\ phase'[m] \in {"posting", "marking"}
          /\ \A n \in Message \ {m} : phase'[n] = phase[n] /\ found'[n] = found[n]
          /\ phase'[m] = "posting" => \E d \in Delivery : found'[m] = {d}
      <4>1. PICK S \in SUBSET Delivery :
                Finds(m, S) /\ (phase'[m] = "posting" => \E d \in Delivery : S = {d})
        BY <3>b
      <4> DEFINE rd == [d \in Delivery |-> IF d \in S THEN attempts[d] ELSE 0]
      <4>2. found' = [found EXCEPT ![m] = S] /\ read' = [read EXCEPT ![m] = rd]
        BY <4>1 DEF Finds
      <4>3. \A d \in Delivery : rd[d] \in {0, attempts[d]}
        OBVIOUS
      <4> HIDE DEF rd
      <4>4. /\ read'[m] = rd /\ found'[m] = S
            /\ \A n \in Message \ {m} : read'[n] = read[n] /\ found'[n] = found[n]
        BY <4>2
      <4> QED
        BY <3>a, <4>1, <4>3, <4>4
    <3>2. \A n \in Message \ {m}, d \in Delivery :
              Adds(n, d)' = Adds(n, d) /\ read'[n][d] = read[n][d]
      BY <3>1 DEF Adds
    <3>3. \A d \in Delivery : /\ Adds(m, d)' = 0 /\ attempts[d] \in Nat
                             /\ read'[m][d] \in Nat /\ read'[m][d] <= attempts[d]
      <4>1. \A d \in Delivery : Adds(m, d)' = 0 /\ attempts[d] \in Nat
        BY <3>1 DEF Adds
      <4>2. \A d \in Delivery : read'[m][d] = 0 \/ read'[m][d] = attempts[d]
        BY <3>1
      <4>3. ASSUME NEW d \in Delivery
            PROVE  read'[m][d] \in Nat /\ read'[m][d] <= attempts[d]
        <5>1. attempts[d] \in Nat
          BY <4>1
        <5>2. CASE read'[m][d] = 0
          BY <5>1, <5>2
        <5>3. CASE read'[m][d] = attempts[d]
          BY <5>1, <5>3
        <5> QED
          BY <4>2, <5>2, <5>3
      <4> QED
        BY <4>1, <4>3
    <3>4. ASSUME NEW d \in Delivery, NEW n \in Nat, Is(d, n) PROVE Was(d, n)
      <4>1. CASE n <= attempts'[d]
        BY <3>1, <4>1
      <4>2. ASSUME NEW q \in Message \ {m}, n <= read'[q][d] + Adds(q, d)'
            PROVE  Was(d, n)
        BY <3>2, <4>2
      <4>3. CASE n <= read'[m][d] + Adds(m, d)'
        <5>1. n <= attempts[d]
          BY <3>3, <4>3
        <5> QED
          BY <5>1
      <4> QED
        BY <3>4, <4>1, <4>2, <4>3
    <3>5. Paired
      BY <2>b, <3>1
    <3> QED
      BY <3>1, <3>4, <3>5, NothingNewRecordable
  <2>3. ASSUME NEW m \in Message, Post(m) PROVE RecordInv'
    BY <2>3, PostPaysForIt
  <2>4. ASSUME NEW m \in Message, CommitDelivered(m) \/ CommitPending(m) \/ MarkCommit(m)
        PROVE  RecordInv'
    <3>1. /\ UNCHANGED posts /\ read' = [read EXCEPT ![m] = [d \in Delivery |-> 0]]
          /\ phase'[m] \in {"done", "failed"} /\ found'[m] = {}
          /\ \A n \in Message \ {m} : phase'[n] = phase[n] /\ found'[n] = found[n]
          /\ \A d \in Delivery : \/ attempts'[d] = attempts[d]
                                  \/ attempts'[d] = read[m][d] + Adds(m, d)
      BY <2>4 DEF CommitDelivered, CommitPending, MarkCommit, Finds, UpdateAttempt, Adds
    <3>2. \A n \in Message \ {m}, d \in Delivery :
              Adds(n, d)' = Adds(n, d) /\ read'[n][d] = read[n][d]
      BY <3>1 DEF Adds
    <3>3. \A d \in Delivery : Adds(m, d)' = 0 /\ read'[m][d] = 0
      BY <3>1 DEF Adds
    <3>4. ASSUME NEW d \in Delivery, NEW n \in Nat, Is(d, n) PROVE Was(d, n)
      <4>1. CASE n <= attempts'[d]
        <5>1. attempts'[d] = attempts[d] \/ attempts'[d] = read[m][d] + Adds(m, d)
          BY <3>1
        <5>2. CASE attempts'[d] = attempts[d]
          BY <4>1, <5>2
        <5>3. CASE attempts'[d] = read[m][d] + Adds(m, d)
          <6>1. n <= read[m][d] + Adds(m, d)
            BY <4>1, <5>3
          <6> QED
            BY <6>1
        <5> QED
          BY <5>1, <5>2, <5>3
      <4>2. ASSUME NEW q \in Message \ {m}, n <= read'[q][d] + Adds(q, d)'
            PROVE  Was(d, n)
        BY <3>2, <4>2
      <4>3. CASE n <= read'[m][d] + Adds(m, d)'
        <5>1. attempts[d] \in Nat
          OBVIOUS
        <5> QED
          BY <3>3, <4>3, <5>1
      <4> QED
        BY <3>4, <4>1, <4>2, <4>3
    <3>5. Paired
      BY <2>b, <3>1
    <3> QED
      BY <3>1, <3>4, <3>5, NothingNewRecordable
  <2>5. ASSUME NEW m \in Message, Dies(m) \/ Redelivered(m) PROVE RecordInv'
    <3>1. /\ UNCHANGED <<attempts, posts>>
          /\ read' = [read EXCEPT ![m] = [d \in Delivery |-> 0]]
          /\ phase'[m] \in {"lost", "queued"} /\ found'[m] = {}
          /\ \A n \in Message \ {m} : phase'[n] = phase[n] /\ found'[n] = found[n]
      BY <2>5 DEF Dies, Redelivered, Finds
    <3>2. \A n \in Message \ {m}, d \in Delivery :
              Adds(n, d)' = Adds(n, d) /\ read'[n][d] = read[n][d]
      BY <3>1 DEF Adds
    <3>3. \A d \in Delivery : Adds(m, d)' = 0 /\ read'[m][d] = 0
      BY <3>1 DEF Adds
    <3>4. ASSUME NEW d \in Delivery, NEW n \in Nat, Is(d, n) PROVE Was(d, n)
      <4>1. CASE n <= attempts'[d]
        BY <3>1, <4>1
      <4>2. ASSUME NEW q \in Message \ {m}, n <= read'[q][d] + Adds(q, d)'
            PROVE  Was(d, n)
        BY <3>2, <4>2
      <4>3. CASE n <= read'[m][d] + Adds(m, d)'
        <5>1. attempts[d] \in Nat
          OBVIOUS
        <5> QED
          BY <3>3, <4>3, <5>1
      <4> QED
        BY <3>4, <4>1, <4>2, <4>3
    <3>5. Paired
      BY <2>b, <3>1
    <3> QED
      BY <3>1, <3>4, <3>5, NothingNewRecordable
  <2>6. CASE UNCHANGED vars
    <3>1. UNCHANGED <<attempts, posts, read, found, phase>>
      BY <2>6 DEF vars
    <3>2. \A n \in Message, d \in Delivery : Adds(n, d)' = Adds(n, d)
      BY <3>1 DEF Adds
    <3>3. \A d \in Delivery, n \in Nat : Is(d, n) => Was(d, n)
      BY <3>1, <3>2
    <3>4. Paired
      BY <2>a, <3>1
    <3> QED
      BY <3>1, <3>3, <3>4, NothingNewRecordable
  <2> QED
    BY <2>1, <2>2, <2>3, <2>4, <2>5, <2>6 DEF Next, Execution
<1> QED
  BY <1>1, <1>2, CallbackTypeCorrect, PTL DEF Spec

(* Executions of several messages for one url read and write the attempts  *)
(* of webhook_deliveries without a lock: counts are lost, but however they *)
(* overwrite one another the rows never claim a call that was not made.    *)
THEOREM AttemptsWereMadeHolds == Spec => []AttemptsWereMade
<1>1. TypeOK /\ RecordInv => AttemptsWereMade
  BY DEF TypeOK, RecordInv, Recordable, AttemptsWereMade
<1> QED
  BY <1>1, RecordInvHolds, CallbackTypeCorrect, PTL

=============================================================================
