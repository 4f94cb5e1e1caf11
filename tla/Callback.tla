------------------------------- MODULE Callback -------------------------------
(***************************************************************************)
(* The delivery of one task's outcome to its callback_url.  A webhook that *)
(* is delivered twice, or a webhook and a poll, queue several              *)
(* deliver_webhook calls for the same task; the message of each is executed*)
(* by any worker, posts, records its attempt, and publishes a message for  *)
(* the next attempt until there were MaxRetries of these.  It is           *)
(* acknowledged after that: a worker that dies in between leaves both.     *)
(*                                                                         *)
(* An execution reads the rows of webhook_deliveries, waits for the        *)
(* client's answer, and then writes what it computed from what it read.    *)
(* What it posts is the status of the task at its own beginning: a webhook *)
(* queues its message before its transaction ends, a poll afterwards.      *)
(***************************************************************************)
EXTENDS Totals

CONSTANTS
    Call,           \* calls of deliver_webhook.delay for the task
    Hook,           \* those that a webhook makes; the others are of polls
    Slot,           \* bound: numbers of the messages of one call
    Delivery,       \* ids of rows of webhook_deliveries
    MaxRetries,     \* settings.webhook_max_retries
    MaxFaults,      \* bound: failures of the environment in one behaviour
    Hazards         \* what the environment may do

AllHazards ==
    { "lost",         \* an execution ends in an exception that is not caught
      "redelivery" }  \* a worker dies before it acknowledges a message

ASSUME CallbackAssumption ==
    /\ Hook \subseteq Call
    /\ IsFiniteSet(Delivery)
    /\ MaxRetries \in Nat
    /\ MaxFaults \in Nat
    /\ Hazards \subseteq AllHazards

VARIABLES
    row,        \* WebhookDelivery.status, or "none"
    attempts,   \* WebhookDelivery.attempts
    phase,      \* how far a message is
    retries,    \* self.request.retries
    found,      \* the rows a message has read and is going to update
    read,       \* their attempts, as they were read
    posts,      \* requests to the client that were made for a call
    source,     \* has the call been made, has its caller committed?
    payload,    \* what a message posts: the outcome of the task or an older status
    told,       \* what the client has taken
    faults      \* failures so far

rowVars == <<row, attempts>>
messageVars == <<phase, retries, found, read>>
tellVars == <<source, payload, told>>
vars == <<rowVars, messageVars, tellVars, posts, faults>>

(* The messages of a call, first and retried ones.                         *)
Message == Call \X Slot
CallOf(m) == m[1]

Running == {"posting", "accepted", "rejected", "failed", "marking"}
Active == Running \cup {"queued"}
Status == {"pending", "delivered", "failed"}

TypeOK ==
    /\ row \in [Delivery -> Status \cup {"none"}]
    /\ attempts \in [Delivery -> Nat]
    /\ phase \in [Message -> Active \cup {"free", "retried", "done", "lost"}]
    /\ retries \in [Message -> 0..MaxRetries]
    /\ found \in [Message -> SUBSET Delivery]
    /\ read \in [Message -> [Delivery -> Nat]]
    /\ posts \in [Call -> Nat]
    /\ source \in [Call -> {"none", "open", "committed"}]
    /\ payload \in [Message -> {"old", "outcome"}]
    /\ told \in SUBSET {"old", "outcome"}
    /\ faults \in 0..MaxFaults

Init ==
    /\ row = [d \in Delivery |-> "none"]
    /\ attempts = [d \in Delivery |-> 0]
    /\ phase = [m \in Message |-> "free"]
    /\ retries = [m \in Message |-> 0]
    /\ found = [m \in Message |-> {}]
    /\ read = [m \in Message |-> [d \in Delivery |-> 0]]
    /\ posts = [c \in Call |-> 0]
    /\ source = [c \in Call |-> "none"]
    /\ payload = [m \in Message |-> "old"]
    /\ told = {}
    /\ faults = 0

-----------------------------------------------------------------------------

Fault(h) ==
    /\ h \in Hazards
    /\ faults < MaxFaults
    /\ faults' = faults + 1

MoveTo(m, ph) == phase' = [phase EXCEPT ![m] = ph]

Finds(m, S) ==
    /\ found' = [found EXCEPT ![m] = S]
    /\ read' = [read EXCEPT ![m] = [d \in Delivery |-> IF d \in S THEN attempts[d] ELSE 0]]

(* An execution that tells nothing more is forgotten, what it read and all.*)
Forget(m) == Finds(m, {}) /\ payload' = [payload EXCEPT ![m] = "old"]

Rows == {d \in Delivery : row[d] # "none"}

(* Neither committed nor inserted by a transaction that goes on.           *)
Fresh == {d \in Delivery : row[d] = "none" /\ \A m \in Message : d \notin found[m]}

(* The task has ended.                                                     *)
Outcome == \E c \in Call : source[c] = "committed"

Free(c) == {m \in Message : CallOf(m) = c /\ phase[m] = "free"}

(* The next message of a call; its number makes no difference.             *)
NewMessage(c) == CHOOSE m \in Free(c) : TRUE

(* A poll queues a message after its COMMIT, a webhook before it.          *)
Delay(c) ==
    /\ source[c] = "none"
    /\ Free(c) # {}
    /\ MoveTo(NewMessage(c), "queued")
    /\ source' = [source EXCEPT ![c] = IF c \in Hook THEN "open" ELSE "committed"]
    /\ UNCHANGED <<rowVars, retries, found, read, payload, told, posts, faults>>

(* get_session after handle_fal_webhook.  A transaction that rolls back    *)
(* leaves what it wrote as unseen as one that stays open.                  *)
CommitSource(c) ==
    /\ source[c] = "open"
    /\ source' = [source EXCEPT ![c] = "committed"]
    /\ UNCHANGED <<rowVars, messageVars, payload, told, posts, faults>>

(* The first row with this url, in no given order, or a new one, whose id  *)
(* makes no difference.                                                    *)
Target == IF Rows # {} \/ Fresh = {} THEN Rows ELSE {CHOOSE d \in Fresh : TRUE}

(* Mutant of Begin: a row that is DELIVERED is left alone.                 *)
MutantBeginOnce(m) ==
    /\ phase[m] = "queued"
    /\ \/ /\ \A d \in Rows : row[d] # "delivered"
          /\ MoveTo(m, "posting")
          /\ \E d \in Target : Finds(m, {d})
          /\ payload' = [payload EXCEPT ![m] = IF Outcome THEN "outcome" ELSE "old"]
       \/ /\ \E d \in Rows : row[d] = "delivered"
          /\ MoveTo(m, "done")
          /\ UNCHANGED <<found, read, payload>>
    /\ UNCHANGED <<rowVars, retries, source, told, posts, faults>>

(* send_webhook up to the request.                                         *)
Begin(m) ==
    /\ phase[m] = "queued"
    /\ MoveTo(m, "posting")
    /\ \E d \in Target : Finds(m, {d})
    /\ payload' = [payload EXCEPT ![m] = IF Outcome THEN "outcome" ELSE "old"]
    /\ UNCHANGED <<rowVars, retries, source, told, posts, faults>>

(* The client answers 2xx; or it answers something else, or not at all and *)
(* may have taken the request nevertheless.                                *)
Post(m) ==
    /\ phase[m] = "posting"
    /\ posts' = [posts EXCEPT ![CallOf(m)] = @ + 1]
    /\ \/ MoveTo(m, "accepted") /\ told' = told \cup {payload[m]}
       \/ MoveTo(m, "rejected") /\ told' \in {told, told \cup {payload[m]}}
    /\ UNCHANGED <<rowVars, retries, found, read, source, payload, faults>>

(* update_attempt of the rows that were found.                             *)
UpdateAttempt(m, s, n) ==
    /\ row' = [d \in Delivery |-> IF d \in found[m] THEN s ELSE row[d]]
    /\ attempts' = [d \in Delivery |-> IF d \in found[m] THEN read[m][d] + n
                                                         ELSE attempts[d]]

CommitDelivered(m) ==
    /\ phase[m] = "accepted"
    /\ UpdateAttempt(m, "delivered", 1)
    /\ MoveTo(m, "done")
    /\ Finds(m, {})
    /\ UNCHANGED <<retries, tellVars, posts, faults>>

(* The status that was read is not looked at: DELIVERED is overwritten.    *)
CommitPending(m) ==
    /\ phase[m] = "rejected"
    /\ UpdateAttempt(m, "pending", 1)
    /\ MoveTo(m, "failed")
    /\ Forget(m)
    /\ UNCHANGED <<retries, source, told, posts, faults>>

(* Mutant of Retry: one retry too many.                                    *)
MutantRetryAgain(m) ==
    /\ phase[m] = "failed"
    /\ retries[m] <= MaxRetries
    /\ Free(CallOf(m)) # {}
    /\ LET n == NewMessage(CallOf(m))
       IN  /\ phase' = [phase EXCEPT ![m] = "retried", ![n] = "queued"]
           /\ retries' = [retries EXCEPT ![n] = retries[m] + 1]
    /\ UNCHANGED <<rowVars, found, read, tellVars, posts, faults>>

(* self.retry publishes a message of its own.  The one that was executed   *)
(* is acknowledged only when the execution has ended.                      *)
Retry(m) ==
    /\ phase[m] = "failed"
    /\ retries[m] < MaxRetries
    /\ Free(CallOf(m)) # {}
    /\ LET n == NewMessage(CallOf(m))
       IN  /\ phase' = [phase EXCEPT ![m] = "retried", ![n] = "queued"]
           /\ retries' = [retries EXCEPT ![n] = retries[m] + 1]
    /\ UNCHANGED <<rowVars, found, read, tellVars, posts, faults>>

(* Mutant of MarkRead: the first failure is the last.                      *)
MutantMarkEarly(m) ==
    /\ phase[m] = "failed"
    /\ MoveTo(m, "marking")
    /\ Finds(m, {d \in Rows : row[d] # "delivered"})
    /\ UNCHANGED <<rowVars, retries, tellVars, posts, faults>>

(* Mutant of MarkRead: one retry is waited for that never comes.           *)
MutantMarkLate(m) ==
    /\ phase[m] = "failed"
    /\ retries[m] > MaxRetries
    /\ MoveTo(m, "marking")
    /\ Finds(m, {d \in Rows : row[d] # "delivered"})
    /\ UNCHANGED <<rowVars, retries, tellVars, posts, faults>>

(* _mark_webhook_failed: its reads ...                                     *)
MarkRead(m) ==
    /\ phase[m] = "failed"
    /\ retries[m] = MaxRetries
    /\ MoveTo(m, "marking")
    /\ Finds(m, {d \in Rows : row[d] # "delivered"})
    /\ UNCHANGED <<rowVars, retries, tellVars, posts, faults>>

(* Mutant of MarkCommit: the message ends without a word.                  *)
MutantMarkNothing(m) ==
    /\ phase[m] = "marking"
    /\ MoveTo(m, "done")
    /\ Forget(m)
    /\ UNCHANGED <<rowVars, retries, source, told, posts, faults>>

(* Mutant of MarkCommit: giving up is counted as an attempt.               *)
MutantMarkCounts(m) ==
    /\ phase[m] = "marking"
    /\ UpdateAttempt(m, "failed", 1)
    /\ MoveTo(m, "done")
    /\ Forget(m)
    /\ UNCHANGED <<retries, source, told, posts, faults>>

(* ... and its writes.                                                     *)
MarkCommit(m) ==
    /\ phase[m] = "marking"
    /\ UpdateAttempt(m, "failed", 0)
    /\ MoveTo(m, "done")
    /\ Forget(m)
    /\ UNCHANGED <<retries, source, told, posts, faults>>

(* An exception other than WebhookDeliveryError, or the loss of the        *)
(* process: the message is acknowledged.                                   *)
Dies(m) ==
    /\ phase[m] \in Running
    /\ Fault("lost")
    /\ MoveTo(m, "lost")
    /\ Forget(m)
    /\ UNCHANGED <<rowVars, retries, source, told, posts>>

(* task_acks_late: also after the COMMIT, and when the message of the next *)
(* attempt was published, as long as this one was not acknowledged.        *)
Redelivered(m) ==
    /\ phase[m] \in Running \cup {"retried", "done"}
    /\ Fault("redelivery")
    /\ MoveTo(m, "queued")
    /\ Forget(m)
    /\ UNCHANGED <<rowVars, retries, source, told, posts>>

-----------------------------------------------------------------------------

Execution(m) ==
    \/ Begin(m) \/ Post(m) \/ CommitDelivered(m) \/ CommitPending(m)
    \/ Retry(m) \/ MarkRead(m) \/ MarkCommit(m)

Next ==
    \/ \E c \in Call : Delay(c) \/ CommitSource(c)
    \/ \E m \in Message : Execution(m) \/ Dies(m) \/ Redelivered(m)

Spec == Init /\ [][Next]_vars

(* As long as there is something to execute, some worker goes on with      *)
(* some of it.                                                             *)
Fairness == WF_vars(\E m \in Message : Execution(m))

FairSpec == Spec /\ Fairness

-----------------------------------------------------------------------------
(* Properties                                                              *)

(* A status is never a lie: DELIVERED means that the client took a         *)
(* request, FAILED that the attempts of some call are used up.             *)
StatusIsTrue ==
    \A d \in Delivery :
        /\ row[d] = "delivered" => told # {}
        /\ row[d] = "failed" => \E c \in Call : posts[c] > MaxRetries

(* Attempts may be lost by concurrent executions, but none is invented: a  *)
(* client was called at least as often as webhook_deliveries says.         *)
AttemptsWereMade == Total(attempts) <= Total(posts)

(* For a call the client gets at most MaxRetries + 1 requests, and at most *)
(* as many again for each failure: a worker that dies after it published   *)
(* the next attempt leaves two messages that both go on.                   *)
PostsBounded == \A c \in Call : posts[c] <= (MaxRetries + 1) * (1 + faults)

(* As long as the task has one row, a PENDING row is still worked on:      *)
(* whatever order concurrent executions commit in, and although they       *)
(* overwrite one another, the last of them decides.  (A message that was   *)
(* lost decides nothing.)                                                  *)
PendingIsWorkedOn ==
    (\A m \in Message : phase[m] # "lost") /\ Cardinality(Rows) = 1 =>
        \A d \in Rows : row[d] = "pending" => \E m \in Message : phase[m] \in Active

(* A message that has ended without another attempt has told the client    *)
(* the outcome of the task, if some message did not before it, or has used *)
(* up the attempts of its call; only a webhook's message may have been     *)
(* executed before the task had an outcome.                                *)
(* A DELIVERED row is no reason to be silent: an older status may have been*)
(* delivered.                                                              *)
ToldOutcome ==
    \A m \in Message : phase[m] = "done" =>
        \/ "outcome" \in told
        \/ posts[CallOf(m)] > MaxRetries
        \/ payload[m] = "old" /\ CallOf(m) \in Hook

(* Every message comes to an end.                                          *)
MessageEnds == []<>(\A m \in Message : phase[m] \notin Active)

(* What README.md says of a notification: no more than five attempts, which*)
(* is the value of webhook_max_retries.                                    *)
AttemptsAsDocumented == \A c \in Call : posts[c] <= MaxRetries

=============================================================================
