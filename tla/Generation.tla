------------------------------ MODULE Generation ------------------------------
(***************************************************************************)
(* The life of a generation task: the HTTP request that creates it, the    *)
(* Celery task that submits it to Fal.ai, Fal.ai's webhook, the monitor    *)
(* that Celery Beat runs every two minutes and the polls the monitor       *)
(* queues.  All of them are independent processes that meet in PostgreSQL  *)
(* (READ COMMITTED), in the Celery broker and at the provider.             *)
(*                                                                         *)
(* A transaction is applied at its COMMIT.  Where the code reads a row and *)
(* acts on what it read later (after an await, a queue or a network call)  *)
(* the read and the COMMIT are two actions.                                *)
(***************************************************************************)
EXTENDS Naturals, FiniteSets

CONSTANTS
    Task,           \* task ids
    WithCallback,   \* the tasks created with a callback_url
    Job,            \* request ids of Fal.ai; as many submissions can be accepted
    Null,           \* no request id
    Monitor,        \* slots that can run generation.check_stuck
    Poller,         \* slots that can run generation.poll_status
    MaxRetries,     \* attempts of one submission
    MaxPolls,       \* bound: poll messages queued for one task
    MaxFaults,      \* bound: failures of the environment in one behaviour
    Outcome,        \* how jobs may end
    Hazards         \* what the environment may do

AllOutcomes == {"media", "empty", "error"}

(* The first three are matters of timing, every other one is a failure that *)
(* counts against MaxFaults.                                                *)
AllHazards ==
    { "early_delivery",  \* a worker takes the message before the request commits
      "early_hook",      \* the webhook arrives before PROCESSING is committed
      "slow_submit",     \* a submission takes longer than five minutes
      "error",           \* a webhook, a monitor or a poll ends in an exception
      "worker_lost",     \* a process that submits or polls dies, or the COMMIT of
                         \* a submission fails; its message is acknowledged
      "redelivery",      \* the whole worker dies and its message comes back
      "response_lost",   \* Fal.ai accepts a job and the caller sees an error
      "hook_lost",       \* Fal.ai gives up on delivering a webhook
      "hook_dup" }       \* Fal.ai delivers a webhook again

ASSUME GenerationAssumption ==
    /\ WithCallback \subseteq Task
    /\ Null \notin Task \cup Job
    /\ IsFiniteSet(Monitor)
    /\ MaxRetries \in Nat \ {0}
    /\ MaxPolls \in Nat
    /\ MaxFaults \in Nat
    /\ Outcome \subseteq AllOutcomes
    /\ Hazards \subseteq AllHazards

VARIABLES
    create,     \* the creating request and its transaction
    status,     \* Task.status
    request,    \* Task.fal_request_id
    url,        \* does Task.result_url hold a url?
    stale,      \* is Task.updated_at older than five minutes?
    refunds,    \* committed REFUND transactions of the task
    submit,     \* the submit_generation message and its execution
    attempt,    \* the loop variable of _submit_to_provider
    reply,      \* the id provider.submit returned, not yet committed
    job,        \* the jobs at Fal.ai
    jobTask,    \* the task a job was submitted for
    hook,       \* the webhook of a job
    polls,      \* queued poll_task_status messages
    polling,    \* the running polls
    doomed,     \* the tasks a running monitor has decided to fail
    notified,   \* has a deliver_webhook message been queued?
    faults      \* failures so far

rowVars == <<status, request, url, stale, refunds>>
submitVars == <<submit, attempt, reply>>
providerVars == <<job, jobTask, hook>>
pollVars == <<polls, polling>>
vars == <<create, rowVars, submitVars, providerVars, pollVars, doomed, notified,
          faults>>

Status == {"created", "queued", "processing", "completed", "failed"}
Terminal == {"completed", "failed"}
Ended == {"media", "empty", "error"}
Running == {"trying", "accepted", "exhausted"}
Idle == [phase |-> "idle", task |-> Null, job |-> Null]
Poll == [phase : {"waiting", "committed"}, task : Task, job : Job]

TypeOK ==
    /\ create \in [Task -> {"new", "open", "committed", "aborted"}]
    /\ status \in [Task -> Status]
    /\ request \in [Task -> Job \cup {Null}]
    /\ url \in [Task -> BOOLEAN]
    /\ stale \in [Task -> BOOLEAN]
    /\ refunds \in [Task -> Nat]
    /\ submit \in [Task -> {"none", "sent", "done"} \cup Running]
    /\ attempt \in [Task -> 0..MaxRetries]
    /\ reply \in [Task -> Job \cup {Null}]
    /\ job \in [Job -> {"none", "running"} \cup Ended]
    /\ jobTask \in [Job -> Task \cup {Null}]
    /\ hook \in [Job -> {"none", "sent", "open", "done"}]
    /\ polls \in [Task -> 0..MaxPolls]
    /\ polling \in [Poller -> {Idle} \cup Poll]
    /\ doomed \in [Monitor -> SUBSET Task]
    /\ notified \in [Task -> BOOLEAN]
    /\ faults \in 0..MaxFaults

Init ==
    /\ create = [t \in Task |-> "new"]
    /\ status = [t \in Task |-> "created"]
    /\ request = [t \in Task |-> Null]
    /\ url = [t \in Task |-> FALSE]
    /\ stale = [t \in Task |-> FALSE]
    /\ refunds = [t \in Task |-> 0]
    /\ submit = [t \in Task |-> "none"]
    /\ attempt = [t \in Task |-> 0]
    /\ reply = [t \in Task |-> Null]
    /\ job = [k \in Job |-> "none"]
    /\ jobTask = [k \in Job |-> Null]
    /\ hook = [k \in Job |-> "none"]
    /\ polls = [t \in Task |-> 0]
    /\ polling = [p \in Poller |-> Idle]
    /\ doomed = [m \in Monitor |-> {}]
    /\ notified = [t \in Task |-> FALSE]
    /\ faults = 0

-----------------------------------------------------------------------------
(* Helpers *)

Fault(h) ==
    /\ h \in Hazards
    /\ faults < MaxFaults
    /\ faults' = faults + 1

(* task_repo.update: the row's updated_at is refreshed with every UPDATE.  *)
Update(ts, s) ==
    /\ status' = [t \in Task |-> IF t \in ts THEN s ELSE status[t]]
    /\ stale' = [t \in Task |-> IF t \in ts THEN FALSE ELSE stale[t]]

RefundBalance(ts) ==
    refunds' = [t \in Task |-> IF t \in ts THEN refunds[t] + 1 ELSE refunds[t]]

FailAndRefund(ts) == Update(ts, "failed") /\ RefundBalance(ts)

(* deliver_webhook.delay, if the task has a callback_url.                  *)
DeliverWebhook(t) == notified' = [notified EXCEPT ![t] = @ \/ t \in WithCallback]

-----------------------------------------------------------------------------
(* The creating request: POST /generate/...                                *)

(* The task row and the charge are written, and the message is in the      *)
(* broker, before the session's COMMIT.                                    *)
CreateTask(t) ==
    /\ create[t] = "new"
    /\ create' = [create EXCEPT ![t] = "open"]
    /\ submit' = [submit EXCEPT ![t] = "sent"]
    /\ UNCHANGED <<rowVars, attempt, reply, providerVars, pollVars, doomed, notified,
                   faults>>

(* The broker does not take the message: get_session rolls back.           *)
DispatchFails(t) ==
    /\ create[t] = "new"
    /\ create' = [create EXCEPT ![t] = "aborted"]
    /\ UNCHANGED <<rowVars, submitVars, providerVars, pollVars, doomed, notified, faults>>

CreateEnds(t) ==
    /\ create[t] = "open"
    /\ \E c \in {"committed", "aborted"} : create' = [create EXCEPT ![t] = c]
    /\ UNCHANGED <<rowVars, submitVars, providerVars, pollVars, doomed, notified, faults>>

-----------------------------------------------------------------------------
(* generation.submit                                                       *)

(* The row is not there, or not yet visible: the message is spent.         *)
SubmitMissing(t) ==
    /\ submit[t] = "sent"
    /\ \/ create[t] = "aborted"
       \/ create[t] = "open" /\ "early_delivery" \in Hazards
    /\ submit' = [submit EXCEPT ![t] = "done"]
    /\ UNCHANGED <<create, rowVars, attempt, reply, providerVars, pollVars, doomed,
                   notified, faults>>

(* Mutant of SubmitStart: a worker that does not look whether the row is    *)
(* there.                                                                  *)
MutantStartUnseen(t) ==
    /\ submit[t] = "sent"
    /\ Update({t}, "queued")
    /\ submit' = [submit EXCEPT ![t] = "trying"]
    /\ attempt' = [attempt EXCEPT ![t] = 1]
    /\ UNCHANGED <<create, request, url, refunds, reply, providerVars, pollVars, doomed,
                   notified, faults>>

(* QUEUED is written whatever the status was.                              *)
SubmitStart(t) ==
    /\ submit[t] = "sent"
    /\ create[t] = "committed"
    /\ Update({t}, "queued")
    /\ submit' = [submit EXCEPT ![t] = "trying"]
    /\ attempt' = [attempt EXCEPT ![t] = 1]
    /\ UNCHANGED <<create, request, url, refunds, reply, providerVars, pollVars, doomed,
                   notified, faults>>

(* Fal.ai takes the submission for t and names it k.                       *)
Accept(t, k) ==
    /\ job[k] = "none"
    /\ job' = [job EXCEPT ![k] = "running"]
    /\ jobTask' = [jobTask EXCEPT ![k] = t]
    /\ UNCHANGED hook

(* Mutant of NextAttempt: one attempt too many.                            *)
MutantExtraAttempt(t) ==
    \/ /\ attempt[t] <= MaxRetries
       /\ attempt' = [attempt EXCEPT ![t] = @ + 1]
       /\ UNCHANGED submit
    \/ /\ attempt[t] > MaxRetries
       /\ submit' = [submit EXCEPT ![t] = "exhausted"]
       /\ UNCHANGED attempt

(* The except branch: sleep and try again, or give up.                     *)
NextAttempt(t) ==
    \/ /\ attempt[t] < MaxRetries
       /\ attempt' = [attempt EXCEPT ![t] = @ + 1]
       /\ UNCHANGED submit
    \/ /\ attempt[t] = MaxRetries
       /\ submit' = [submit EXCEPT ![t] = "exhausted"]
       /\ UNCHANGED attempt

AttemptAccepted(t) ==
    /\ submit[t] = "trying"
    /\ \E k \in Job :
          /\ Accept(t, k)
          /\ reply' = [reply EXCEPT ![t] = k]
    /\ submit' = [submit EXCEPT ![t] = "accepted"]
    /\ UNCHANGED <<create, rowVars, attempt, pollVars, doomed, notified, faults>>

AttemptRejected(t) ==
    /\ submit[t] = "trying"
    /\ NextAttempt(t)
    /\ UNCHANGED <<create, rowVars, reply, providerVars, pollVars, doomed, notified,
                   faults>>

(* An exception the except clause does not name (httpx.TransportError) ends *)
(* the Celery task; the message is acknowledged and the row stays QUEUED.   *)
AttemptUncaught(t) ==
    /\ submit[t] = "trying"
    /\ submit' = [submit EXCEPT ![t] = "done"]
    /\ UNCHANGED <<create, rowVars, attempt, reply, providerVars, pollVars, doomed,
                   notified, faults>>

(* The job runs, but the worker sees one of the two kinds of error above:  *)
(* the response is lost, or the request id cannot be stored.               *)
AttemptResponseLost(t) ==
    /\ submit[t] = "trying"
    /\ Fault("response_lost")
    /\ \E k \in Job : Accept(t, k)
    /\ \/ NextAttempt(t)
       \/ submit' = [submit EXCEPT ![t] = "done"] /\ UNCHANGED attempt
    /\ UNCHANGED <<create, rowVars, reply, pollVars, doomed, notified>>

(* Mutant of CommitProcessing: the request id is not stored.               *)
MutantForgetRequest(t) ==
    /\ submit[t] = "accepted"
    /\ Update({t}, "processing")
    /\ reply' = [reply EXCEPT ![t] = Null]
    /\ submit' = [submit EXCEPT ![t] = "done"]
    /\ UNCHANGED <<create, request, url, refunds, attempt, providerVars, pollVars,
                   doomed, notified, faults>>

CommitProcessing(t) ==
    /\ submit[t] = "accepted"
    /\ Update({t}, "processing")
    /\ request' = [request EXCEPT ![t] = reply[t]]
    /\ reply' = [reply EXCEPT ![t] = Null]
    /\ submit' = [submit EXCEPT ![t] = "done"]
    /\ UNCHANGED <<create, url, refunds, attempt, providerVars, pollVars, doomed,
                   notified, faults>>

CommitSubmitFailed(t) ==
    /\ submit[t] = "exhausted"
    /\ FailAndRefund({t})
    /\ submit' = [submit EXCEPT ![t] = "done"]
    /\ UNCHANGED <<create, request, url, attempt, reply, providerVars, pollVars, doomed,
                   notified, faults>>

(* The process that runs the task is gone, or its COMMIT failed: what was   *)
(* not committed is forgotten.  The message is acknowledged all the same.   *)
WorkerLost(t) ==
    /\ create[t] = "committed"
    /\ submit[t] \in {"sent"} \cup Running
    /\ Fault("worker_lost")
    /\ submit' = [submit EXCEPT ![t] = "done"]
    /\ reply' = [reply EXCEPT ![t] = Null]
    /\ UNCHANGED <<create, rowVars, attempt, providerVars, pollVars, doomed, notified>>

(* task_acks_late: the message of a worker that died comes back, also when  *)
(* its last COMMIT was done and only the acknowledgement was missing.       *)
Redelivered(t) ==
    /\ submit[t] \in Running \cup {"done"}
    /\ Fault("redelivery")
    /\ submit' = [submit EXCEPT ![t] = "sent"]
    /\ reply' = [reply EXCEPT ![t] = Null]
    /\ UNCHANGED <<create, rowVars, attempt, providerVars, pollVars, doomed, notified>>

-----------------------------------------------------------------------------
(* Fal.ai (external) and its webhook                                       *)

JobEnds(k) ==
    /\ job[k] = "running"
    /\ \E o \in Outcome : job' = [job EXCEPT ![k] = o]
    /\ hook' = [hook EXCEPT ![k] = "sent"]
    /\ UNCHANGED <<create, rowVars, submitVars, jobTask, pollVars, doomed, notified,
                   faults>>

HookLost(k) ==
    /\ hook[k] = "sent"
    /\ Fault("hook_lost")
    /\ hook' = [hook EXCEPT ![k] = "done"]
    /\ UNCHANGED <<create, rowVars, submitVars, job, jobTask, pollVars, doomed, notified>>

HookDuplicated(k) ==
    /\ hook[k] = "done"
    /\ Fault("hook_dup")
    /\ hook' = [hook EXCEPT ![k] = "sent"]
    /\ UNCHANGED <<create, rowVars, submitVars, job, jobTask, pollVars, doomed, notified>>

(* handle_fal_webhook up to its last line: the client's notification is in *)
(* the broker before the COMMIT.                                           *)
HookHandled(k) ==
    /\ hook[k] = "sent"
    /\ "early_hook" \in Hazards \/ submit[jobTask[k]] # "accepted"
    /\ hook' = [hook EXCEPT ![k] = "open"]
    /\ DeliverWebhook(jobTask[k])
    /\ UNCHANGED <<create, rowVars, submitVars, job, jobTask, pollVars, doomed, faults>>

(* Neither the task's status nor the job is compared with the row.         *)
HookCommit(k) ==
    LET t == jobTask[k] IN
    /\ hook[k] = "open"
    /\ hook' = [hook EXCEPT ![k] = "done"]
    /\ \/ /\ job[k] = "error"
          /\ FailAndRefund({t})
          /\ UNCHANGED url
       \/ /\ job[k] # "error"
          /\ Update({t}, "completed")
          /\ url' = [url EXCEPT ![t] = job[k] = "media"]
          /\ UNCHANGED refunds
    /\ UNCHANGED <<create, request, submitVars, job, jobTask, pollVars, doomed, notified,
                   faults>>

(* get_session rolls back and answers 500: Fal.ai tries again.             *)
HookRollback(k) ==
    /\ hook[k] = "open"
    /\ Fault("error")
    /\ hook' = [hook EXCEPT ![k] = "sent"]
    /\ UNCHANGED <<create, rowVars, submitVars, job, jobTask, pollVars, doomed, notified>>

-----------------------------------------------------------------------------
(* generation.check_stuck                                                  *)

Age(t) ==
    /\ status[t] \in {"queued", "processing"}
    /\ ~stale[t]
    /\ "slow_submit" \in Hazards \/ submit[t] \notin Running
    /\ stale' = [stale EXCEPT ![t] = TRUE]
    /\ UNCHANGED <<create, status, request, url, refunds, submitVars, providerVars,
                   pollVars, doomed, notified, faults>>

(* Mutant of Stuck: tasks in PROCESSING are left to their webhook.         *)
MutantStuckQueued == {t \in Task : status[t] = "queued" /\ stale[t]}

(* task_repo.list_stuck                                                    *)
Stuck == {t \in Task : status[t] \in {"queued", "processing"} /\ stale[t]}

(* Mutant of ToPoll: every stuck task is failed, submitted or not.         *)
MutantPollNone == {}

ToPoll == {t \in Stuck : request[t] # Null}

(* One pass over the rows as they are read; the polls are queued at once,  *)
(* the failures wait for the COMMIT.                                       *)
MonitorScan(m) ==
    /\ doomed[m] = {}
    /\ Stuck # {}
    /\ \A t \in ToPoll : polls[t] < MaxPolls
    /\ polls' = [t \in Task |-> IF t \in ToPoll THEN polls[t] + 1 ELSE polls[t]]
    /\ doomed' = [doomed EXCEPT ![m] = Stuck \ ToPoll]
    /\ UNCHANGED <<create, rowVars, submitVars, providerVars, polling, notified, faults>>

(* Mutant of MonitorCommit: the tokens go back, the status stays.          *)
MutantRefundOnly(m) ==
    /\ doomed[m] # {}
    /\ RefundBalance(doomed[m])
    /\ doomed' = [doomed EXCEPT ![m] = {}]
    /\ UNCHANGED <<create, status, request, url, stale, submitVars, providerVars,
                   pollVars, notified, faults>>

MonitorCommit(m) ==
    /\ doomed[m] # {}
    /\ FailAndRefund(doomed[m])
    /\ doomed' = [doomed EXCEPT ![m] = {}]
    /\ UNCHANGED <<create, request, url, submitVars, providerVars, pollVars, notified,
                   faults>>

MonitorDies(m) ==
    /\ doomed[m] # {}
    /\ Fault("error")
    /\ doomed' = [doomed EXCEPT ![m] = {}]
    /\ UNCHANGED <<create, rowVars, submitVars, providerVars, pollVars, notified>>

-----------------------------------------------------------------------------
(* generation.poll_status                                                  *)

TakePoll(t) == polls[t] > 0 /\ polls' = [polls EXCEPT ![t] = @ - 1]

(* The task has ended, or has no request id any more.                      *)
PollReturns(t) ==
    /\ TakePoll(t)
    /\ status[t] \in Terminal \/ request[t] = Null
    /\ UNCHANGED <<create, rowVars, submitVars, providerVars, polling, doomed, notified,
                   faults>>

(* get_result blocks until the job has ended.                              *)
PollStart(p, t) ==
    /\ polling[p] = Idle
    /\ TakePoll(t)
    /\ status[t] \notin Terminal
    /\ request[t] # Null
    /\ polling' = [polling EXCEPT ![p] =
                      [phase |-> "waiting", task |-> t, job |-> request[t]]]
    /\ UNCHANGED <<create, rowVars, submitVars, providerVars, doomed, notified, faults>>

Waiting(p) == polling[p].phase = "waiting"
Committed(p) == polling[p].phase = "committed"

(* Mutant of PollCommit: any result counts as media.                       *)
MutantCompleteAny(p) ==
    /\ Waiting(p)
    /\ job[polling[p].job] \in Ended
    /\ Update({polling[p].task}, "completed")
    /\ url' = [url EXCEPT ![polling[p].task] = TRUE]
    /\ polling' = [polling EXCEPT ![p] = [@ EXCEPT !.phase = "committed"]]
    /\ UNCHANGED <<create, request, refunds, submitVars, providerVars, polls, doomed,
                   notified, faults>>

(* Mutant of PollCommit: the client is not told.                           *)
MutantCompleteQuietly(p) ==
    /\ Waiting(p)
    /\ job[polling[p].job] = "media"
    /\ Update({polling[p].task}, "completed")
    /\ url' = [url EXCEPT ![polling[p].task] = TRUE]
    /\ polling' = [polling EXCEPT ![p] = Idle]
    /\ UNCHANGED <<create, request, refunds, submitVars, providerVars, polls, doomed,
                   notified, faults>>

PollCommit(p) ==
    /\ Waiting(p)
    /\ job[polling[p].job] = "media"
    /\ Update({polling[p].task}, "completed")
    /\ url' = [url EXCEPT ![polling[p].task] = TRUE]
    /\ polling' = [polling EXCEPT ![p] = [@ EXCEPT !.phase = "committed"]]
    /\ UNCHANGED <<create, request, refunds, submitVars, providerVars, polls, doomed,
                   notified, faults>>

PollNotify(p) ==
    /\ Committed(p)
    /\ DeliverWebhook(polling[p].task)
    /\ polling' = [polling EXCEPT ![p] = Idle]
    /\ UNCHANGED <<create, rowVars, submitVars, providerVars, polls, doomed, faults>>

(* Mutant of PollLeavesTask: a failed job is settled by the poll too, with *)
(* no look at what the webhook did while the poll waited.                  *)
MutantPollRefunds(p) ==
    /\ Waiting(p)
    /\ job[polling[p].job] = "error"
    /\ FailAndRefund({polling[p].task})
    /\ polling' = [polling EXCEPT ![p] = Idle]
    /\ UNCHANGED <<create, request, url, submitVars, providerVars, polls, doomed,
                   notified, faults>>

(* FalProvider.get_result never sets error: for a failed job it raises, and *)
(* for one without media neither branch is taken.  Nothing is written.      *)
PollLeavesTask(p) ==
    /\ Waiting(p)
    /\ job[polling[p].job] \in {"empty", "error"}
    /\ polling' = [polling EXCEPT ![p] = Idle]
    /\ UNCHANGED <<create, rowVars, submitVars, providerVars, polls, doomed, notified,
                   faults>>

(* Also after the COMMIT: the broker does not take the client's message.   *)
PollDies(p) ==
    /\ polling[p] # Idle
    /\ Fault("error") \/ Fault("worker_lost")
    /\ polling' = [polling EXCEPT ![p] = Idle]
    /\ UNCHANGED <<create, rowVars, submitVars, providerVars, polls, doomed, notified>>

-----------------------------------------------------------------------------

Submission(t) ==
    \/ SubmitMissing(t) \/ SubmitStart(t)
    \/ AttemptAccepted(t) \/ AttemptRejected(t) \/ AttemptUncaught(t)
    \/ CommitProcessing(t) \/ CommitSubmitFailed(t)

Hook(k) == HookHandled(k) \/ HookCommit(k)

PollEnds(p) == PollCommit(p) \/ PollNotify(p) \/ PollLeavesTask(p)

Next ==
    \/ \E t \in Task :
          \/ CreateTask(t) \/ DispatchFails(t) \/ CreateEnds(t)
          \/ Submission(t) \/ AttemptResponseLost(t) \/ WorkerLost(t) \/ Redelivered(t)
          \/ Age(t) \/ PollReturns(t)
          \/ \E p \in Poller : PollStart(p, t)
    \/ \E k \in Job :
          \/ JobEnds(k) \/ HookLost(k) \/ HookDuplicated(k)
          \/ Hook(k) \/ HookRollback(k)
    \/ \E m \in Monitor : MonitorScan(m) \/ MonitorCommit(m) \/ MonitorDies(m)
    \/ \E p \in Poller : PollEnds(p) \/ PollDies(p)

Spec == Init /\ [][Next]_vars

(***************************************************************************)
(* A request that was opened ends; a submission in progress goes on; the   *)
(* provider finishes its jobs and delivers what it does not give up on;    *)
(* Beat keeps starting the monitor; the clock advances; a queued poll is   *)
(* taken when slots keep becoming free (the broker's list is FIFO).        *)
(* No fairness on clients and failures.                                    *)
(***************************************************************************)
Fairness ==
    /\ \A t \in Task :
          /\ WF_vars(CreateEnds(t))
          /\ WF_vars(Submission(t))
          /\ WF_vars(Age(t))
          /\ SF_vars(PollReturns(t) \/ \E p \in Poller : PollStart(p, t))
    /\ \A k \in Job : WF_vars(JobEnds(k)) /\ WF_vars(Hook(k))
    /\ \A m \in Monitor : WF_vars(MonitorScan(m)) /\ WF_vars(MonitorCommit(m))
    /\ \A p \in Poller : WF_vars(PollEnds(p))

FairSpec == Spec /\ Fairness

-----------------------------------------------------------------------------
(* Properties that hold whatever the environment does                      *)

Jobs(t) == {k \in Job : jobTask[k] = t}

(* Nothing happens to a task whose creating transaction did not commit: it *)
(* has no job to pay for, no refund, and is never picked up by a worker    *)
(* (the message is in the broker before the COMMIT).                       *)
OnlyCommittedTasksRun ==
    \A t \in Task : create[t] # "committed" =>
        status[t] = "created" /\ refunds[t] = 0 /\ Jobs(t) = {}

(* A task in PROCESSING names a job that was submitted for it, so that a   *)
(* poll can find the result, after redeliveries, overwrites and retries.   *)
ProcessingNamesJob ==
    \A t \in Task : status[t] = "processing" => request[t] \in Jobs(t)

(* A task is COMPLETED only by a job of its own that ended without error,  *)
(* and with result_url only if one of them produced media.  The media of a *)
(* job is never overwritten by nothing, in whichever order webhooks and    *)
(* polls write the row, unless a failure has caused a second job: then the *)
(* webhook of either job overwrites the result of the other.               *)
ResultOfOwnJob ==
    \A t \in Task : status[t] = "completed" =>
        /\ \E k \in Jobs(t) : job[k] = IF url[t] THEN "media" ELSE "empty"
        /\ ~url[t] /\ faults = 0 => \A k \in Jobs(t) : job[k] # "media"

(* A FAILED task has had its tokens back, whichever of the four code paths *)
(* failed it.                                                              *)
FailedIsRefunded == \A t \in Task : status[t] = "failed" => refunds[t] > 0

(* Tokens are given back only in a transaction that also fails the task,   *)
(* one refund at a time, and a task never enters FAILED without a refund.  *)
RefundStep ==
    [][\A t \in Task :
          /\ refunds'[t] # refunds[t] =>
                refunds'[t] = refunds[t] + 1 /\ status'[t] = "failed"
          /\ status[t] # "failed" /\ status'[t] = "failed" =>
                refunds'[t] = refunds[t] + 1]_vars

(* What failures can cost, whatever they are and however they fall         *)
(* together: the message of a task gives its tokens back once, by its      *)
(* submission or its job, and once more by each monitor that overlaps; a   *)
(* failure does no more than add one message, one job or one delivery.     *)
RefundsBounded ==
    \A t \in Task : refunds[t] <= (1 + Cardinality(Monitor)) * (1 + faults)

(* The references between rows, jobs and processes: whatever is named as a *)
(* task's job was submitted for that task, a webhook belongs to a job that *)
(* has ended, and no process works on an uncommitted task.  Together with  *)
(* the type invariant and the first four above this is inductive.          *)
Linked ==
    /\ \A k \in Job :
          /\ jobTask[k] = Null <=> job[k] = "none"
          /\ hook[k] # "none" <=> job[k] \in Ended
    /\ \A t \in Task :
          /\ submit[t] = "accepted" => reply[t] \in Jobs(t)
          /\ request[t] # Null => request[t] \in Jobs(t)
          /\ create[t] # "committed" => submit[t] \notin Running
    /\ \A p \in Poller : polling[p] # Idle => polling[p].job \in Jobs(polling[p].task)
    /\ \A m \in Monitor : \A t \in doomed[m] : create[t] = "committed"

-----------------------------------------------------------------------------
(* Properties of a benign environment: every message is handled once, a    *)
(* webhook does not overtake the submission that causes it, submissions    *)
(* take less than five minutes, and the monitor does not overlap itself.   *)

Benign ==
    /\ Hazards \subseteq {"early_delivery", "error", "hook_lost"}
    /\ \A m, n \in Monitor : m = n

(* A charge is settled once: no task is refunded twice, and none is both   *)
(* refunded and completed, nor refunded while its job still runs.          *)
SettledOnce ==
    \A t \in Task :
        /\ refunds[t] <= 1
        /\ refunds[t] = 1 =>
              status[t] = "failed" /\ \A k \in Jobs(t) : job[k] = "error"

(* How far row, submission and job of a task can be apart.  In words: a    *)
(* task has at most one job, which exists only once the submission was     *)
(* accepted; the row is QUEUED with a fresh updated_at as long as the      *)
(* submission runs; once it is done the row names the job, and only a row  *)
(* without a job can be doomed by the monitor; a FAILED row was refunded   *)
(* once and no webhook of its job is still to come.  This is the inductive *)
(* strengthening of SettledOnce.                                           *)
InStep(t) ==
    /\ \A k, l \in Jobs(t) : k = l
    /\ Jobs(t) # {} => submit[t] \in {"accepted", "done"}
    /\ submit[t] \in {"none", "sent"} => status[t] = "created"
    /\ submit[t] \in Running => status[t] = "queued" /\ ~stale[t] /\ request[t] = Null
    /\ submit[t] = "done" =>
          \/ Jobs(t) = {} /\ status[t] \in {"created", "queued", "failed"}
          \/ request[t] \in Jobs(t) /\ status[t] \in {"processing", "completed", "failed"}
    /\ refunds[t] = IF status[t] = "failed" THEN 1 ELSE 0
    /\ \A k \in Jobs(t) :
          /\ status[t] = "failed" => job[k] = "error" /\ hook[k] = "done"
          /\ hook[k] = "open" => submit[t] = "done"

BenignInv ==
    /\ \A t \in Task : InStep(t)
    /\ \A m \in Monitor : \A t \in doomed[m] :
          submit[t] = "done" /\ Jobs(t) = {} /\ status[t] = "queued"
    /\ \A p \in Poller : polling[p] # Idle => submit[polling[p].task] = "done"

(* The client of a task with a callback_url is told how its job came out.  *)
(* That it failed is queued before it is committed.  That it is COMPLETED  *)
(* is queued, or will be by a poll or a webhook; for it to be kept from the*)
(* client, Fal.ai must give up on the webhook and a poll must end between  *)
(* its COMMIT and its message.  (A task that fails without a job is never  *)
(* announced: neither the submission nor the monitor queues a message.)    *)
Announced(t) ==
    \/ notified[t]
    \/ \E p \in Poller : Committed(p) /\ polling[p].task = t
    \/ \E k \in Jobs(t) : hook[k] = "sent"

OutcomeIsAnnounced ==
    \A t \in WithCallback :
        /\ status[t] = "failed" /\ Jobs(t) # {} => notified[t]
        /\ status[t] = "completed" => Announced(t) \/ faults >= 2

(* README's life cycle, with exactly one refund on the way to FAILED.      *)
Contract == INSTANCE TaskContract
    WITH state <- [t \in Task |-> IF create[t] = "committed" THEN status[t]
                                                             ELSE "absent"]

ContractSpec == Contract!Spec

-----------------------------------------------------------------------------
(* Liveness                                                                *)

(* The two states in which a committed task can stay for ever: its message *)
(* was spent before the row was visible to a worker (the monitor does not  *)
(* look at CREATED), or its row names a job that ended without media and   *)
(* whose webhook will not come (a poll writes nothing then, and the        *)
(* monitor does no more than poll, even if a redelivered message has put   *)
(* the task back to QUEUED).                                               *)
Stranded(t) ==
    /\ submit[t] = "done"
    /\ \/ status[t] = "created"
       \/ /\ status[t] \in {"queued", "processing"}
          /\ request[t] # Null
          /\ job[request[t]] \in {"empty", "error"}
          /\ hook[request[t]] = "done"

(* Every other committed task is brought to COMPLETED or FAILED by the     *)
(* submission, the webhook, or the monitor and its polls, whatever fails   *)
(* on the way.                                                             *)
SettlesOrStranded ==
    \A t \in Task :
        create[t] = "committed" ~> status[t] \in Terminal \/ Stranded(t)

(* A committed task is picked up by a worker: it leaves CREATED.           *)
PickedUp == \A t \in Task : create[t] = "committed" ~> status[t] # "created"

(* A task whose only job fails at the provider gets its tokens back.       *)
ErrorIsRefunded ==
    \A t \in Task, k \in Job :
        job[k] = "error" /\ jobTask[k] = t ~> refunds[t] > 0

=============================================================================
