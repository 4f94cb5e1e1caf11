------------------------------- MODULE WorkerPool -------------------------------
(***************************************************************************)
(* The Celery worker as a whole: one FIFO list of messages, a few slots,   *)
(* Beat, and the row locks that the transactions of the monitor and of the *)
(* webhooks take one after another.                                        *)
(*                                                                         *)
(* Generation looks at one task and gives each process a slot of its own.  *)
(* Here tasks compete: polls wait in the slots that submissions need, the  *)
(* monitor looks at the oldest limit rows only, and PostgreSQL aborts one  *)
(* of the transactions that wait for each other.  A task has one job here, *)
(* and redelivery, repeated webhooks and other exceptions are Generation's.*)
(***************************************************************************)
EXTENDS Naturals, Sequences, FiniteSets

CONSTANTS
    Tasks,          \* how many tasks clients create
    User,
    Owner,          \* the user who is refunded
    Slot,           \* pool processes: celery worker --concurrency
    Limits,         \* the values tried for list_stuck's limit
    MaxBacklog      \* bound: Beat waits while more messages are queued

(* Tasks are numbered in the order they are created.                       *)
Task == 1..Tasks

ASSUME WorkerPoolAssumption ==
    /\ Tasks \in Nat
    /\ Owner \in [Task -> User]
    /\ Slot \cap Task = {}
    /\ Limits \subseteq Nat \ {0}
    /\ MaxBacklog \in Nat

VARIABLES
    queue,      \* the Redis list
    slot,       \* what a pool process executes
    status,     \* Task.status: QUEUED and PROCESSING are "open"
    updated,    \* Task.updated_at: how many rows were submitted by then, or 0
    horizon,    \* rows that were updated until then are older than five minutes
    known,      \* the rows with a fal_request_id
    job,        \* the job of a task at Fal.ai
    hook,       \* its webhook; "open": its transaction has locked the task's row
    limit       \* rows the monitor reads: limit of list_stuck, which never changes

rowVars == <<status, updated, horizon>>
vars == <<queue, slot, rowVars, known, job, hook, limit>>

Message == [run : {"submit", "poll"}, task : Task] \cup {[run |-> "scan"]}
Idle == [run |-> "none"]

TypeOK ==
    /\ queue \in Seq(Message)
    /\ slot \in [Slot -> {Idle} \cup [run : {"poll"}, task : Task]
                         \cup [run : {"scan"}, todo : SUBSET Task,
                               failed : SUBSET Task, refunded : SUBSET Task]]
    /\ status \in [Task -> {"new", "created", "open", "settled"}]
    /\ updated \in [Task -> 0..Tasks]
    /\ horizon \in 0..Tasks
    /\ known \in SUBSET Task
    /\ job \in [Task -> {"none", "running", "media", "error"}]
    /\ hook \in [Task -> {"none", "sent", "open", "done"}]
    /\ limit \in Limits

Init ==
    /\ queue = <<>>
    /\ slot = [s \in Slot |-> Idle]
    /\ status = [t \in Task |-> "new"]
    /\ updated = [t \in Task |-> 0]
    /\ horizon = 0
    /\ known = {}
    /\ job = [t \in Task |-> "none"]
    /\ hook = [t \in Task |-> "none"]
    /\ limit \in Limits

-----------------------------------------------------------------------------
(* Helpers *)

Delay(run, t) == queue' = Append(queue, [run |-> run, task |-> t])
Assign(s, x) == slot' = [slot EXCEPT ![s] = x]

Open == {t \in Task : status[t] = "open"}
Clock == Cardinality({t \in Task : updated[t] # 0})

(* A COMMIT that brings tasks to COMPLETED or FAILED, whatever they were.   *)
Settle(ts) ==
    /\ status' = [t \in Task |-> IF t \in ts THEN "settled" ELSE status[t]]
    /\ UNCHANGED <<updated, horizon>>

Before(t, u) == updated[t] < updated[u]
Stuck == {t \in Open : updated[t] <= horizon}

(* Mutant of ListStuck: the youngest rows are read.                        *)
MutantNewest == {t \in Stuck : Cardinality({u \in Stuck : Before(t, u)}) < limit}

(* task_repo.list_stuck: the first limit rows by updated_at.               *)
ListStuck == {t \in Stuck : Cardinality({u \in Stuck : Before(u, t)}) < limit}

(* Mutant of First: no ORDER BY.                                           *)
MutantAny(ts, t) == t \in ts

(* The row of ts that comes first.                                         *)
First(ts, t) == t \in ts /\ \A u \in ts \ {t} : Before(t, u)

-----------------------------------------------------------------------------
(* Row locks: an UPDATE holds its row until the transaction ends.          *)

Scanning(s) == slot[s].run = "scan"

(* The row that a scan updates next: the user it has yet to refund, or the *)
(* next task that was never submitted.                                     *)
Unpaid(s) == slot[s].failed \ slot[s].refunded
WantsUser(s, u) == Scanning(s) /\ u \in {Owner[t] : t \in Unpaid(s)}
WantsTask(s, t) ==
    /\ Scanning(s) /\ Unpaid(s) = {}
    /\ First(slot[s].todo, t) /\ t \notin known

HoldsTask(x, t) ==
    \/ x \in Slot /\ Scanning(x) /\ t \in slot[x].failed
    \/ x = t /\ hook[t] = "open"
HoldsUser(s, u) == Scanning(s) /\ u \in {Owner[t] : t \in slot[s].refunded}

TaskFree(t, x) == \A y \in (Slot \cup Task) \ {x} : ~HoldsTask(y, t)
UserFree(u, x) == \A y \in Slot \ {x} : ~HoldsUser(y, u)

(* Transaction x, of a scan or of the webhook of a task, waits for y.      *)
WaitsFor(x, y) ==
    /\ x # y
    /\ \/ x \in Slot /\ \E t \in Task : WantsTask(x, t) /\ HoldsTask(y, t)
       \/ x \in Slot /\ y \in Slot /\ \E u \in User : WantsUser(x, u) /\ HoldsUser(y, u)
       \/ x \in Task /\ y \in Slot /\ hook[x] = "open" /\ HoldsUser(y, Owner[x])

Deadlocked(xs) ==
    /\ xs # {}
    /\ \A x \in xs : \E y \in xs : WaitsFor(x, y)
    /\ \A x \in xs : \E y \in xs : WaitsFor(y, x)

InDeadlock(x) ==
    /\ \E y \in Slot \cup Task : WaitsFor(x, y)
    /\ \E xs \in SUBSET (Slot \cup Task) : x \in xs /\ Deadlocked(xs)

-----------------------------------------------------------------------------
(* Clients, Beat and the clock                                             *)

CreateTask(t) ==
    /\ status[t] = "new" /\ \A u \in 1..(t - 1) : status[u] # "new"
    /\ status' = [status EXCEPT ![t] = "created"]
    /\ Delay("submit", t)
    /\ UNCHANGED <<slot, updated, horizon, known, limit, job, hook>>

BeatTicks ==
    /\ Len(queue) <= MaxBacklog
    /\ queue' = Append(queue, [run |-> "scan"])
    /\ UNCHANGED <<slot, rowVars, known, limit, job, hook>>

(* Mutant of Age: a row is old before it was written.                      *)
MutantAge ==
    /\ horizon <= Clock
    /\ horizon' = horizon + 1
    /\ UNCHANGED <<queue, slot, status, updated, known, limit, job, hook>>

(* The next row is five minutes old.                                       *)
Age ==
    /\ horizon < Clock
    /\ horizon' = horizon + 1
    /\ UNCHANGED <<queue, slot, status, updated, known, limit, job, hook>>

-----------------------------------------------------------------------------
(* The pool                                                                *)

(* The pool processes are alike: one of the idle ones takes the message.    *)
Takes(s, run) ==
    /\ slot[s] = Idle
    /\ s = CHOOSE i \in Slot : slot[i] = Idle
    /\ queue # <<>>
    /\ Head(queue).run = run
    /\ queue' = Tail(queue)

(* A submission is quick: it is one step.  Fal.ai accepts a job, and its   *)
(* id is stored or the response is lost; or there is no job, and the row   *)
(* is failed and refunded or, after an uncaught exception, left QUEUED.    *)
Submit(s) ==
    /\ Takes(s, "submit")
    /\ LET t == Head(queue).task IN
       \/ /\ status' = [status EXCEPT ![t] = "open"]
          /\ updated' = [updated EXCEPT ![t] = Clock + 1]
          /\ \E j \in {"none", "running"} : job' = [job EXCEPT ![t] = j]
          /\ \/ UNCHANGED known
             \/ job'[t] = "running" /\ known' = known \cup {t}
       \/ /\ UserFree(Owner[t], s)
          /\ status' = [status EXCEPT ![t] = "settled"]
          /\ UNCHANGED <<updated, known, job>>
    /\ UNCHANGED <<slot, horizon, hook, limit>>

(* A poll returns at once if the task has ended ...                        *)
PollStarts(s) ==
    /\ Takes(s, "poll")
    /\ \/ Head(queue).task \in Open /\ Assign(s, Head(queue))
       \/ Head(queue).task \notin Open /\ UNCHANGED slot
    /\ UNCHANGED <<rowVars, known, limit, job, hook>>

(* ... or keeps its slot until the job has: get_result.  Only media settle.*)
PollReturns(s) ==
    /\ slot[s].run = "poll"
    /\ \/ job[slot[s].task] = "media" /\ Settle({slot[s].task})
       \/ job[slot[s].task] = "error" /\ UNCHANGED rowVars
    /\ Assign(s, Idle)
    /\ UNCHANGED <<queue, known, limit, job, hook>>

-----------------------------------------------------------------------------
(* generation.check_stuck, row by row in one transaction                   *)

ScanStarts(s) ==
    /\ Takes(s, "scan")
    /\ Assign(s, [run |-> "scan", todo |-> ListStuck, failed |-> {}, refunded |-> {}])
    /\ UNCHANGED <<rowVars, known, limit, job, hook>>

(* poll_task_status.delay is not undone by a rollback.                     *)
ScanPolls(s) ==
    /\ Scanning(s) /\ Unpaid(s) = {}
    /\ \E t \in known :
          /\ First(slot[s].todo, t)
          /\ Delay("poll", t)
          /\ Assign(s, [slot[s] EXCEPT !.todo = @ \ {t}])
    /\ UNCHANGED <<rowVars, known, limit, job, hook>>

ScanFails(s) ==
    /\ \E t \in Task :
          /\ WantsTask(s, t)
          /\ TaskFree(t, s)
          /\ Assign(s, [slot[s] EXCEPT !.todo = @ \ {t}, !.failed = @ \cup {t}])
    /\ UNCHANGED <<queue, rowVars, known, limit, job, hook>>

ScanRefunds(s) ==
    /\ \E u \in User : WantsUser(s, u) /\ UserFree(u, s)
    /\ Assign(s, [slot[s] EXCEPT !.refunded = slot[s].failed])
    /\ UNCHANGED <<queue, rowVars, known, limit, job, hook>>

ScanCommits(s) ==
    /\ Scanning(s) /\ Unpaid(s) = {} /\ slot[s].todo = {}
    /\ Settle(slot[s].failed)
    /\ Assign(s, Idle)
    /\ UNCHANGED <<queue, known, limit, job, hook>>

(* The victim of a deadlock loses the whole batch; the message is spent.   *)
ScanAborted(s) ==
    /\ Scanning(s)
    /\ InDeadlock(s)
    /\ Assign(s, Idle)
    /\ UNCHANGED <<queue, rowVars, known, limit, job, hook>>

-----------------------------------------------------------------------------
(* Fal.ai (external) and its webhook                                       *)

JobEnds(t) ==
    /\ job[t] = "running"
    /\ \E o \in {"media", "error"} : job' = [job EXCEPT ![t] = o]
    /\ \E h \in {"sent", "done"} : hook' = [hook EXCEPT ![t] = h]
    /\ UNCHANGED <<queue, slot, rowVars, known, limit>>

(* Media: one UPDATE and the COMMIT.  Error: the user's row comes next.    *)
HookLocks(t) ==
    /\ hook[t] = "sent"
    /\ TaskFree(t, t)
    /\ \/ job[t] = "media" /\ Settle({t}) /\ hook' = [hook EXCEPT ![t] = "done"]
       \/ job[t] = "error" /\ UNCHANGED rowVars /\ hook' = [hook EXCEPT ![t] = "open"]
    /\ UNCHANGED <<queue, slot, known, limit, job>>

HookRefunds(t) ==
    /\ hook[t] = "open"
    /\ UserFree(Owner[t], t)
    /\ Settle({t})
    /\ hook' = [hook EXCEPT ![t] = "done"]
    /\ UNCHANGED <<queue, slot, known, limit, job>>

(* 500: Fal.ai delivers it again.                                          *)
HookAborted(t) ==
    /\ hook[t] = "open"
    /\ InDeadlock(t)
    /\ hook' = [hook EXCEPT ![t] = "sent"]
    /\ UNCHANGED <<queue, slot, rowVars, known, limit, job>>

-----------------------------------------------------------------------------

Take(s) == Submit(s) \/ PollStarts(s) \/ ScanStarts(s)

Runs(s) ==
    PollReturns(s) \/ ScanPolls(s) \/ ScanFails(s) \/ ScanRefunds(s) \/ ScanCommits(s)

Next ==
    \/ \E t \in Task :
          \/ CreateTask(t) \/ JobEnds(t)
          \/ HookLocks(t) \/ HookRefunds(t) \/ HookAborted(t)
    \/ \E s \in Slot : Take(s) \/ Runs(s) \/ ScanAborted(s)
    \/ BeatTicks
    \/ Age

(***************************************************************************)
(* Beat, the clock, the provider and the pool go on.  PostgreSQL breaks    *)
(* every deadlock and hands a row to whoever waits for it, so that a       *)
(* transaction is not overtaken for ever: strong fairness.                 *)
(***************************************************************************)
Fairness ==
    /\ WF_vars(BeatTicks) /\ WF_vars(Age)
    /\ WF_vars(\E s \in Slot : Take(s))
    /\ \A s \in Slot : WF_vars(Runs(s)) /\ SF_vars(ScanFails(s))
    /\ \A t \in Task : WF_vars(JobEnds(t) \/ HookLocks(t)) /\ SF_vars(HookRefunds(t))
    /\ WF_vars(\E s \in Slot : ScanAborted(s) \/ \E t \in Task : HookAborted(t))

Spec == Init /\ [][Next]_vars
FairSpec == Spec /\ Fairness

-----------------------------------------------------------------------------
(* Properties                                                              *)

(* A job that ended without media and whose webhook is lost: its row stays *)
(* in the list and in front of younger ones, since no poll touches it.     *)
Dead(t) == t \in known /\ job[t] = "error" /\ hook[t] = "done"

Hidden(t) == t \in Open /\ Cardinality({u \in Open : Dead(u) /\ Before(u, t)}) >= limit

(* Tasks are numbered and finite, so that in the end every task that was   *)
(* created is settled: taken from the queue, although polls of slow jobs   *)
(* wait in the slots and Beat keeps adding to it, and then ended by its job*)
(* or by the monitor, however locks and deadlocks fall -- unless its own   *)
(* job is dead, or as many dead rows as the monitor reads hide it.         *)
EveryTaskEnds ==
    []<>(\A t \in Task : status[t] \in {"created", "open"} => Dead(t) \/ Hidden(t))

(* Two monitors take their locks in the order of updated_at.  They can     *)
(* only deadlock when a row that one of them has locked was settled after  *)
(* it had read the list, so that the other no longer saw it.               *)
MonitorsLockInOrder ==
    \A ss \in SUBSET Slot : Deadlocked(ss) =>
        \E s \in ss : \E t \in slot[s].failed : status[t] = "settled"

=============================================================================
