--------------------------- MODULE GenerationProofs ---------------------------
(* What Generation guarantees for every set of tasks, jobs, monitors and   *)
(* polls, every bound, and every set of hazards.                           *)
EXTENDS Generation, FiniteSetTheorems, TLAPS

USE DEF AllOutcomes, Status, Terminal, Ended, Running

(* What task_repo.update and refund_balance do to the rows of Task.        *)
LEMMA UpdateType ==
    ASSUME TypeOK, NEW ts, NEW s \in Status, Update(ts, s)
    PROVE  status' \in [Task -> Status] /\ stale' \in [Task -> BOOLEAN]
<1>1. status' \in [Task -> Status]
  BY DEF TypeOK, Update
<1>2. stale' \in [Task -> BOOLEAN]
  BY Zenon DEF TypeOK, Update
<1> QED
  BY <1>1, <1>2

LEMMA SetOne ==
    ASSUME NEW S, NEW V, NEW f \in [S -> V], NEW x \in S, NEW v, NEW g,
           g = [f EXCEPT ![x] = v]
    PROVE  g[x] = v /\ \A y \in S : y # x => g[y] = f[y]
  OBVIOUS

LEMMA RefundType ==
    ASSUME TypeOK, NEW ts, RefundBalance(ts)
    PROVE  refunds' \in [Task -> Nat]
  BY DEF TypeOK, RefundBalance

(* Every variable keeps its type, whatever the environment does.           *)
THEOREM TypeCorrect == Spec => []TypeOK
<1>1. Init => TypeOK
  BY GenerationAssumption DEF Init, TypeOK, Idle
<1>2. TypeOK /\ [Next]_vars => TypeOK'
  <2> SUFFICES ASSUME TypeOK, [Next]_vars PROVE TypeOK'
    OBVIOUS
  <2> USE GenerationAssumption DEF TypeOK
  <2>1. ASSUME NEW t \in Task, CreateTask(t) PROVE TypeOK'
    BY <2>1 DEF CreateTask, rowVars, providerVars, pollVars
  <2>2. ASSUME NEW t \in Task, DispatchFails(t) PROVE TypeOK'
    BY <2>2 DEF DispatchFails, rowVars, submitVars, providerVars, pollVars
  <2>3. ASSUME NEW t \in Task, CreateEnds(t) PROVE TypeOK'
    BY <2>3 DEF CreateEnds, rowVars, submitVars, providerVars, pollVars
  <2>4. ASSUME NEW t \in Task, SubmitMissing(t) PROVE TypeOK'
    BY <2>4 DEF SubmitMissing, rowVars, providerVars, pollVars
  <2>5. ASSUME NEW t \in Task, SubmitStart(t) PROVE TypeOK'
    BY <2>5, UpdateType DEF SubmitStart, providerVars, pollVars
  <2>6. ASSUME NEW t \in Task, AttemptAccepted(t) PROVE TypeOK'
    BY <2>6 DEF AttemptAccepted, Accept, rowVars, pollVars
  <2>7. ASSUME NEW t \in Task, AttemptRejected(t) PROVE TypeOK'
    BY <2>7 DEF AttemptRejected, NextAttempt, rowVars, providerVars, pollVars
  <2>8. ASSUME NEW t \in Task, AttemptUncaught(t) PROVE TypeOK'
    BY <2>8 DEF AttemptUncaught, rowVars, providerVars, pollVars
  <2>9. ASSUME NEW t \in Task, AttemptResponseLost(t) PROVE TypeOK'
    BY <2>9 DEF AttemptResponseLost, Accept, NextAttempt, Fault, rowVars, pollVars
  <2>10. ASSUME NEW t \in Task, CommitProcessing(t) PROVE TypeOK'
    BY <2>10, UpdateType DEF CommitProcessing, providerVars, pollVars
  <2>11. ASSUME NEW t \in Task, CommitSubmitFailed(t) PROVE TypeOK'
    BY <2>11, UpdateType, RefundType DEF CommitSubmitFailed, FailAndRefund,
       providerVars, pollVars
  <2>12. ASSUME NEW t \in Task, WorkerLost(t) PROVE TypeOK'
    BY <2>12 DEF WorkerLost, Fault, rowVars, providerVars, pollVars
  <2>13. ASSUME NEW t \in Task, Redelivered(t) PROVE TypeOK'
    BY <2>13 DEF Redelivered, Fault, rowVars, providerVars, pollVars
  <2>14. ASSUME NEW k \in Job, JobEnds(k) PROVE TypeOK'
    BY <2>14 DEF JobEnds, rowVars, submitVars, pollVars
  <2>15. ASSUME NEW k \in Job, HookLost(k) PROVE TypeOK'
    BY <2>15 DEF HookLost, Fault, rowVars, submitVars, pollVars
  <2>16. ASSUME NEW k \in Job, HookDuplicated(k) PROVE TypeOK'
    BY <2>16 DEF HookDuplicated, Fault, rowVars, submitVars, pollVars
  <2>17. ASSUME NEW k \in Job, HookHandled(k) PROVE TypeOK'
    BY <2>17 DEF HookHandled, DeliverWebhook, rowVars, submitVars, pollVars
  <2>18. ASSUME NEW k \in Job, HookCommit(k) PROVE TypeOK'
    <3>1. url' \in [Task -> BOOLEAN]
      <4>1. CASE UNCHANGED url
        BY <4>1
      <4>2. CASE url' = [url EXCEPT ![jobTask[k]] = job[k] = "media"]
        BY <4>2, Zenon
      <4> QED
        BY <2>18, <4>1, <4>2 DEF HookCommit
    <3>2. status' \in [Task -> Status] /\ stale' \in [Task -> BOOLEAN]
      BY <2>18, UpdateType DEF HookCommit, FailAndRefund
    <3>3. refunds' \in [Task -> Nat]
      BY <2>18, RefundType DEF HookCommit, FailAndRefund
    <3> QED
      BY <2>18, <3>1, <3>2, <3>3 DEF HookCommit, submitVars, pollVars
  <2>19. ASSUME NEW k \in Job, HookRollback(k) PROVE TypeOK'
    BY <2>19 DEF HookRollback, Fault, rowVars, submitVars, pollVars
  <2>20. ASSUME NEW t \in Task, Age(t) PROVE TypeOK'
    BY <2>20 DEF Age, submitVars, providerVars, pollVars
  <2>21. ASSUME NEW m \in Monitor, MonitorScan(m) PROVE TypeOK'
    BY <2>21 DEF MonitorScan, Stuck, ToPoll, rowVars, submitVars, providerVars
  <2>22. ASSUME NEW m \in Monitor, MonitorCommit(m) PROVE TypeOK'
    BY <2>22, UpdateType, RefundType DEF MonitorCommit, FailAndRefund, submitVars,
       providerVars, pollVars
  <2>23. ASSUME NEW m \in Monitor, MonitorDies(m) PROVE TypeOK'
    BY <2>23 DEF MonitorDies, Fault, rowVars, submitVars, providerVars, pollVars
  <2>24. ASSUME NEW t \in Task, PollReturns(t) PROVE TypeOK'
    BY <2>24 DEF PollReturns, TakePoll, rowVars, submitVars, providerVars
  <2>25. ASSUME NEW p \in Poller, NEW t \in Task, PollStart(p, t) PROVE TypeOK'
    BY <2>25 DEF PollStart, TakePoll, Poll, rowVars, submitVars, providerVars
  <2>26. ASSUME NEW p \in Poller, PollCommit(p) PROVE TypeOK'
    BY <2>26, UpdateType DEF PollCommit, Waiting, Poll, Idle, submitVars, providerVars
  <2>27. ASSUME NEW p \in Poller, PollNotify(p) PROVE TypeOK'
    BY <2>27 DEF PollNotify, DeliverWebhook, rowVars, submitVars, providerVars
  <2>28. ASSUME NEW p \in Poller, PollLeavesTask(p) PROVE TypeOK'
    BY <2>28 DEF PollLeavesTask, rowVars, submitVars, providerVars
  <2>29. ASSUME NEW p \in Poller, PollDies(p) PROVE TypeOK'
    BY <2>29 DEF PollDies, Fault, rowVars, submitVars, providerVars
  <2>30. CASE UNCHANGED vars
    BY <2>30 DEF vars, rowVars, submitVars, providerVars, pollVars
  <2> QED
    BY <2>1, <2>2, <2>3, <2>4, <2>5, <2>6, <2>7, <2>8, <2>9, <2>10, <2>11, <2>12,
       <2>13, <2>14, <2>15, <2>16, <2>17, <2>18, <2>19, <2>20, <2>21, <2>22, <2>23,
       <2>24, <2>25, <2>26, <2>27, <2>28, <2>29, <2>30
    DEF Next, Submission, Hook, PollEnds
<1> QED
  BY <1>1, <1>2, PTL DEF Spec

(* Nothing runs for an uncommitted task, and every reference names a job   *)
(* that was submitted for the task it is used for.                         *)
THEOREM LinksHold == Spec => [](OnlyCommittedTasksRun /\ Linked)
<1> DEFINE Inv == OnlyCommittedTasksRun /\ Linked
<1>1. Init => Inv
  BY GenerationAssumption DEF Init, OnlyCommittedTasksRun, Linked, Jobs, Idle
<1>2. TypeOK /\ TypeOK' /\ Inv /\ [Next]_vars => Inv'
  <2> SUFFICES ASSUME TypeOK, TypeOK', Inv, [Next]_vars PROVE Inv'
    OBVIOUS
  <2> USE GenerationAssumption DEF TypeOK, OnlyCommittedTasksRun, Linked, Jobs
  <2>1. ASSUME NEW t \in Task, CreateTask(t) PROVE Inv'
    BY <2>1 DEF CreateTask, rowVars, providerVars, pollVars
  <2>2. ASSUME NEW t \in Task, DispatchFails(t) PROVE Inv'
    BY <2>2 DEF DispatchFails, rowVars, submitVars, providerVars, pollVars
  <2>3. ASSUME NEW t \in Task, CreateEnds(t) PROVE Inv'
    BY <2>3 DEF CreateEnds, rowVars, submitVars, providerVars, pollVars
  <2>4. ASSUME NEW t \in Task, SubmitMissing(t) PROVE Inv'
    BY <2>4 DEF SubmitMissing, rowVars, providerVars, pollVars
  <2>5. ASSUME NEW t \in Task, SubmitStart(t) PROVE Inv'
    <3>1. \A u \in Task : u # t => status'[u] = status[u]
      BY <2>5 DEF SubmitStart, Update
    <3>2. OnlyCommittedTasksRun'
      BY <2>5, <3>1 DEF SubmitStart, providerVars
    <3>3. Linked'
      BY <2>5 DEF SubmitStart, providerVars, pollVars
    <3> QED
      BY <3>2, <3>3
  <2>6. ASSUME NEW t \in Task, AttemptAccepted(t) PROVE Inv'
    <3>1. PICK k \in Job : Accept(t, k) /\ reply' = [reply EXCEPT ![t] = k]
      BY <2>6 DEF AttemptAccepted
    <3>2. create[t] = "committed"
      BY <2>6 DEF AttemptAccepted
    <3>3. \A u \in Task : Jobs(u)' = IF u = t THEN Jobs(u) \cup {k} ELSE Jobs(u)
      BY <3>1 DEF Accept
    <3>4. OnlyCommittedTasksRun'
      BY <2>6, <3>2, <3>3 DEF AttemptAccepted, rowVars
    <3>5. \A l \in Job : /\ (jobTask[l] = Null <=> job[l] = "none")'
                         /\ (hook[l] # "none" <=> job[l] \in Ended)'
      BY <3>1 DEF Accept
    <3>6. \A u \in Task : /\ submit'[u] = "accepted" => reply'[u] \in Jobs(u)'
                          /\ create'[u] # "committed" => submit'[u] \notin Running
      BY <2>6, <3>1, <3>2, <3>3 DEF AttemptAccepted
    <3>7. \A u \in Task : \A l \in Jobs(u) : l \in Jobs(u)'
      BY <3>3
    <3>8. \A u \in Task : request'[u] # Null => request'[u] \in Jobs(u)'
      BY <2>6, <3>7 DEF AttemptAccepted, rowVars
    <3>9. \A p \in Poller : (polling[p] # Idle => polling[p].job \in Jobs(polling[p].task))'
      BY <2>6, <3>7 DEF AttemptAccepted, pollVars, Poll
    <3>10. \A m \in Monitor : \A u \in doomed'[m] : create'[u] = "committed"
      BY <2>6 DEF AttemptAccepted
    <3> QED
      BY <3>4, <3>5, <3>6, <3>8, <3>9, <3>10
  <2>7. ASSUME NEW t \in Task, AttemptRejected(t) PROVE Inv'
    BY <2>7 DEF AttemptRejected, NextAttempt, rowVars, providerVars, pollVars
  <2>8. ASSUME NEW t \in Task, AttemptUncaught(t) PROVE Inv'
    BY <2>8 DEF AttemptUncaught, rowVars, providerVars, pollVars
  <2>9. ASSUME NEW t \in Task, AttemptResponseLost(t) PROVE Inv'
    <3>1. PICK k \in Job : Accept(t, k)
      BY <2>9 DEF AttemptResponseLost
    <3>2. create[t] = "committed"
      BY <2>9 DEF AttemptResponseLost
    <3>3. \A u \in Task : Jobs(u)' = IF u = t THEN Jobs(u) \cup {k} ELSE Jobs(u)
      BY <3>1 DEF Accept
    <3>4. OnlyCommittedTasksRun'
      BY <2>9, <3>2, <3>3 DEF AttemptResponseLost, rowVars
    <3>5. \A l \in Job : /\ (jobTask[l] = Null <=> job[l] = "none")'
                         /\ (hook[l] # "none" <=> job[l] \in Ended)'
      BY <3>1 DEF Accept
    <3>6. \A u \in Task : /\ submit'[u] = "accepted" => reply'[u] \in Jobs(u)'
                          /\ create'[u] # "committed" => submit'[u] \notin Running
      BY <2>9, <3>2, <3>3 DEF AttemptResponseLost, NextAttempt
    <3>7. \A u \in Task : \A l \in Jobs(u) : l \in Jobs(u)'
      BY <3>3
    <3>8. \A u \in Task : request'[u] # Null => request'[u] \in Jobs(u)'
      BY <2>9, <3>7 DEF AttemptResponseLost, rowVars
    <3>9. \A p \in Poller : (polling[p] # Idle => polling[p].job \in Jobs(polling[p].task))'
      BY <2>9, <3>7 DEF AttemptResponseLost, pollVars, Poll
    <3>10. \A m \in Monitor : \A u \in doomed'[m] : create'[u] = "committed"
      BY <2>9 DEF AttemptResponseLost
    <3> QED
      BY <3>4, <3>5, <3>6, <3>8, <3>9, <3>10
  <2>10. ASSUME NEW t \in Task, CommitProcessing(t) PROVE Inv'
    <3>1. \A u \in Task : u # t => status'[u] = status[u]
      BY <2>10 DEF CommitProcessing, Update
    <3>3. OnlyCommittedTasksRun'
      BY <2>10, <3>1 DEF CommitProcessing, providerVars
    <3>4. Linked'
      BY <2>10 DEF CommitProcessing, providerVars, pollVars
    <3> QED
      BY <3>3, <3>4
  <2>11. ASSUME NEW t \in Task, CommitSubmitFailed(t) PROVE Inv'
    <3>1. \A u \in Task : u # t => status'[u] = status[u]
      BY <2>11 DEF CommitSubmitFailed, FailAndRefund, Update
    <3>2. \A u \in Task : u # t => refunds'[u] = refunds[u]
      BY <2>11 DEF CommitSubmitFailed, FailAndRefund, RefundBalance
    <3>3. OnlyCommittedTasksRun'
      BY <2>11, <3>1, <3>2 DEF CommitSubmitFailed, providerVars
    <3>4. Linked'
      BY <2>11 DEF CommitSubmitFailed, providerVars, pollVars
    <3> QED
      BY <3>3, <3>4
  <2>12. ASSUME NEW t \in Task, WorkerLost(t) PROVE Inv'
    BY <2>12 DEF WorkerLost, rowVars, providerVars, pollVars
  <2>13. ASSUME NEW t \in Task, Redelivered(t) PROVE Inv'
    BY <2>13 DEF Redelivered, rowVars, providerVars, pollVars
  <2>14. ASSUME NEW k \in Job, JobEnds(k) PROVE Inv'
    BY <2>14 DEF JobEnds, rowVars, submitVars, pollVars
  <2>15. ASSUME NEW k \in Job, HookLost(k) PROVE Inv'
    BY <2>15 DEF HookLost, rowVars, submitVars, pollVars
  <2>16. ASSUME NEW k \in Job, HookDuplicated(k) PROVE Inv'
    BY <2>16 DEF HookDuplicated, rowVars, submitVars, pollVars
  <2>17. ASSUME NEW k \in Job, HookHandled(k) PROVE Inv'
    BY <2>17 DEF HookHandled, rowVars, submitVars, pollVars
  <2>18. ASSUME NEW k \in Job, HookCommit(k) PROVE Inv'
    <3>1. jobTask[k] \in Task /\ create[jobTask[k]] = "committed"
      BY <2>18 DEF HookCommit
    <3>2. \A u \in Task : u # jobTask[k] => status'[u] = status[u]
      <4>1. PICK s \in Status : Update({jobTask[k]}, s)
        BY <2>18 DEF HookCommit, FailAndRefund
      <4> QED
        BY <4>1 DEF Update
    <3>3. \A u \in Task : u # jobTask[k] => refunds'[u] = refunds[u]
      BY <2>18 DEF HookCommit, FailAndRefund, RefundBalance
    <3>4. OnlyCommittedTasksRun'
      BY <2>18, <3>1, <3>2, <3>3 DEF HookCommit
    <3>5. Linked'
      BY <2>18 DEF HookCommit, submitVars, pollVars
    <3> QED
      BY <3>4, <3>5
  <2>19. ASSUME NEW k \in Job, HookRollback(k) PROVE Inv'
    BY <2>19 DEF HookRollback, rowVars, submitVars, pollVars
  <2>20. ASSUME NEW t \in Task, Age(t) PROVE Inv'
    BY <2>20 DEF Age, submitVars, providerVars, pollVars
  <2>21. ASSUME NEW m \in Monitor, MonitorScan(m) PROVE Inv'
    BY <2>21 DEF MonitorScan, Stuck, ToPoll, rowVars, submitVars, providerVars
  <2>22. ASSUME NEW m \in Monitor, MonitorCommit(m) PROVE Inv'
    <3>1. \A u \in Task : create[u] # "committed" => u \notin doomed[m]
      BY <2>22
    <3>2. \A u \in Task : u \notin doomed[m] => status'[u] = status[u]
      BY <2>22 DEF MonitorCommit, FailAndRefund, Update
    <3>3. \A u \in Task : u \notin doomed[m] => refunds'[u] = refunds[u]
      BY <2>22 DEF MonitorCommit, FailAndRefund, RefundBalance
    <3>4. OnlyCommittedTasksRun'
      BY <2>22, <3>1, <3>2, <3>3 DEF MonitorCommit, providerVars
    <3>5. Linked'
      BY <2>22 DEF MonitorCommit, submitVars, providerVars, pollVars
    <3> QED
      BY <3>4, <3>5
  <2>23. ASSUME NEW m \in Monitor, MonitorDies(m) PROVE Inv'
    BY <2>23 DEF MonitorDies, rowVars, submitVars, providerVars, pollVars
  <2>24. ASSUME NEW t \in Task, PollReturns(t) PROVE Inv'
    BY <2>24 DEF PollReturns, TakePoll, rowVars, submitVars, providerVars
  <2>25. ASSUME NEW p \in Poller, NEW t \in Task, PollStart(p, t) PROVE Inv'
    BY <2>25 DEF PollStart, TakePoll, rowVars, submitVars, providerVars
  <2>26. ASSUME NEW p \in Poller, PollCommit(p) PROVE Inv'
    <3> DEFINE t == polling[p].task
    <3>1. polling[p] \in Poll /\ polling[p] # Idle
      BY <2>26 DEF PollCommit, Waiting, Poll, Idle
    <3>2. t \in Task /\ create[t] = "committed"
      BY <3>1 DEF Poll
    <3>3. \A u \in Task : u # t => status'[u] = status[u]
      BY <2>26 DEF PollCommit, Update
    <3>4. OnlyCommittedTasksRun'
      BY <2>26, <3>2, <3>3 DEF PollCommit, providerVars
    <3>5. polling'[p].job = polling[p].job /\ polling'[p].task = t
      BY <2>26, <3>1 DEF PollCommit, Poll
    <3>6. \A q \in Poller : q # p => polling'[q] = polling[q]
      BY <2>26 DEF PollCommit
    <3>7. \A q \in Poller : polling'[q] # Idle => polling'[q].job \in Jobs(polling'[q].task)
      BY <3>1, <3>5, <3>6
    <3>8. Linked'
      BY <2>26, <3>7 DEF PollCommit, submitVars, providerVars
    <3> QED
      BY <3>4, <3>8
  <2>27. ASSUME NEW p \in Poller, PollNotify(p) PROVE Inv'
    BY <2>27 DEF PollNotify, rowVars, submitVars, providerVars
  <2>28. ASSUME NEW p \in Poller, PollLeavesTask(p) PROVE Inv'
    BY <2>28 DEF PollLeavesTask, rowVars, submitVars, providerVars
  <2>29. ASSUME NEW p \in Poller, PollDies(p) PROVE Inv'
    BY <2>29 DEF PollDies, rowVars, submitVars, providerVars
  <2>30. CASE UNCHANGED vars
    BY <2>30 DEF vars, rowVars, submitVars, providerVars, pollVars
  <2> QED
    BY <2>1, <2>2, <2>3, <2>4, <2>5, <2>6, <2>7, <2>8, <2>9, <2>10, <2>11, <2>12,
       <2>13, <2>14, <2>15, <2>16, <2>17, <2>18, <2>19, <2>20, <2>21, <2>22, <2>23,
       <2>24, <2>25, <2>26, <2>27, <2>28, <2>29, <2>30
    DEF Next, Submission, Hook, PollEnds
<1> QED
  BY <1>1, <1>2, TypeCorrect, PTL DEF Spec

(* A job that Fal.ai accepts is a new one: no other job moves or changes.  *)
LEMMA AcceptEffect ==
    ASSUME TypeOK, Linked, NEW t \in Task, NEW k \in Job, Accept(t, k)
    PROVE  \A u \in Task : \A l \in Jobs(u) :
              l # k /\ l \in Jobs(u)' /\ job'[l] = job[l] /\ hook'[l] = hook[l]
  BY GenerationAssumption DEF TypeOK, Linked, Jobs, Accept

(* The part of ResultOfOwnJob that needs no count of the jobs.             *)
ResultFits ==
    \A t \in Task : status[t] = "completed" =>
        \E k \in Jobs(t) : job[k] = IF url[t] THEN "media" ELSE "empty"

LEMMA FitsHold ==
    Spec => [](ProcessingNamesJob /\ ResultFits /\ FailedIsRefunded)
<1> DEFINE Inv == ProcessingNamesJob /\ ResultFits /\ FailedIsRefunded
<1>1. Init => Inv
  BY DEF Init, ProcessingNamesJob, ResultFits, FailedIsRefunded
<1>2. TypeOK /\ TypeOK' /\ Linked /\ Inv /\ [Next]_vars => Inv'
  <2> SUFFICES ASSUME TypeOK, TypeOK', Linked, Inv, [Next]_vars PROVE Inv'
    OBVIOUS
  <2> USE GenerationAssumption
      DEF TypeOK, ProcessingNamesJob, ResultFits, FailedIsRefunded, Jobs
  <2>1. ASSUME NEW t \in Task, CreateTask(t) PROVE Inv'
    BY <2>1 DEF CreateTask, rowVars, providerVars, pollVars
  <2>2. ASSUME NEW t \in Task, DispatchFails(t) PROVE Inv'
    BY <2>2 DEF DispatchFails, rowVars, submitVars, providerVars, pollVars
  <2>3. ASSUME NEW t \in Task, CreateEnds(t) PROVE Inv'
    BY <2>3 DEF CreateEnds, rowVars, submitVars, providerVars, pollVars
  <2>4. ASSUME NEW t \in Task, SubmitMissing(t) PROVE Inv'
    BY <2>4 DEF SubmitMissing, rowVars, providerVars, pollVars
  <2>5. ASSUME NEW t \in Task, SubmitStart(t) PROVE Inv'
    BY <2>5 DEF SubmitStart, providerVars, pollVars, Update
  <2>6. ASSUME NEW t \in Task, AttemptAccepted(t) PROVE Inv'
    <3>1. \A u \in Task : \A l \in Jobs(u) : l \in Jobs(u)' /\ job'[l] = job[l]
      BY <2>6, AcceptEffect DEF AttemptAccepted
    <3> QED
      BY <2>6, <3>1 DEF AttemptAccepted, rowVars
  <2>7. ASSUME NEW t \in Task, AttemptRejected(t) PROVE Inv'
    BY <2>7 DEF AttemptRejected, NextAttempt, rowVars, providerVars, pollVars
  <2>8. ASSUME NEW t \in Task, AttemptUncaught(t) PROVE Inv'
    BY <2>8 DEF AttemptUncaught, rowVars, providerVars, pollVars
  <2>9. ASSUME NEW t \in Task, AttemptResponseLost(t) PROVE Inv'
    <3>1. \A u \in Task : \A l \in Jobs(u) : l \in Jobs(u)' /\ job'[l] = job[l]
      BY <2>9, AcceptEffect DEF AttemptResponseLost
    <3> QED
      BY <2>9, <3>1 DEF AttemptResponseLost, rowVars
  <2>10. ASSUME NEW t \in Task, CommitProcessing(t) PROVE Inv'
    BY <2>10 DEF CommitProcessing, providerVars, pollVars, Update, Linked
  <2>11. ASSUME NEW t \in Task, CommitSubmitFailed(t) PROVE Inv'
    BY <2>11 DEF CommitSubmitFailed, FailAndRefund, providerVars, pollVars, RefundBalance, Update
  <2>12. ASSUME NEW t \in Task, WorkerLost(t) PROVE Inv'
    BY <2>12 DEF WorkerLost, rowVars, providerVars, pollVars
  <2>13. ASSUME NEW t \in Task, Redelivered(t) PROVE Inv'
    BY <2>13 DEF Redelivered, rowVars, providerVars, pollVars
  <2>14. ASSUME NEW k \in Job, JobEnds(k) PROVE Inv'
    BY <2>14 DEF JobEnds, rowVars, submitVars, pollVars
  <2>15. ASSUME NEW k \in Job, HookLost(k) PROVE Inv'
    BY <2>15 DEF HookLost, rowVars, submitVars, pollVars
  <2>16. ASSUME NEW k \in Job, HookDuplicated(k) PROVE Inv'
    BY <2>16 DEF HookDuplicated, rowVars, submitVars, pollVars
  <2>17. ASSUME NEW k \in Job, HookHandled(k) PROVE Inv'
    BY <2>17 DEF HookHandled, rowVars, submitVars, pollVars
  <2>18. ASSUME NEW k \in Job, HookCommit(k) PROVE Inv'
    <3> DEFINE t == jobTask[k]
    <3>1. t \in Task /\ k \in Jobs(t) /\ job[k] \in Ended
      BY <2>18 DEF HookCommit, Linked
    <3>2. CASE job[k] = "error"
      <4>1. FailAndRefund({t}) /\ UNCHANGED <<url, request, job, jobTask>>
        BY <2>18, <3>2 DEF HookCommit
      <4> QED
        BY <3>1, <4>1 DEF FailAndRefund, RefundBalance, Update
    <3>3. CASE job[k] # "error"
      <4>1. Update({t}, "completed") /\ UNCHANGED <<refunds, request, job, jobTask>>
        BY <2>18, <3>3 DEF HookCommit
      <4>2. url' = [url EXCEPT ![t] = job[k] = "media"]
        BY <2>18, <3>3 DEF HookCommit
      <4>3. url'[t] = (job[k] = "media") /\ \A u \in Task : u # t => url'[u] = url[u]
        BY <3>1, <4>2, SetOne
      <4>4. \A u \in Task : status'[u] = IF u = t THEN "completed" ELSE status[u]
        BY <4>1 DEF Update
      <4>5. job[k] = IF url'[t] THEN "media" ELSE "empty"
        BY <3>1, <3>3, <4>3
      <4>6. ResultFits'
        <5> SUFFICES ASSUME NEW u \in Task, status'[u] = "completed"
                     PROVE  \E l \in Jobs(u)' : job'[l] = IF url'[u] THEN "media" ELSE "empty"
          OBVIOUS
        <5>1. CASE u = t
          BY <3>1, <4>1, <4>5, <5>1
        <5>2. CASE u # t
          BY <4>1, <4>3, <4>4, <5>2
        <5> QED
          BY <5>1, <5>2
      <4>7. ProcessingNamesJob' /\ FailedIsRefunded'
        BY <4>1, <4>4
      <4> QED
        BY <4>6, <4>7
    <3> QED
      BY <3>2, <3>3
  <2>19. ASSUME NEW k \in Job, HookRollback(k) PROVE Inv'
    BY <2>19 DEF HookRollback, rowVars, submitVars, pollVars
  <2>20. ASSUME NEW t \in Task, Age(t) PROVE Inv'
    BY <2>20 DEF Age, submitVars, providerVars, pollVars
  <2>21. ASSUME NEW m \in Monitor, MonitorScan(m) PROVE Inv'
    BY <2>21 DEF MonitorScan, Stuck, ToPoll, rowVars, submitVars, providerVars
  <2>22. ASSUME NEW m \in Monitor, MonitorCommit(m) PROVE Inv'
    BY <2>22 DEF MonitorCommit, FailAndRefund, submitVars, providerVars, pollVars, RefundBalance, Update
  <2>23. ASSUME NEW m \in Monitor, MonitorDies(m) PROVE Inv'
    BY <2>23 DEF MonitorDies, rowVars, submitVars, providerVars, pollVars
  <2>24. ASSUME NEW t \in Task, PollReturns(t) PROVE Inv'
    BY <2>24 DEF PollReturns, TakePoll, rowVars, submitVars, providerVars
  <2>25. ASSUME NEW p \in Poller, NEW t \in Task, PollStart(p, t) PROVE Inv'
    BY <2>25 DEF PollStart, TakePoll, rowVars, submitVars, providerVars
  <2>26. ASSUME NEW p \in Poller, PollCommit(p) PROVE Inv'
    <3> DEFINE t == polling[p].task
    <3>1. t \in Task /\ polling[p].job \in Jobs(t)
      BY <2>26 DEF PollCommit, Waiting, Linked, Poll, Idle
    <3>2. \A u \in Task : status'[u] = IF u = t THEN "completed" ELSE status[u]
      BY <2>26 DEF PollCommit, Update
    <3>3. url'[t] = TRUE /\ \A u \in Task : u # t => url'[u] = url[u]
      BY <2>26, <3>1, SetOne DEF PollCommit
    <3> QED
      BY <2>26, <3>1, <3>2, <3>3 DEF PollCommit, providerVars
  <2>27. ASSUME NEW p \in Poller, PollNotify(p) PROVE Inv'
    BY <2>27 DEF PollNotify, rowVars, submitVars, providerVars
  <2>28. ASSUME NEW p \in Poller, PollLeavesTask(p) PROVE Inv'
    BY <2>28 DEF PollLeavesTask, rowVars, submitVars, providerVars
  <2>29. ASSUME NEW p \in Poller, PollDies(p) PROVE Inv'
    BY <2>29 DEF PollDies, rowVars, submitVars, providerVars
  <2>30. CASE UNCHANGED vars
    BY <2>30 DEF vars, rowVars, submitVars, providerVars, pollVars
  <2> QED
    BY <2>1, <2>2, <2>3, <2>4, <2>5, <2>6, <2>7, <2>8, <2>9, <2>10, <2>11, <2>12,
       <2>13, <2>14, <2>15, <2>16, <2>17, <2>18, <2>19, <2>20, <2>21, <2>22, <2>23,
       <2>24, <2>25, <2>26, <2>27, <2>28, <2>29, <2>30
    DEF Next, Submission, Hook, PollEnds
<1> QED
  BY <1>1, <1>2, TypeCorrect, LinksHold, PTL DEF Spec

(* Without a failure a task has one job, and that only when its submission *)
(* was accepted.                                                           *)
OneJob(t) ==
    /\ \A k, l \in Jobs(t) : k = l
    /\ Jobs(t) # {} => submit[t] \in {"accepted", "done"}

OneJobInv == faults = 0 => \A t \in Task : OneJob(t)

LEMMA OneJobHolds == Spec => []OneJobInv
<1>1. Init => OneJobInv
  BY GenerationAssumption DEF Init, OneJobInv, OneJob, Jobs
<1>2. TypeOK /\ OnlyCommittedTasksRun /\ Linked /\ OneJobInv /\ [Next]_vars => OneJobInv'
  <2> SUFFICES ASSUME TypeOK, OnlyCommittedTasksRun, Linked, OneJobInv, [Next]_vars,
                      faults' = 0
               PROVE  \A t \in Task : OneJob(t)'
    BY DEF OneJobInv
  <2>0. ASSUME NEW h, Fault(h) PROVE FALSE
    BY <2>0, GenerationAssumption DEF Fault, TypeOK
  <2>1. ASSUME faults' = faults PROVE \A t \in Task : OneJob(t)
    BY <2>1 DEF OneJobInv
  <2>2. ASSUME UNCHANGED <<faults, jobTask>>,
               \A t \in Task : submit[t] \in {"accepted", "done"} /\ Jobs(t) # {} =>
                                  submit'[t] \in {"accepted", "done"}
        PROVE  \A t \in Task : OneJob(t)'
    BY <2>1, <2>2 DEF OneJob, Jobs
  <2>3. ASSUME UNCHANGED <<faults, jobTask, submit>> PROVE \A t \in Task : OneJob(t)'
    BY <2>2, <2>3
  <2>4. ASSUME NEW t \in Task, CreateTask(t) PROVE \A u \in Task : OneJob(u)'
    <3>1. Jobs(t) = {}
      BY <2>4 DEF CreateTask, OnlyCommittedTasksRun
    <3> QED
      BY <2>2, <2>4, <3>1 DEF CreateTask, providerVars, TypeOK
  <2>5. ASSUME NEW t \in Task,
               DispatchFails(t) \/ CreateEnds(t) \/ Age(t) \/ PollReturns(t)
        PROVE  \A u \in Task : OneJob(u)'
    BY <2>3, <2>5
    DEF DispatchFails, CreateEnds, Age, PollReturns, submitVars, providerVars
  <2>6. ASSUME NEW t \in Task,
               \/ SubmitMissing(t) \/ SubmitStart(t) \/ AttemptRejected(t)
               \/ AttemptUncaught(t) \/ CommitProcessing(t) \/ CommitSubmitFailed(t)
        PROVE  \A u \in Task : OneJob(u)'
    <3>1. UNCHANGED <<faults, jobTask>>
      BY <2>6 DEF SubmitMissing, SubmitStart, AttemptRejected, AttemptUncaught,
         CommitProcessing, CommitSubmitFailed, providerVars
    <3>2. submit[t] \notin {"accepted", "done"} \/ submit'[t] = "done"
      BY <2>6 DEF SubmitMissing, SubmitStart, AttemptRejected, AttemptUncaught,
         CommitProcessing, CommitSubmitFailed, TypeOK
    <3>3. \A u \in Task : u # t => submit'[u] = submit[u]
      BY <2>6 DEF SubmitMissing, SubmitStart, AttemptRejected, NextAttempt,
         AttemptUncaught, CommitProcessing, CommitSubmitFailed, TypeOK
    <3> QED
      BY <2>2, <3>1, <3>2, <3>3
  <2>7. ASSUME NEW t \in Task, AttemptAccepted(t) PROVE \A u \in Task : OneJob(u)'
    <3>1. PICK k \in Job : Accept(t, k)
      BY <2>7 DEF AttemptAccepted
    <3>2. submit' = [submit EXCEPT ![t] = "accepted"] /\ submit[t] = "trying" /\ faults' = faults
      BY <2>7 DEF AttemptAccepted
    <3>3. Jobs(t) = {}
      BY <2>1, <3>2 DEF OneJob
    <3>4. jobTask' = [jobTask EXCEPT ![k] = t] /\ jobTask[k] = Null
      BY <3>1 DEF Accept, Linked
    <3>5. Jobs(t)' = {k} /\ \A u \in Task : u # t => Jobs(u)' = Jobs(u)
      BY <3>3, <3>4, GenerationAssumption DEF Jobs, TypeOK
    <3> QED
      BY <2>1, <3>2, <3>5 DEF OneJob, TypeOK
  <2>8. ASSUME NEW t \in Task, AttemptResponseLost(t) \/ WorkerLost(t) \/ Redelivered(t)
        PROVE  FALSE
    BY <2>0, <2>8 DEF AttemptResponseLost, WorkerLost, Redelivered
  <2>9. ASSUME NEW k \in Job, JobEnds(k) \/ HookHandled(k) \/ HookCommit(k)
        PROVE  \A u \in Task : OneJob(u)'
    BY <2>3, <2>9 DEF JobEnds, HookHandled, HookCommit, submitVars
  <2>10. ASSUME NEW k \in Job, HookLost(k) \/ HookDuplicated(k) \/ HookRollback(k)
         PROVE  FALSE
    BY <2>0, <2>10 DEF HookLost, HookDuplicated, HookRollback
  <2>11. ASSUME NEW m \in Monitor, MonitorScan(m) \/ MonitorCommit(m) \/ MonitorDies(m)
         PROVE  \A u \in Task : OneJob(u)'
    BY <2>0, <2>3, <2>11
    DEF MonitorScan, MonitorCommit, MonitorDies, submitVars, providerVars
  <2>12. ASSUME NEW p \in Poller,
                \/ PollCommit(p) \/ PollNotify(p) \/ PollLeavesTask(p) \/ PollDies(p)
                \/ \E t \in Task : PollStart(p, t)
         PROVE  \A u \in Task : OneJob(u)'
    BY <2>0, <2>3, <2>12
    DEF PollCommit, PollNotify, PollLeavesTask, PollDies, PollStart, submitVars, providerVars
  <2>13. CASE UNCHANGED vars
    BY <2>3, <2>13 DEF vars, submitVars, providerVars
  <2> QED
    BY <2>4, <2>5, <2>6, <2>7, <2>8, <2>9, <2>10, <2>11, <2>12, <2>13
    DEF Next, Submission, Hook, PollEnds
<1> QED
  BY <1>1, <1>2, TypeCorrect, LinksHold, PTL DEF Spec

(* A PROCESSING row names a job of its task, a COMPLETED row carries the   *)
(* result of one and, if nothing has failed, never an empty one in place of*)
(* media, and a FAILED row has been refunded.                              *)
THEOREM ResultsHold ==
    Spec => [](ProcessingNamesJob /\ ResultOfOwnJob /\ FailedIsRefunded)
<1>1. ResultFits /\ OneJobInv => ResultOfOwnJob
  <2> SUFFICES ASSUME ResultFits, OneJobInv, NEW t \in Task, status[t] = "completed"
               PROVE  /\ \E k \in Jobs(t) : job[k] = IF url[t] THEN "media" ELSE "empty"
                      /\ ~url[t] /\ faults = 0 => \A k \in Jobs(t) : job[k] # "media"
    BY DEF ResultOfOwnJob
  <2>1. PICK k \in Jobs(t) : job[k] = IF url[t] THEN "media" ELSE "empty"
    BY DEF ResultFits
  <2>2. ASSUME ~url[t], faults = 0, NEW l \in Jobs(t) PROVE job[l] # "media"
    <3>1. k = l
      BY <2>2 DEF OneJobInv, OneJob
    <3> QED
      BY <2>1, <2>2, <3>1
  <2> QED
    BY <2>1, <2>2
<1> QED
  BY <1>1, FitsHold, OneJobHolds, PTL

(* Money goes back only in a step that fails the task, once, and no task   *)
(* enters FAILED without it.                                               *)
THEOREM RefundsFollowFailures == Spec => RefundStep
<1> DEFINE Step ==
      \A t \in Task :
         /\ refunds'[t] # refunds[t] =>
               refunds'[t] = refunds[t] + 1 /\ status'[t] = "failed"
         /\ status[t] # "failed" /\ status'[t] = "failed" =>
               refunds'[t] = refunds[t] + 1
<1>1. ASSUME NEW ts, FailAndRefund(ts) PROVE Step
  BY <1>1 DEF FailAndRefund, Update, RefundBalance
<1>2. ASSUME NEW ts, NEW s \in Status \ {"failed"}, Update(ts, s), UNCHANGED refunds
      PROVE  Step
  BY <1>2 DEF Update
<1>3. ASSUME UNCHANGED <<status, refunds>> PROVE Step
  BY <1>3
<1>4. ASSUME [Next]_vars PROVE Step
  <2>1. ASSUME NEW t \in Task, CreateTask(t) \/ DispatchFails(t) \/ CreateEnds(t)
        PROVE  Step
    BY <2>1, <1>3 DEF CreateTask, DispatchFails, CreateEnds, rowVars
  <2>2. ASSUME NEW t \in Task, SubmitStart(t) \/ CommitProcessing(t) PROVE Step
    BY <2>2, <1>2 DEF SubmitStart, CommitProcessing
  <2>3. ASSUME NEW t \in Task, CommitSubmitFailed(t) PROVE Step
    BY <2>3, <1>1 DEF CommitSubmitFailed
  <2>4. ASSUME NEW t \in Task,
               \/ SubmitMissing(t) \/ AttemptAccepted(t) \/ AttemptRejected(t)
               \/ AttemptUncaught(t) \/ AttemptResponseLost(t) \/ WorkerLost(t)
               \/ Redelivered(t)
        PROVE  Step
    BY <2>4, <1>3
    DEF SubmitMissing, AttemptAccepted, AttemptRejected, AttemptUncaught,
        AttemptResponseLost, WorkerLost, Redelivered, rowVars
  <2>5. ASSUME NEW k \in Job, HookCommit(k) PROVE Step
    BY <2>5, <1>1, <1>2 DEF HookCommit
  <2>6. ASSUME NEW k \in Job,
               \/ JobEnds(k) \/ HookLost(k) \/ HookDuplicated(k) \/ HookHandled(k)
               \/ HookRollback(k)
        PROVE  Step
    BY <2>6, <1>3
    DEF JobEnds, HookLost, HookDuplicated, HookHandled, HookRollback, rowVars
  <2>7. ASSUME NEW m \in Monitor, MonitorCommit(m) PROVE Step
    BY <2>7, <1>1 DEF MonitorCommit
  <2>8. ASSUME NEW m \in Monitor, MonitorScan(m) \/ MonitorDies(m) PROVE Step
    BY <2>8, <1>3 DEF MonitorScan, MonitorDies, rowVars
  <2>9. ASSUME NEW t \in Task, Age(t) \/ PollReturns(t) PROVE Step
    BY <2>9, <1>3 DEF Age, PollReturns, rowVars
  <2>10. ASSUME NEW p \in Poller, PollCommit(p) PROVE Step
    BY <2>10, <1>2 DEF PollCommit
  <2>11. ASSUME NEW p \in Poller, NEW t \in Task, PollStart(p, t) PROVE Step
    BY <2>11, <1>3 DEF PollStart, rowVars
  <2>12. ASSUME NEW p \in Poller, PollNotify(p) \/ PollLeavesTask(p) \/ PollDies(p)
         PROVE  Step
    BY <2>12, <1>3 DEF PollNotify, PollLeavesTask, PollDies, rowVars
  <2>13. CASE UNCHANGED vars
    BY <2>13, <1>3 DEF vars, rowVars
  <2> QED
    BY <1>4, <2>1, <2>2, <2>3, <2>4, <2>5, <2>6, <2>7, <2>8, <2>9, <2>10, <2>11, <2>12,
       <2>13
    DEF Next, Submission, Hook, PollEnds
<1> QED
  BY <1>4, PTL DEF Spec, RefundStep

(* InStep reads nothing but the task's own row, submission and jobs.       *)
LEMMA InStepElsewhere ==
    ASSUME NEW t \in Task, InStep(t), UNCHANGED providerVars,
           status'[t] = status[t], stale'[t] = stale[t], request'[t] = request[t],
           refunds'[t] = refunds[t], submit'[t] = submit[t]
    PROVE  InStep(t)'
  BY DEF InStep, Jobs, providerVars

(* Some steps of the next proof that take an argument of their own.        *)
LEMMA UpdateStale ==
    ASSUME NEW t \in Task, NEW s, Update({t}, s)
    PROVE  stale'[t] = FALSE /\ \A u \in Task : u # t => stale'[u] = stale[u]
  BY Zenon DEF Update

LEMMA HookTarget ==
    ASSUME TypeOK, Linked, NEW k \in Job, hook[k] # "none"
    PROVE  jobTask[k] \in Task /\ k \in Jobs(jobTask[k]) /\ job[k] \in Ended
  BY DEF TypeOK, Linked, Jobs

(* A webhook about to commit belongs to a submission that is done, to the  *)
(* only job of its task, and to a row nobody has failed.  If the job       *)
(* failed, the row has not been completed either.                          *)
LEMMA OpenHook ==
    ASSUME TypeOK, Linked, ResultOfOwnJob, BenignInv, NEW k \in Job, hook[k] = "open"
    PROVE  LET t == jobTask[k] IN
           /\ t \in Task /\ Jobs(t) = {k} /\ request[t] = k /\ submit[t] = "done"
           /\ status[t] \in {"processing", "completed"} /\ refunds[t] = 0
           /\ job[k] = "error" => status[t] = "processing"
<1> DEFINE t == jobTask[k]
<1>1. t \in Task /\ k \in Jobs(t) /\ job[k] \in Ended
  BY HookTarget
<1>2. InStep(t)
  BY <1>1 DEF BenignInv
<1>3. Jobs(t) = {k}
  BY <1>1, <1>2 DEF InStep
<1>4. submit[t] = "done"
  BY <1>1, <1>2 DEF InStep
<1>5. status[t] # "failed"
  BY <1>1, <1>2 DEF InStep
<1>6. request[t] = k /\ status[t] \in {"processing", "completed"} /\ refunds[t] = 0
  BY <1>2, <1>3, <1>4, <1>5 DEF InStep
<1>7. job[k] = "error" => status[t] = "processing"
  BY <1>1, <1>3, <1>6 DEF ResultOfOwnJob
<1> QED
  BY <1>1, <1>3, <1>4, <1>6, <1>7

LEMMA HookCommitKeeps ==
    ASSUME TypeOK, Linked, ResultOfOwnJob, BenignInv, NEW k \in Job, HookCommit(k)
    PROVE  BenignInv'
<1> DEFINE t == jobTask[k]
<1>1. /\ t \in Task /\ Jobs(t) = {k} /\ request[t] = k /\ submit[t] = "done"
      /\ status[t] \in {"processing", "completed"} /\ refunds[t] = 0
  BY OpenHook DEF HookCommit
<1>2. PICK s \in {"completed", "failed"} :
         /\ Update({t}, s)
         /\ s = "failed" => job[k] = "error" /\ RefundBalance({t})
         /\ s = "completed" => refunds' = refunds
  BY DEF HookCommit, FailAndRefund
<1>3. UNCHANGED <<job, jobTask, request, submit, doomed, polling>>
  BY DEF HookCommit, submitVars, pollVars
<1>4. hook'[k] = "done" /\ \A l \in Job : l # k => hook'[l] = hook[l]
  BY DEF HookCommit, TypeOK
<1>5. status'[t] = s /\ \A u \in Task : u # t => status'[u] = status[u]
  BY <1>1, <1>2 DEF Update
<1>6. /\ refunds'[t] = IF s = "failed" THEN 1 ELSE 0
      /\ \A u \in Task : u # t => refunds'[u] = refunds[u]
  BY <1>1, <1>2 DEF RefundBalance
<1>7. \A u \in Task : u # t => stale'[u] = stale[u]
  BY <1>1, <1>2, UpdateStale
<1>8. InStep(t)'
  BY <1>1, <1>2, <1>3, <1>4, <1>5, <1>6 DEF InStep, Jobs
<1>9. ASSUME NEW u \in Task, u # t PROVE InStep(u)'
  <2>1. k \notin Jobs(u) /\ InStep(u)
    BY <1>9 DEF Jobs, BenignInv
  <2>2. \A l \in Jobs(u) : hook'[l] = hook[l]
    BY <1>4, <2>1 DEF Jobs
  <2> QED
    BY <1>3, <1>5, <1>6, <1>7, <1>9, <2>1, <2>2 DEF InStep, Jobs
<1>10. \A m \in Monitor : t \notin doomed[m]
  BY <1>1 DEF BenignInv
<1> QED
  BY <1>3, <1>5, <1>8, <1>9, <1>10 DEF BenignInv, TypeOK, Jobs

LEMMA AgeKeeps ==
    ASSUME Benign, TypeOK, BenignInv, NEW t \in Task, Age(t)
    PROVE  BenignInv'
<1>1. stale'[t] = TRUE /\ \A u \in Task : u # t => stale'[u] = stale[u]
  BY SetOne DEF Age, TypeOK
<1>2. submit[t] \notin Running
  BY DEF Age, Benign
<1>3. UNCHANGED <<status, request, refunds, submit, job, jobTask, hook, doomed, polling>>
  BY DEF Age, submitVars, providerVars, pollVars
<1>4. InStep(t)'
  BY <1>2, <1>3 DEF BenignInv, InStep, Jobs
<1>5. \A u \in Task : u # t => InStep(u)'
  BY <1>1, <1>3 DEF BenignInv, InStep, Jobs
<1> QED
  BY <1>3, <1>4, <1>5 DEF BenignInv, Jobs

(* Only one monitor runs: no other one has the same task in hand.          *)
LEMMA MonitorCommitKeeps ==
    ASSUME Benign, TypeOK, BenignInv, NEW m \in Monitor, MonitorCommit(m)
    PROVE  BenignInv'
<1>1. \A u \in doomed[m] : /\ u \in Task /\ submit[u] = "done" /\ Jobs(u) = {}
                           /\ status[u] = "queued" /\ refunds[u] = 0
  BY DEF BenignInv, InStep, TypeOK
<1>2. UNCHANGED <<request, submit, job, jobTask, hook, polling>>
  BY DEF MonitorCommit, submitVars, providerVars, pollVars
<1>3. \A u \in Task : /\ status'[u] = IF u \in doomed[m] THEN "failed" ELSE status[u]
                      /\ refunds'[u] = IF u \in doomed[m] THEN refunds[u] + 1
                                                         ELSE refunds[u]
  BY DEF MonitorCommit, FailAndRefund, Update, RefundBalance
<1>4. \A u \in Task : u \notin doomed[m] => stale'[u] = stale[u]
  BY Zenon DEF MonitorCommit, FailAndRefund, Update
<1>5. \A u \in doomed[m] : InStep(u)'
  BY <1>1, <1>2, <1>3 DEF InStep, Jobs
<1>6. \A u \in Task : u \notin doomed[m] => InStep(u)'
  BY <1>2, <1>3, <1>4 DEF BenignInv, InStep, Jobs
<1>7. \A n \in Monitor : doomed'[n] = {}
  BY DEF MonitorCommit, Benign, TypeOK
<1> QED
  BY <1>2, <1>5, <1>6, <1>7 DEF BenignInv

(* A poll writes the result of the only job of its task.                   *)
LEMMA PollCommitKeeps ==
    ASSUME TypeOK, Linked, BenignInv, NEW p \in Poller, PollCommit(p)
    PROVE  BenignInv'
<1>1. polling[p] \in Poll /\ polling[p] # Idle
  BY DEF PollCommit, Waiting, TypeOK, Idle
<1>2. PICK t \in Task, k \in Job : t = polling[p].task /\ k = polling[p].job
  BY <1>1 DEF Poll
<1>3. t \in Task /\ k \in Jobs(t) /\ job[k] = "media" /\ submit[t] = "done"
  BY <1>1, <1>2 DEF PollCommit, Linked, BenignInv, Poll
<1>4. status[t] \in {"processing", "completed"} /\ refunds[t] = 0
      /\ request[t] \in Jobs(t)
  BY <1>3 DEF BenignInv, InStep
<1>5. UNCHANGED <<request, refunds, submit, job, jobTask, hook, doomed>>
  BY DEF PollCommit, submitVars, providerVars
<1>6. status'[t] = "completed" /\ \A u \in Task : u # t => status'[u] = status[u]
  BY <1>2, <1>3 DEF PollCommit, Update
<1>7. \A u \in Task : u # t => stale'[u] = stale[u]
  BY <1>2, <1>3, UpdateStale DEF PollCommit
<1>8. InStep(t)'
  <2>1. InStep(t)
    BY <1>3 DEF BenignInv
  <2>2. Jobs(t)' = Jobs(t)
    BY <1>5 DEF Jobs
  <2> QED
    BY <1>3, <1>4, <1>5, <1>6, <2>1, <2>2 DEF InStep
<1>9. \A u \in Task : u # t => InStep(u)'
  BY <1>5, <1>6, <1>7 DEF BenignInv, InStep, Jobs
<1>10. \A q \in Poller : polling'[q] # Idle =>
         polling[q] # Idle /\ polling'[q].task = polling[q].task
  BY <1>1 DEF PollCommit, TypeOK, Poll, Idle
<1>11. \A m \in Monitor : t \notin doomed[m]
  BY <1>3 DEF BenignInv
<1>12. \A m \in Monitor : \A u \in doomed'[m] :
          submit'[u] = "done" /\ Jobs(u)' = {} /\ status'[u] = "queued"
  BY <1>5, <1>6, <1>11 DEF BenignInv, TypeOK, Jobs
<1>13. \A q \in Poller : polling'[q] # Idle => submit'[polling'[q].task] = "done"
  BY <1>5, <1>10 DEF BenignInv
<1> QED
  BY <1>8, <1>9, <1>12, <1>13 DEF BenignInv

(* In a benign environment row, submission and job of every task stay in   *)
(* step.                                                                   *)
THEOREM BenignInvHolds == ASSUME Benign PROVE Spec => []BenignInv
<1> DEFINE Known == TypeOK /\ OnlyCommittedTasksRun /\ Linked
                    /\ ProcessingNamesJob /\ ResultOfOwnJob
<1>1. Init => BenignInv
  BY GenerationAssumption DEF Init, BenignInv, InStep, Jobs
<1>2. Known /\ Known' /\ BenignInv /\ [Next]_vars => BenignInv'
  <2> SUFFICES ASSUME Known, Known', BenignInv, [Next]_vars PROVE BenignInv'
    OBVIOUS
  <2> USE GenerationAssumption DEF TypeOK, BenignInv, InStep, Jobs
  <2>1. ASSUME NEW t \in Task, CreateTask(t) PROVE BenignInv'
    <3>1. Jobs(t) = {} /\ status[t] = "created" /\ refunds[t] = 0
      BY <2>1 DEF CreateTask, OnlyCommittedTasksRun
    <3>2. \A m \in Monitor : t \notin doomed[m]
      BY <2>1 DEF CreateTask, Linked
    <3>3. \A p \in Poller : polling[p] # Idle => polling[p].task # t
      BY <3>1 DEF Linked
    <3>4. InStep(t)'
      BY <2>1, <3>1 DEF CreateTask, rowVars, providerVars
    <3>5. \A u \in Task : u # t => InStep(u)'
      BY <2>1 DEF CreateTask, rowVars, providerVars
    <3> QED
      BY <2>1, <3>2, <3>3, <3>4, <3>5 DEF CreateTask, rowVars, providerVars, pollVars
  <2>2. ASSUME NEW t \in Task, DispatchFails(t) PROVE BenignInv'
    BY <2>2 DEF DispatchFails, rowVars, submitVars, providerVars, pollVars
  <2>3. ASSUME NEW t \in Task, CreateEnds(t) PROVE BenignInv'
    BY <2>3 DEF CreateEnds, rowVars, submitVars, providerVars, pollVars
  <2>4. ASSUME NEW t \in Task, SubmitMissing(t) PROVE BenignInv'
    BY <2>4 DEF SubmitMissing, rowVars, providerVars, pollVars
  <2>5. ASSUME NEW t \in Task, SubmitStart(t) PROVE BenignInv'
    <3>1. Jobs(t) = {} /\ status[t] = "created" /\ request[t] = Null
      BY <2>5 DEF SubmitStart, Linked
    <3>2. status'[t] = "queued" /\ \A u \in Task : u # t => status'[u] = status[u]
      BY <2>5 DEF SubmitStart, Update
    <3>3. stale'[t] = FALSE /\ \A u \in Task : u # t => stale'[u] = stale[u]
      BY <2>5, UpdateStale DEF SubmitStart
    <3>4. InStep(t)'
      BY <2>5, <3>1, <3>2, <3>3 DEF SubmitStart, providerVars
    <3>5. \A u \in Task : u # t => InStep(u)'
      BY <2>5, <3>2, <3>3 DEF SubmitStart, providerVars
    <3> QED
      BY <2>5, <3>1, <3>2, <3>4, <3>5 DEF SubmitStart, providerVars, pollVars
  <2>6. ASSUME NEW t \in Task, AttemptAccepted(t) PROVE BenignInv'
    <3>1. PICK k \in Job : Accept(t, k)
      BY <2>6 DEF AttemptAccepted
    <3>2. Jobs(t) = {}
      BY <2>6 DEF AttemptAccepted
    <3>3. Jobs(t)' = {k} /\ \A u \in Task : u # t => Jobs(u)' = Jobs(u)
      BY <3>1, <3>2 DEF Accept, Linked
    <3>4. hook'[k] = "none" /\ job'[k] = "running"
      BY <3>1 DEF Accept, Linked
    <3>5. InStep(t)'
      BY <2>6, <3>3, <3>4 DEF AttemptAccepted, rowVars
    <3>6. \A u \in Task : u # t => InStep(u)'
      <4> SUFFICES ASSUME NEW u \in Task, u # t PROVE InStep(u)'
        OBVIOUS
      <4>1. \A l \in Jobs(u) : job'[l] = job[l] /\ hook'[l] = hook[l]
        BY <3>1, AcceptEffect
      <4> QED
        BY <2>6, <3>3, <4>1 DEF AttemptAccepted, rowVars
    <3>7. \A m \in Monitor : t \notin doomed[m]
      BY <2>6 DEF AttemptAccepted
    <3>8. \A p \in Poller : polling[p] # Idle => polling[p].task # t
      BY <2>6 DEF AttemptAccepted
    <3> QED
      BY <2>6, <3>3, <3>5, <3>6, <3>7, <3>8 DEF AttemptAccepted, rowVars, pollVars
  <2>7. ASSUME NEW t \in Task, AttemptRejected(t) PROVE BenignInv'
    <3>1. submit[t] = "trying" /\ submit'[t] \in {"trying", "exhausted"}
          /\ \A u \in Task : u # t => submit'[u] = submit[u]
      BY <2>7 DEF AttemptRejected, NextAttempt
    <3>2. InStep(t)'
      BY <2>7, <3>1 DEF AttemptRejected, rowVars, providerVars
    <3>3. \A u \in Task : u # t => InStep(u)'
      <4> SUFFICES ASSUME NEW u \in Task, u # t PROVE InStep(u)'
        OBVIOUS
      <4>1. UNCHANGED <<status, stale, request, refunds, providerVars>>
        BY <2>7 DEF AttemptRejected, rowVars
      <4>2. submit'[u] = submit[u]
        BY <3>1
      <4>3. InStep(u)
        BY DEF BenignInv
      <4> QED
        BY <4>1, <4>2, <4>3, InStepElsewhere
    <3>4. \A m \in Monitor : t \notin doomed[m]
      BY <3>1
    <3>5. \A p \in Poller : polling[p] # Idle => polling[p].task # t
      BY <3>1
    <3> QED
      BY <2>7, <3>1, <3>2, <3>3, <3>4, <3>5
      DEF AttemptRejected, rowVars, providerVars, pollVars, Poll
  <2>8. ASSUME NEW t \in Task, AttemptUncaught(t) PROVE BenignInv'
    BY <2>8 DEF AttemptUncaught, rowVars, providerVars, pollVars
  <2>9. ASSUME NEW t \in Task, AttemptResponseLost(t) PROVE BenignInv'
    BY <2>9 DEF AttemptResponseLost, Fault, Benign
  <2>10. ASSUME NEW t \in Task, CommitProcessing(t) PROVE BenignInv'
    BY <2>10 DEF CommitProcessing, providerVars, pollVars, Update, Linked
  <2>11. ASSUME NEW t \in Task, CommitSubmitFailed(t) PROVE BenignInv'
    BY <2>11 DEF CommitSubmitFailed, FailAndRefund, providerVars, pollVars, RefundBalance, Update
  <2>12. ASSUME NEW t \in Task, WorkerLost(t) PROVE BenignInv'
    BY <2>12 DEF WorkerLost, Fault, Benign
  <2>13. ASSUME NEW t \in Task, Redelivered(t) PROVE BenignInv'
    BY <2>13 DEF Redelivered, Fault, Benign
  <2>14. ASSUME NEW k \in Job, JobEnds(k) PROVE BenignInv'
    BY <2>14 DEF JobEnds, rowVars, submitVars, pollVars
  <2>15. ASSUME NEW k \in Job, HookLost(k) PROVE BenignInv'
    BY <2>15 DEF HookLost, rowVars, submitVars, pollVars
  <2>16. ASSUME NEW k \in Job, HookDuplicated(k) PROVE BenignInv'
    BY <2>16 DEF HookDuplicated, Fault, Benign
  <2>17. ASSUME NEW k \in Job, HookHandled(k) PROVE BenignInv'
    <3>1. jobTask[k] \in Task /\ k \in Jobs(jobTask[k])
      BY <2>17, HookTarget DEF HookHandled
    <3>2. submit[jobTask[k]] = "done" /\ status[jobTask[k]] # "failed"
      BY <2>17, <3>1 DEF HookHandled, Benign
    <3>3. \A u \in Task : InStep(u)'
      BY <2>17, <3>1, <3>2 DEF HookHandled, rowVars, submitVars
    <3> QED
      BY <2>17, <3>3 DEF HookHandled, rowVars, submitVars, pollVars
  <2>18. ASSUME NEW k \in Job, HookCommit(k) PROVE BenignInv'
    BY <2>18, HookCommitKeeps
  <2>19. ASSUME NEW k \in Job, HookRollback(k) PROVE BenignInv'
    BY <2>19 DEF HookRollback, rowVars, submitVars, pollVars
  <2>20. ASSUME NEW t \in Task, Age(t) PROVE BenignInv'
    BY <2>20, AgeKeeps
  <2>21. ASSUME NEW m \in Monitor, MonitorScan(m) PROVE BenignInv'
    BY <2>21 DEF MonitorScan, Stuck, ToPoll, rowVars, submitVars, providerVars
  <2>22. ASSUME NEW m \in Monitor, MonitorCommit(m) PROVE BenignInv'
    BY <2>22, MonitorCommitKeeps
  <2>23. ASSUME NEW m \in Monitor, MonitorDies(m) PROVE BenignInv'
    BY <2>23 DEF MonitorDies, rowVars, submitVars, providerVars, pollVars
  <2>24. ASSUME NEW t \in Task, PollReturns(t) PROVE BenignInv'
    BY <2>24 DEF PollReturns, TakePoll, rowVars, submitVars, providerVars
  <2>25. ASSUME NEW p \in Poller, NEW t \in Task, PollStart(p, t) PROVE BenignInv'
    <3>1. submit[t] = "done"
      BY <2>25 DEF PollStart, Linked
    <3> QED
      BY <2>25, <3>1 DEF PollStart, rowVars, submitVars, providerVars
  <2>26. ASSUME NEW p \in Poller, PollCommit(p) PROVE BenignInv'
    BY <2>26, PollCommitKeeps
  <2>27. ASSUME NEW p \in Poller, PollNotify(p) PROVE BenignInv'
    BY <2>27 DEF PollNotify, rowVars, submitVars, providerVars
  <2>28. ASSUME NEW p \in Poller, PollLeavesTask(p) PROVE BenignInv'
    BY <2>28 DEF PollLeavesTask, rowVars, submitVars, providerVars
  <2>29. ASSUME NEW p \in Poller, PollDies(p) PROVE BenignInv'
    BY <2>29 DEF PollDies, rowVars, submitVars, providerVars
  <2>30. CASE UNCHANGED vars
    BY <2>30 DEF vars, rowVars, submitVars, providerVars, pollVars
  <2> QED
    BY <2>1, <2>2, <2>3, <2>4, <2>5, <2>6, <2>7, <2>8, <2>9, <2>10, <2>11, <2>12,
       <2>13, <2>14, <2>15, <2>16, <2>17, <2>18, <2>19, <2>20, <2>21, <2>22, <2>23,
       <2>24, <2>25, <2>26, <2>27, <2>28, <2>29, <2>30
    DEF Next, Submission, Hook, PollEnds
<1> QED
  BY <1>1, <1>2, TypeCorrect, LinksHold, ResultsHold, PTL DEF Spec

(* In a benign environment every charge is settled once: a task is         *)
(* refunded at most once, and then it has failed and no job of it runs or  *)
(* has delivered.                                                          *)
THEOREM SettledOnceHolds == ASSUME Benign PROVE Spec => []SettledOnce
<1>1. BenignInv => SettledOnce
  <2> SUFFICES ASSUME NEW t \in Task, InStep(t)
               PROVE  /\ refunds[t] <= 1
                      /\ refunds[t] = 1 => /\ status[t] = "failed"
                                           /\ \A k \in Jobs(t) : job[k] = "error"
    BY DEF BenignInv, SettledOnce
  <2>1. refunds[t] = IF status[t] = "failed" THEN 1 ELSE 0
    BY DEF InStep
  <2>2. status[t] = "failed" => \A k \in Jobs(t) : job[k] = "error"
    BY DEF InStep
  <2> QED
    BY <2>1, <2>2
<1> QED
  BY <1>1, BenignInvHolds, PTL

(***************************************************************************)
(* In a benign environment the processes together implement TaskContract.  *)
(* Every step is a stutter of the contract except the COMMIT of the        *)
(* creating request, the three UPDATEs of the submission, and the COMMITs  *)
(* of webhook, monitor and poll.                                           *)
(***************************************************************************)
THEOREM ContractImplemented == ASSUME Benign PROVE Spec => ContractSpec
<1> DEFINE st == [t \in Task |-> IF create[t] = "committed" THEN status[t] ELSE "absent"]
           Known == TypeOK /\ OnlyCommittedTasksRun /\ Linked /\ ResultOfOwnJob
                    /\ BenignInv
<1>1. Init => Contract!Init
  BY DEF Init, Contract!Init
<1>2. Known /\ [Next]_vars => [Contract!Next]_(Contract!vars)
  <2> SUFFICES ASSUME Known, [Next]_vars
               PROVE  Contract!Next \/ UNCHANGED <<st, refunds>>
    BY DEF Contract!vars
  <2>1. ASSUME UNCHANGED <<create, status, refunds>> PROVE UNCHANGED <<st, refunds>>
    BY <2>1
  <2>2. ASSUME NEW t \in Task, NEW s \in {"queued", "processing", "completed"},
               create[t] = "committed", <<status[t], s>> \in Contract!Arrow,
               Update({t}, s), UNCHANGED <<create, refunds>>
        PROVE  Contract!Next
    <3>1. st[t] = status[t]
      BY <2>2
    <3>2. st' = [st EXCEPT ![t] = s]
      BY <2>2 DEF Update
    <3>3. Contract!Advance(t)
      BY <2>2, <3>1, <3>2 DEF Contract!Advance
    <3> QED
      BY <3>3 DEF Contract!Next
  <2>3. ASSUME NEW ts \in SUBSET Task, FailAndRefund(ts), UNCHANGED create,
               \A t \in ts : create[t] = "committed"
                             /\ status[t] \in {"queued", "processing"}
        PROVE  Contract!Next
    <3>1. \A t \in ts : st[t] \in {"queued", "processing"}
      BY <2>3
    <3>2. st' = [t \in Task |-> IF t \in ts THEN "failed" ELSE st[t]]
      BY <2>3 DEF FailAndRefund, Update
    <3>3. Contract!Fail(ts)
      BY <2>3, <3>1, <3>2 DEF Contract!Fail, FailAndRefund, RefundBalance
    <3> QED
      BY <3>3 DEF Contract!Next
  <2>4. ASSUME NEW t \in Task, CreateTask(t) \/ DispatchFails(t)
        PROVE  UNCHANGED <<st, refunds>>
    BY <2>4 DEF CreateTask, DispatchFails, rowVars, TypeOK
  <2>5. ASSUME NEW t \in Task, CreateEnds(t)
        PROVE  Contract!Next \/ UNCHANGED <<st, refunds>>
    <3>1. CASE create'[t] = "aborted"
      BY <2>5, <3>1 DEF CreateEnds, rowVars, TypeOK
    <3>2. CASE create'[t] # "aborted"
      <4>1. create[t] = "open" /\ create' = [create EXCEPT ![t] = "committed"]
            /\ status' = status /\ refunds' = refunds
        BY <2>5, <3>2 DEF CreateEnds, rowVars, TypeOK
      <4>2. status[t] = "created" /\ st[t] = "absent"
        BY <4>1 DEF OnlyCommittedTasksRun
      <4>3. st' = [st EXCEPT ![t] = "created"]
        BY <4>1, <4>2 DEF TypeOK
      <4>4. Contract!Advance(t)
        BY <4>1, <4>2, <4>3 DEF Contract!Advance, Contract!Arrow
      <4> QED
        BY <4>4 DEF Contract!Next
    <3> QED
      BY <3>1, <3>2
  <2>6. ASSUME NEW t \in Task, SubmitStart(t) PROVE Contract!Next
    <3>1. status[t] = "created"
      BY <2>6 DEF SubmitStart, BenignInv, InStep
    <3> QED
      BY <2>2, <2>6, <3>1 DEF SubmitStart, Contract!Arrow
  <2>7. ASSUME NEW t \in Task, CommitProcessing(t) PROVE Contract!Next
    <3>1. status[t] = "queued" /\ create[t] = "committed"
      BY <2>7 DEF CommitProcessing, BenignInv, InStep, Linked
    <3> QED
      BY <2>2, <2>7, <3>1 DEF CommitProcessing, Contract!Arrow
  <2>8. ASSUME NEW t \in Task, CommitSubmitFailed(t) PROVE Contract!Next
    <3>1. status[t] = "queued" /\ create[t] = "committed"
      BY <2>8 DEF CommitSubmitFailed, BenignInv, InStep, Linked
    <3>2. FailAndRefund({t}) /\ UNCHANGED create
      BY <2>8 DEF CommitSubmitFailed
    <3> QED
      BY <2>3, <3>1, <3>2
  <2>9. ASSUME NEW k \in Job, HookCommit(k)
        PROVE  Contract!Next \/ UNCHANGED <<st, refunds>>
    <3> DEFINE t == jobTask[k]
    <3>1. t \in Task /\ Jobs(t) = {k} /\ status[t] \in {"processing", "completed"}
          /\ (job[k] = "error" => status[t] = "processing")
      BY <2>9, OpenHook DEF HookCommit
    <3>2. create[t] = "committed"
      BY <3>1 DEF OnlyCommittedTasksRun
    <3>3. CASE job[k] = "error"
      BY <2>3, <2>9, <3>1, <3>2, <3>3 DEF HookCommit
    <3>4. CASE job[k] # "error" /\ status[t] = "processing"
      BY <2>2, <2>9, <3>1, <3>2, <3>4 DEF HookCommit, Contract!Arrow
    <3>5. CASE job[k] # "error" /\ status[t] = "completed"
      <4>1. Update({t}, "completed") /\ UNCHANGED <<create, refunds>>
        BY <2>9, <3>5 DEF HookCommit
      <4>2. \A u \in Task : status'[u] = status[u]
        BY <4>1, <3>5 DEF Update
      <4> QED
        BY <4>1, <4>2
    <3> QED
      BY <3>1, <3>3, <3>4, <3>5
  <2>10. ASSUME NEW m \in Monitor, MonitorCommit(m) PROVE Contract!Next
    BY <2>3, <2>10 DEF MonitorCommit, BenignInv, Linked, TypeOK
  <2>11. ASSUME NEW p \in Poller, PollCommit(p)
         PROVE  Contract!Next \/ UNCHANGED <<st, refunds>>
    <3>1. PICK t \in Task, k \in Job : t = polling[p].task /\ k = polling[p].job
      BY <2>11 DEF PollCommit, Waiting, TypeOK, Idle, Poll
    <3>2. k \in Jobs(t) /\ job[k] = "media" /\ submit[t] = "done" /\ InStep(t)
      BY <2>11, <3>1 DEF PollCommit, Waiting, Idle, Linked, BenignInv
    <3>3. create[t] = "committed" /\ status[t] \in {"processing", "completed"}
      BY <3>2 DEF OnlyCommittedTasksRun, InStep
    <3>4. Update({t}, "completed") /\ UNCHANGED <<create, refunds>>
      BY <2>11, <3>1 DEF PollCommit
    <3>5. CASE status[t] = "processing"
      BY <2>2, <3>3, <3>4, <3>5 DEF Contract!Arrow
    <3>6. CASE status[t] = "completed"
      BY <3>4, <3>6 DEF Update, TypeOK
    <3> QED
      BY <3>3, <3>5, <3>6
  <2>12. ASSUME NEW t \in Task,
                \/ SubmitMissing(t) \/ AttemptAccepted(t) \/ AttemptRejected(t)
                \/ AttemptUncaught(t) \/ AttemptResponseLost(t) \/ WorkerLost(t)
                \/ Redelivered(t) \/ Age(t) \/ PollReturns(t)
                \/ \E p \in Poller : PollStart(p, t)
         PROVE  UNCHANGED <<st, refunds>>
    BY <2>1, <2>12
    DEF SubmitMissing, AttemptAccepted, AttemptRejected, AttemptUncaught,
        AttemptResponseLost, WorkerLost, Redelivered, Age, PollReturns, PollStart,
        rowVars
  <2>13. ASSUME NEW k \in Job,
                \/ JobEnds(k) \/ HookLost(k) \/ HookDuplicated(k) \/ HookHandled(k)
                \/ HookRollback(k)
         PROVE  UNCHANGED <<st, refunds>>
    BY <2>1, <2>13
    DEF JobEnds, HookLost, HookDuplicated, HookHandled, HookRollback, rowVars
  <2>14. ASSUME NEW m \in Monitor, MonitorScan(m) \/ MonitorDies(m)
         PROVE  UNCHANGED <<st, refunds>>
    BY <2>1, <2>14 DEF MonitorScan, MonitorDies, rowVars
  <2>15. ASSUME NEW p \in Poller, PollNotify(p) \/ PollLeavesTask(p) \/ PollDies(p)
         PROVE  UNCHANGED <<st, refunds>>
    BY <2>1, <2>15 DEF PollNotify, PollLeavesTask, PollDies, rowVars
  <2>16. CASE UNCHANGED vars
    BY <2>1, <2>16 DEF vars, rowVars
  <2> QED
    BY <2>4, <2>5, <2>6, <2>7, <2>8, <2>9, <2>10, <2>11, <2>12, <2>13, <2>14, <2>15,
       <2>16
    DEF Next, Submission, Hook, PollEnds
<1> QED
  BY <1>1, <1>2, TypeCorrect, LinksHold, ResultsHold, BenignInvHolds, PTL
  DEF Spec, ContractSpec, Contract!Spec

(* The parts of the invariants above that a reader may want by name.       *)

(* A task in PROCESSING can always be polled for a job of its own.         *)
COROLLARY ProcessingNamesJobHolds == Spec => []ProcessingNamesJob
<1> QED
  BY ResultsHold, PTL

(* No task is FAILED with its tokens kept.                                 *)
COROLLARY FailedIsRefundedHolds == Spec => []FailedIsRefunded
<1> QED
  BY ResultsHold, PTL

(* Rows, jobs, webhooks and processes refer to each other correctly.       *)
COROLLARY LinkedHolds == Spec => []Linked
<1> QED
  BY LinksHold, PTL

(* deliver_webhook.delay marks the task it is called for.                  *)
LEMMA DeliverTells ==
    ASSUME TypeOK, NEW t \in WithCallback, DeliverWebhook(t)
    PROVE  notified'[t]
<1>1. t \in Task
  BY GenerationAssumption
<1>2. notified' = [notified EXCEPT ![t] = TRUE]
  BY DEF DeliverWebhook
<1>3. t \in DOMAIN notified
  BY <1>1 DEF TypeOK
<1> QED
  BY <1>2, <1>3, Zenon

(* The announcement of a task's end.  Two things can keep it back: a       *)
(* webhook of the task that is done and has told nobody, and a COMPLETED   *)
(* row whose poll is gone.  Each of them takes a failure.                  *)
Told ==
    \A k \in Job :
        hook[k] = "open" /\ jobTask[k] \in WithCallback => notified[jobTask[k]]
LostHook(t) == ~notified[t] /\ \E k \in Jobs(t) : hook[k] = "done"
Silent(t) ==
    /\ status[t] = "completed" /\ ~notified[t]
    /\ \A p \in Poller : ~(Committed(p) /\ polling[p].task = t)
Paid(t) ==
    /\ LostHook(t) \/ Silent(t) => faults >= 1
    /\ LostHook(t) /\ Silent(t) => faults >= 2

(* The inductive strengthening of CompletionIsAnnounced.                   *)
TellInv == Told /\ \A t \in WithCallback : Paid(t)

(* The second half of OutcomeIsAnnounced, which asks nothing of the        *)
(* environment: no single failure keeps the completion of a task from a    *)
(* client with a callback_url.                                             *)
CompletionIsAnnounced ==
    \A t \in WithCallback :
        status[t] = "completed" => Announced(t) \/ faults >= 2

(* Nothing becomes owed, or one thing does and a failure pays for it.      *)
LEMMA PaidMoves ==
    ASSUME TypeOK, NEW t \in WithCallback, Paid(t),
           \/ /\ faults' \in {faults, faults + 1}
              /\ LostHook(t)' => LostHook(t)
              /\ Silent(t)' => Silent(t)
           \/ /\ faults' = faults + 1
              /\ (LostHook(t)' => LostHook(t)) \/ (Silent(t)' => Silent(t))
    PROVE  Paid(t)'
<1>1. faults \in Nat
  BY GenerationAssumption DEF TypeOK
<1> QED
  BY <1>1 DEF Paid

LEMMA TellInvHolds == Spec => []TellInv
<1>1. Init => TellInv
  <2> SUFFICES ASSUME Init PROVE TellInv
    OBVIOUS
  <2>1. \A k \in Job : hook[k] = "none"
    BY DEF Init
  <2>2. \A t \in WithCallback : status[t] = "created"
    BY GenerationAssumption DEF Init
  <2> QED
    BY <2>1, <2>2 DEF TellInv, Told, Paid, LostHook, Silent, Jobs
<1>2. TypeOK /\ TypeOK' /\ Linked /\ TellInv /\ [Next]_vars => TellInv'
  <2> SUFFICES ASSUME TypeOK, TypeOK', Linked, TellInv, [Next]_vars
               PROVE  TellInv'
    BY Zenon
  <2> USE GenerationAssumption
  <2>0. ASSUME UNCHANGED <<notified, jobTask>>, faults' \in {faults, faults + 1},
               \A k \in Job : hook'[k] \in {"open", "done"} => hook'[k] = hook[k],
               \A t \in WithCallback : Silent(t)' => Silent(t)
        PROVE  TellInv'
    <3>1. Told'
      BY <2>0 DEF TellInv, Told
    <3>2. ASSUME NEW t \in WithCallback PROVE Paid(t)'
      <4>1. LostHook(t)' => LostHook(t)
        BY <2>0 DEF LostHook, Jobs
      <4> QED
        BY <2>0, <4>1, PaidMoves DEF TellInv
    <3> QED
      BY <3>1, <3>2 DEF TellInv
  <2>1. ASSUME UNCHANGED <<status, polling, notified, hook, jobTask>>,
               faults' \in {faults, faults + 1}
        PROVE  TellInv'
    BY <2>0, <2>1 DEF Silent, Committed
  <2>2. ASSUME NEW t \in Task,
               \/ CreateTask(t) \/ DispatchFails(t) \/ CreateEnds(t)
               \/ SubmitMissing(t) \/ AttemptRejected(t) \/ AttemptUncaught(t)
               \/ Age(t) \/ PollReturns(t) \/ WorkerLost(t) \/ Redelivered(t)
        PROVE  TellInv'
    BY <2>1, <2>2
    DEF CreateTask, DispatchFails, CreateEnds, SubmitMissing, AttemptRejected,
        AttemptUncaught, Age, PollReturns, WorkerLost, Redelivered, Fault, rowVars,
        providerVars, pollVars
  <2>3. ASSUME NEW ts, NEW s \in Status, Update(ts, s), s # "completed",
               UNCHANGED <<polling, notified, hook, jobTask, faults>>
        PROVE  TellInv'
    <3>1. \A t \in WithCallback : status'[t] = "completed" => status[t] = "completed"
      BY <2>3 DEF Update
    <3> QED
      BY <2>0, <2>3, <3>1 DEF Silent, Committed
  <2>4. ASSUME NEW t \in Task, SubmitStart(t) \/ CommitProcessing(t)
        PROVE  TellInv'
    BY <2>3, <2>4 DEF SubmitStart, CommitProcessing, providerVars, pollVars
  <2>5. ASSUME NEW t \in Task, CommitSubmitFailed(t) PROVE TellInv'
    BY <2>3, <2>5 DEF CommitSubmitFailed, FailAndRefund, providerVars, pollVars
  <2>6. ASSUME NEW m \in Monitor, MonitorCommit(m) PROVE TellInv'
    BY <2>3, <2>6 DEF MonitorCommit, FailAndRefund, providerVars, pollVars
  <2>7. ASSUME NEW t \in Task, NEW k \in Job, Accept(t, k),
               UNCHANGED <<status, polling, notified>>, faults' \in {faults, faults + 1}
        PROVE  TellInv'
    <3>1. hook[k] = "none" /\ hook' = hook
      BY <2>7 DEF Accept, Linked
    <3>2. \A l \in Job : l # k => jobTask'[l] = jobTask[l]
      BY <2>7 DEF Accept, TypeOK
    <3>3. Told'
      BY <2>7, <3>1, <3>2 DEF TellInv, Told
    <3>4. ASSUME NEW u \in WithCallback PROVE Paid(u)'
      <4>1. LostHook(u)' => LostHook(u)
        BY <2>7, <3>1, <3>2 DEF LostHook, Jobs
      <4>2. Silent(u)' => Silent(u)
        BY <2>7 DEF Silent, Committed
      <4> QED
        BY <2>7, <4>1, <4>2, PaidMoves DEF TellInv
    <3> QED
      BY <3>3, <3>4 DEF TellInv
  <2>8. ASSUME NEW t \in Task, AttemptAccepted(t) \/ AttemptResponseLost(t)
        PROVE  TellInv'
    <3>1. PICK k \in Job : Accept(t, k)
      BY <2>8 DEF AttemptAccepted, AttemptResponseLost
    <3> QED
      BY <2>7, <2>8, <3>1
      DEF AttemptAccepted, AttemptResponseLost, Fault, rowVars, pollVars
  <2>9. ASSUME NEW k \in Job, JobEnds(k) \/ HookDuplicated(k) \/ HookRollback(k)
        PROVE  TellInv'
    <3>1. hook' = [hook EXCEPT ![k] = "sent"]
      BY <2>9 DEF JobEnds, HookDuplicated, HookRollback
    <3>2. \A l \in Job : hook'[l] \in {"open", "done"} => hook'[l] = hook[l]
      BY <3>1 DEF TypeOK
    <3>3. UNCHANGED <<status, polling, notified, jobTask>>
      BY <2>9 DEF JobEnds, HookDuplicated, HookRollback, rowVars, pollVars
    <3>4. faults' \in {faults, faults + 1}
      BY <2>9 DEF JobEnds, HookDuplicated, HookRollback, Fault
    <3> QED
      BY <2>0, <3>2, <3>3, <3>4 DEF Silent, Committed
  <2>10. ASSUME NEW k \in Job, HookLost(k) PROVE TellInv'
    <3>1. Told'
      BY <2>10 DEF HookLost, TellInv, Told, TypeOK
    <3>2. UNCHANGED <<status, polling, notified>> /\ faults' = faults + 1
      BY <2>10 DEF HookLost, Fault, rowVars, pollVars
    <3>3. \A t \in WithCallback : Silent(t)' => Silent(t)
      BY <3>2 DEF Silent, Committed
    <3> QED
      BY <3>1, <3>2, <3>3, PaidMoves DEF TellInv
  <2>11. ASSUME NEW k \in Job, HookHandled(k) PROVE TellInv'
    <3>1. jobTask[k] \in Task
      BY <2>11, HookTarget DEF HookHandled
    <3>2. \A t \in Task : notified[t] => notified'[t]
      BY <2>11 DEF HookHandled, DeliverWebhook, TypeOK
    <3>3. jobTask[k] \in WithCallback => notified'[jobTask[k]]
      BY <2>11, DeliverTells DEF HookHandled
    <3>4. Told'
      BY <2>11, <3>2, <3>3 DEF HookHandled, TellInv, Told, TypeOK
    <3>5. ASSUME NEW t \in WithCallback PROVE Paid(t)'
      <4>1. \A l \in Job : hook'[l] = "done" => hook[l] = "done"
        BY <2>11 DEF HookHandled, TypeOK
      <4>2. LostHook(t)' => LostHook(t)
        BY <2>11, <3>2, <4>1 DEF HookHandled, LostHook, Jobs
      <4>3. Silent(t)' => Silent(t)
        BY <2>11, <3>2 DEF HookHandled, Silent, Committed, rowVars, pollVars
      <4> QED
        BY <2>11, <4>2, <4>3, PaidMoves DEF HookHandled, TellInv
    <3> QED
      BY <3>4, <3>5 DEF TellInv
  <2>12. ASSUME NEW k \in Job, HookCommit(k) PROVE TellInv'
    <3>1. jobTask[k] \in WithCallback => notified[jobTask[k]]
      BY <2>12 DEF HookCommit, TellInv, Told
    <3>2. PICK s \in Status : Update({jobTask[k]}, s)
      BY <2>12 DEF HookCommit, FailAndRefund
    <3>3. UNCHANGED <<polling, notified, jobTask, faults>>
      BY <2>12 DEF HookCommit, pollVars
    <3>4. \A l \in Job : l # k => hook'[l] = hook[l]
      BY <2>12 DEF HookCommit, TypeOK
    <3>5. hook'[k] = "done"
      BY <2>12 DEF HookCommit, TypeOK
    <3>6. Told'
      BY <3>3, <3>4, <3>5 DEF TellInv, Told
    <3>7. ASSUME NEW t \in WithCallback PROVE Paid(t)'
      <4>1. LostHook(t)' => LostHook(t)
        BY <3>1, <3>3, <3>4 DEF LostHook, Jobs
      <4>2. t # jobTask[k] => status'[t] = status[t]
        BY <3>2 DEF Update
      <4>3. Silent(t)' => Silent(t)
        BY <3>1, <3>3, <4>2 DEF Silent, Committed
      <4> QED
        BY <3>3, <4>1, <4>3, PaidMoves DEF TellInv
    <3> QED
      BY <3>6, <3>7 DEF TellInv
  <2>13. ASSUME NEW m \in Monitor, MonitorScan(m) \/ MonitorDies(m)
         PROVE  TellInv'
    BY <2>1, <2>13 DEF MonitorScan, MonitorDies, Fault, rowVars, providerVars, pollVars
  <2>14. ASSUME NEW p \in Poller,
                (\E t \in Task : PollStart(p, t)) \/ PollLeavesTask(p)
         PROVE  TellInv'
    <3>1. ~Committed(p)
      BY <2>14 DEF PollStart, PollLeavesTask, Committed, Waiting, Idle
    <3>2. \A q \in Poller : q # p => polling'[q] = polling[q]
      BY <2>14 DEF PollStart, PollLeavesTask, TypeOK
    <3>3. UNCHANGED <<status, notified, hook, jobTask, faults>>
      BY <2>14 DEF PollStart, PollLeavesTask, rowVars, providerVars
    <3>4. \A u \in WithCallback : Silent(u)' => Silent(u)
      BY <3>1, <3>2, <3>3 DEF Silent, Committed
    <3> QED
      BY <2>0, <3>3, <3>4
  <2>15. ASSUME NEW p \in Poller, PollDies(p) PROVE TellInv'
    <3>1. UNCHANGED <<notified, hook, jobTask>> /\ faults' = faults + 1
      BY <2>15 DEF PollDies, Fault, providerVars
    <3>2. Told'
      BY <3>1 DEF TellInv, Told
    <3>3. \A t \in WithCallback : LostHook(t)' => LostHook(t)
      BY <3>1 DEF LostHook, Jobs
    <3> QED
      BY <3>1, <3>2, <3>3, PaidMoves DEF TellInv
  <2>16. ASSUME NEW p \in Poller, PollCommit(p) PROVE TellInv'
    <3>1. Update({polling[p].task}, "completed")
      BY <2>16 DEF PollCommit
    <3>2. \A u \in WithCallback : u # polling[p].task => status'[u] = status[u]
      BY <3>1 DEF Update
    <3>3. Committed(p)' /\ polling'[p].task = polling[p].task
      BY <2>16 DEF PollCommit, Committed, Waiting, TypeOK, Idle, Poll
    <3>4. \A q \in Poller : Committed(q) => polling'[q] = polling[q]
      BY <2>16 DEF PollCommit, Committed, Waiting, TypeOK
    <3>5. UNCHANGED <<notified, hook, jobTask, faults>>
      BY <2>16 DEF PollCommit, providerVars
    <3>6. \A u \in WithCallback : Silent(u)' => Silent(u)
      BY <3>2, <3>3, <3>4, <3>5 DEF Silent, Committed
    <3> QED
      BY <2>0, <3>5, <3>6
  <2>17. ASSUME NEW p \in Poller, PollNotify(p) PROVE TellInv'
    <3>1. polling[p].task \in Task
      BY <2>17 DEF PollNotify, Committed, TypeOK, Idle, Poll
    <3>2. \A t \in Task : notified[t] => notified'[t]
      BY <2>17 DEF PollNotify, DeliverWebhook, TypeOK
    <3>3. polling[p].task \in WithCallback => notified'[polling[p].task]
      BY <2>17, DeliverTells DEF PollNotify
    <3>4. \A q \in Poller : q # p => polling'[q] = polling[q]
      BY <2>17 DEF PollNotify, TypeOK
    <3>5. UNCHANGED <<status, hook, jobTask, faults>>
      BY <2>17 DEF PollNotify, rowVars, providerVars
    <3>6. Told'
      BY <3>2, <3>5 DEF TellInv, Told
    <3>7. ASSUME NEW t \in WithCallback PROVE Paid(t)'
      <4>1. LostHook(t)' => LostHook(t)
        BY <3>2, <3>5 DEF LostHook, Jobs
      <4>2. Silent(t)' => Silent(t)
        BY <3>2, <3>3, <3>4, <3>5 DEF Silent, Committed
      <4> QED
        BY <3>5, <4>1, <4>2, PaidMoves DEF TellInv
    <3> QED
      BY <3>6, <3>7 DEF TellInv
  <2>18. CASE UNCHANGED vars
    BY <2>1, <2>18 DEF vars, rowVars, providerVars, pollVars
  <2>19. ASSUME NEW t \in Task,
                \/ CreateTask(t) \/ DispatchFails(t) \/ CreateEnds(t)
                \/ Submission(t) \/ AttemptResponseLost(t) \/ WorkerLost(t)
                \/ Redelivered(t) \/ Age(t) \/ PollReturns(t)
                \/ \E p \in Poller : PollStart(p, t)
         PROVE  TellInv'
    BY <2>2, <2>4, <2>5, <2>8, <2>14, <2>19, Zenon DEF Submission
  <2>20. ASSUME NEW k \in Job,
                \/ JobEnds(k) \/ HookLost(k) \/ HookDuplicated(k) \/ Hook(k)
                \/ HookRollback(k)
         PROVE  TellInv'
    BY <2>9, <2>10, <2>11, <2>12, <2>20, Zenon DEF Hook
  <2>21. ASSUME NEW p \in Poller, PollEnds(p) \/ PollDies(p) PROVE TellInv'
    BY <2>14, <2>15, <2>16, <2>17, <2>21, Zenon DEF PollEnds
  <2> QED
    BY <2>6, <2>13, <2>18, <2>19, <2>20, <2>21, Zenon DEF Next
<1> QED
  BY <1>1, <1>2, TypeCorrect, LinksHold, PTL DEF Spec

(* For every task with a callback_url and whatever fails: one failure alone *)
(* never keeps a completion from its client.                               *)
THEOREM CompletionIsAnnouncedHolds == Spec => []CompletionIsAnnounced
<1>1. TypeOK /\ Linked /\ ResultOfOwnJob /\ TellInv => CompletionIsAnnounced
  <2> SUFFICES ASSUME TypeOK, Linked, ResultOfOwnJob, TellInv, NEW t \in WithCallback,
                      status[t] = "completed", ~Announced(t)
               PROVE  faults >= 2
    BY DEF CompletionIsAnnounced
  <2>1. t \in Task
    BY GenerationAssumption
  <2>2. PICK k \in Jobs(t) : job[k] \in Ended
    BY <2>1 DEF ResultOfOwnJob
  <2>3. k \in Job /\ jobTask[k] = t
    BY DEF Jobs
  <2>4. hook[k] # "none" /\ hook[k] # "sent" /\ ~notified[t]
    BY <2>2, <2>3 DEF Linked, Announced
  <2>5. hook[k] # "open"
    BY <2>3, <2>4 DEF TellInv, Told
  <2>6. hook[k] = "done"
    BY <2>3, <2>4, <2>5 DEF TypeOK
  <2>7. LostHook(t) /\ Silent(t)
    BY <2>4, <2>6 DEF LostHook, Silent, Announced
  <2> QED
    BY <2>7 DEF TellInv, Paid
<1> QED
  BY <1>1, TypeCorrect, LinksHold, ResultsHold, TellInvHolds, PTL

(* In a benign environment the outcome of a job is never kept from a       *)
(* client with a callback_url, unless two failures fall together.  That a  *)
(* job failed cannot be kept at all: the row is failed by its webhook only,*)
(* which has queued the message before it commits.                         *)
THEOREM OutcomeIsAnnouncedHolds == ASSUME Benign PROVE Spec => []OutcomeIsAnnounced
<1> DEFINE Over(t) == status[t] = "failed" /\ Jobs(t) # {}
           FailureTold == \A t \in WithCallback : Over(t) => notified[t]
           Known == TypeOK /\ Linked /\ BenignInv /\ TellInv
<1>1. Init => FailureTold
  BY GenerationAssumption DEF Init
<1>2. Known /\ FailureTold /\ [Next]_vars => FailureTold'
  <2> SUFFICES ASSUME Known, FailureTold, [Next]_vars PROVE FailureTold'
    BY Zenon
  <2> USE GenerationAssumption
  <2>0. ASSUME \A t \in WithCallback : notified[t] => notified'[t],
               \A t \in WithCallback : Over(t)' => Over(t)
        PROVE  FailureTold'
    BY <2>0
  <2>1. ASSUME UNCHANGED <<status, jobTask>>,
               \A t \in WithCallback : notified[t] => notified'[t]
        PROVE  FailureTold'
    BY <2>0, <2>1 DEF Jobs
  <2>2. ASSUME NEW ts, NEW s, Update(ts, s), UNCHANGED <<notified, jobTask>>,
               s = "failed" => \A t \in ts \cap WithCallback : Jobs(t) = {} \/ notified[t]
        PROVE  FailureTold'
    BY <2>2 DEF Update, Jobs
  <2>3. ASSUME NEW t \in Task, AttemptAccepted(t) PROVE FailureTold'
    <3>1. PICK k \in Job : Accept(t, k)
      BY <2>3 DEF AttemptAccepted
    <3>2. \A u \in Task : u # t => Jobs(u)' = Jobs(u)
      BY <3>1 DEF Accept, Jobs, TypeOK, Linked
    <3>3. status[t] = "queued" /\ UNCHANGED <<status, notified>>
      BY <2>3 DEF AttemptAccepted, BenignInv, InStep, rowVars
    <3>4. \A u \in WithCallback : Over(u)' => Over(u)
      BY <3>2, <3>3
    <3> QED
      BY <2>0, <3>3, <3>4
  <2>4. ASSUME NEW t \in Task, CommitSubmitFailed(t) PROVE FailureTold'
    <3>1. Jobs(t) = {}
      BY <2>4 DEF CommitSubmitFailed, BenignInv, InStep
    <3> QED
      BY <2>2, <2>4, <3>1 DEF CommitSubmitFailed, FailAndRefund, providerVars
  <2>5. ASSUME NEW m \in Monitor, MonitorCommit(m) PROVE FailureTold'
    <3>1. \A t \in doomed[m] : Jobs(t) = {}
      BY DEF BenignInv
    <3> QED
      BY <2>2, <2>5, <3>1 DEF MonitorCommit, FailAndRefund, providerVars
  <2>6. ASSUME NEW k \in Job, HookCommit(k) PROVE FailureTold'
    <3>1. jobTask[k] \in WithCallback => notified[jobTask[k]]
      BY <2>6 DEF HookCommit, TellInv, Told
    <3>2. PICK s \in Status : Update({jobTask[k]}, s)
      BY <2>6 DEF HookCommit, FailAndRefund
    <3> QED
      BY <2>2, <2>6, <3>1, <3>2 DEF HookCommit
  <2>7. ASSUME NEW t \in Task, SubmitStart(t) \/ CommitProcessing(t)
        PROVE  FailureTold'
    BY <2>2, <2>7 DEF SubmitStart, CommitProcessing, providerVars
  <2>8. ASSUME NEW p \in Poller, PollCommit(p) PROVE FailureTold'
    BY <2>2, <2>8 DEF PollCommit, providerVars
  <2>9. ASSUME NEW t, DeliverWebhook(t), UNCHANGED <<status, jobTask>>
        PROVE  FailureTold'
    <3>1. \A u \in WithCallback : notified[u] => notified'[u]
      BY <2>9 DEF DeliverWebhook, TypeOK
    <3> QED
      BY <2>1, <2>9, <3>1
  <2>10. ASSUME NEW k \in Job, HookHandled(k) PROVE FailureTold'
    BY <2>9, <2>10 DEF HookHandled, rowVars
  <2>11. ASSUME NEW p \in Poller, PollNotify(p) PROVE FailureTold'
    BY <2>9, <2>11 DEF PollNotify, rowVars, providerVars
  <2>12. ASSUME NEW t \in Task,
                AttemptResponseLost(t) \/ WorkerLost(t) \/ Redelivered(t)
         PROVE  FALSE
    BY <2>12 DEF AttemptResponseLost, WorkerLost, Redelivered, Fault, Benign
  <2>13. ASSUME NEW t \in Task,
                \/ CreateTask(t) \/ DispatchFails(t) \/ CreateEnds(t)
                \/ SubmitMissing(t) \/ AttemptRejected(t) \/ AttemptUncaught(t)
                \/ Age(t) \/ PollReturns(t) \/ \E p \in Poller : PollStart(p, t)
         PROVE  FailureTold'
    BY <2>1, <2>13
    DEF CreateTask, DispatchFails, CreateEnds, SubmitMissing, AttemptRejected,
        AttemptUncaught, Age, PollReturns, PollStart, rowVars, providerVars
  <2>14. ASSUME NEW k \in Job,
                JobEnds(k) \/ HookLost(k) \/ HookDuplicated(k) \/ HookRollback(k)
         PROVE  FailureTold'
    BY <2>1, <2>14 DEF JobEnds, HookLost, HookDuplicated, HookRollback, rowVars
  <2>15. ASSUME NEW m \in Monitor, MonitorScan(m) \/ MonitorDies(m)
         PROVE  FailureTold'
    BY <2>1, <2>15 DEF MonitorScan, MonitorDies, rowVars, providerVars
  <2>16. ASSUME NEW p \in Poller, PollLeavesTask(p) \/ PollDies(p)
         PROVE  FailureTold'
    BY <2>1, <2>16 DEF PollLeavesTask, PollDies, rowVars, providerVars
  <2>17. CASE UNCHANGED vars
    BY <2>1, <2>17 DEF vars, rowVars, providerVars
  <2> QED
    BY <2>3, <2>4, <2>5, <2>6, <2>7, <2>8, <2>10, <2>11, <2>12, <2>13, <2>14, <2>15,
       <2>16, <2>17
    DEF Next, Submission, Hook, PollEnds
<1>3. FailureTold /\ CompletionIsAnnounced => OutcomeIsAnnounced
  BY DEF OutcomeIsAnnounced, CompletionIsAnnounced
<1> QED
  BY <1>1, <1>2, <1>3, TypeCorrect, LinksHold, BenignInvHolds, TellInvHolds,
     CompletionIsAnnouncedHolds, PTL DEF Spec

-----------------------------------------------------------------------------
(* What failures can cost                                                  *)

(* The refunds that can still come, if nothing more fails: of the message, *)
(* from its submission and from the monitors that will find the row QUEUED;*)
(* of the jobs whose webhook is to come; of the monitors that have found   *)
(* the row, or may find it as it is.                                       *)
Crowd == Cardinality(Monitor)
Ahead(t) ==
    IF submit[t] \in {"none", "sent"} THEN 1 + Crowd
    ELSE IF submit[t] \in {"trying", "exhausted"} THEN 1 ELSE 0
Hooks(t) == {k \in Jobs(t) : hook[k] # "done"}
Dooms(t) ==
    IF status[t] = "queued" /\ request[t] = Null THEN Monitor
    ELSE {m \in Monitor : t \in doomed[m]}

Claims(t) == refunds[t] + Ahead(t) + Cardinality(Hooks(t)) + Cardinality(Dooms(t))
Holds(t) == IsFiniteSet(Hooks(t)) /\ Claims(t) <= (1 + Crowd) * (1 + faults)

(* The inductive strengthening of RefundsBounded.                          *)
ClaimsInv == \A t \in Task : Holds(t)

(* A message is sent by the request that creates its task.                 *)
Unsent == \A t \in Task : create[t] = "new" => submit[t] = "none"

LEMMA CrowdType == Crowd \in Nat /\ IsFiniteSet(Monitor)
  BY FS_CardinalityType, GenerationAssumption DEF Crowd

LEMMA SmallerSet ==
    ASSUME NEW S, NEW T, IsFiniteSet(S), T \subseteq S
    PROVE  /\ IsFiniteSet(T)
           /\ Cardinality(T) \in Nat /\ Cardinality(S) \in Nat
           /\ Cardinality(T) <= Cardinality(S)
  BY FS_Subset, FS_CardinalityType

LEMMA ClaimTypes ==
    ASSUME TypeOK, NEW t \in Task, IsFiniteSet(Hooks(t))
    PROVE  /\ refunds[t] \in Nat /\ Ahead(t) \in 0..(1 + Crowd)
           /\ Cardinality(Hooks(t)) \in Nat
           /\ IsFiniteSet(Dooms(t)) /\ Cardinality(Dooms(t)) \in 0..Crowd
<1>1. refunds[t] \in Nat
  BY DEF TypeOK
<1>2. Ahead(t) \in 0..(1 + Crowd)
  BY CrowdType DEF Ahead
<1>3. Cardinality(Hooks(t)) \in Nat
  BY FS_CardinalityType
<1>4. Dooms(t) \subseteq Monitor
  BY DEF Dooms
<1>5. IsFiniteSet(Dooms(t)) /\ Cardinality(Dooms(t)) \in 0..Crowd
  BY <1>4, CrowdType, SmallerSet DEF Crowd
<1> QED
  BY <1>1, <1>2, <1>3, <1>5

LEMMA ClaimTypesNext ==
    ASSUME TypeOK', NEW t \in Task, IsFiniteSet(Hooks(t)')
    PROVE  /\ refunds'[t] \in Nat /\ Ahead(t)' \in 0..(1 + Crowd)
           /\ Cardinality(Hooks(t)') \in Nat
           /\ IsFiniteSet(Dooms(t)') /\ Cardinality(Dooms(t)') \in 0..Crowd
<1>1. refunds'[t] \in Nat
  BY DEF TypeOK
<1>2. Ahead(t)' \in 0..(1 + Crowd)
  BY CrowdType DEF Ahead
<1>3. Cardinality(Hooks(t)') \in Nat
  BY FS_CardinalityType
<1>4. Dooms(t)' \subseteq Monitor
  BY DEF Dooms
<1>5. IsFiniteSet(Dooms(t)') /\ Cardinality(Dooms(t)') \in 0..Crowd
  BY <1>4, CrowdType, SmallerSet DEF Crowd
<1> QED
  BY <1>1, <1>2, <1>3, <1>5

(* A step that takes from one claim what it adds to another, or that is    *)
(* paid for by a failure.                                                  *)
LEMMA ClaimsMove ==
    ASSUME TypeOK, TypeOK', NEW t \in Task, Holds(t), IsFiniteSet(Hooks(t)'),
           \/ UNCHANGED faults /\ Claims(t)' <= Claims(t)
           \/ faults' = faults + 1 /\ Claims(t)' <= Claims(t) + 1 + Crowd
    PROVE  Holds(t)'
<1>1. /\ Crowd \in Nat /\ faults \in Nat
      /\ Claims(t) \in Nat /\ Claims(t)' \in Nat
  BY CrowdType, ClaimTypes, ClaimTypesNext, GenerationAssumption DEF TypeOK, Claims, Holds
<1>2. /\ (1 + Crowd) * (1 + faults) \in Nat
      /\ (1 + Crowd) * (1 + (faults + 1)) = (1 + Crowd) * (1 + faults) + 1 + Crowd
  BY <1>1
<1>3. CASE UNCHANGED faults /\ Claims(t)' <= Claims(t)
  BY <1>1, <1>2, <1>3 DEF Holds, Crowd
<1>4. CASE faults' = faults + 1 /\ Claims(t)' <= Claims(t) + 1 + Crowd
  <2> DEFINE B == (1 + Crowd) * (1 + faults)
  <2>1. B \in Nat /\ Claims(t) <= B
    BY <1>2 DEF Holds
  <2>2. B' = B + 1 + Crowd
    BY <1>2, <1>4 DEF Crowd
  <2> HIDE DEF B
  <2>3. Claims(t)' <= B'
    BY <1>1, <1>4, <2>1, <2>2
  <2> QED
    BY <2>3 DEF Holds, B
<1> QED
  BY <1>3, <1>4

(* Most steps add no claim.                                                *)
LEMMA ClaimsShrink ==
    ASSUME TypeOK, TypeOK', NEW t \in Task, Holds(t),
           UNCHANGED faults \/ faults' = faults + 1,
           refunds'[t] + Ahead(t)' <= refunds[t] + Ahead(t),
           Hooks(t)' \subseteq Hooks(t), Dooms(t)' \subseteq Dooms(t)
    PROVE  Holds(t)'
<1>1. IsFiniteSet(Hooks(t))
  BY DEF Holds
<1>2. IsFiniteSet(Hooks(t)') /\ Cardinality(Hooks(t)') <= Cardinality(Hooks(t))
  BY <1>1, SmallerSet
<1>3. Cardinality(Dooms(t)') <= Cardinality(Dooms(t))
  BY <1>1, ClaimTypes, SmallerSet
<1>4. Claims(t)' <= Claims(t) /\ Claims(t) \in Nat /\ Claims(t)' \in Nat
  BY <1>1, <1>2, <1>3, CrowdType, ClaimTypes, ClaimTypesNext DEF Claims
<1> QED
  BY <1>2, <1>4, ClaimsMove, CrowdType

(* Steps of other processes, and what a step leaves of a task's claims.    *)
LEMMA ClaimsQuiet ==
    ASSUME TypeOK, TypeOK', NEW t \in Task, Holds(t),
           UNCHANGED <<status, request, refunds, providerVars, doomed>>,
           UNCHANGED faults \/ faults' = faults + 1,
           \/ submit'[t] = submit[t]
           \/ submit[t] = "none" /\ submit'[t] = "sent"
           \/ submit[t] = "trying" /\ submit'[t] = "exhausted"
           \/ submit'[t] = "done"
    PROVE  Holds(t)'
<1>1. Ahead(t)' <= Ahead(t) /\ Ahead(t) \in Nat /\ Ahead(t)' \in Nat
  BY CrowdType DEF Ahead, Crowd
<1>2. refunds'[t] + Ahead(t)' <= refunds[t] + Ahead(t)
  BY <1>1 DEF rowVars, TypeOK
<1>3. Hooks(t)' = Hooks(t) /\ Dooms(t)' = Dooms(t)
  BY DEF Hooks, Dooms, Jobs, providerVars, rowVars
<1> QED
  BY <1>2, <1>3, ClaimsShrink

LEMMA ClaimsElsewhere ==
    ASSUME TypeOK, TypeOK', NEW t \in Task, Holds(t),
           UNCHANGED faults \/ faults' = faults + 1,
           submit'[t] = submit[t], refunds'[t] = refunds[t],
           Hooks(t)' \subseteq Hooks(t), Dooms(t)' \subseteq Dooms(t)
    PROVE  Holds(t)'
<1>1. Ahead(t)' = Ahead(t) /\ Ahead(t) \in Nat
  BY CrowdType DEF Ahead, Crowd
<1>2. refunds'[t] + Ahead(t)' <= refunds[t] + Ahead(t)
  BY <1>1 DEF TypeOK
<1> QED
  BY <1>2, ClaimsShrink

LEMMA UpdateOthers ==
    ASSUME NEW t \in Task, NEW s, Update({t}, s)
    PROVE  status'[t] = s /\ \A u \in Task : u # t => status'[u] = status[u]
  BY DEF Update

LEMMA HookMoves ==
    ASSUME TypeOK, Linked, NEW k \in Job, NEW h, UNCHANGED jobTask,
           hook' = [hook EXCEPT ![k] = h], hook[k] # "done" \/ h = "done",
           NEW t \in Task
    PROVE  Hooks(t)' \subseteq Hooks(t)
  BY DEF TypeOK, Hooks, Jobs

(* A new job is one more webhook to come for its task, and for no other.   *)
LEMMA AcceptHooks ==
    ASSUME TypeOK, Linked, NEW t \in Task, NEW k \in Job, Accept(t, k), NEW u \in Task
    PROVE  Hooks(u)' = IF u = t THEN Hooks(u) \cup {k} ELSE Hooks(u)
<1>1. hook[k] = "none" /\ jobTask[k] = Null /\ UNCHANGED hook
  BY DEF Accept, Linked, Ended
<1>2. jobTask' = [jobTask EXCEPT ![k] = t]
  BY DEF Accept
<1> QED
  BY <1>1, <1>2, GenerationAssumption DEF TypeOK, Hooks, Jobs

LEMMA OneMore ==
    ASSUME NEW S, NEW x, IsFiniteSet(S)
    PROVE  /\ IsFiniteSet(S \cup {x})
           /\ Cardinality(S) \in Nat /\ Cardinality(S \cup {x}) \in Nat
           /\ Cardinality(S \cup {x}) <= Cardinality(S) + 1
  BY FS_AddElement, FS_CardinalityType

LEMMA OneLess ==
    ASSUME NEW S, NEW T, NEW x \in S, IsFiniteSet(S), T \subseteq S \ {x}
    PROVE  /\ IsFiniteSet(T) /\ Cardinality(T) \in Nat /\ Cardinality(S) \in Nat
           /\ Cardinality(T) + 1 <= Cardinality(S)
<1>1. /\ IsFiniteSet(S \ {x}) /\ Cardinality(S \ {x}) = Cardinality(S) - 1
  BY FS_RemoveElement
<1>2. Cardinality(S) \in Nat
  BY FS_CardinalityType
<1> QED
  BY <1>1, <1>2, SmallerSet

(* The submission puts the row in the reach of every monitor, as foreseen. *)
LEMMA SubmitStartClaims ==
    ASSUME TypeOK, TypeOK', ClaimsInv, NEW t \in Task, SubmitStart(t)
    PROVE  ClaimsInv'
<1> SUFFICES ASSUME NEW u \in Task PROVE Holds(u)'
  BY DEF ClaimsInv
<1>1. Holds(u) /\ UNCHANGED <<refunds, request, doomed, faults, hook, jobTask>>
  BY DEF ClaimsInv, SubmitStart, providerVars
<1>2. Hooks(u)' = Hooks(u)
  BY <1>1 DEF Hooks, Jobs
<1>3. CASE u = t
  <2>1. submit[u] = "sent" /\ submit'[u] = "trying"
    BY <1>3 DEF SubmitStart, TypeOK
  <2>2. Ahead(u) = 1 + Crowd /\ Ahead(u)' = 1
    BY <2>1 DEF Ahead
  <2>3. IsFiniteSet(Hooks(u)) /\ IsFiniteSet(Hooks(u)')
    BY <1>1, <1>2 DEF Holds
  <2>4. Claims(u)' <= Claims(u)
    BY <1>1, <1>2, <2>2, <2>3, ClaimTypes, ClaimTypesNext, CrowdType DEF Claims
  <2> QED
    BY <1>1, <2>3, <2>4, ClaimsMove
<1>4. CASE u # t
  <2>1. submit'[u] = submit[u]
    BY <1>4 DEF SubmitStart, TypeOK
  <2>2. Dooms(u)' = Dooms(u)
    BY <1>1, <1>4, UpdateOthers DEF SubmitStart, Dooms
  <2> QED
    BY <1>1, <1>2, <2>1, <2>2, ClaimsElsewhere
<1> QED
  BY <1>3, <1>4

(* An accepted job takes the place of the submission's own refund.         *)
LEMMA AcceptedClaims ==
    ASSUME TypeOK, TypeOK', Linked, ClaimsInv, NEW t \in Task, AttemptAccepted(t)
    PROVE  ClaimsInv'
<1> SUFFICES ASSUME NEW u \in Task PROVE Holds(u)'
  BY DEF ClaimsInv
<1>1. Holds(u) /\ UNCHANGED <<rowVars, doomed, faults>>
  BY DEF ClaimsInv, AttemptAccepted
<1>2. /\ Dooms(u)' = Dooms(u) /\ Cardinality(Dooms(u)') = Cardinality(Dooms(u))
      /\ refunds'[u] = refunds[u]
  <2>1. Dooms(u)' = Dooms(u) /\ refunds'[u] = refunds[u]
    BY <1>1 DEF Dooms, rowVars
  <2> QED
    BY <2>1
<1>3. PICK k \in Job : Accept(t, k)
  BY DEF AttemptAccepted
<1>4. CASE u = t
  <2>1. Ahead(u) = 1 /\ Ahead(u)' = 0
    BY <1>4 DEF Ahead, AttemptAccepted, TypeOK
  <2>2. Hooks(u)' = Hooks(u) \cup {k} /\ IsFiniteSet(Hooks(u))
    BY <1>1, <1>3, <1>4, AcceptHooks DEF Holds
  <2>3. /\ IsFiniteSet(Hooks(u)')
        /\ Cardinality(Hooks(u)') <= Cardinality(Hooks(u)) + 1
    BY <2>2, OneMore
  <2>4. /\ refunds[u] \in Nat /\ Cardinality(Hooks(u)) \in Nat
        /\ Cardinality(Hooks(u)') \in Nat /\ Cardinality(Dooms(u)) \in Nat
    <3>1. IsFiniteSet(Hooks(u)) /\ IsFiniteSet(Hooks(u)')
      BY <2>2, <2>3
    <3> QED
      BY <3>1, ClaimTypes, ClaimTypesNext, CrowdType
  <2>5. Claims(u)' <= Claims(u)
    BY <1>2, <2>1, <2>3, <2>4 DEF Claims
  <2> QED
    BY <1>1, <2>3, <2>5, ClaimsMove
<1>5. CASE u # t
  <2>1. submit'[u] = submit[u]
    BY <1>5 DEF AttemptAccepted, TypeOK
  <2>2. Hooks(u)' = Hooks(u)
    BY <1>3, <1>5, AcceptHooks
  <2> QED
    BY <1>1, <1>2, <2>1, <2>2, ClaimsElsewhere
<1> QED
  BY <1>4, <1>5

(* A job the worker does not know of is paid for by the failure.           *)
LEMMA ResponseLostClaims ==
    ASSUME TypeOK, TypeOK', Linked, ClaimsInv, NEW t \in Task, AttemptResponseLost(t)
    PROVE  ClaimsInv'
<1> SUFFICES ASSUME NEW u \in Task PROVE Holds(u)'
  BY DEF ClaimsInv
<1>1. Holds(u) /\ UNCHANGED <<rowVars, doomed>> /\ faults' = faults + 1
  BY DEF ClaimsInv, AttemptResponseLost, Fault
<1>2. /\ Dooms(u)' = Dooms(u) /\ Cardinality(Dooms(u)') = Cardinality(Dooms(u))
      /\ refunds'[u] = refunds[u]
  <2>1. Dooms(u)' = Dooms(u) /\ refunds'[u] = refunds[u]
    BY <1>1 DEF Dooms, rowVars
  <2> QED
    BY <2>1
<1>3. PICK k \in Job : Accept(t, k)
  BY DEF AttemptResponseLost
<1>4. CASE u = t
  <2>1. submit[u] = "trying" /\ submit'[u] \in {"trying", "exhausted", "done"}
    BY <1>4 DEF AttemptResponseLost, NextAttempt, TypeOK
  <2>2. Ahead(u) = 1 /\ Ahead(u)' \in {0, 1}
    BY <2>1 DEF Ahead
  <2>3. Hooks(u)' = Hooks(u) \cup {k} /\ IsFiniteSet(Hooks(u))
    BY <1>1, <1>3, <1>4, AcceptHooks DEF Holds
  <2>4. /\ IsFiniteSet(Hooks(u)')
        /\ Cardinality(Hooks(u)') <= Cardinality(Hooks(u)) + 1
    BY <2>3, OneMore
  <2>5. /\ refunds[u] \in Nat /\ Cardinality(Hooks(u)) \in Nat
        /\ Cardinality(Hooks(u)') \in Nat /\ Cardinality(Dooms(u)) \in Nat
    <3>1. IsFiniteSet(Hooks(u)) /\ IsFiniteSet(Hooks(u)')
      BY <2>3, <2>4
    <3> QED
      BY <3>1, ClaimTypes, ClaimTypesNext, CrowdType
  <2>6. Claims(u)' <= Claims(u) + 1 + Crowd
    BY <1>2, <2>2, <2>4, <2>5, CrowdType DEF Claims
  <2> QED
    BY <1>1, <2>4, <2>6, ClaimsMove
<1>5. CASE u # t
  <2>1. submit'[u] = submit[u]
    BY <1>5 DEF AttemptResponseLost, NextAttempt, TypeOK
  <2>2. Hooks(u)' = Hooks(u)
    BY <1>3, <1>5, AcceptHooks
  <2> QED
    BY <1>1, <1>2, <2>1, <2>2, ClaimsElsewhere
<1> QED
  BY <1>4, <1>5

(* The submission gives the tokens back itself.                            *)
LEMMA SubmitFailedClaims ==
    ASSUME TypeOK, TypeOK', ClaimsInv, NEW t \in Task, CommitSubmitFailed(t)
    PROVE  ClaimsInv'
<1> SUFFICES ASSUME NEW u \in Task PROVE Holds(u)'
  BY DEF ClaimsInv
<1>1. Holds(u) /\ UNCHANGED <<request, doomed, faults, hook, jobTask>>
  BY DEF ClaimsInv, CommitSubmitFailed, providerVars
<1>2. Hooks(u)' = Hooks(u)
  BY <1>1 DEF Hooks, Jobs
<1>3. Dooms(u)' \subseteq Dooms(u)
  <2>1. status'[u] = IF u = t THEN "failed" ELSE status[u]
    BY UpdateOthers DEF CommitSubmitFailed, FailAndRefund
  <2> QED
    BY <1>1, <2>1 DEF Dooms
<1>4. CASE u = t
  <2>1. Ahead(u) = 1 /\ Ahead(u)' = 0
    BY <1>4 DEF Ahead, CommitSubmitFailed, TypeOK
  <2>2. refunds'[u] = refunds[u] + 1 /\ refunds[u] \in Nat
    BY <1>4 DEF CommitSubmitFailed, FailAndRefund, RefundBalance, TypeOK
  <2> QED
    BY <1>1, <1>2, <1>3, <2>1, <2>2, ClaimsShrink
<1>5. CASE u # t
  <2>1. submit'[u] = submit[u] /\ refunds'[u] = refunds[u]
    BY <1>5 DEF CommitSubmitFailed, FailAndRefund, RefundBalance, TypeOK
  <2> QED
    BY <1>1, <1>2, <1>3, <2>1, ClaimsElsewhere
<1> QED
  BY <1>4, <1>5

(* A message that comes back may do again all that the first one did.      *)
LEMMA RedeliveredClaims ==
    ASSUME TypeOK, TypeOK', ClaimsInv, NEW t \in Task, Redelivered(t)
    PROVE  ClaimsInv'
<1> SUFFICES ASSUME NEW u \in Task PROVE Holds(u)'
  BY DEF ClaimsInv
<1>1. Holds(u) /\ UNCHANGED <<rowVars, providerVars, doomed>> /\ faults' = faults + 1
  BY DEF ClaimsInv, Redelivered, Fault
<1>2. Hooks(u)' = Hooks(u) /\ Dooms(u)' = Dooms(u) /\ refunds'[u] = refunds[u]
  BY <1>1 DEF Hooks, Dooms, Jobs, providerVars, rowVars
<1>3. IsFiniteSet(Hooks(u)) /\ IsFiniteSet(Hooks(u)')
  BY <1>1, <1>2 DEF Holds
<1>4. Claims(u)' <= Claims(u) + 1 + Crowd
  BY <1>2, <1>3, ClaimTypes, ClaimTypesNext, CrowdType DEF Claims
<1> QED
  BY <1>1, <1>3, <1>4, ClaimsMove

LEMMA HookDuplicatedClaims ==
    ASSUME TypeOK, TypeOK', ClaimsInv, NEW k \in Job, HookDuplicated(k)
    PROVE  ClaimsInv'
<1> SUFFICES ASSUME NEW u \in Task PROVE Holds(u)'
  BY DEF ClaimsInv
<1>1. /\ Holds(u) /\ faults' = faults + 1
      /\ UNCHANGED <<rowVars, submitVars, jobTask, doomed>>
  BY DEF ClaimsInv, HookDuplicated, Fault
<1>2. Dooms(u)' = Dooms(u) /\ refunds'[u] = refunds[u] /\ Ahead(u)' = Ahead(u)
  BY <1>1 DEF Dooms, Ahead, Crowd, submitVars, rowVars
<1>3. Hooks(u)' \subseteq Hooks(u) \cup {k} /\ IsFiniteSet(Hooks(u))
  BY <1>1 DEF Hooks, Jobs, HookDuplicated, TypeOK, Holds
<1>4. /\ IsFiniteSet(Hooks(u)')
      /\ Cardinality(Hooks(u)') <= Cardinality(Hooks(u)) + 1
  <2> DEFINE S == Hooks(u) \cup {k}
  <2>1. /\ IsFiniteSet(S) /\ Cardinality(S) <= Cardinality(Hooks(u)) + 1
        /\ Cardinality(Hooks(u)) \in Nat /\ Cardinality(S) \in Nat
    BY <1>3, OneMore
  <2>2. Hooks(u)' \subseteq S
    BY <1>3
  <2> HIDE DEF S
  <2> QED
    BY <2>1, <2>2, SmallerSet
<1>5. Claims(u)' <= Claims(u) + 1 + Crowd
  BY <1>2, <1>3, <1>4, ClaimTypes, ClaimTypesNext, CrowdType DEF Claims
<1> QED
  BY <1>1, <1>4, <1>5, ClaimsMove

(* A webhook refunds at most once, and is then done.                       *)
LEMMA HookCommitClaims ==
    ASSUME TypeOK, TypeOK', Linked, ClaimsInv, NEW k \in Job, HookCommit(k)
    PROVE  ClaimsInv'
<1> SUFFICES ASSUME NEW u \in Task PROVE Holds(u)'
  BY DEF ClaimsInv
<1>1. Holds(u) /\ UNCHANGED <<request, submit, jobTask, doomed, faults>>
  BY DEF ClaimsInv, HookCommit, submitVars
<1>2. hook[k] = "open" /\ hook' = [hook EXCEPT ![k] = "done"]
  BY DEF HookCommit
<1>3. jobTask[k] \in Task /\ k \in Jobs(jobTask[k])
  BY <1>2, HookTarget
<1>4. PICK s \in {"completed", "failed"} : Update({jobTask[k]}, s)
  BY DEF HookCommit, FailAndRefund
<1>5. Dooms(u)' \subseteq Dooms(u)
  <2>1. status'[u] = IF u = jobTask[k] THEN s ELSE status[u]
    BY <1>3, <1>4, UpdateOthers
  <2> QED
    BY <1>1, <2>1 DEF Dooms
<1>6. refunds'[u] \in {refunds[u], refunds[u] + 1}
  BY DEF HookCommit, FailAndRefund, RefundBalance
<1>7. Ahead(u)' = Ahead(u)
  BY <1>1 DEF Ahead, Crowd
<1>8. CASE u = jobTask[k]
  <2>1. k \in Hooks(u) /\ Hooks(u)' \subseteq Hooks(u) \ {k}
    BY <1>1, <1>2, <1>3, <1>8 DEF Hooks, Jobs, TypeOK
  <2>2. IsFiniteSet(Hooks(u))
    BY <1>1 DEF Holds
  <2>3. /\ IsFiniteSet(Hooks(u)')
        /\ Cardinality(Hooks(u)') + 1 <= Cardinality(Hooks(u))
    BY <2>1, <2>2, OneLess
  <2>4. Cardinality(Dooms(u)') <= Cardinality(Dooms(u))
    BY <1>5, <2>2, ClaimTypes, SmallerSet
  <2>5. Claims(u)' <= Claims(u)
    BY <1>6, <1>7, <2>2, <2>3, <2>4, ClaimTypes, ClaimTypesNext, CrowdType DEF Claims
  <2> QED
    BY <1>1, <2>3, <2>5, ClaimsMove
<1>9. CASE u # jobTask[k]
  <2>1. refunds'[u] = refunds[u]
    BY <1>9 DEF HookCommit, FailAndRefund, RefundBalance
  <2>2. Hooks(u)' \subseteq Hooks(u)
    BY <1>1, <1>2, HookMoves
  <2> QED
    BY <1>1, <1>5, <2>1, <2>2, ClaimsElsewhere
<1> QED
  BY <1>8, <1>9

(* A monitor finds only rows that count as its own already.                *)
LEMMA MonitorScanClaims ==
    ASSUME TypeOK, TypeOK', Linked, ProcessingNamesJob, ClaimsInv,
           NEW m \in Monitor, MonitorScan(m)
    PROVE  ClaimsInv'
<1> SUFFICES ASSUME NEW u \in Task PROVE Holds(u)'
  BY DEF ClaimsInv
<1>1. /\ Holds(u) /\ UNCHANGED <<rowVars, submitVars, providerVars, faults>>
      /\ doomed' = [doomed EXCEPT ![m] = Stuck \ ToPoll]
  BY DEF ClaimsInv, MonitorScan
<1>2. Hooks(u)' = Hooks(u) /\ refunds'[u] = refunds[u] /\ submit'[u] = submit[u]
  BY <1>1 DEF Hooks, Jobs, providerVars, rowVars, submitVars
<1>3. u \in Stuck \ ToPoll => status[u] = "queued" /\ request[u] = Null
  BY GenerationAssumption DEF Stuck, ToPoll, ProcessingNamesJob, Jobs
<1>4. Dooms(u)' \subseteq Dooms(u)
  BY <1>1, <1>3 DEF Dooms, TypeOK, rowVars
<1> QED
  BY <1>1, <1>2, <1>4, ClaimsElsewhere

(* The monitor refunds the tasks it has found, each once.                  *)
LEMMA MonitorCommitClaims ==
    ASSUME TypeOK, TypeOK', ClaimsInv, NEW m \in Monitor, MonitorCommit(m)
    PROVE  ClaimsInv'
<1> SUFFICES ASSUME NEW u \in Task PROVE Holds(u)'
  BY DEF ClaimsInv
<1>1. /\ Holds(u) /\ UNCHANGED <<request, submitVars, providerVars, faults>>
      /\ doomed' = [doomed EXCEPT ![m] = {}]
  BY DEF ClaimsInv, MonitorCommit
<1>2. Hooks(u)' = Hooks(u) /\ submit'[u] = submit[u] /\ Ahead(u)' = Ahead(u)
  BY <1>1 DEF Hooks, Jobs, Ahead, Crowd, providerVars, submitVars
<1>3. /\ status'[u] = IF u \in doomed[m] THEN "failed" ELSE status[u]
      /\ refunds'[u] = IF u \in doomed[m] THEN refunds[u] + 1 ELSE refunds[u]
  BY DEF MonitorCommit, FailAndRefund, Update, RefundBalance
<1>4. CASE u \in doomed[m]
  <2>1. m \in Dooms(u) /\ Dooms(u)' \subseteq Dooms(u) \ {m}
    BY <1>1, <1>3, <1>4 DEF Dooms, TypeOK
  <2>2. IsFiniteSet(Hooks(u)) /\ IsFiniteSet(Hooks(u)')
    BY <1>1, <1>2 DEF Holds
  <2>3. Cardinality(Dooms(u)') + 1 <= Cardinality(Dooms(u))
    BY <2>1, <2>2, ClaimTypes, OneLess
  <2>4. Claims(u)' <= Claims(u)
    BY <1>2, <1>3, <1>4, <2>2, <2>3, ClaimTypes, ClaimTypesNext, CrowdType DEF Claims
  <2> QED
    BY <1>1, <2>2, <2>4, ClaimsMove
<1>5. CASE u \notin doomed[m]
  <2>1. Dooms(u)' \subseteq Dooms(u)
    BY <1>1, <1>3, <1>5 DEF Dooms, TypeOK
  <2> QED
    BY <1>1, <1>2, <1>3, <1>5, <2>1, ClaimsElsewhere
<1> QED
  BY <1>4, <1>5

(* A completed row can not be doomed any more.                             *)
LEMMA PollCommitClaims ==
    ASSUME TypeOK, TypeOK', ClaimsInv, NEW p \in Poller, PollCommit(p)
    PROVE  ClaimsInv'
<1> SUFFICES ASSUME NEW u \in Task PROVE Holds(u)'
  BY DEF ClaimsInv
<1>1. Holds(u) /\ UNCHANGED <<request, refunds, submitVars, providerVars, doomed, faults>>
  BY DEF ClaimsInv, PollCommit
<1>2. Hooks(u)' = Hooks(u) /\ refunds'[u] = refunds[u] /\ submit'[u] = submit[u]
  BY <1>1 DEF Hooks, Jobs, providerVars, submitVars
<1>3. status'[u] \in {status[u], "completed"}
  BY DEF PollCommit, Update
<1>4. Dooms(u)' \subseteq Dooms(u)
  BY <1>1, <1>3 DEF Dooms
<1> QED
  BY <1>1, <1>2, <1>4, ClaimsElsewhere

(* A job goes through its webhook without adding to it.                    *)
LEMMA HookMoveClaims ==
    ASSUME TypeOK, TypeOK', Linked, ClaimsInv, NEW k \in Job, NEW h,
           hook' = [hook EXCEPT ![k] = h], hook[k] # "done" \/ h = "done",
           UNCHANGED <<rowVars, submitVars, jobTask, doomed>>,
           UNCHANGED faults \/ faults' = faults + 1
    PROVE  ClaimsInv'
<1> SUFFICES ASSUME NEW u \in Task PROVE Holds(u)'
  BY DEF ClaimsInv
<1>1. Holds(u) /\ Hooks(u)' \subseteq Hooks(u)
  BY HookMoves DEF ClaimsInv
<1>2. Dooms(u)' = Dooms(u) /\ refunds'[u] = refunds[u] /\ submit'[u] = submit[u]
  BY DEF Dooms, rowVars, submitVars
<1> QED
  BY <1>1, <1>2, ClaimsElsewhere

(* Neither rows nor jobs change, and a submission does no more than end.   *)
LEMMA QuietClaims ==
    ASSUME TypeOK, TypeOK', ClaimsInv,
           UNCHANGED <<status, request, refunds, providerVars, doomed>>,
           UNCHANGED faults \/ faults' = faults + 1,
           \A u \in Task : \/ submit'[u] = submit[u]
                           \/ submit[u] = "none" /\ submit'[u] = "sent"
                           \/ submit[u] = "trying" /\ submit'[u] = "exhausted"
                           \/ submit'[u] = "done"
    PROVE  ClaimsInv'
<1> SUFFICES ASSUME NEW u \in Task PROVE Holds(u)'
  BY DEF ClaimsInv
<1>1. Holds(u)
  BY DEF ClaimsInv
<1> QED
  BY <1>1, ClaimsQuiet

LEMMA CommitProcessingClaims ==
    ASSUME TypeOK, TypeOK', ClaimsInv, NEW t \in Task, CommitProcessing(t)
    PROVE  ClaimsInv'
<1> SUFFICES ASSUME NEW u \in Task PROVE Holds(u)'
  BY DEF ClaimsInv
<1>1. Holds(u) /\ UNCHANGED <<refunds, providerVars, doomed, faults>>
  BY DEF ClaimsInv, CommitProcessing
<1>2. Hooks(u)' = Hooks(u) /\ refunds'[u] = refunds[u]
  BY <1>1 DEF Hooks, Jobs, providerVars
<1>3. IF u = t THEN status'[u] = "processing"
      ELSE status'[u] = status[u] /\ request'[u] = request[u]
  <2>1. status'[u] = IF u = t THEN "processing" ELSE status[u]
    BY UpdateOthers DEF CommitProcessing
  <2>2. u # t => request'[u] = request[u]
    BY DEF CommitProcessing, TypeOK
  <2> QED
    BY <2>1, <2>2
<1>4. Dooms(u)' \subseteq Dooms(u)
  BY <1>1, <1>3 DEF Dooms
<1>5. Ahead(u)' = Ahead(u) /\ Ahead(u) \in Nat
  <2>1. submit'[u] = submit[u] \/ (submit[u] = "accepted" /\ submit'[u] = "done")
    BY DEF CommitProcessing, TypeOK
  <2> QED
    BY <2>1, CrowdType DEF Ahead, Crowd
<1>6. refunds'[u] + Ahead(u)' <= refunds[u] + Ahead(u)
  BY <1>2, <1>5 DEF TypeOK
<1> QED
  BY <1>1, <1>2, <1>4, <1>6, ClaimsShrink

(* A message is sent by the request that creates its task.                 *)
LEMMA UnsentHolds == Spec => []Unsent
<1>1. Init => Unsent
  BY DEF Init, Unsent
<1>2. TypeOK /\ Linked /\ Unsent /\ [Next]_vars => Unsent'
  <2> SUFFICES ASSUME TypeOK, Linked, Unsent, [Next]_vars, NEW u \in Task,
                      create'[u] = "new"
               PROVE  submit'[u] = "none"
    BY DEF Unsent
  <2>1. create[u] = "new" /\ submit'[u] = submit[u]
    <3> USE DEF TypeOK, Linked
    <3>1. ASSUME NEW t \in Task,
                 CreateTask(t) \/ DispatchFails(t) \/ CreateEnds(t) \/ SubmitMissing(t)
          PROVE  create[u] = "new" /\ submit'[u] = submit[u]
      BY <3>1 DEF CreateTask, DispatchFails, CreateEnds, SubmitMissing, submitVars, Unsent
    <3>2. ASSUME NEW t \in Task,
                 \/ SubmitStart(t) \/ AttemptAccepted(t) \/ AttemptRejected(t)
                 \/ AttemptUncaught(t) \/ CommitProcessing(t) \/ CommitSubmitFailed(t)
          PROVE  create[u] = "new" /\ submit'[u] = submit[u]
      BY <3>2 DEF SubmitStart, AttemptAccepted, AttemptRejected, AttemptUncaught,
         NextAttempt, CommitProcessing, CommitSubmitFailed, Running
    <3>3. ASSUME NEW t \in Task, AttemptResponseLost(t) \/ WorkerLost(t) \/ Redelivered(t)
          PROVE  create[u] = "new" /\ submit'[u] = submit[u]
      BY <3>3 DEF AttemptResponseLost, NextAttempt, WorkerLost, Redelivered, Running, Unsent
    <3>4. CASE UNCHANGED <<create, submit>>
      BY <3>4
    <3> QED
      BY <3>1, <3>2, <3>3, <3>4 DEF Next, Submission, Hook, PollEnds, JobEnds, HookLost,
         HookDuplicated, HookHandled, HookCommit, HookRollback, Age, MonitorScan,
         MonitorCommit, MonitorDies, PollReturns, PollStart, PollCommit, PollNotify,
         PollLeavesTask, PollDies, submitVars, vars
  <2> QED
    BY <2>1 DEF Unsent
<1> QED
  BY <1>1, <1>2, TypeCorrect, LinksHold, PTL DEF Spec

(* The claims of a task never exceed what its message started with and     *)
(* what the failures so far have added.                                    *)
THEOREM ClaimsInvHolds == Spec => []ClaimsInv
<1>1. Init => ClaimsInv
  <2> SUFFICES ASSUME Init, NEW t \in Task PROVE Holds(t)
    BY DEF ClaimsInv
  <2>1. refunds[t] = 0 /\ Ahead(t) = 1 + Crowd /\ faults = 0
    BY DEF Init, Ahead
  <2>2. Hooks(t) = {} /\ Dooms(t) = {}
    BY GenerationAssumption DEF Init, Hooks, Dooms, Jobs
  <2>3. IsFiniteSet(Hooks(t)) /\ Cardinality(Hooks(t)) = 0 /\ Cardinality(Dooms(t)) = 0
    BY <2>2, FS_EmptySet
  <2>4. Claims(t) = 1 + Crowd
    BY <2>1, <2>3, CrowdType DEF Claims
  <2>5. (1 + Crowd) * (1 + faults) = 1 + Crowd
    BY <2>1, CrowdType
  <2> QED
    BY <2>3, <2>4, <2>5, CrowdType DEF Holds
<1>2. /\ TypeOK /\ TypeOK' /\ Linked /\ ProcessingNamesJob /\ Unsent
      /\ ClaimsInv /\ [Next]_vars
      => ClaimsInv'
  <2> SUFFICES ASSUME TypeOK, TypeOK', Linked, ProcessingNamesJob, Unsent, ClaimsInv,
                      [Next]_vars
               PROVE  ClaimsInv'
    OBVIOUS
  <2> DEFINE Quiet ==
         /\ UNCHANGED <<status, request, refunds, providerVars, doomed>>
         /\ UNCHANGED faults \/ faults' = faults + 1
         /\ \A u \in Task : \/ submit'[u] = submit[u]
                            \/ submit[u] = "none" /\ submit'[u] = "sent"
                            \/ submit[u] = "trying" /\ submit'[u] = "exhausted"
                            \/ submit'[u] = "done"
  <2>1. ASSUME NEW t \in Task,
               CreateTask(t) \/ DispatchFails(t) \/ CreateEnds(t) \/ SubmitMissing(t)
        PROVE  Quiet
    BY <2>1 DEF CreateTask, DispatchFails, CreateEnds, SubmitMissing, rowVars, submitVars,
       Unsent, TypeOK
  <2>2. ASSUME NEW t \in Task,
               AttemptRejected(t) \/ AttemptUncaught(t) \/ WorkerLost(t)
        PROVE  Quiet
    BY <2>2 DEF AttemptRejected, NextAttempt, AttemptUncaught, WorkerLost, Fault, rowVars,
       TypeOK
  <2>3. ASSUME NEW t \in Task, Age(t) \/ PollReturns(t) \/ \E p \in Poller : PollStart(p, t)
        PROVE  Quiet
    BY <2>3 DEF Age, PollReturns, PollStart, rowVars, submitVars
  <2>4. ASSUME NEW p \in Poller, PollNotify(p) \/ PollLeavesTask(p) \/ PollDies(p)
        PROVE  Quiet
    BY <2>4 DEF PollNotify, PollLeavesTask, PollDies, Fault, rowVars, submitVars
  <2>5. CASE UNCHANGED vars
    BY <2>5, QuietClaims DEF vars, rowVars, submitVars
  <2>6. Quiet => ClaimsInv'
    BY QuietClaims
  <2>7. ASSUME NEW k \in Job, JobEnds(k) PROVE ClaimsInv'
    <3>1. hook[k] # "done"
      BY <2>7 DEF JobEnds, Linked, Ended
    <3> QED
      BY <2>7, <3>1, HookMoveClaims DEF JobEnds
  <2>8. ASSUME NEW k \in Job, HookLost(k) \/ HookHandled(k) \/ HookRollback(k)
        PROVE  ClaimsInv'
    BY <2>8, HookMoveClaims DEF HookLost, HookHandled, HookRollback, Fault
  <2>9. ASSUME NEW m \in Monitor, MonitorDies(m) PROVE ClaimsInv'
    <3> SUFFICES ASSUME NEW u \in Task PROVE Holds(u)'
      BY DEF ClaimsInv
    <3>1. /\ Holds(u) /\ UNCHANGED <<rowVars, submitVars, providerVars>>
          /\ faults' = faults + 1
      BY <2>9 DEF ClaimsInv, MonitorDies, Fault
    <3>2. Hooks(u)' = Hooks(u) /\ refunds'[u] = refunds[u] /\ submit'[u] = submit[u]
      BY <3>1 DEF Hooks, Jobs, rowVars, submitVars, providerVars
    <3>3. Dooms(u)' \subseteq Dooms(u)
      BY <2>9, <3>1 DEF Dooms, MonitorDies, rowVars, TypeOK
    <3> QED
      BY <3>1, <3>2, <3>3, ClaimsElsewhere
  <2> HIDE DEF Quiet
  <2> QED
    BY <2>1, <2>2, <2>3, <2>4, <2>5, <2>6, <2>7, <2>8, <2>9, SubmitStartClaims,
       AcceptedClaims, ResponseLostClaims, CommitProcessingClaims, SubmitFailedClaims,
       RedeliveredClaims, HookDuplicatedClaims, HookCommitClaims, MonitorScanClaims,
       MonitorCommitClaims, PollCommitClaims DEF Next, Submission, Hook, PollEnds
<1> QED
  BY <1>1, <1>2, TypeCorrect, LinksHold, ResultsHold, UnsentHolds, PTL DEF Spec

(* However the failures fall together, a task is refunded at most once for *)
(* its submission or job and once for every monitor, and as often again    *)
(* for every failure.                                                      *)
THEOREM RefundsBoundedHolds == Spec => []RefundsBounded
<1>1. TypeOK /\ ClaimsInv => RefundsBounded
  <2> SUFFICES ASSUME TypeOK, ClaimsInv, NEW t \in Task
               PROVE  refunds[t] <= (1 + Crowd) * (1 + faults)
    BY DEF RefundsBounded, Crowd
  <2>1. IsFiniteSet(Hooks(t)) /\ Claims(t) <= (1 + Crowd) * (1 + faults)
    BY DEF ClaimsInv, Holds
  <2>2. refunds[t] <= Claims(t) /\ refunds[t] \in Nat /\ Claims(t) \in Nat
    BY <2>1, ClaimTypes, CrowdType DEF Claims
  <2>3. (1 + Crowd) * (1 + faults) \in Nat
    BY CrowdType DEF TypeOK
  <2> QED
    BY <2>1, <2>2, <2>3
<1> QED
  BY <1>1, TypeCorrect, ClaimsInvHolds, PTL

=============================================================================
