--------------------------- MODULE WorkerPoolProofs ---------------------------
(* What WorkerPool guarantees for every number of tasks, users, slots and  *)
(* monitors that overlap, every limit of list_stuck and every backlog.     *)
EXTENDS WorkerPool, FiniteSetTheorems, TLAPS

Submits(i) == queue[i].run = "submit"

(* A task is submitted once.                                               *)
QueueInv ==
    /\ \A i \in 1..Len(queue) : Submits(i) => status[queue[i].task] = "created"
    /\ \A i, j \in 1..Len(queue) :
          Submits(i) /\ Submits(j) /\ queue[i].task = queue[j].task => i = j

Listed(s) == slot[s].failed \cup slot[s].todo
Fresh(t) == status[t] \in {"new", "created"}

(* Nothing is known of a task before its submission, which gives its row   *)
(* the latest stamp; only rows that have one are listed.                   *)
StampInv ==
    /\ \A t \in Task : Fresh(t) =>
          updated[t] = 0 /\ t \notin known /\ job[t] = "none" /\ hook[t] = "none"
    /\ \A t \in Task : status[t] = "open" => updated[t] > 0
    /\ \A t \in Task : updated[t] <= Clock
    /\ \A t, u \in Task : updated[t] = updated[u] /\ updated[t] > 0 => t = u
    /\ \A s \in Slot : Scanning(s) => \A t \in Listed(s) : updated[t] > 0

(* What a monitor has locked comes in front of what it has yet to look at, *)
(* and of the rows that are still open it has skipped only those with a    *)
(* request id.                                                             *)
LockedInOrder(s) ==
    /\ slot[s].failed \cap known = {}
    /\ slot[s].refunded \subseteq slot[s].failed
    /\ \A t \in slot[s].failed, u \in slot[s].todo : Before(t, u)
    /\ \A t \in Listed(s), u \in Open : Before(u, t) => u \in Listed(s) \cup known

(* No monitor has another one's locks.                                     *)
ScanInv ==
    /\ \A s \in Slot : Scanning(s) => LockedInOrder(s)
    /\ \A r, s \in Slot : Scanning(r) /\ Scanning(s) /\ r # s =>
          slot[r].failed \cap slot[s].failed = {}

-----------------------------------------------------------------------------
(* Types and stamps                                                        *)

LEMMA TasksFinite ==
    ASSUME NEW S \in SUBSET Task
    PROVE  IsFiniteSet(S) /\ Cardinality(S) \in 0..Tasks
<1>1. IsFiniteSet(Task) /\ Cardinality(Task) = Tasks
  BY FS_Interval, WorkerPoolAssumption DEF Task
<1>2. IsFiniteSet(S) /\ Cardinality(S) <= Tasks
  BY <1>1, FS_Subset
<1> QED
  BY <1>2, FS_CardinalityType, WorkerPoolAssumption

LEMMA ClockType == Clock \in 0..Tasks
<1>1. {t \in Task : updated[t] # 0} \in SUBSET Task
  OBVIOUS
<1> QED
  BY <1>1, TasksFinite DEF Clock

(* A row that was not stamped takes the next stamp; there is one left.     *)
LEMMA ClockTicks ==
    ASSUME updated \in [Task -> 0..Tasks], NEW t \in Task, updated[t] = 0,
           updated' = [updated EXCEPT ![t] = Clock + 1]
    PROVE  Clock' = Clock + 1 /\ Clock + 1 \in 1..Tasks
<1> DEFINE S == {u \in Task : updated[u] # 0}
<1>1. Clock \in 0..Tasks
  BY ClockType
<1>2. {u \in Task : updated'[u] # 0} = S \cup {t}
  BY <1>1, WorkerPoolAssumption
<1>3. t \notin S /\ IsFiniteSet(S) /\ S \cup {t} \in SUBSET Task
  <2>1. S \in SUBSET Task /\ t \notin S
    OBVIOUS
  <2> HIDE DEF S
  <2> QED
    BY <2>1, TasksFinite
<1> HIDE DEF S
<1>4. Cardinality(S \cup {t}) = Cardinality(S) + 1
  BY <1>3, FS_AddElement
<1>5. Cardinality(S \cup {t}) \in 0..Tasks
  BY <1>3, TasksFinite
<1>6. Clock = Cardinality(S) /\ Clock' = Cardinality(S \cup {t})
  BY <1>2 DEF Clock, S
<1> QED
  BY <1>1, <1>4, <1>5, <1>6

Scan == [run : {"scan"}, todo : SUBSET Task, failed : SUBSET Task, refunded : SUBSET Task]
Poll == [run : {"poll"}, task : Task]

(* What a slot executes has the fields that its step looks at.             *)
LEMMA SlotParts ==
    ASSUME TypeOK, NEW s \in Slot
    PROVE  /\ Scanning(s) => slot[s] \in Scan
           /\ Scanning(s) => slot[s].todo \subseteq Task /\ slot[s].failed \subseteq Task
           /\ slot[s].run = "poll" => slot[s] \in Poll /\ slot[s].task \in Task
<1>1. slot[s] \in {Idle} \cup Poll \cup Scan
  BY DEF TypeOK, Scan, Poll
<1> QED
  BY <1>1 DEF Scan, Poll, Idle, Scanning

LEMMA MessageParts ==
    ASSUME NEW m \in Message
    PROVE  /\ m.run = "submit" => m.task \in Task
           /\ m.run = "poll" => m \in Poll /\ m.task \in Task
  BY DEF Message, Poll

(* The message at the head is taken, the others move up.                   *)
LEMMA TakesParts ==
    ASSUME TypeOK, NEW s \in Slot, NEW run, Takes(s, run)
    PROVE  /\ Len(queue) > 0 /\ Head(queue) \in Message /\ Head(queue) = queue[1]
           /\ queue' \in Seq(Message) /\ Len(queue') = Len(queue) - 1
           /\ \A i \in 1..Len(queue') : queue'[i] = queue[i + 1]
           /\ slot[s] = Idle /\ Head(queue).run = run
  BY DEF TypeOK, Takes

-----------------------------------------------------------------------------
(* Types                                                                   *)

LEMMA SlotTyped ==
    ASSUME TypeOK, NEW s \in Slot, NEW x \in {Idle} \cup Poll \cup Scan,
           Assign(s, x)
    PROVE  slot' \in [Slot -> {Idle} \cup Poll \cup Scan]
  BY DEF TypeOK, Assign, Poll, Scan

LEMMA SettleTyped ==
    ASSUME TypeOK, NEW ts, Settle(ts)
    PROVE  /\ status' \in [Task -> {"new", "created", "open", "settled"}]
           /\ UNCHANGED <<updated, horizon>>
  BY DEF TypeOK, Settle

(* The task at the head of the queue has yet to be submitted.              *)
LEMMA SubmitParts ==
    ASSUME TypeOK, QueueInv, StampInv, NEW s \in Slot, Submit(s)
    PROVE  /\ Head(queue).task \in Task
           /\ status[Head(queue).task] = "created" /\ updated[Head(queue).task] = 0
           /\ Head(queue).task \notin known
           /\ job[Head(queue).task] = "none" /\ hook[Head(queue).task] = "none"
<1> DEFINE t == Head(queue).task
<1>1. Takes(s, "submit")
  BY DEF Submit
<1>2. Len(queue) > 0 /\ Head(queue) \in Message /\ Head(queue) = queue[1]
      /\ Head(queue).run = "submit"
  BY <1>1, TakesParts
<1>3. t \in Task
  BY <1>2, MessageParts
<1>4. 1 \in 1..Len(queue)
  <2>1. Len(queue) \in Nat
    BY DEF TypeOK
  <2> QED
    BY <1>2, <2>1
<1>5. status[t] = "created"
  BY <1>2, <1>4 DEF QueueInv, Submits
<1> QED
  BY <1>3, <1>5 DEF StampInv, Fresh

LEMMA TypeStep ==
    ASSUME TypeOK, QueueInv, StampInv, [Next]_vars
    PROVE  TypeOK'
<1>1. ASSUME NEW t \in Task, CreateTask(t)
      PROVE  TypeOK'
  <2>1. [run |-> "submit", task |-> t] \in Message
    BY DEF Message
  <2> QED
    BY <1>1, <2>1 DEF CreateTask, Delay, TypeOK
<1>2. ASSUME NEW t \in Task, JobEnds(t)
      PROVE  TypeOK'
  BY <1>2 DEF JobEnds, rowVars, TypeOK
<1>3. ASSUME NEW t \in Task, HookLocks(t)
      PROVE  TypeOK'
  <2>1. /\ status' \in [Task -> {"new", "created", "open", "settled"}]
        /\ UNCHANGED <<updated, horizon>>
    <3>1. CASE Settle({t})
      BY <3>1, SettleTyped
    <3>2. CASE UNCHANGED rowVars
      BY <3>2 DEF rowVars, TypeOK
    <3> QED
      BY <1>3, <3>1, <3>2 DEF HookLocks
  <2>2. hook' \in [Task -> {"none", "sent", "open", "done"}]
    BY <1>3 DEF HookLocks, TypeOK
  <2> QED
    BY <1>3, <2>1, <2>2 DEF HookLocks, TypeOK
<1>4. ASSUME NEW t \in Task, HookRefunds(t)
      PROVE  TypeOK'
  BY <1>4, SettleTyped DEF HookRefunds, TypeOK
<1>5. ASSUME NEW t \in Task, HookAborted(t)
      PROVE  TypeOK'
  BY <1>5 DEF HookAborted, rowVars, TypeOK
<1>6. ASSUME NEW s \in Slot, Submit(s)
      PROVE  TypeOK'
  <2> DEFINE t == Head(queue).task
  <2>1. t \in Task /\ updated[t] = 0
    BY <1>6, SubmitParts
  <2>2. queue' \in Seq(Message)
    BY <1>6, TakesParts DEF Submit
  <2>3. CASE updated' = [updated EXCEPT ![t] = Clock + 1]
    <3>1. Clock + 1 \in 0..Tasks
      <4>1. updated \in [Task -> 0..Tasks]
        BY DEF TypeOK
      <4>2. Clock + 1 \in 1..Tasks
        BY <2>1, <2>3, <4>1, ClockTicks
      <4> QED
        BY <4>2, WorkerPoolAssumption
    <3>2. updated' \in [Task -> 0..Tasks]
      BY <2>3, <3>1 DEF TypeOK
    <3>3. status' \in [Task -> {"new", "created", "open", "settled"}]
      BY <1>6 DEF Submit, TypeOK
    <3>4. job' \in [Task -> {"none", "running", "media", "error"}]
      BY <1>6 DEF Submit, TypeOK
    <3>5. known' \in SUBSET Task
      BY <1>6, <2>1 DEF Submit, TypeOK
    <3> QED
      BY <1>6, <2>2, <3>2, <3>3, <3>4, <3>5 DEF Submit, TypeOK
  <2>4. CASE UNCHANGED <<updated, known, job>> /\ status' = [status EXCEPT ![t] = "settled"]
    BY <1>6, <2>2, <2>4 DEF Submit, TypeOK
  <2> QED
    BY <1>6, <2>3, <2>4 DEF Submit
<1>7. ASSUME NEW s \in Slot, PollStarts(s)
      PROVE  TypeOK'
  <2>1. Head(queue) \in Poll /\ queue' \in Seq(Message)
    BY <1>7, TakesParts, MessageParts DEF PollStarts
  <2>2. slot' \in [Slot -> {Idle} \cup Poll \cup Scan]
    <3>1. CASE UNCHANGED slot
      BY <3>1 DEF TypeOK, Poll, Scan
    <3>2. CASE Assign(s, Head(queue))
      BY <2>1, <3>2, SlotTyped
    <3> QED
      BY <1>7, <3>1, <3>2 DEF PollStarts
  <2> QED
    BY <1>7, <2>1, <2>2 DEF PollStarts, rowVars, TypeOK, Poll, Scan
<1>8. ASSUME NEW s \in Slot, ScanStarts(s)
      PROVE  TypeOK'
  <2>1. ListStuck \in SUBSET Task
    BY DEF ListStuck, Stuck, Open
  <2>2. [run |-> "scan", todo |-> ListStuck, failed |-> {}, refunded |-> {}] \in Scan
    BY <2>1 DEF Scan
  <2>3. slot' \in [Slot -> {Idle} \cup Poll \cup Scan]
    BY <1>8, <2>2, SlotTyped DEF ScanStarts
  <2>4. queue' \in Seq(Message)
    BY <1>8, TakesParts DEF ScanStarts
  <2> QED
    BY <1>8, <2>3, <2>4 DEF ScanStarts, rowVars, TypeOK, Poll, Scan
<1>9. ASSUME NEW s \in Slot, PollReturns(s)
      PROVE  TypeOK'
  <2>1. slot' \in [Slot -> {Idle} \cup Poll \cup Scan]
    BY <1>9, SlotTyped DEF PollReturns
  <2>2. /\ status' \in [Task -> {"new", "created", "open", "settled"}]
        /\ UNCHANGED <<updated, horizon>>
    <3>1. CASE UNCHANGED rowVars
      BY <3>1 DEF rowVars, TypeOK
    <3>2. CASE Settle({slot[s].task})
      BY <3>2, SettleTyped
    <3> QED
      BY <1>9, <3>1, <3>2 DEF PollReturns
  <2> QED
    BY <1>9, <2>1, <2>2 DEF PollReturns, TypeOK, Poll, Scan
<1>10. ASSUME NEW s \in Slot, ScanPolls(s)
       PROVE  TypeOK'
  <2>1. slot[s] \in Scan
    BY <1>10, SlotParts DEF ScanPolls
  <2>2. PICK t \in known : /\ Delay("poll", t)
                           /\ Assign(s, [slot[s] EXCEPT !.todo = @ \ {t}])
    BY <1>10 DEF ScanPolls
  <2>3. [slot[s] EXCEPT !.todo = @ \ {t}] \in Scan
    BY <2>1 DEF Scan
  <2>4. slot' \in [Slot -> {Idle} \cup Poll \cup Scan]
    BY <2>2, <2>3, SlotTyped
  <2>5. [run |-> "poll", task |-> t] \in Message
    BY DEF TypeOK, Message
  <2>6. queue' \in Seq(Message)
    BY <2>2, <2>5 DEF Delay, TypeOK
  <2> QED
    BY <1>10, <2>4, <2>6 DEF ScanPolls, rowVars, TypeOK, Poll, Scan
<1>11. ASSUME NEW s \in Slot, ScanFails(s)
       PROVE  TypeOK'
  <2>1. PICK t \in Task :
            /\ WantsTask(s, t)
            /\ Assign(s, [slot[s] EXCEPT !.todo = @ \ {t}, !.failed = @ \cup {t}])
    BY <1>11 DEF ScanFails
  <2>2. slot[s] \in Scan
    BY <2>1, SlotParts DEF WantsTask
  <2>3. [slot[s] EXCEPT !.todo = @ \ {t}, !.failed = @ \cup {t}] \in Scan
    BY <2>2 DEF Scan
  <2>4. slot' \in [Slot -> {Idle} \cup Poll \cup Scan]
    BY <2>1, <2>3, SlotTyped
  <2> QED
    BY <1>11, <2>4 DEF ScanFails, rowVars, TypeOK, Poll, Scan
<1>12. ASSUME NEW s \in Slot, ScanRefunds(s)
       PROVE  TypeOK'
  <2>1. slot[s] \in Scan
    BY <1>12, SlotParts DEF ScanRefunds, WantsUser
  <2>2. [slot[s] EXCEPT !.refunded = slot[s].failed] \in Scan
    BY <2>1 DEF Scan
  <2>3. slot' \in [Slot -> {Idle} \cup Poll \cup Scan]
    BY <1>12, <2>2, SlotTyped DEF ScanRefunds
  <2> QED
    BY <1>12, <2>3 DEF ScanRefunds, rowVars, TypeOK, Poll, Scan
<1>13. ASSUME NEW s \in Slot, ScanCommits(s)
       PROVE  TypeOK'
  <2>1. slot' \in [Slot -> {Idle} \cup Poll \cup Scan]
    BY <1>13, SlotTyped DEF ScanCommits
  <2>2. /\ status' \in [Task -> {"new", "created", "open", "settled"}]
        /\ UNCHANGED <<updated, horizon>>
    BY <1>13, SettleTyped DEF ScanCommits
  <2> QED
    BY <1>13, <2>1, <2>2 DEF ScanCommits, TypeOK, Poll, Scan
<1>14. ASSUME NEW s \in Slot, ScanAborted(s)
       PROVE  TypeOK'
  <2>1. slot' \in [Slot -> {Idle} \cup Poll \cup Scan]
    BY <1>14, SlotTyped DEF ScanAborted
  <2> QED
    BY <1>14, <2>1 DEF ScanAborted, rowVars, TypeOK, Poll, Scan
<1>15. CASE BeatTicks
  <2>1. [run |-> "scan"] \in Message
    BY DEF Message
  <2> QED
    BY <1>15, <2>1 DEF BeatTicks, rowVars, TypeOK
<1>16. CASE Age
  <2>1. horizon' \in 0..Tasks
    BY <1>16, ClockType, WorkerPoolAssumption DEF Age, TypeOK
  <2> QED
    BY <1>16, <2>1 DEF Age, TypeOK
<1>17. CASE UNCHANGED vars
  BY <1>17 DEF vars, rowVars, TypeOK
<1> QED
  BY <1>1, <1>2, <1>3, <1>4, <1>5, <1>6, <1>7, <1>8, <1>9, <1>10, <1>11, <1>12, <1>13,
     <1>14, <1>15, <1>16, <1>17 DEF Next, Take, Runs

-----------------------------------------------------------------------------
(* The queue                                                               *)

(* Only CreateTask adds a submission, and only Submit spends one.          *)
LEMMA QueueKept ==
    ASSUME TypeOK, QueueInv,
           \A t \in Task : status[t] = "created" => status'[t] = "created",
           \/ UNCHANGED queue
           \/ \E m \in Message : m.run # "submit" /\ queue' = Append(queue, m)
           \/ \E s \in Slot, run \in {"poll", "scan"} : Takes(s, run)
    PROVE  QueueInv'
<1>1. /\ queue \in Seq(Message) /\ Len(queue) \in Nat
      /\ \A i \in 1..Len(queue) : queue[i] \in Message
  BY DEF TypeOK
<1>2. \A i \in 1..Len(queue) : Submits(i) =>
          /\ queue[i].task \in Task
          /\ status[queue[i].task] = "created" /\ status'[queue[i].task] = "created"
  BY <1>1, MessageParts DEF QueueInv, Submits
<1>3. CASE UNCHANGED queue
  BY <1>2, <1>3 DEF QueueInv, Submits
<1>4. ASSUME NEW m \in Message, m.run # "submit", queue' = Append(queue, m)
      PROVE  QueueInv'
  <2>1. Len(queue') = Len(queue) + 1
    BY <1>1, <1>4
  <2>2. \A i \in 1..Len(queue') : queue'[i] = IF i <= Len(queue) THEN queue[i] ELSE m
    BY <1>1, <1>4
  <2>3. \A i \in 1..Len(queue') : Submits(i)' => i \in 1..Len(queue) /\ queue'[i] = queue[i]
    BY <1>1, <1>4, <2>1, <2>2 DEF Submits
  <2> QED
    BY <1>2, <2>3 DEF QueueInv, Submits
<1>5. ASSUME NEW s \in Slot, NEW run \in {"poll", "scan"}, Takes(s, run)
      PROVE  QueueInv'
  <2>1. /\ Len(queue') = Len(queue) - 1
        /\ \A i \in 1..Len(queue') : queue'[i] = queue[i + 1]
    BY <1>5, TakesParts
  <2>2. \A i \in 1..Len(queue') : i + 1 \in 1..Len(queue)
    BY <1>1, <2>1
  <2>3. \A i \in 1..Len(queue') : Submits(i)' => Submits(i + 1)
    BY <2>1 DEF Submits
  <2>4. \A i \in 1..Len(queue') : Submits(i)' => status'[queue'[i].task] = "created"
    BY <1>2, <2>1, <2>2, <2>3
  <2>5. \A i, j \in 1..Len(queue') :
            Submits(i)' /\ Submits(j)' /\ queue'[i].task = queue'[j].task => i = j
    <3>1. \A i, j \in 1..Len(queue') :
              Submits(i)' /\ Submits(j)' /\ queue'[i].task = queue'[j].task => i + 1 = j + 1
      BY <2>1, <2>2, <2>3 DEF QueueInv
    <3> QED
      BY <3>1
  <2> QED
    BY <2>4, <2>5 DEF QueueInv
<1> QED
  BY <1>3, <1>4, <1>5

(* An ended job or webhook is of a task that was submitted.                *)
LEMMA SettleKeepsCreated ==
    ASSUME TypeOK, NEW ts \in SUBSET Task, Settle(ts), \A t \in ts : ~Fresh(t)
    PROVE  /\ \A t \in Task : status[t] = "created" => status'[t] = "created"
           /\ \A t \in Task : Fresh(t)' => Fresh(t)
           /\ Open' \subseteq Open
  BY DEF TypeOK, Settle, Fresh, Open

(* The steps that end tasks, of a poll, a webhook or a monitor, and whose. *)
LEMMA SettlesSubmitted ==
    ASSUME TypeOK, StampInv, NEW s \in Slot
    PROVE  /\ PollReturns(s) => slot[s].task \in Task /\ ~Fresh(slot[s].task)
           /\ ScanCommits(s) => slot[s].failed \subseteq Task /\ \A u \in slot[s].failed : ~Fresh(u)
<1>1. ASSUME PollReturns(s)
      PROVE  slot[s].task \in Task /\ ~Fresh(slot[s].task)
  <2>1. slot[s].task \in Task
    BY <1>1, SlotParts DEF PollReturns
  <2> QED
    BY <1>1, <2>1 DEF PollReturns, StampInv
<1>2. ASSUME ScanCommits(s)
      PROVE  slot[s].failed \subseteq Task /\ \A u \in slot[s].failed : ~Fresh(u)
  <2>1. Scanning(s) /\ slot[s].failed \subseteq Task
    BY <1>2, SlotParts DEF ScanCommits
  <2>2. \A u \in slot[s].failed : updated[u] > 0
    BY <2>1 DEF StampInv, Listed
  <2> QED
    BY <2>1, <2>2 DEF StampInv
<1> QED
  BY <1>1, <1>2

HookSteps(t) == JobEnds(t) \/ HookLocks(t) \/ HookRefunds(t) \/ HookAborted(t)

LEMMA HooksSubmitted ==
    ASSUME StampInv, NEW t \in Task, HookSteps(t)
    PROVE  ~Fresh(t)
  BY DEF HookSteps, HookLocks, HookRefunds, HookAborted, JobEnds, StampInv

LEMMA QueueStep ==
    ASSUME TypeOK, QueueInv, StampInv, [Next]_vars
    PROVE  QueueInv'
<1>1. ASSUME NEW t \in Task, CreateTask(t)
      PROVE  QueueInv'
  <2> DEFINE m == [run |-> "submit", task |-> t]
  <2>1. /\ queue \in Seq(Message) /\ Len(queue) \in Nat /\ m \in Message
        /\ \A i \in 1..Len(queue) : queue[i] \in Message
    BY DEF TypeOK, Message
  <2>2. queue' = Append(queue, m) /\ status' = [status EXCEPT ![t] = "created"]
    BY <1>1 DEF CreateTask, Delay
  <2>3. \A i \in 1..Len(queue) : Submits(i) => queue[i].task # t
    BY <1>1 DEF CreateTask, QueueInv
  <2>4. /\ Len(queue') = Len(queue) + 1
        /\ \A i \in 1..Len(queue') : queue'[i] = IF i <= Len(queue) THEN queue[i] ELSE m
    BY <2>1, <2>2
  <2>5. \A i \in 1..Len(queue') :
            \/ i \in 1..Len(queue) /\ queue'[i] = queue[i]
            \/ i = Len(queue) + 1 /\ queue'[i] = m
    BY <2>1, <2>4
  <2>6. \A i \in 1..Len(queue') : Submits(i)' =>
            \/ i \in 1..Len(queue) /\ queue'[i] = queue[i] /\ Submits(i) /\ queue[i].task # t
            \/ i = Len(queue) + 1 /\ queue'[i].task = t
    BY <2>3, <2>5 DEF Submits
  <2>7. \A i \in 1..Len(queue) : Submits(i) => status'[queue[i].task] = "created"
    BY <2>1, <2>2, MessageParts DEF QueueInv, Submits, TypeOK
  <2>8. status'[t] = "created"
    BY <2>2 DEF TypeOK
  <2>9. \A i \in 1..Len(queue') : Submits(i)' => status'[queue'[i].task] = "created"
    BY <2>6, <2>7, <2>8
  <2> HIDE DEF m
  <2>10. \A i, j \in 1..Len(queue') :
            Submits(i)' /\ Submits(j)' /\ queue'[i].task = queue'[j].task => i = j
    BY <2>6 DEF QueueInv
  <2> QED
    BY <2>9, <2>10 DEF QueueInv
<1>2. ASSUME NEW s \in Slot, Submit(s)
      PROVE  QueueInv'
  <2> DEFINE t == Head(queue).task
  <2>1. t \in Task
    BY <1>2, SubmitParts
  <2>2. /\ queue \in Seq(Message) /\ Len(queue) \in Nat
        /\ \A i \in 1..Len(queue) : queue[i] \in Message
    BY DEF TypeOK
  <2>3. /\ Len(queue) > 0 /\ Head(queue) = queue[1] /\ Submits(1)
        /\ Len(queue') = Len(queue) - 1
        /\ \A i \in 1..Len(queue') : queue'[i] = queue[i + 1]
    BY <1>2, TakesParts DEF Submit, Submits
  <2>4. \A i \in 1..Len(queue') : i + 1 \in 1..Len(queue) /\ i + 1 # 1 /\ 1 \in 1..Len(queue)
    BY <2>2, <2>3
  <2>5. \A i \in 1..Len(queue') : Submits(i)' =>
            Submits(i + 1) /\ queue'[i].task = queue[i + 1].task
    BY <2>3 DEF Submits
  <2>6. \A i \in 1..Len(queue') : Submits(i)' => queue'[i].task \in Task \ {t}
    <3>1. SUFFICES ASSUME NEW i \in 1..Len(queue'), Submits(i)'
                   PROVE  queue'[i].task \in Task \ {t}
      OBVIOUS
    <3>2. queue[i + 1].task \in Task
      BY <2>2, <2>4, <2>5, <3>1, MessageParts DEF Submits
    <3>3. queue[i + 1].task # t
      BY <2>3, <2>4, <2>5, <3>1 DEF QueueInv
    <3> QED
      BY <2>5, <3>1, <3>2, <3>3
  <2>7. \A u \in Task \ {t} : status'[u] = status[u]
    BY <1>2 DEF Submit, TypeOK
  <2>8. \A i \in 1..Len(queue') : Submits(i)' => status'[queue'[i].task] = "created"
    BY <2>4, <2>5, <2>6, <2>7 DEF QueueInv
  <2>9. \A i, j \in 1..Len(queue') :
            Submits(i)' /\ Submits(j)' /\ queue'[i].task = queue'[j].task => i + 1 = j + 1
    BY <2>4, <2>5 DEF QueueInv
  <2>10. \A i, j \in 1..Len(queue') :
            Submits(i)' /\ Submits(j)' /\ queue'[i].task = queue'[j].task => i = j
    BY <2>9
  <2> QED
    BY <2>8, <2>10 DEF QueueInv
<1>3. ASSUME NEW ts \in SUBSET Task, Settle(ts), \A t \in ts : ~Fresh(t), UNCHANGED queue
      PROVE  QueueInv'
  BY <1>3, SettleKeepsCreated, QueueKept
<1>4. ASSUME UNCHANGED <<queue, status>>
      PROVE  QueueInv'
  BY <1>4, QueueKept
<1>5. ASSUME NEW t \in Task, HookSteps(t)
      PROVE  QueueInv'
  <2>1. ~Fresh(t)
    BY <1>5, HooksSubmitted
  <2>2. UNCHANGED queue /\ (UNCHANGED status \/ Settle({t}))
    BY <1>5 DEF HookSteps, HookLocks, HookRefunds, HookAborted, JobEnds, rowVars
  <2> QED
    BY <1>3, <1>4, <2>1, <2>2
<1>6. ASSUME NEW s \in Slot, PollStarts(s) \/ ScanStarts(s)
      PROVE  QueueInv'
  <2>1. (Takes(s, "poll") \/ Takes(s, "scan")) /\ UNCHANGED status
    BY <1>6 DEF PollStarts, ScanStarts, rowVars
  <2> QED
    BY <2>1, QueueKept
<1>7. ASSUME NEW s \in Slot, PollReturns(s) \/ ScanCommits(s)
      PROVE  QueueInv'
  <2>1. UNCHANGED queue
    BY <1>7 DEF PollReturns, ScanCommits
  <2>2. UNCHANGED status \/ \E ts \in SUBSET Task : Settle(ts) /\ \A t \in ts : ~Fresh(t)
    <3>1. ASSUME PollReturns(s)
          PROVE  UNCHANGED status \/ \E ts \in SUBSET Task : Settle(ts) /\ \A t \in ts : ~Fresh(t)
      <4>1. {slot[s].task} \in SUBSET Task /\ \A t \in {slot[s].task} : ~Fresh(t)
        BY <3>1, SettlesSubmitted
      <4> QED
        BY <3>1, <4>1 DEF PollReturns, rowVars
    <3>2. ASSUME ScanCommits(s)
          PROVE  \E ts \in SUBSET Task : Settle(ts) /\ \A t \in ts : ~Fresh(t)
      <4>1. slot[s].failed \in SUBSET Task /\ \A t \in slot[s].failed : ~Fresh(t)
        BY <3>2, SettlesSubmitted
      <4> QED
        BY <3>2, <4>1 DEF ScanCommits
    <3> QED
      BY <1>7, <3>1, <3>2
  <2> QED
    BY <1>3, <1>4, <2>1, <2>2
<1>8. ASSUME NEW s \in Slot, ScanPolls(s)
      PROVE  QueueInv'
  <2>1. PICK t \in known : Delay("poll", t)
    BY <1>8 DEF ScanPolls
  <2>2. [run |-> "poll", task |-> t] \in Message
    BY DEF TypeOK, Message
  <2> QED
    BY <1>8, <2>1, <2>2, QueueKept DEF ScanPolls, rowVars, Delay
<1>9. ASSUME NEW s \in Slot, ScanFails(s) \/ ScanRefunds(s) \/ ScanAborted(s)
      PROVE  QueueInv'
  BY <1>4, <1>9 DEF ScanFails, ScanRefunds, ScanAborted, rowVars
<1>10. CASE BeatTicks
  <2>1. [run |-> "scan"] \in Message
    BY DEF Message
  <2> QED
    BY <1>10, <2>1, QueueKept DEF BeatTicks, rowVars
<1>11. CASE Age \/ UNCHANGED vars
  BY <1>4, <1>11 DEF Age, vars, rowVars
<1> QED
  BY <1>1, <1>2, <1>5, <1>6, <1>7, <1>8, <1>9, <1>10, <1>11 DEF Next, Take, Runs, HookSteps

-----------------------------------------------------------------------------
(* Stamps                                                                  *)

LEMMA Assigned ==
    ASSUME TypeOK, NEW s \in Slot, NEW x, Assign(s, x)
    PROVE  slot'[s] = x /\ \A r \in Slot \ {s} : slot'[r] = slot[r]
  BY DEF TypeOK, Assign

(* Only Submit stamps a row.                                               *)
LEMMA StampKept ==
    ASSUME TypeOK, StampInv, UNCHANGED <<updated, known>>,
           \A t \in Task : Fresh(t)' => Fresh(t) /\ job'[t] = job[t] /\ hook'[t] = hook[t],
           Open' \subseteq Open,
           \A s \in Slot : Scanning(s)' =>
              Listed(s)' \subseteq Open \/ (Scanning(s) /\ Listed(s)' \subseteq Listed(s))
    PROVE  StampInv'
<1>1. \A t \in Task : Fresh(t)' =>
          updated'[t] = 0 /\ t \notin known' /\ job'[t] = "none" /\ hook'[t] = "none"
  BY DEF StampInv
<1>2. \A t \in Task : status'[t] = "open" => updated'[t] > 0
  BY DEF StampInv, Open
<1>3. \A t \in Task : updated'[t] <= Clock'
  BY DEF StampInv, Clock
<1>4. \A t, u \in Task : updated'[t] = updated'[u] /\ updated'[t] > 0 => t = u
  BY DEF StampInv
<1>5. \A s \in Slot : Scanning(s)' => \A t \in Listed(s)' : updated'[t] > 0
  BY DEF StampInv, Open
<1> QED
  BY <1>1, <1>2, <1>3, <1>4, <1>5 DEF StampInv

LEMMA StampSubmit ==
    ASSUME TypeOK, QueueInv, StampInv, NEW s \in Slot, Submit(s)
    PROVE  StampInv'
<1> DEFINE t == Head(queue).task
<1>1. t \in Task /\ updated[t] = 0 /\ t \notin known
  BY SubmitParts
<1>2. UNCHANGED slot /\ hook' = hook
  BY DEF Submit
<1>3. CASE /\ status' = [status EXCEPT ![t] = "settled"]
           /\ UNCHANGED <<updated, known, job>>
  <2>1. \A u \in Task : Fresh(u)' => Fresh(u)
    BY <1>3 DEF Fresh, TypeOK
  <2>2. Open' \subseteq Open
    BY <1>3 DEF Open, TypeOK
  <2>3. \A r \in Slot : Scanning(r)' => Scanning(r) /\ Listed(r)' = Listed(r)
    BY <1>2 DEF Scanning, Listed
  <2> QED
    BY <1>2, <1>3, <2>1, <2>2, <2>3, StampKept
<1>4. CASE /\ status' = [status EXCEPT ![t] = "open"]
           /\ updated' = [updated EXCEPT ![t] = Clock + 1]
           /\ \E j \in {"none", "running"} : job' = [job EXCEPT ![t] = j]
           /\ known' \subseteq known \cup {t}
  <2>1. Clock' = Clock + 1 /\ Clock \in 0..Tasks /\ Clock \in Nat
    <3>1. updated \in [Task -> 0..Tasks]
      BY DEF TypeOK
    <3>2. Clock' = Clock + 1
      BY <1>1, <1>4, <3>1, ClockTicks
    <3> QED
      BY <3>2, ClockType, WorkerPoolAssumption
  <2>2. updated'[t] = Clock + 1 /\ \A u \in Task \ {t} : updated'[u] = updated[u]
    BY <1>1, <1>4 DEF TypeOK
  <2>3. \A u \in Task : updated[u] \in Nat
    BY WorkerPoolAssumption DEF TypeOK
  <2>4. \A u \in Task : updated[u] <= Clock
    BY DEF StampInv
  <2>5. \A u \in Task : Fresh(u)' => u # t /\ Fresh(u) /\ job'[u] = job[u]
    BY <1>4 DEF Fresh, TypeOK
  <2>6. \A u \in Task : Fresh(u)' =>
            updated'[u] = 0 /\ u \notin known' /\ job'[u] = "none" /\ hook'[u] = "none"
    BY <1>2, <1>4, <2>2, <2>5 DEF StampInv
  <2>7. \A u \in Task : status'[u] = "open" => updated'[u] > 0
    <3>1. \A u \in Task \ {t} : status'[u] = status[u]
      BY <1>4 DEF TypeOK
    <3>2. \A u \in Task \ {t} : status'[u] = "open" => updated'[u] > 0
      BY <2>2, <3>1 DEF StampInv
    <3> QED
      BY <2>1, <2>2, <3>2
  <2>8. \A u \in Task : updated'[u] <= Clock'
    BY <2>1, <2>2, <2>3, <2>4
  <2>9. \A u, v \in Task : updated'[u] = updated'[v] /\ updated'[u] > 0 => u = v
    <3>1. \A u, v \in Task \ {t} : updated'[u] = updated'[v] /\ updated'[u] > 0 => u = v
      BY <2>2 DEF StampInv
    <3>2. \A u \in Task \ {t} : updated'[u] # updated'[t]
      BY <2>1, <2>2, <2>3, <2>4
    <3> QED
      BY <3>1, <3>2
  <2>10. \A r \in Slot : Scanning(r)' => \A u \in Listed(r)' : updated'[u] > 0
    <3>1. SUFFICES ASSUME NEW r \in Slot, Scanning(r), NEW u \in Listed(r)
                   PROVE  updated'[u] > 0
      BY <1>2 DEF Scanning, Listed
    <3>2. u \in Task /\ updated[u] > 0
      BY <3>1, SlotParts DEF StampInv, Listed
    <3> QED
      BY <1>1, <2>2, <3>2
  <2> QED
    BY <2>6, <2>7, <2>8, <2>9, <2>10 DEF StampInv
<1> QED
  BY <1>3, <1>4 DEF Submit

(* What a step does to the monitors' lists: it leaves them alone, starts   *)
(* one, ends one, or removes a row.                                        *)
LEMMA ListsKept ==
    ASSUME UNCHANGED slot
    PROVE  \A s \in Slot : Scanning(s)' => Scanning(s) /\ Listed(s)' \subseteq Listed(s)
  BY DEF Scanning, Listed

LEMMA ListsMove ==
    ASSUME TypeOK, NEW s \in Slot, NEW x, Assign(s, x),
           x.run = "scan" =>
              \/ x.failed \cup x.todo \subseteq Open
              \/ Scanning(s) /\ x.failed \cup x.todo \subseteq Listed(s)
    PROVE  \A r \in Slot : Scanning(r)' =>
              Listed(r)' \subseteq Open \/ (Scanning(r) /\ Listed(r)' \subseteq Listed(r))
  BY Assigned DEF Scanning, Listed

LEMMA ScanLists ==
    ASSUME TypeOK, NEW s \in Slot,
           PollStarts(s) \/ ScanStarts(s) \/ Runs(s) \/ ScanAborted(s)
    PROVE  \A r \in Slot : Scanning(r)' =>
              Listed(r)' \subseteq Open \/ (Scanning(r) /\ Listed(r)' \subseteq Listed(r))
<1> DEFINE Good == \A r \in Slot : Scanning(r)' =>
              Listed(r)' \subseteq Open \/ (Scanning(r) /\ Listed(r)' \subseteq Listed(r))
<1>1. ASSUME PollStarts(s)
      PROVE  Good
  <2>1. Head(queue).run = "poll"
    BY <1>1, TakesParts DEF PollStarts
  <2>2. CASE UNCHANGED slot
    BY <2>2, ListsKept
  <2>3. CASE Assign(s, Head(queue))
    BY <2>1, <2>3, ListsMove
  <2> QED
    BY <1>1, <2>2, <2>3 DEF PollStarts
<1>2. ASSUME ScanStarts(s)
      PROVE  Good
  <2> DEFINE x == [run |-> "scan", todo |-> ListStuck, failed |-> {}, refunded |-> {}]
  <2>1. x.failed \cup x.todo \subseteq Open
    BY DEF ListStuck, Stuck
  <2>2. Assign(s, x)
    BY <1>2 DEF ScanStarts
  <2> HIDE DEF x
  <2> QED
    BY <2>1, <2>2, ListsMove
<1>3. ASSUME PollReturns(s) \/ ScanCommits(s) \/ ScanAborted(s)
      PROVE  Good
  <2>1. Assign(s, Idle) /\ Idle.run # "scan"
    BY <1>3 DEF PollReturns, ScanCommits, ScanAborted, Idle
  <2> QED
    BY <2>1, ListsMove
<1>4. ASSUME ScanPolls(s)
      PROVE  Good
  <2>1. PICK t \in known : Assign(s, [slot[s] EXCEPT !.todo = @ \ {t}])
    BY <1>4 DEF ScanPolls
  <2> DEFINE x == [slot[s] EXCEPT !.todo = @ \ {t}]
  <2>2. Scanning(s) /\ slot[s] \in Scan
    BY <1>4, SlotParts DEF ScanPolls
  <2>3. x.failed \cup x.todo \subseteq Listed(s)
    BY <2>2 DEF Scan, Listed
  <2> HIDE DEF x
  <2> QED
    BY <2>1, <2>2, <2>3, ListsMove DEF x
<1>5. ASSUME ScanFails(s)
      PROVE  Good
  <2>1. PICK t \in Task :
            /\ WantsTask(s, t)
            /\ Assign(s, [slot[s] EXCEPT !.todo = @ \ {t}, !.failed = @ \cup {t}])
    BY <1>5 DEF ScanFails
  <2> DEFINE x == [slot[s] EXCEPT !.todo = @ \ {t}, !.failed = @ \cup {t}]
  <2>2. Scanning(s) /\ slot[s] \in Scan /\ t \in slot[s].todo
    BY <2>1, SlotParts DEF WantsTask, First
  <2>3. x.failed \cup x.todo \subseteq Listed(s)
    BY <2>2 DEF Scan, Listed
  <2> HIDE DEF x
  <2> QED
    BY <2>1, <2>2, <2>3, ListsMove DEF x
<1>6. ASSUME ScanRefunds(s)
      PROVE  Good
  <2> DEFINE x == [slot[s] EXCEPT !.refunded = slot[s].failed]
  <2>1. Scanning(s) /\ slot[s] \in Scan /\ Assign(s, x)
    BY <1>6, SlotParts DEF ScanRefunds, WantsUser
  <2>2. x.failed \cup x.todo \subseteq Listed(s)
    BY <2>1 DEF Scan, Listed
  <2> HIDE DEF x
  <2> QED
    BY <2>1, <2>2, ListsMove
<1> QED
  BY <1>1, <1>2, <1>3, <1>4, <1>5, <1>6 DEF Runs

LEMMA StampStep ==
    ASSUME TypeOK, QueueInv, StampInv, [Next]_vars
    PROVE  StampInv'
<1> DEFINE Lists == \A s \in Slot : Scanning(s)' =>
              Listed(s)' \subseteq Open \/ (Scanning(s) /\ Listed(s)' \subseteq Listed(s))
           Tasks1 == /\ \A t \in Task : Fresh(t)' => Fresh(t)
                     /\ Open' \subseteq Open
           Jobs1 == \A t \in Task : Fresh(t) => job'[t] = job[t] /\ hook'[t] = hook[t]
<1>1. ASSUME UNCHANGED <<updated, known>>, Lists, Tasks1, Jobs1
      PROVE  StampInv'
  BY <1>1, StampKept
<1>2. UNCHANGED status => Tasks1
  BY DEF Fresh, Open
<1>3. UNCHANGED <<job, hook>> => Jobs1
  OBVIOUS
<1>4. ASSUME NEW ts \in SUBSET Task, Settle(ts), \A t \in ts : ~Fresh(t)
      PROVE  Tasks1 /\ UNCHANGED updated
  BY <1>4, SettleKeepsCreated DEF Settle
<1>5. UNCHANGED slot => Lists
  BY ListsKept
<1> HIDE DEF Lists, Tasks1, Jobs1
<1>6. ASSUME NEW t \in Task, CreateTask(t)
      PROVE  StampInv'
  <2>1. Tasks1
    BY <1>6 DEF CreateTask, Fresh, Open, TypeOK, Tasks1
  <2> QED
    BY <1>1, <1>3, <1>5, <1>6, <2>1 DEF CreateTask
<1>7. ASSUME NEW t \in Task, HookSteps(t)
      PROVE  StampInv'
  <2>1. ~Fresh(t)
    BY <1>7, HooksSubmitted
  <2>2. UNCHANGED <<updated, known, slot>> /\ (UNCHANGED status \/ Settle({t}))
    BY <1>7 DEF HookSteps, HookLocks, HookRefunds, HookAborted, JobEnds, rowVars, Settle
  <2>3. \A u \in Task \ {t} : job'[u] = job[u] /\ hook'[u] = hook[u]
    BY <1>7 DEF HookSteps, HookLocks, HookRefunds, HookAborted, JobEnds, TypeOK
  <2>4. Jobs1
    BY <2>1, <2>3 DEF Jobs1
  <2> QED
    BY <1>1, <1>2, <1>4, <1>5, <2>1, <2>2, <2>4
<1>8. ASSUME NEW s \in Slot, PollReturns(s) \/ ScanCommits(s)
      PROVE  StampInv'
  <2>1. Lists
    BY <1>8, ScanLists DEF Runs, Lists
  <2>2. UNCHANGED <<known, job, hook>>
    BY <1>8 DEF PollReturns, ScanCommits
  <2>3. Tasks1 /\ UNCHANGED updated
    <3>1. ASSUME PollReturns(s)
          PROVE  Tasks1 /\ UNCHANGED updated
      <4>1. {slot[s].task} \in SUBSET Task /\ \A t \in {slot[s].task} : ~Fresh(t)
        BY <3>1, SettlesSubmitted
      <4> QED
        BY <1>2, <1>4, <3>1, <4>1 DEF PollReturns, rowVars
    <3>2. ASSUME ScanCommits(s)
          PROVE  Tasks1 /\ UNCHANGED updated
      <4>1. slot[s].failed \in SUBSET Task /\ \A t \in slot[s].failed : ~Fresh(t)
        BY <3>2, SettlesSubmitted
      <4> QED
        BY <1>4, <3>2, <4>1 DEF ScanCommits
    <3> QED
      BY <1>8, <3>1, <3>2
  <2> QED
    BY <1>1, <1>3, <2>1, <2>2, <2>3
<1>9. ASSUME NEW s \in Slot,
             \/ PollStarts(s) \/ ScanStarts(s) \/ ScanPolls(s) \/ ScanFails(s)
             \/ ScanRefunds(s) \/ ScanAborted(s)
      PROVE  StampInv'
  <2>1. Lists
    BY <1>9, ScanLists DEF Runs, Lists
  <2>2. UNCHANGED <<status, updated, known, job, hook>>
    BY <1>9 DEF PollStarts, ScanStarts, ScanPolls, ScanFails, ScanRefunds, ScanAborted, rowVars
  <2> QED
    BY <1>1, <1>2, <1>3, <2>1, <2>2
<1>10. CASE BeatTicks \/ Age \/ UNCHANGED vars
  <2>1. UNCHANGED <<slot, status, updated, known, job, hook>>
    BY <1>10 DEF BeatTicks, Age, vars, rowVars
  <2> QED
    BY <1>1, <1>2, <1>3, <1>5, <2>1
<1> QED
  BY <1>6, <1>7, <1>8, <1>9, <1>10, StampSubmit DEF Next, Take, Runs, HookSteps

-----------------------------------------------------------------------------
(* Scans                                                                   *)

(* A scan that does not move keeps what it has, whatever the others do.    *)
LEMMA LockedKept ==
    ASSUME TypeOK, NEW s \in Slot, slot'[s] = slot[s], LockedInOrder(s),
           UNCHANGED <<updated, known>>, Open' \subseteq Open
    PROVE  LockedInOrder(s)'
  BY DEF LockedInOrder, Listed, Before

LEMMA ScansKept ==
    ASSUME TypeOK, ScanInv, UNCHANGED <<updated, known>>, Open' \subseteq Open,
           \A s \in Slot : Scanning(s)' => slot'[s] = slot[s]
    PROVE  ScanInv'
<1>1. \A s \in Slot : Scanning(s)' => Scanning(s)
  BY DEF Scanning
<1>2. \A s \in Slot : Scanning(s)' => LockedInOrder(s)'
  BY <1>1, LockedKept DEF ScanInv
<1>3. \A r, s \in Slot : Scanning(r)' /\ Scanning(s)' /\ r # s =>
          slot'[r].failed \cap slot'[s].failed = {}
  BY <1>1 DEF ScanInv
<1> QED
  BY <1>2, <1>3 DEF ScanInv

(* One scan starts or moves.                                               *)
LEMMA ScanMoves ==
    ASSUME TypeOK, ScanInv, UNCHANGED <<status, updated, known>>, NEW s \in Slot, NEW x,
           Assign(s, x), LockedInOrder(s)',
           \A r \in Slot \ {s} : Scanning(r) => slot[r].failed \cap x.failed = {}
    PROVE  ScanInv'
<1>1. slot'[s] = x /\ \A r \in Slot \ {s} : slot'[r] = slot[r]
  BY Assigned
<1>2. Open' \subseteq Open
  BY DEF Open
<1>3. \A r \in Slot : Scanning(r)' => LockedInOrder(r)'
  <2>1. ASSUME NEW r \in Slot \ {s}, Scanning(r)'
        PROVE  LockedInOrder(r)'
    <3>1. slot'[r] = slot[r] /\ Scanning(r)
      BY <1>1, <2>1 DEF Scanning
    <3>2. LockedInOrder(r)
      BY <3>1 DEF ScanInv
    <3> QED
      BY <1>2, <3>1, <3>2, LockedKept
  <2> QED
    BY <2>1
<1>4. \A r, q \in Slot : Scanning(r)' /\ Scanning(q)' /\ r # q =>
          slot'[r].failed \cap slot'[q].failed = {}
  <2>1. SUFFICES ASSUME NEW r \in Slot, NEW q \in Slot, Scanning(r)', Scanning(q)', r # q
                 PROVE  slot'[r].failed \cap slot'[q].failed = {}
    OBVIOUS
  <2>2. CASE r = s
    <3>1. slot'[q] = slot[q] /\ Scanning(q)
      BY <1>1, <2>1, <2>2 DEF Scanning
    <3> QED
      BY <1>1, <2>1, <2>2, <3>1
  <2>3. CASE q = s
    <3>1. slot'[r] = slot[r] /\ Scanning(r)
      BY <1>1, <2>1, <2>3 DEF Scanning
    <3> QED
      BY <1>1, <2>1, <2>3, <3>1
  <2>4. CASE r # s /\ q # s
    <3>1. slot'[r] = slot[r] /\ Scanning(r) /\ slot'[q] = slot[q] /\ Scanning(q)
      BY <1>1, <2>1, <2>4 DEF Scanning
    <3> QED
      BY <2>1, <3>1 DEF ScanInv
  <2> QED
    BY <2>2, <2>3, <2>4
<1> QED
  BY <1>3, <1>4 DEF ScanInv

LEMMA ScanSubmit ==
    ASSUME TypeOK, QueueInv, StampInv, ScanInv, NEW s \in Slot, Submit(s)
    PROVE  ScanInv'
<1> DEFINE t == Head(queue).task
<1>1. t \in Task /\ updated[t] = 0 /\ UNCHANGED slot
  BY SubmitParts DEF Submit
<1>2. CASE /\ status' = [status EXCEPT ![t] = "settled"]
           /\ UNCHANGED <<updated, known, job>>
  <2>1. Open' \subseteq Open
    BY <1>2 DEF Open, TypeOK
  <2> QED
    BY <1>1, <1>2, <2>1, ScansKept
<1>3. CASE /\ status' = [status EXCEPT ![t] = "open"]
           /\ updated' = [updated EXCEPT ![t] = Clock + 1]
           /\ known' \subseteq known \cup {t} /\ known \subseteq known'
  <2>1. Clock \in Nat
    BY ClockType, WorkerPoolAssumption
  <2>2. updated'[t] = Clock + 1 /\ \A u \in Task \ {t} : updated'[u] = updated[u]
    BY <1>1, <1>3 DEF TypeOK
  <2>3. \A u \in Task : updated[u] \in Nat /\ updated[u] <= Clock
    BY WorkerPoolAssumption DEF TypeOK, StampInv
  <2>4. Open' \subseteq Open \cup {t}
    BY <1>3 DEF Open, TypeOK
  <2>5. ASSUME NEW r \in Slot, Scanning(r)'
        PROVE  LockedInOrder(r)'
    <3>1. slot'[r] = slot[r] /\ Scanning(r) /\ LockedInOrder(r) /\ Listed(r)' = Listed(r)
      BY <1>1, <2>5 DEF Scanning, ScanInv, Listed
    <3>2. \A u \in Listed(r) : u \in Task \ {t}
      BY <1>1, <3>1, SlotParts DEF StampInv, Listed
    <3>3. slot'[r].failed \cap known' = {}
      BY <1>3, <3>1, <3>2 DEF LockedInOrder, Listed
    <3>4. slot'[r].refunded \subseteq slot'[r].failed
      BY <3>1 DEF LockedInOrder
    <3>5. \A u \in slot'[r].failed, v \in slot'[r].todo : Before(u, v)'
      BY <2>2, <3>1, <3>2 DEF LockedInOrder, Listed, Before
    <3>6. ASSUME NEW u \in Listed(r), NEW v \in Open', Before(v, u)'
          PROVE  v \in Listed(r) \cup known'
      <4>1. u \in Task \ {t}
        BY <3>2
      <4>2. v # t
        BY <2>1, <2>2, <2>3, <3>6, <4>1 DEF Before
      <4>3. v \in Open /\ v \in Task /\ Before(v, u)
        BY <2>2, <2>4, <3>6, <4>1, <4>2 DEF Open, Before
      <4> QED
        BY <1>3, <3>1, <4>3 DEF LockedInOrder
    <3> QED
      BY <3>1, <3>3, <3>4, <3>5, <3>6 DEF LockedInOrder
  <2>6. \A r, q \in Slot : Scanning(r)' /\ Scanning(q)' /\ r # q =>
            slot'[r].failed \cap slot'[q].failed = {}
    BY <1>1 DEF ScanInv, Scanning
  <2> QED
    BY <2>5, <2>6 DEF ScanInv
<1> QED
  BY <1>2, <1>3 DEF Submit

(* The list that a monitor reads is closed: an open row that was updated   *)
(* before one of them is on it too.                                        *)
LEMMA ListClosed ==
    ASSUME TypeOK, NEW t \in ListStuck, NEW u \in Open, Before(u, t)
    PROVE  u \in ListStuck
<1> DEFINE Ahead(v) == {w \in Stuck : Before(w, v)}
<1>1. /\ \A v \in Task : updated[v] \in Nat
      /\ horizon \in Nat /\ limit \in Nat
  BY WorkerPoolAssumption DEF TypeOK
<1>2. Stuck \subseteq Task /\ t \in Task /\ u \in Task
  BY DEF ListStuck, Stuck, Open
<1>3. u \in Stuck
  BY <1>1, <1>2 DEF ListStuck, Stuck, Before
<1>4. Ahead(u) \subseteq Ahead(t)
  BY <1>1, <1>2 DEF Before
<1>5. /\ IsFiniteSet(Ahead(t)) /\ Cardinality(Ahead(t)) \in Nat
      /\ Cardinality(Ahead(u)) \in Nat
  <2>1. Ahead(t) \in SUBSET Task /\ Ahead(u) \in SUBSET Task
    BY <1>2
  <2> HIDE DEF Ahead
  <2> QED
    BY <2>1, TasksFinite, WorkerPoolAssumption
<1>6. Cardinality(Ahead(u)) <= Cardinality(Ahead(t))
  <2> HIDE DEF Ahead
  <2> QED
    BY <1>4, <1>5, FS_Subset
<1>7. Cardinality(Ahead(t)) < limit
  BY DEF ListStuck
<1>8. Cardinality(Ahead(u)) < limit
  <2> HIDE DEF Ahead
  <2> QED
    BY <1>1, <1>5, <1>6, <1>7
<1> QED
  BY <1>3, <1>8 DEF ListStuck

(* These steps start no scan and move none.                                *)
LEMMA StopsScan ==
    ASSUME TypeOK, NEW s \in Slot,
           PollStarts(s) \/ PollReturns(s) \/ ScanCommits(s) \/ ScanAborted(s)
    PROVE  \A r \in Slot : Scanning(r)' => slot'[r] = slot[r]
<1>1. UNCHANGED slot \/ \E x : Assign(s, x) /\ x.run # "scan"
  <2>1. ASSUME PollStarts(s)
        PROVE  UNCHANGED slot \/ \E x : Assign(s, x) /\ x.run # "scan"
    <3>1. Head(queue).run # "scan"
      BY <2>1, TakesParts DEF PollStarts
    <3> QED
      BY <2>1, <3>1 DEF PollStarts
  <2>2. ASSUME PollReturns(s) \/ ScanCommits(s) \/ ScanAborted(s)
        PROVE  \E x : Assign(s, x) /\ x.run # "scan"
    <3>1. Assign(s, Idle) /\ Idle.run # "scan"
      BY <2>2 DEF PollReturns, ScanCommits, ScanAborted, Idle
    <3> QED
      BY <3>1
  <2> QED
    BY <2>1, <2>2
<1> QED
  BY <1>1, Assigned DEF Scanning

LEMMA ScanStep ==
    ASSUME TypeOK, QueueInv, StampInv, ScanInv, [Next]_vars
    PROVE  ScanInv'
<1>1. ASSUME NEW t \in Task, CreateTask(t)
      PROVE  ScanInv'
  <2>1. Open' \subseteq Open
    BY <1>1 DEF CreateTask, Open, TypeOK
  <2> QED
    BY <1>1, <2>1, ScansKept DEF CreateTask
<1>2. ASSUME NEW t \in Task, HookSteps(t)
      PROVE  ScanInv'
  <2>1. ~Fresh(t)
    BY <1>2, HooksSubmitted
  <2>2. UNCHANGED <<updated, known, slot>> /\ (UNCHANGED status \/ Settle({t}))
    BY <1>2 DEF HookSteps, HookLocks, HookRefunds, HookAborted, JobEnds, rowVars, Settle
  <2>3. Open' \subseteq Open
    BY <2>1, <2>2, SettleKeepsCreated DEF Open
  <2> QED
    BY <2>2, <2>3, ScansKept
<1>3. ASSUME NEW s \in Slot, PollStarts(s) \/ PollReturns(s) \/ ScanCommits(s) \/ ScanAborted(s)
      PROVE  ScanInv'
  <2>1. UNCHANGED <<updated, known>>
    BY <1>3 DEF PollStarts, PollReturns, ScanCommits, ScanAborted, rowVars, Settle
  <2>2. Open' \subseteq Open
    BY <1>3 DEF PollStarts, PollReturns, ScanCommits, ScanAborted, rowVars, Settle, Open
  <2>3. \A r \in Slot : Scanning(r)' => slot'[r] = slot[r]
    BY <1>3, StopsScan
  <2> QED
    BY <2>1, <2>2, <2>3, ScansKept
<1>4. ASSUME NEW s \in Slot, ScanStarts(s)
      PROVE  ScanInv'
  <2> DEFINE x == [run |-> "scan", todo |-> ListStuck, failed |-> {}, refunded |-> {}]
  <2>1. UNCHANGED <<status, updated, known>> /\ Assign(s, x) /\ slot'[s] = x
    BY <1>4, Assigned DEF ScanStarts, rowVars
  <2>2. slot'[s].failed = {} /\ slot'[s].refunded = {} /\ slot'[s].todo = ListStuck
    BY <2>1
  <2>3. \A t \in ListStuck, u \in Open : Before(u, t) => u \in ListStuck
    BY ListClosed
  <2>4. LockedInOrder(s)'
    BY <2>1, <2>2, <2>3 DEF LockedInOrder, Listed, Before, Open
  <2>5. \A r \in Slot \ {s} : slot[r].failed \cap x.failed = {}
    OBVIOUS
  <2> HIDE DEF x
  <2> QED
    BY <2>1, <2>4, <2>5, ScanMoves
<1>5. ASSUME NEW s \in Slot, ScanPolls(s)
      PROVE  ScanInv'
  <2>1. PICK t \in known : Assign(s, [slot[s] EXCEPT !.todo = @ \ {t}])
    BY <1>5 DEF ScanPolls
  <2> DEFINE x == [slot[s] EXCEPT !.todo = @ \ {t}]
  <2>2. Scanning(s) /\ slot[s] \in Scan /\ UNCHANGED <<status, updated, known>>
    BY <1>5, SlotParts DEF ScanPolls, rowVars
  <2>3. /\ x.failed = slot[s].failed /\ x.refunded = slot[s].refunded
        /\ x.todo = slot[s].todo \ {t}
    BY <2>2 DEF Scan
  <2> HIDE DEF x
  <2>4. slot'[s] = x /\ Assign(s, x)
    BY <2>1, Assigned DEF x
  <2>5. LockedInOrder(s)'
    BY <2>2, <2>3, <2>4 DEF ScanInv, LockedInOrder, Listed, Before, Open
  <2>6. \A r \in Slot \ {s} : Scanning(r) => slot[r].failed \cap x.failed = {}
    BY <2>2, <2>3 DEF ScanInv
  <2> QED
    BY <2>2, <2>4, <2>5, <2>6, ScanMoves
<1>6. ASSUME NEW s \in Slot, ScanFails(s)
      PROVE  ScanInv'
  <2>1. PICK t \in Task :
            /\ WantsTask(s, t) /\ TaskFree(t, s)
            /\ Assign(s, [slot[s] EXCEPT !.todo = @ \ {t}, !.failed = @ \cup {t}])
    BY <1>6 DEF ScanFails
  <2> DEFINE x == [slot[s] EXCEPT !.todo = @ \ {t}, !.failed = @ \cup {t}]
  <2>2. Scanning(s) /\ slot[s] \in Scan /\ UNCHANGED <<status, updated, known>>
    BY <1>6, <2>1, SlotParts DEF ScanFails, rowVars, WantsTask
  <2>3. /\ x.failed = slot[s].failed \cup {t} /\ x.refunded = slot[s].refunded
        /\ x.todo = slot[s].todo \ {t}
    BY <2>2 DEF Scan
  <2> HIDE DEF x
  <2>4. slot'[s] = x /\ Assign(s, x)
    BY <2>1, Assigned DEF x
  <2>5. t \notin known /\ t \in slot[s].todo /\ \A u \in slot[s].todo \ {t} : Before(t, u)
    BY <2>1 DEF WantsTask, First
  <2>6. LockedInOrder(s)'
    BY <2>2, <2>3, <2>4, <2>5 DEF ScanInv, LockedInOrder, Listed, Before, Open
  <2>7. \A r \in Slot \ {s} : Scanning(r) => slot[r].failed \cap x.failed = {}
    <3>1. \A r \in Slot \ {s} : Scanning(r) => t \notin slot[r].failed
      BY <2>1 DEF TaskFree, HoldsTask
    <3> QED
      BY <2>2, <2>3, <3>1 DEF ScanInv
  <2> QED
    BY <2>2, <2>4, <2>6, <2>7, ScanMoves
<1>7. ASSUME NEW s \in Slot, ScanRefunds(s)
      PROVE  ScanInv'
  <2> DEFINE x == [slot[s] EXCEPT !.refunded = slot[s].failed]
  <2>1. /\ Scanning(s) /\ slot[s] \in Scan /\ UNCHANGED <<status, updated, known>>
        /\ slot'[s] = x /\ Assign(s, x)
    BY <1>7, SlotParts, Assigned DEF ScanRefunds, rowVars, WantsUser
  <2>2. x.failed = slot[s].failed /\ x.refunded = slot[s].failed /\ x.todo = slot[s].todo
    BY <2>1 DEF Scan
  <2> HIDE DEF x
  <2>3. LockedInOrder(s)'
    BY <2>1, <2>2 DEF ScanInv, LockedInOrder, Listed, Before, Open
  <2>4. \A r \in Slot \ {s} : Scanning(r) => slot[r].failed \cap x.failed = {}
    BY <2>1, <2>2 DEF ScanInv
  <2> QED
    BY <2>1, <2>3, <2>4, ScanMoves
<1>8. CASE BeatTicks \/ Age \/ UNCHANGED vars
  <2>1. UNCHANGED <<slot, status, updated, known>>
    BY <1>8 DEF BeatTicks, Age, vars, rowVars
  <2>2. Open' \subseteq Open
    BY <2>1 DEF Open
  <2> QED
    BY <2>1, <2>2, ScansKept
<1> QED
  BY <1>1, <1>2, <1>3, <1>4, <1>5, <1>6, <1>7, <1>8, ScanSubmit DEF Next, Take, Runs, HookSteps

-----------------------------------------------------------------------------
(* Theorems                                                                *)

PoolInv == TypeOK /\ QueueInv /\ StampInv /\ ScanInv

LEMMA PoolInit == Init => PoolInv
<1> SUFFICES ASSUME Init
             PROVE  PoolInv
  OBVIOUS
<1>1. TypeOK
  <2>1. queue \in Seq(Message)
    BY DEF Init
  <2>2. updated \in [Task -> 0..Tasks] /\ horizon \in 0..Tasks
    BY WorkerPoolAssumption DEF Init
  <2> QED
    BY <2>1, <2>2 DEF Init, TypeOK, Idle
<1>2. QueueInv
  BY DEF Init, QueueInv, Submits
<1>3. \A s \in Slot : ~Scanning(s)
  BY DEF Init, Scanning, Idle
<1>4. StampInv
  <2>1. Clock \in Nat
    BY ClockType, WorkerPoolAssumption
  <2> QED
    BY <1>3, <2>1 DEF Init, StampInv, Fresh
<1>5. ScanInv
  BY <1>3 DEF ScanInv
<1> QED
  BY <1>1, <1>2, <1>4, <1>5 DEF PoolInv

LEMMA PoolInvHolds == Spec => []PoolInv
<1>1. PoolInv /\ [Next]_vars => PoolInv'
  BY TypeStep, QueueStep, StampStep, ScanStep DEF PoolInv
<1> QED
  BY <1>1, PoolInit, PTL DEF Spec

(* Whatever clients, the provider, the clock, Beat and aborted transactions*)
(* do, the state of the pool stays well formed: a row is submitted once, so*)
(* that there are never more stamps than tasks, and a slot executes nothing*)
(* but a poll of a task or a scan of known tasks.                          *)
THEOREM WorkerPoolTypeCorrect == Spec => []TypeOK
<1>1. PoolInv => TypeOK
  BY DEF PoolInv
<1> QED
  BY <1>1, PoolInvHolds, PTL

(* A monitor that another one waits for has locked a row.                  *)
LEMMA WaitedFor ==
    ASSUME PoolInv, NEW x \in Slot, NEW y \in Slot, WaitsFor(x, y)
    PROVE  x # y /\ Scanning(y) /\ slot[y].failed # {}
<1>1. x \notin Task /\ y \notin Task
  BY WorkerPoolAssumption
<1>2. \A t \in Task : HoldsTask(y, t) => Scanning(y) /\ slot[y].failed # {}
  BY <1>1 DEF HoldsTask
<1>3. \A u \in User : HoldsUser(y, u) => Scanning(y) /\ slot[y].failed # {}
  BY DEF HoldsUser, PoolInv, ScanInv, LockedInOrder
<1> QED
  BY <1>1, <1>2, <1>3 DEF WaitsFor

(* Two monitors never fail rows at the same time, except a row that was    *)
(* settled after its monitor had read the list.                            *)
MonitorsTakeTurns ==
    \A r, s \in Slot : Scanning(r) /\ Scanning(s) /\ r # s =>
        \A t \in slot[r].failed, u \in slot[s].failed : "settled" \in {status[t], status[u]}

(* The monitor with the younger of two open rows has the older one on its  *)
(* list too, and would wait for it first.                                  *)
LEMMA LocksExclude ==
    ASSUME PoolInv, NEW x \in Slot, NEW y \in Slot, x # y, Scanning(x), Scanning(y),
           NEW t \in slot[x].failed, NEW u \in slot[y].failed,
           status[t] # "settled", status[u] # "settled"
    PROVE  FALSE
<1>1. t \in Task /\ u \in Task
  BY SlotParts DEF PoolInv
<1>2. updated[t] > 0 /\ updated[u] > 0 /\ updated[t] \in Nat /\ updated[u] \in Nat
  BY <1>1, WorkerPoolAssumption DEF PoolInv, StampInv, Listed, TypeOK
<1>3. t \in Open /\ u \in Open
  BY <1>1, <1>2 DEF PoolInv, StampInv, Fresh, TypeOK, Open
<1>4. t # u
  BY DEF PoolInv, ScanInv
<1>5. updated[t] # updated[u]
  BY <1>1, <1>2, <1>4 DEF PoolInv, StampInv
<1>6. ASSUME NEW r \in Slot, NEW s \in Slot, r # s, Scanning(r), Scanning(s),
             NEW v \in slot[r].failed, NEW w \in slot[s].failed, v \in Open,
             updated[v] \in Nat, updated[w] \in Nat, Before(v, w)
      PROVE  FALSE
  <2>1. LockedInOrder(r) /\ LockedInOrder(s) /\ slot[r].failed \cap slot[s].failed = {}
    BY <1>6 DEF PoolInv, ScanInv
  <2>2. v \in slot[s].todo
    BY <1>6, <2>1 DEF LockedInOrder, Listed
  <2>3. Before(w, v)
    BY <2>1, <2>2 DEF LockedInOrder
  <2> QED
    BY <1>6, <2>3 DEF Before
<1>7. Before(t, u) \/ Before(u, t)
  BY <1>2, <1>5 DEF Before
<1> QED
  BY <1>2, <1>3, <1>6, <1>7

(* Of monitors that overlap, only one at a time has locked open rows, for  *)
(* any number of them and whatever part of the list each of them reads.    *)
THEOREM MonitorsTakeTurnsHolds == Spec => []MonitorsTakeTurns
<1>1. PoolInv => MonitorsTakeTurns
  BY LocksExclude DEF MonitorsTakeTurns
<1> QED
  BY <1>1, PoolInvHolds, PTL

(* Two monitors that overlap update tasks in the order of updated_at, and  *)
(* so cannot wait for each other, unless a row that one of them has locked *)
(* was settled, by its webhook or by another monitor, after it had read its*)
(* list, so that it was not on the list of the other one.                  *)
THEOREM MonitorsLockInOrderHolds == Spec => []MonitorsLockInOrder
<1>1. PoolInv => MonitorsLockInOrder
  <2>1. SUFFICES ASSUME PoolInv, NEW ss \in SUBSET Slot, Deadlocked(ss),
                        \A s \in ss : \A t \in slot[s].failed : status[t] # "settled"
                 PROVE  FALSE
    BY DEF MonitorsLockInOrder
  <2>2. PICK x \in ss : TRUE
    BY <2>1 DEF Deadlocked
  <2>3. PICK z \in ss : WaitsFor(x, z)
    BY <2>1, <2>2 DEF Deadlocked
  <2>4. PICK y \in ss : WaitsFor(y, x)
    BY <2>1, <2>2 DEF Deadlocked
  <2>5. x # z /\ Scanning(z) /\ slot[z].failed # {}
    BY <2>1, <2>2, <2>3, WaitedFor
  <2>6. Scanning(x) /\ slot[x].failed # {}
    BY <2>1, <2>2, <2>4, WaitedFor
  <2>7. PICK t \in slot[x].failed, u \in slot[z].failed : TRUE
    BY <2>5, <2>6
  <2> QED
    BY <2>1, <2>2, <2>3, <2>5, <2>6, <2>7, LocksExclude
<1> QED
  BY <1>1, PoolInvHolds, PTL

-----------------------------------------------------------------------------
(* Row locks                                                               *)

(* A lock is held by one transaction.  ScanFails and HookLocks wait for a  *)
(* task's row, ScanRefunds waits for a user's; and a scan refunds one user *)
(* at a time, so that the row it waits for is the row it gets.             *)
LocksExclusive ==
    /\ \A t \in Task : \A x, y \in Slot \cup Task : HoldsTask(x, t) /\ HoldsTask(y, t) => x = y
    /\ \A u \in User : \A x, y \in Slot : HoldsUser(x, u) /\ HoldsUser(y, u) => x = y

(* A poll that has a result finds its row free: a scan fails only tasks    *)
(* without a request id, and a webhook keeps a row only after an error.    *)
PollsNeverWait ==
    \A s \in Slot : slot[s].run = "poll" /\ job[slot[s].task] = "media" =>
        \A x \in Slot \cup Task : ~HoldsTask(x, slot[s].task)

LockInv ==
    /\ \A s \in Slot : Scanning(s) => \A t, u \in Unpaid(s) : t = u
    /\ \A u \in User : \A x, y \in Slot : HoldsUser(x, u) /\ HoldsUser(y, u) => x = y
    /\ \A t \in Task : hook[t] = "open" =>
          /\ job[t] = "error"
          /\ \A s \in Slot : Scanning(s) => t \notin slot[s].failed

(* A task that is polled has a request id.                                 *)
PollInv ==
    /\ \A i \in 1..Len(queue) : queue[i].run = "poll" => queue[i].task \in known
    /\ \A s \in Slot : slot[s].run = "poll" => slot[s].task \in known

(* No other scan has the row of a user that this one has refunded.         *)
LEMMA RefundsHold ==
    ASSUME TypeOK, ScanInv, LockInv, NEW s \in Slot, Scanning(s), NEW t \in slot[s].refunded,
           NEW r \in Slot \ {s}
    PROVE  ~HoldsUser(r, Owner[t])
<1>1. t \in Task
  BY SlotParts DEF ScanInv, LockedInOrder
<1>2. Owner[t] \in User
  BY <1>1, WorkerPoolAssumption
<1>3. HoldsUser(s, Owner[t])
  BY DEF HoldsUser
<1> QED
  BY <1>2, <1>3 DEF LockInv

LEMMA LocksKept ==
    ASSUME LockInv,
           \A s \in Slot : Scanning(s)' => slot'[s] = slot[s],
           \A t \in Task : hook'[t] = "open" => hook[t] = "open" /\ job'[t] = job[t]
    PROVE  LockInv'
<1>1. \A s \in Slot : Scanning(s)' => Scanning(s) /\ Unpaid(s)' = Unpaid(s)
  BY DEF Scanning, Unpaid
<1>2. \A s \in Slot : \A u \in User : HoldsUser(s, u)' => HoldsUser(s, u)
  BY DEF HoldsUser, Scanning
<1>3. \A s \in Slot : Scanning(s)' => \A t, u \in Unpaid(s)' : t = u
  BY <1>1 DEF LockInv
<1>4. \A u \in User : \A x, y \in Slot : HoldsUser(x, u)' /\ HoldsUser(y, u)' => x = y
  BY <1>2 DEF LockInv
<1>5. \A t \in Task : hook'[t] = "open" =>
          /\ job'[t] = "error"
          /\ \A s \in Slot : Scanning(s)' => t \notin slot'[s].failed
  BY <1>1 DEF LockInv
<1> QED
  BY <1>3, <1>4, <1>5 DEF LockInv

(* What a scan must see to before it starts or moves.                      *)
LEMMA LocksMove ==
    ASSUME TypeOK, LockInv, NEW s \in Slot, NEW x, Assign(s, x), UNCHANGED <<job, hook>>,
           \A t, u \in x.failed \ x.refunded : t = u,
           \A t \in x.refunded : \A r \in Slot \ {s} : ~HoldsUser(r, Owner[t]),
           \A t \in x.failed : hook[t] # "open"
    PROVE  LockInv'
<1>1. slot'[s] = x /\ \A r \in Slot \ {s} : slot'[r] = slot[r]
  BY Assigned
<1>2. \A r \in Slot \ {s} :
          /\ Scanning(r)' => Scanning(r) /\ Unpaid(r)' = Unpaid(r)
          /\ \A u \in User : HoldsUser(r, u)' => HoldsUser(r, u)
  BY <1>1 DEF Scanning, Unpaid, HoldsUser
<1>3. \A r \in Slot : Scanning(r)' => \A t, u \in Unpaid(r)' : t = u
  <2>1. \A t, u \in Unpaid(s)' : t = u
    BY <1>1 DEF Unpaid
  <2> QED
    BY <1>2, <2>1 DEF LockInv
<1>4. \A u \in User : \A r \in Slot \ {s} : ~(HoldsUser(s, u)' /\ HoldsUser(r, u)')
  BY <1>1, <1>2 DEF HoldsUser
<1>5. \A u \in User : \A r, q \in Slot : HoldsUser(r, u)' /\ HoldsUser(q, u)' => r = q
  BY <1>2, <1>4 DEF LockInv
<1>6. \A t \in Task : hook'[t] = "open" =>
          /\ job'[t] = "error"
          /\ \A r \in Slot : Scanning(r)' => t \notin slot'[r].failed
  BY <1>1, <1>2 DEF LockInv
<1> QED
  BY <1>3, <1>5, <1>6 DEF LockInv

LEMMA LockStep ==
    ASSUME PoolInv, LockInv, [Next]_vars
    PROVE  LockInv'
<1> USE DEF PoolInv
<1>1. ASSUME NEW t \in Task, CreateTask(t)
      PROVE  LockInv'
  BY <1>1, LocksKept DEF CreateTask
<1>2. ASSUME NEW t \in Task, JobEnds(t) \/ HookRefunds(t) \/ HookAborted(t)
      PROVE  LockInv'
  <2>1. UNCHANGED slot
    BY <1>2 DEF JobEnds, HookRefunds, HookAborted
  <2>2. hook'[t] # "open" /\ \A u \in Task \ {t} : hook'[u] = hook[u] /\ job'[u] = job[u]
    BY <1>2 DEF JobEnds, HookRefunds, HookAborted, TypeOK
  <2> QED
    BY <2>1, <2>2, LocksKept
<1>3. ASSUME NEW t \in Task, HookLocks(t)
      PROVE  LockInv'
  <2>1. UNCHANGED <<slot, job>> /\ \A u \in Task \ {t} : hook'[u] = hook[u]
    BY <1>3 DEF HookLocks, TypeOK
  <2>2. hook'[t] = "open" => job'[t] = "error"
    BY <1>3 DEF HookLocks, TypeOK
  <2>3. \A s \in Slot : Scanning(s) => t \notin slot[s].failed
    <3>1. \A s \in Slot : s # t
      BY WorkerPoolAssumption
    <3> QED
      BY <1>3, <3>1 DEF HookLocks, TaskFree, HoldsTask
  <2>4. \A u \in Task : hook'[u] = "open" =>
            /\ job'[u] = "error"
            /\ \A s \in Slot : Scanning(s)' => u \notin slot'[s].failed
    BY <2>1, <2>2, <2>3 DEF LockInv, Scanning
  <2> QED
    BY <2>1, <2>4 DEF LockInv, Scanning, Unpaid, HoldsUser
<1>4. ASSUME NEW s \in Slot, Submit(s)
      PROVE  LockInv'
  <2> DEFINE t == Head(queue).task
  <2>1. t \in Task /\ hook[t] = "none"
    BY <1>4, SubmitParts
  <2>2. UNCHANGED <<slot, hook>> /\ \A u \in Task \ {t} : job'[u] = job[u]
    BY <1>4 DEF Submit, TypeOK
  <2>3. \A u \in Task : hook'[u] = "open" => hook[u] = "open" /\ job'[u] = job[u]
    BY <2>1, <2>2
  <2>4. \A r \in Slot : Scanning(r)' => slot'[r] = slot[r]
    BY <2>2
  <2> QED
    BY <2>3, <2>4, LocksKept
<1>5. ASSUME NEW s \in Slot, PollStarts(s) \/ PollReturns(s) \/ ScanCommits(s) \/ ScanAborted(s)
      PROVE  LockInv'
  <2>1. UNCHANGED <<job, hook>>
    BY <1>5 DEF PollStarts, PollReturns, ScanCommits, ScanAborted
  <2>2. \A r \in Slot : Scanning(r)' => slot'[r] = slot[r]
    BY <1>5, StopsScan
  <2> QED
    BY <2>1, <2>2, LocksKept
<1>6. ASSUME NEW s \in Slot, ScanStarts(s)
      PROVE  LockInv'
  <2> DEFINE x == [run |-> "scan", todo |-> ListStuck, failed |-> {}, refunded |-> {}]
  <2>1. Assign(s, x) /\ UNCHANGED <<job, hook>>
    BY <1>6 DEF ScanStarts
  <2>2. x.failed = {} /\ x.refunded = {}
    OBVIOUS
  <2> HIDE DEF x
  <2> QED
    BY <2>1, <2>2, LocksMove
<1>7. ASSUME NEW s \in Slot, ScanPolls(s)
      PROVE  LockInv'
  <2>1. PICK t \in known : Assign(s, [slot[s] EXCEPT !.todo = @ \ {t}])
    BY <1>7 DEF ScanPolls
  <2> DEFINE x == [slot[s] EXCEPT !.todo = @ \ {t}]
  <2>2. Scanning(s) /\ slot[s] \in Scan /\ UNCHANGED <<job, hook>>
    BY <1>7, SlotParts DEF ScanPolls
  <2>3. x.failed = slot[s].failed /\ x.refunded = slot[s].refunded
    BY <2>2 DEF Scan
  <2> HIDE DEF x
  <2>4. Assign(s, x)
    BY <2>1 DEF x
  <2>5. \A u, v \in x.failed \ x.refunded : u = v
    BY <2>2, <2>3 DEF LockInv, Unpaid
  <2>6. \A u \in x.refunded : \A r \in Slot \ {s} : ~HoldsUser(r, Owner[u])
    BY <2>2, <2>3, RefundsHold
  <2>7. \A u \in x.failed : hook[u] # "open"
    BY <2>2, <2>3, SlotParts DEF LockInv
  <2> QED
    BY <2>2, <2>4, <2>5, <2>6, <2>7, LocksMove
<1>8. ASSUME NEW s \in Slot, ScanFails(s)
      PROVE  LockInv'
  <2>1. PICK t \in Task :
            /\ WantsTask(s, t) /\ TaskFree(t, s)
            /\ Assign(s, [slot[s] EXCEPT !.todo = @ \ {t}, !.failed = @ \cup {t}])
    BY <1>8 DEF ScanFails
  <2> DEFINE x == [slot[s] EXCEPT !.todo = @ \ {t}, !.failed = @ \cup {t}]
  <2>2. Scanning(s) /\ slot[s] \in Scan /\ UNCHANGED <<job, hook>> /\ Unpaid(s) = {}
    BY <1>8, <2>1, SlotParts DEF ScanFails, WantsTask
  <2>3. x.failed = slot[s].failed \cup {t} /\ x.refunded = slot[s].refunded
    BY <2>2 DEF Scan
  <2> HIDE DEF x
  <2>4. Assign(s, x)
    BY <2>1 DEF x
  <2>5. \A u, v \in x.failed \ x.refunded : u = v
    BY <2>2, <2>3 DEF Unpaid
  <2>6. \A u \in x.refunded : \A r \in Slot \ {s} : ~HoldsUser(r, Owner[u])
    BY <2>2, <2>3, RefundsHold
  <2>7. hook[t] # "open"
    BY <2>1, WorkerPoolAssumption DEF TaskFree, HoldsTask
  <2>8. \A u \in x.failed : hook[u] # "open"
    BY <2>2, <2>3, <2>7, SlotParts DEF LockInv
  <2> QED
    BY <2>2, <2>4, <2>5, <2>6, <2>8, LocksMove
<1>9. ASSUME NEW s \in Slot, ScanRefunds(s)
      PROVE  LockInv'
  <2> DEFINE x == [slot[s] EXCEPT !.refunded = slot[s].failed]
  <2>1. PICK u \in User : WantsUser(s, u) /\ UserFree(u, s)
    BY <1>9 DEF ScanRefunds
  <2>2. Scanning(s) /\ slot[s] \in Scan /\ UNCHANGED <<job, hook>> /\ Assign(s, x)
    BY <1>9, <2>1, SlotParts DEF ScanRefunds, WantsUser
  <2>3. x.failed = slot[s].failed /\ x.refunded = slot[s].failed
    BY <2>2 DEF Scan
  <2> HIDE DEF x
  <2>4. \A t \in slot[s].failed \ slot[s].refunded : Owner[t] = u
    BY <2>1, <2>2 DEF LockInv, WantsUser, Unpaid
  <2>5. \A t \in slot[s].failed : \A r \in Slot \ {s} : ~HoldsUser(r, Owner[t])
    BY <2>1, <2>2, <2>4, RefundsHold DEF UserFree
  <2>6. \A t \in x.failed : hook[t] # "open"
    BY <2>2, <2>3, SlotParts DEF LockInv
  <2> QED
    BY <2>2, <2>3, <2>5, <2>6, LocksMove
<1>10. CASE BeatTicks \/ Age \/ UNCHANGED vars
  BY <1>10, LocksKept DEF BeatTicks, Age, vars, rowVars
<1> QED
  BY <1>1, <1>2, <1>3, <1>4, <1>5, <1>6, <1>7, <1>8, <1>9, <1>10 DEF Next, Take, Runs

LEMMA PollsKept ==
    ASSUME TypeOK, PollInv, known \subseteq known',
           \/ UNCHANGED queue
           \/ \E m \in Message :
                 (m.run = "poll" => m.task \in known) /\ queue' = Append(queue, m)
           \/ \E s \in Slot, run \in {"submit", "poll", "scan"} : Takes(s, run),
           \A s \in Slot : slot'[s].run = "poll" => slot'[s] = slot[s] \/ slot'[s].task \in known
    PROVE  PollInv'
<1>1. queue \in Seq(Message) /\ Len(queue) \in Nat
  BY DEF TypeOK
<1>2. \A s \in Slot : slot'[s].run = "poll" => slot'[s].task \in known'
  BY DEF PollInv
<1>3. CASE UNCHANGED queue
  BY <1>2, <1>3 DEF PollInv
<1>4. ASSUME NEW m \in Message, m.run = "poll" => m.task \in known, queue' = Append(queue, m)
      PROVE  PollInv'
  <2>1. \A i \in 1..Len(queue') : (i \in 1..Len(queue) /\ queue'[i] = queue[i]) \/ queue'[i] = m
    BY <1>1, <1>4
  <2>2. \A i \in 1..Len(queue') : queue'[i].run = "poll" => queue'[i].task \in known'
    BY <1>4, <2>1 DEF PollInv
  <2> QED
    BY <1>2, <2>2 DEF PollInv
<1>5. ASSUME NEW s \in Slot, NEW run, Takes(s, run)
      PROVE  PollInv'
  <2>1. /\ Len(queue') = Len(queue) - 1
        /\ \A i \in 1..Len(queue') : queue'[i] = queue[i + 1]
    BY <1>5, TakesParts
  <2>2. \A i \in 1..Len(queue') : i + 1 \in 1..Len(queue) /\ queue'[i] = queue[i + 1]
    BY <1>1, <2>1
  <2>3. \A i \in 1..Len(queue') : queue'[i].run = "poll" => queue'[i].task \in known'
    BY <2>2 DEF PollInv
  <2> QED
    BY <1>2, <2>3 DEF PollInv
<1> QED
  BY <1>3, <1>4, <1>5

LEMMA PollStep ==
    ASSUME TypeOK, PollInv, [Next]_vars
    PROVE  PollInv'
<1>1. ASSUME UNCHANGED <<slot, known>>,
             \/ UNCHANGED queue
             \/ \E m \in Message : m.run # "poll" /\ queue' = Append(queue, m)
      PROVE  PollInv'
  BY <1>1, PollsKept
<1>2. ASSUME NEW t \in Task, CreateTask(t)
      PROVE  PollInv'
  <2>1. [run |-> "submit", task |-> t] \in Message
    BY DEF Message
  <2> QED
    BY <1>1, <1>2, <2>1 DEF CreateTask, Delay
<1>3. CASE BeatTicks
  <2>1. [run |-> "scan"] \in Message
    BY DEF Message
  <2> QED
    BY <1>1, <1>3, <2>1 DEF BeatTicks
<1>4. ASSUME NEW t \in Task, HookSteps(t)
      PROVE  PollInv'
  BY <1>1, <1>4 DEF HookSteps, JobEnds, HookLocks, HookRefunds, HookAborted
<1>5. CASE Age \/ UNCHANGED vars
  BY <1>1, <1>5 DEF Age, vars
<1>6. ASSUME NEW s \in Slot, Submit(s)
      PROVE  PollInv'
  <2>1. UNCHANGED slot /\ known \subseteq known' /\ Takes(s, "submit")
    BY <1>6 DEF Submit
  <2>2. \A r \in Slot : slot'[r] = slot[r]
    BY <2>1
  <2> QED
    BY <2>1, <2>2, PollsKept
<1>7. ASSUME NEW s \in Slot, PollStarts(s)
      PROVE  PollInv'
  <2>1. Takes(s, "poll") /\ UNCHANGED known
    BY <1>7 DEF PollStarts
  <2>2. Head(queue).task \in known
    <3>1. Len(queue) > 0 /\ Head(queue) = queue[1] /\ Head(queue).run = "poll"
      BY <2>1, TakesParts
    <3>2. Len(queue) \in Nat
      BY DEF TypeOK
    <3>3. 1 \in 1..Len(queue)
      BY <3>1, <3>2
    <3> QED
      BY <3>1, <3>3 DEF PollInv
  <2>3. \A r \in Slot : slot'[r] = slot[r] \/ slot'[r].task \in known
    <3>1. CASE UNCHANGED slot
      BY <3>1
    <3>2. CASE Assign(s, Head(queue))
      BY <2>2, <3>2, Assigned
    <3> QED
      BY <1>7, <3>1, <3>2 DEF PollStarts
  <2> QED
    BY <2>1, <2>3, PollsKept
<1>8. ASSUME NEW s \in Slot, NEW x, Assign(s, x), x.run # "poll", UNCHANGED known,
             \/ UNCHANGED queue
             \/ \E r \in Slot, run \in {"submit", "poll", "scan"} : Takes(r, run)
             \/ \E t \in known : Delay("poll", t)
      PROVE  PollInv'
  <2>1. \A r \in Slot : slot'[r].run = "poll" => slot'[r] = slot[r]
    BY <1>8, Assigned
  <2>2. CASE \E t \in known : Delay("poll", t)
    <3>1. PICK t \in known : Delay("poll", t)
      BY <2>2
    <3> DEFINE m == [run |-> "poll", task |-> t]
    <3>2. m \in Message /\ m.task \in known /\ queue' = Append(queue, m)
      BY <3>1 DEF Delay, Message, TypeOK
    <3> HIDE DEF m
    <3> QED
      BY <1>8, <2>1, <3>2, PollsKept
  <2> QED
    BY <1>8, <2>1, <2>2, PollsKept
<1>9. ASSUME NEW s \in Slot, ScanStarts(s)
      PROVE  PollInv'
  <2> DEFINE x == [run |-> "scan", todo |-> ListStuck, failed |-> {}, refunded |-> {}]
  <2>1. Takes(s, "scan") /\ Assign(s, x) /\ UNCHANGED known /\ x.run # "poll"
    BY <1>9 DEF ScanStarts
  <2> HIDE DEF x
  <2> QED
    BY <1>8, <2>1
<1>10. ASSUME NEW s \in Slot, PollReturns(s) \/ ScanCommits(s) \/ ScanAborted(s)
       PROVE  PollInv'
  <2>1. Assign(s, Idle) /\ UNCHANGED <<known, queue>> /\ Idle.run # "poll"
    BY <1>10 DEF PollReturns, ScanCommits, ScanAborted, Idle
  <2> QED
    BY <1>8, <2>1
<1>11. ASSUME NEW s \in Slot, ScanPolls(s) \/ ScanFails(s) \/ ScanRefunds(s)
       PROVE  PollInv'
  <2>1. slot[s] \in Scan /\ UNCHANGED known
    BY <1>11, SlotParts DEF ScanPolls, ScanFails, ScanRefunds, WantsTask, WantsUser
  <2>2. \E x : Assign(s, x) /\ x.run # "poll"
    <3>1. \A t : [slot[s] EXCEPT !.todo = @ \ {t}].run # "poll"
      BY <2>1 DEF Scan
    <3>2. \A t : [slot[s] EXCEPT !.todo = @ \ {t}, !.failed = @ \cup {t}].run # "poll"
      BY <2>1 DEF Scan
    <3>3. [slot[s] EXCEPT !.refunded = slot[s].failed].run # "poll"
      BY <2>1 DEF Scan
    <3> QED
      BY <1>11, <3>1, <3>2, <3>3 DEF ScanPolls, ScanFails, ScanRefunds
  <2>3. UNCHANGED queue \/ \E t \in known : Delay("poll", t)
    BY <1>11 DEF ScanPolls, ScanFails, ScanRefunds
  <2> QED
    BY <1>8, <2>1, <2>2, <2>3
<1> QED
  BY <1>2, <1>3, <1>4, <1>5, <1>6, <1>7, <1>9, <1>10, <1>11 DEF Next, Take, Runs, HookSteps

LEMMA LockInvHolds == Spec => [](PoolInv /\ LockInv /\ PollInv)
<1>1. Init => LockInv /\ PollInv
  BY DEF Init, LockInv, PollInv, Scanning, HoldsUser, Idle
<1>2. PoolInv /\ LockInv /\ PollInv /\ [Next]_vars => LockInv' /\ PollInv'
  BY LockStep, PollStep DEF PoolInv
<1> QED
  BY <1>1, <1>2, PoolInvHolds, PTL DEF Spec

(* However monitors and webhooks overlap, no row of a task or of a user is *)
(* locked by two transactions.                                             *)
THEOREM LocksExclusiveHolds == Spec => []LocksExclusive
<1>1. PoolInv /\ LockInv => LocksExclusive
  <2>1. SUFFICES ASSUME PoolInv, LockInv, NEW t \in Task, NEW x \in Slot \cup Task,
                        NEW y \in Slot \cup Task, HoldsTask(x, t), HoldsTask(y, t)
                 PROVE  x = y
    BY DEF LocksExclusive, LockInv
  <2>2. CASE x \in Slot /\ y \in Slot
    BY <2>1, <2>2, WorkerPoolAssumption DEF HoldsTask, PoolInv, ScanInv
  <2>3. CASE x \notin Slot \/ y \notin Slot
    BY <2>1, <2>3 DEF HoldsTask, LockInv
  <2> QED
    BY <2>2, <2>3
<1> QED
  BY <1>1, LockInvHolds, PTL

(* A poll that has media to store never waits for the row of its task:     *)
(* neither a monitor nor the webhook of that job has it.                   *)
THEOREM PollsNeverWaitHolds == Spec => []PollsNeverWait
<1>1. PoolInv /\ LockInv /\ PollInv => PollsNeverWait
  <2>1. SUFFICES ASSUME PoolInv, LockInv, PollInv, NEW s \in Slot, slot[s].run = "poll",
                        job[slot[s].task] = "media", NEW x \in Slot \cup Task,
                        HoldsTask(x, slot[s].task)
                 PROVE  FALSE
    BY DEF PollsNeverWait
  <2>2. slot[s].task \in Task /\ slot[s].task \in known
    BY <2>1, SlotParts DEF PoolInv, PollInv
  <2>3. \A r \in Slot : Scanning(r) => slot[s].task \notin slot[r].failed
    BY <2>1, <2>2 DEF PoolInv, ScanInv, LockedInOrder
  <2>4. hook[slot[s].task] # "open"
    BY <2>1, <2>2 DEF LockInv
  <2> QED
    BY <2>1, <2>3, <2>4 DEF HoldsTask
<1> QED
  BY <1>1, LockInvHolds, PTL

=============================================================================
