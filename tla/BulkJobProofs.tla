--------------------------- MODULE BulkJobProofs ---------------------------
(***************************************************************************)
(* Proofs about BulkJob, for any number of workers, jobs and tasks: its    *)
(* invariants, and that it implements BulkJobSpec.                         *)
(***************************************************************************)
EXTENDS BulkJobSteps, FiniteSetTheorems

----------------------------------------------------------------------------
(* Where tasks are *)

\* A step that moves no task
QuietTasks ==
  /\ Created' = Created
  /\ UNCHANGED <<active_job_tasks, assignVars, blacklisted_jobs, reported,
                 tasks_used_per_job>>
  /\ \A w \in Workers : Holds(w)' = Holds(w)

\* A step that changes neither tasks nor counters nor tables; finished_ is set
\* only by a shutdown.
Quiet ==
  /\ QuietTasks
  /\ UNCHANGED <<total_tasks_used, tableVars, job_result>>
  /\ trigger_shutdown => trigger_shutdown'
  /\ finished' => finished \/ trigger_shutdown

\* A step that leaves the bulk job alone, or starts to stop a worker, is quiet.
LEMMA QuietStep ==
  ASSUME TypeOK, HolderInv,
         UNCHANGED <<bulkVars, tableVars, job_result>>,
         trigger_shutdown => trigger_shutdown',
         finished' => finished \/ trigger_shutdown,
         \/ UNCHANGED cs
         \/ cs.op # "stop" /\ cs'.op # "stop"
         \/ /\ cs.op # "stop" /\ cs'.op = "stop"
            /\ cs'.tasks = worker_job_tasks[cs'.worker]
  PROVE  Quiet
<1>1. \A w \in Workers : Holds(w)' = Holds(w)
  BY DEF Holds, bulkVars, assignVars
<1>2. Created' = Created
  BY DEF Created, bulkVars, samplerVars
<1>. QED
  BY <1>1, <1>2 DEF Quiet, QuietTasks, bulkVars, countVars, failureVars

\* Every step is quiet, ends process_job, or is an iteration or the end of a
\* loop under work_mutex_.
LEMMA StepKinds ==
  ASSUME TypeOK, HolderInv, [Next]_vars
  PROVE  \/ Quiet
         \/ NextWorkAssign \/ NextWorkReply \/ StopEnd
         \/ \E jt \in Tasks : FinishedWorkTask(jt) \/ StopTask(jt)
         \/ ProcessJobEnd \/ ProcessJobNoWorkers
<1>0. CASE StartJobOnWorkers \/ StartDone
  <2>1. /\ UNCHANGED <<bulkVars, tableVars, jobVars>>
        /\ UNCHANGED cs \/ (cs.op # "stop" /\ cs'.op # "stop")
    BY <1>0 DEF StartJobOnWorkers, StartDone, AllAnswered, Free
  <2>. QED
    BY <2>1, QuietStep DEF jobVars
<1>1. ASSUME NEW w \in Workers,
             \/ RegisterWorker(w) \/ NewJobReply(w) \/ FinishedJobThrows(w)
             \/ NextWork(w) \/ ReportWork(w) \/ WorkerCrash(w)
      PROVE  Quiet
  <2>1. /\ UNCHANGED <<bulkVars, tableVars, jobVars>>
        /\ UNCHANGED cs \/ (cs.op = "free" /\ cs'.op # "stop")
    BY ZenonT(40), <1>1 DEF RegisterWorker, NewJobReply, FinishedJobThrows, NextWork,
                ReportWork, FinishedWork, WorkerCrash, Free
  <2>. QED
    BY SMTT(30), <2>1, QuietStep DEF jobVars
<1>2. ASSUME NEW w \in Workers,
             \/ FinishedJob(w) \/ UnregisterWorker(w)
             \/ PingerRemove(w) \/ TimeoutRemove(w) \/ StartRemove(w)
      PROVE  Quiet
  <2>1. /\ UNCHANGED <<bulkVars, tableVars, jobVars>>
        /\ cs.op # "stop"
        /\ \/ UNCHANGED cs
           \/ StopJobOnWorker(w, "IDLE", "free")
           \/ StopJobOnWorker(w, "UNREGISTERED", "free")
           \/ StopJobOnWorker(w, "UNREGISTERED", "start")
    BY SMTT(30), <1>2 DEF FinishedJob, UnregisterWorker, PingerRemove, TimeoutRemove,
                StartRemove, AllAnswered, remove_worker
  <2>2. \/ UNCHANGED cs
        \/ cs'.op = "stop" /\ cs'.tasks = worker_job_tasks[cs'.worker]
    BY <2>1, StopStart
  <2>. QED
    BY SMTT(30), <2>1, <2>2, QuietStep DEF jobVars
<1>3. CASE FinishedWorkThrows \/ FinishedWorkReply
  <2>1. /\ UNCHANGED <<bulkVars, tableVars, jobVars>>
        /\ cs.op # "stop" /\ cs'.op # "stop"
    <3>1. cs.op = "FinishedWork" /\ cs' = Free
      BY ZenonT(40), <1>3 DEF FinishedWorkThrows, FinishedWorkReply
    <3>2. UNCHANGED <<bulkVars, tableVars, jobVars>>
      BY <1>3 DEF FinishedWorkThrows, FinishedWorkReply
    <3>. QED
      BY SMTT(30), <3>1, <3>2 DEF Free
  <2>. QED
    BY <2>1, QuietStep DEF jobVars
<1>4. CASE ClearActive \/ TriggerShutdown \/ StartShutdown
  <2>1. /\ UNCHANGED <<bulkVars, tableVars, job_result, cs>>
        /\ trigger_shutdown => trigger_shutdown'
        /\ finished' => finished \/ trigger_shutdown
    BY SMTT(30), <1>4 DEF ClearActive, TriggerShutdown, StartShutdown
  <2>. QED
    BY <2>1, QuietStep
<1>5. CASE UNCHANGED vars
  BY <1>5, QuietStep DEF vars, jobVars
<1>. QED
  BY SMTT(30), <1>0, <1>1, <1>2, <1>3, <1>4, <1>5 DEF Next, HandlerStep

\* An empty refill moves no task either.
LEMMA ReplyIsQuiet ==
  ASSUME TypeOK, SamplerInv, NextWorkReply
  PROVE  /\ QuietTasks
         /\ UNCHANGED <<total_tasks_used, tableVars, job_result, finished,
                        trigger_shutdown>>
<1>1. /\ UNCHANGED <<assignVars, failureVars, tasks_used_per_job,
                     total_tasks_used, reported, tableVars, jobVars>>
      /\ cs.op = "NextWork" /\ cs'.op = "free"
      /\ \/ UNCHANGED <<samplerVars, active_job_tasks>>
         \/ Refilled = <<>> /\ SampleTask
  BY DEF NextWorkReply, Free
<1>2. Created' = Created /\ UNCHANGED active_job_tasks
  <2>1. CASE UNCHANGED <<samplerVars, active_job_tasks>>
    BY <2>1 DEF Created, samplerVars
  <2>2. CASE Refilled = <<>> /\ SampleTask
    <3>1. ~CreateTask
      BY <2>2, RefilledQueue
    <3>. QED
      BY <2>2, <3>1, SampleStep DEF SampleTask
  <2>. QED
    BY <1>1, <2>1, <2>2
<1>3. \A w \in Workers : Holds(w)' = Holds(w)
  BY <1>1 DEF Holds, assignVars
<1>. QED
  BY SMTT(30), <1>1, <1>2, <1>3 DEF QuietTasks, failureVars, jobVars

\* The end of process_job moves no task.
LEMMA EndIsQuiet ==
  ASSUME ProcessJobEnd \/ ProcessJobNoWorkers
  PROVE  /\ QuietTasks
         /\ job_result' # "none"
<1>1. /\ UNCHANGED <<samplerVars, assignVars, failureVars, active_job_tasks,
                     tasks_used_per_job, reported, cs>>
      /\ job_result' # "none"
  BY Zenon DEF ProcessJobEnd, ProcessJobNoWorkers, FinishedFn
<1>2. Created' = Created
  BY <1>1 DEF Created, samplerVars
<1>3. \A w \in Workers : Holds(w)' = Holds(w)
  BY <1>1 DEF Holds, assignVars
<1>. QED
  BY <1>1, <1>2, <1>3 DEF QuietTasks, failureVars

Distinct(q) == \A i, k \in 1 .. Len(q) : q[i] = q[k] => i = k

\* The task that NextWork assigns leaves the queue, or was created just now.
LEMMA AssignQueue ==
  ASSUME TypeOK, SamplerInv, Distinct(to_assign_job_tasks), NextWorkAssign,
         NEW jt, jt = Refilled[Len(Refilled)]
  PROVE  /\ jt \in Tasks
         /\ IF CreateTask THEN jt = CreatedTask ELSE Queued(jt)
         /\ \A x : Queued(x)' => Queued(x) /\ x # jt
         /\ \A x : Queued(x) => Queued(x)' \/ x = jt
         /\ Distinct(to_assign_job_tasks)'
<1>. DEFINE q == to_assign_job_tasks
            p == to_assign_job_tasks'
<1>1. SampleTask /\ Refilled # <<>> /\ p = SubSeq(Refilled, 1, Len(Refilled) - 1)
  BY DEF NextWorkAssign
<1>2. /\ Refilled \in Seq(Tasks)
      /\ Refilled = IF CreateTask THEN <<CreatedTask>> ELSE q
      /\ CreateTask => q = <<>>
  BY <1>1, RefilledQueue
<1>3. /\ Len(Refilled) \in Nat \ {0}
      /\ jt \in Tasks
      /\ Len(p) = Len(Refilled) - 1
      /\ \A i \in 1 .. Len(p) : p[i] = Refilled[i]
  BY SMTT(30), <1>1, <1>2, QueuePop
<1>4. CASE CreateTask
  <2>1. Len(Refilled) = 1 /\ jt = CreatedTask /\ Len(q) = 0 /\ Len(p) = 0
    BY SMTT(30), <1>2, <1>3, <1>4
  <2>. QED
    BY <1>3, <1>4, <2>1 DEF Queued, Distinct
<1>5. CASE ~CreateTask
  <2>1. /\ Len(q) \in Nat \ {0} /\ jt = q[Len(q)] /\ Len(p) = Len(q) - 1
        /\ \A i \in 1 .. Len(p) : p[i] = q[i]
    BY SMTT(30), <1>2, <1>3, <1>5
  <2>2. Queued(jt)
    <3>1. Len(q) \in 1 .. Len(q) /\ q[Len(q)] = jt
      BY <2>1
    <3>. QED
      BY SMTT(30), <3>1 DEF Queued
  <2>3. \A x : Queued(x)' => Queued(x) /\ x # jt
    BY <2>1 DEF Queued, Distinct
  <2>4. \A x : Queued(x) => Queued(x)' \/ x = jt
    BY <2>1 DEF Queued
  <2>5. Distinct(q)'
    BY <2>1 DEF Distinct
  <2>. QED
    BY <1>3, <1>5, <2>2, <2>3, <2>4, <2>5
<1>. QED
  BY <1>4, <1>5

\* A task that stop_job_on_worker takes away is put at the end of the queue.
LEMMA StopQueue ==
  ASSUME TypeOK, Distinct(to_assign_job_tasks), NEW jt \in Tasks, StopTask(jt),
         ~Queued(jt)
  PROVE  /\ \A x : Queued(x)' <=> Queued(x) \/ x = jt
         /\ Distinct(to_assign_job_tasks)'
<1>. DEFINE q == to_assign_job_tasks
            p == to_assign_job_tasks'
<1>1. q \in Seq(Tasks) /\ p = Append(q, jt)
  BY DEF StopTask, Requeue, TypeOK, QueueTypeOK
<1>2. /\ Len(q) \in Nat /\ Len(p) = Len(q) + 1 /\ p[Len(p)] = jt
      /\ \A i \in 1 .. Len(q) : p[i] = q[i]
  BY <1>1, QueuePush
<1>3. \A x : Queued(x)' <=> Queued(x) \/ x = jt
  BY <1>2 DEF Queued
<1>4. Distinct(q)'
  BY <1>2 DEF Distinct, Queued
<1>. QED
  BY <1>3, <1>4

PlaceInv ==
  /\ ActiveInv /\ QueueInv /\ HeldInv /\ NoTaskTwice /\ NoTaskLost
  /\ StartsMatchAssignments

\* A step that moves no task keeps every task in its place.
LEMMA QuietPlaces ==
  ASSUME TypeOK, PlaceInv, QuietTasks
  PROVE  PlaceInv'
<1>. USE DEF PlaceInv, QuietTasks
<1>1. ActiveInv'
  BY DEF ActiveInv
<1>2. \A x : Queued(x)' <=> Queued(x)
  BY SMTT(30) DEF Queued, assignVars
<1>3. QueueInv' /\ HeldInv'
  BY <1>2 DEF QueueInv, HeldInv, assignVars
<1>4. NoTaskTwice'
  BY <1>2 DEF NoTaskTwice, assignVars
<1>5. NoTaskLost'
  BY <1>2 DEF NoTaskLost, assignVars, TypeOK, QueueTypeOK
<1>6. StartsMatchAssignments'
  BY ZenonT(40) DEF StartsMatchAssignments, assignVars
<1>. QED
  BY <1>1, <1>3, <1>4, <1>5, <1>6

\* NextWorkHandler moves a task from the queue to one worker.
LEMMA AssignPlaces ==
  ASSUME TypeOK, SamplerInv, HolderInv, PlaceInv, NextWorkAssign
  PROVE  PlaceInv'
<1>. DEFINE w  == cs.worker
            jt == Refilled[Len(Refilled)]
<1>t. /\ worker_job_tasks \in [Workers -> SUBSET Tasks]
      /\ tracked \subseteq Workers
      /\ w \in Workers
      /\ cs.op = "NextWork" /\ cs'.op = "NextWork"
  BY Zenon DEF TypeOK, QueueTypeOK, HolderTypeOK, NextWorkAssign, HolderInv
<1>d. Distinct(to_assign_job_tasks)
  BY DEF PlaceInv, NoTaskTwice, Distinct
<1>n. /\ \A v, u \in Workers : v # u => Holds(v) \cap Holds(u) = {}
      /\ \A v \in Workers, x \in Tasks : x \in Holds(v) => ~Queued(x)
      /\ \A x \in reported :
           ~Queued(x) /\ \A v \in Workers : x \notin Holds(v)
  BY DEF PlaceInv, NoTaskTwice
<1>q. /\ jt \in Tasks
      /\ IF CreateTask THEN jt = CreatedTask ELSE Queued(jt)
      /\ \A x : Queued(x)' => Queued(x) /\ x # jt
      /\ \A x : Queued(x) => Queued(x)' \/ x = jt
      /\ Distinct(to_assign_job_tasks)'
  BY <1>d, AssignQueue
<1>s. /\ CreateTask => /\ CreatedTask \in Tasks \ Created
                       /\ Created' = Created \cup {CreatedTask}
                       /\ active_job_tasks' = active_job_tasks \cup {CreatedTask}
      /\ ~CreateTask => Created' = Created /\ UNCHANGED active_job_tasks
      /\ UNCHANGED <<reported, blacklisted_jobs>>
  BY SampleStep DEF NextWorkAssign, SampleTask, failureVars
<1>c. jt \in Created'
  BY <1>q, <1>s DEF PlaceInv, QueueInv
<1>h. jt \notin reported /\ \A v \in Workers : jt \notin Holds(v)
  <2>1. NoTaskTwice /\ ActiveInv /\ HeldInv
    BY DEF PlaceInv
  <2>2. CASE CreateTask
    <3>1. jt \notin Created
      BY <2>2, <1>q, <1>s
    <3>2. reported \subseteq Created
      BY <2>1 DEF ActiveInv
    <3>3. \A v \in Workers : Holds(v) \subseteq Created
      BY <2>1, <1>t DEF HeldInv, Holds
    <3>. QED
      BY <3>1, <3>2, <3>3
  <2>3. CASE ~CreateTask
    <3>1. Queued(jt) /\ jt \in Tasks
      BY <2>3, <1>q
    <3>. QED
      BY <3>1, <2>1 DEF NoTaskTwice
  <2>. QED
    BY <2>2, <2>3
<1>1. ActiveInv'
  BY <1>s DEF PlaceInv, ActiveInv
<1>2. QueueInv'
  BY <1>q, <1>s DEF PlaceInv, QueueInv
<1>3. CASE jt[1] \in blacklisted_jobs
  <2>1. /\ UNCHANGED <<worker_job_tasks, tracked, worker_job_tasks_starts, cs>>
        /\ \A v \in Workers : Holds(v)' = Holds(v)
    BY <1>3 DEF NextWorkAssign, Holds
  <2>2. HeldInv'
    BY <2>1, <1>s DEF PlaceInv, HeldInv
  <2>3. NoTaskTwice'
    <3>1. \A i, k \in 1 .. Len(to_assign_job_tasks') :
            to_assign_job_tasks'[i] = to_assign_job_tasks'[k] => i = k
      BY <1>q DEF Distinct
    <3>2. \A v, u \in Workers : v # u => Holds(v)' \cap Holds(u)' = {}
      BY <2>1, <1>n
    <3>3. \A v \in Workers, x \in Tasks : x \in Holds(v)' => ~Queued(x)'
      BY <2>1, <1>q, <1>n
    <3>4. \A x \in reported :
            ~Queued(x)' /\ \A v \in Workers : x \notin Holds(v)'
      BY <2>1, <1>q, <1>n
    <3>. QED
      BY <3>1, <3>2, <3>3, <3>4, <1>s DEF NoTaskTwice
  <2>4. NoTaskLost'
    <3>. SUFFICES ASSUME NEW x \in Created', x \notin reported,
                         x[1] \notin blacklisted_jobs, ~Queued(x)'
                  PROVE  \E v \in tracked : x \in Holds(v)'
      BY <1>s, <2>1 DEF NoTaskLost
    <3>1. x # jt
      BY SMTT(30), <1>3
    <3>2. x \in Created /\ ~Queued(x)
      BY <3>1, <1>q, <1>s
    <3>3. PICK v \in tracked : x \in Holds(v)
      BY <3>2 DEF PlaceInv, NoTaskLost
    <3>. QED
      BY <3>3, <2>1, <1>t
  <2>5. StartsMatchAssignments'
    BY Zenon, <2>1 DEF PlaceInv, StartsMatchAssignments
  <2>. QED
    BY <1>1, <1>2, <2>2, <2>3, <2>4, <2>5 DEF PlaceInv
<1>4. CASE jt[1] \notin blacklisted_jobs
  <2>1. /\ worker_job_tasks' = [worker_job_tasks EXCEPT ![w] = @ \cup {jt}]
        /\ tracked' = tracked \cup {w}
        /\ worker_job_tasks_starts' = worker_job_tasks_starts \cup {<<w, jt>>}
    BY SMTT(30), <1>4 DEF NextWorkAssign
  <2>2. \A v \in Workers :
          Holds(v)' = IF v = w THEN Holds(w) \cup {jt} ELSE Holds(v)
    BY <2>1, <1>t DEF Holds
  <2>3. HeldInv'
    BY <2>1, <1>c, <1>s, <1>t DEF PlaceInv, HeldInv
  <2>4. NoTaskTwice'
    <3>1. \A i, k \in 1 .. Len(to_assign_job_tasks') :
            to_assign_job_tasks'[i] = to_assign_job_tasks'[k] => i = k
      BY <1>q DEF Distinct
    <3>2. \A v, u \in Workers : v # u => Holds(v)' \cap Holds(u)' = {}
      <4>. TAKE v, u \in Workers
      <4>. HAVE v # u
      <4>1. /\ Holds(v)' = IF v = w THEN Holds(v) \cup {jt} ELSE Holds(v)
            /\ Holds(u)' = IF u = w THEN Holds(u) \cup {jt} ELSE Holds(u)
        BY <2>2
      <4>2. /\ Holds(v) \cap Holds(u) = {}
            /\ jt \notin Holds(v) /\ jt \notin Holds(u)
        BY <1>n, <1>h
      <4>. QED
        BY <4>1, <4>2
    <3>3. \A v \in Workers, x \in Tasks : x \in Holds(v)' => ~Queued(x)'
      BY <2>2, <1>q, <1>n, <1>t
    <3>4. \A x \in reported :
            ~Queued(x)' /\ \A v \in Workers : x \notin Holds(v)'
      <4>. TAKE x \in reported
      <4>1. x # jt
        BY <1>h
      <4>. QED
        BY <4>1, <2>2, <1>q, <1>n
    <3>. QED
      BY <3>1, <3>2, <3>3, <3>4, <1>s DEF NoTaskTwice
  <2>5. NoTaskLost'
    <3>. SUFFICES ASSUME NEW x \in Created', x \notin reported,
                         x[1] \notin blacklisted_jobs, ~Queued(x)'
                  PROVE  \E v \in tracked' : x \in Holds(v)'
      BY SMTT(30), <1>s DEF NoTaskLost
    <3>1. CASE x = jt
      BY ZenonT(40), <3>1, <2>1, <2>2, <1>t
    <3>2. CASE x # jt
      <4>1. x \in Created /\ ~Queued(x)
        BY <3>2, <1>q, <1>s
      <4>2. PICK v \in tracked : x \in Holds(v)
        BY <4>1 DEF PlaceInv, NoTaskLost
      <4>. QED
        BY <4>2, <2>1, <2>2, <1>t
    <3>. QED
      BY <3>1, <3>2
  <2>6. StartsMatchAssignments'
    BY Zenon, <2>1, <2>2, <1>t, <1>q DEF PlaceInv, StartsMatchAssignments
  <2>. QED
    BY <1>1, <1>2, <2>3, <2>4, <2>5, <2>6 DEF PlaceInv
<1>. QED
  BY <1>3, <1>4

\* FinishedWorkHandler counts a task that was not counted before.
LEMMA ReportPlaces ==
  ASSUME TypeOK, HolderInv, ReceivedInv, PlaceInv,
         NEW jt \in Tasks, FinishedWorkTask(jt)
  PROVE  /\ PlaceInv'
         /\ Counted(jt) => jt \notin reported
<1>. DEFINE w == cs.worker
<1>t. /\ worker_job_tasks \in [Workers -> SUBSET Tasks]
      /\ tracked \subseteq Workers
      /\ w \in Workers /\ w \in tracked
      /\ cs.op = "FinishedWork" /\ cs'.op = "FinishedWork"
      /\ jt \in received[w]
  BY DEF TypeOK, QueueTypeOK, HolderTypeOK, FinishedWorkTask, HolderInv
<1>u. /\ worker_job_tasks' = [worker_job_tasks EXCEPT ![w] = @ \ {jt}]
      /\ worker_job_tasks_starts' = worker_job_tasks_starts \ {<<w, jt>>}
      /\ active_job_tasks' = IF Counted(jt) THEN active_job_tasks \ {jt}
                                            ELSE active_job_tasks
      /\ reported' = IF Counted(jt) THEN reported \cup {jt} ELSE reported
      /\ UNCHANGED <<samplerVars, to_assign_job_tasks, tracked,
                     blacklisted_jobs>>
  BY DEF FinishedWorkTask, EraseStart, countVars, failureVars
<1>c. Created' = Created
  BY <1>u DEF Created, samplerVars
<1>q. \A x : Queued(x)' <=> Queued(x)
  BY SMTT(30), <1>u DEF Queued
<1>h. \A v \in Workers :
        Holds(v)' = IF v = w THEN Holds(w) \ {jt} ELSE Holds(v)
  BY <1>u, <1>t DEF Holds
<1>n. /\ \A v, u \in Workers : v # u => Holds(v) \cap Holds(u) = {}
      /\ \A v \in Workers, x \in Tasks : x \in Holds(v) => ~Queued(x)
      /\ \A x \in reported :
           ~Queued(x) /\ \A v \in Workers : x \notin Holds(v)
  BY SMTT(30) DEF PlaceInv, NoTaskTwice
<1>r. Counted(jt) => jt \notin reported /\ jt \in Created /\ jt \in Holds(w)
  BY ZenonT(40), <1>t DEF Counted, ReceivedInv, PlaceInv, ActiveInv, Holds
<1>1. ActiveInv'
  BY <1>u, <1>c, <1>r DEF PlaceInv, ActiveInv
<1>2. QueueInv'
  BY SMTT(30), <1>c, <1>q DEF PlaceInv, QueueInv
<1>3. HeldInv'
  BY <1>u, <1>c, <1>t DEF PlaceInv, HeldInv
<1>4. NoTaskTwice'
  <2>1. \A i, k \in 1 .. Len(to_assign_job_tasks') :
          to_assign_job_tasks'[i] = to_assign_job_tasks'[k] => i = k
    BY <1>u DEF PlaceInv, NoTaskTwice
  <2>2. \A v, u \in Workers : v # u => Holds(v)' \cap Holds(u)' = {}
    <3>. TAKE v, u \in Workers
    <3>. HAVE v # u
    <3>1. Holds(v)' \subseteq Holds(v) /\ Holds(u)' \subseteq Holds(u)
      BY <1>h
    <3>2. Holds(v) \cap Holds(u) = {}
      BY SMTT(30), <1>n
    <3>. QED
      BY <3>1, <3>2
  <2>3. \A v \in Workers, x \in Tasks : x \in Holds(v)' => ~Queued(x)'
    BY Zenon, <1>h, <1>q, <1>n, <1>t
  <2>4. \A x \in reported' :
          ~Queued(x)' /\ \A v \in Workers : x \notin Holds(v)'
    <3>. TAKE x \in reported'
    <3>1. CASE x \in reported
      BY <3>1, <1>h, <1>q, <1>n
    <3>2. CASE x \notin reported
      <4>1. x = jt /\ jt \in Holds(w)
        BY SMTT(30), <3>2, <1>u, <1>r
      <4>2. \A v \in Workers : v # w => jt \notin Holds(v)
        BY SMTT(30), <4>1, <1>n, <1>t
      <4>3. ~Queued(jt)
        BY SMTT(30), <4>1, <1>n, <1>t
      <4>. QED
        BY <4>1, <4>2, <4>3, <1>h, <1>q
    <3>. QED
      BY <3>1, <3>2
  <2>. QED
    BY <2>1, <2>2, <2>3, <2>4 DEF NoTaskTwice
<1>5. NoTaskLost'
  <2>. SUFFICES ASSUME NEW x \in Created, x \notin reported',
                       x[1] \notin blacklisted_jobs, ~Queued(x)
                PROVE  \E v \in tracked : x \in Holds(v)'
    BY ZenonT(40), <1>c, <1>q, <1>u DEF NoTaskLost
  <2>1. x # jt
    BY SMTT(30), <1>u DEF PlaceInv, ActiveInv, Counted
  <2>2. PICK v \in tracked : x \in Holds(v)
    BY <1>u DEF PlaceInv, NoTaskLost
  <2>. QED
    BY SMTT(30), <2>1, <2>2, <1>h, <1>t
<1>6. StartsMatchAssignments'
  BY Zenon, <1>u, <1>h, <1>t DEF PlaceInv, StartsMatchAssignments
<1>. QED
  BY <1>1, <1>2, <1>3, <1>4, <1>5, <1>6, <1>r DEF PlaceInv

\* stop_job_on_worker puts an unreported task back into the queue.
LEMMA StopPlaces ==
  ASSUME TypeOK, HolderInv, PlaceInv, NEW jt \in Tasks, StopTask(jt)
  PROVE  PlaceInv' /\ jt \notin reported
<1>. DEFINE w == cs.worker
<1>t. /\ worker_job_tasks \in [Workers -> SUBSET Tasks]
      /\ tracked \subseteq Workers
      /\ w \in Workers
      /\ cs.op = "stop" /\ cs'.op = "stop" /\ cs'.worker = w
      /\ cs'.tasks = cs.tasks \ {jt} /\ jt \in cs.tasks
  BY DEF TypeOK, QueueTypeOK, HolderTypeOK, StopTask, HolderInv
<1>h. /\ \A v \in Workers :
           Holds(v)' = IF v = w THEN Holds(w) \ {jt} ELSE Holds(v)
      /\ jt \in Holds(w)
  BY <1>t DEF Holds, StopTask
<1>u. /\ worker_job_tasks_starts' = worker_job_tasks_starts \ {<<w, jt>>}
      /\ \/ UNCHANGED <<active_job_tasks, blacklisted_jobs>>
         \/ /\ active_job_tasks' = active_job_tasks \ TasksOf(jt[1])
            /\ blacklisted_jobs' = blacklisted_jobs \cup {jt[1]}
      /\ UNCHANGED <<samplerVars, worker_job_tasks, tracked, reported>>
  BY DEF StopTask, EraseStart
<1>c. Created' = Created
  BY <1>u DEF Created, samplerVars
<1>n. /\ \A v, u \in Workers : v # u => Holds(v) \cap Holds(u) = {}
      /\ \A v \in Workers, x \in Tasks : x \in Holds(v) => ~Queued(x)
      /\ \A x \in reported :
           ~Queued(x) /\ \A v \in Workers : x \notin Holds(v)
  BY SMTT(30) DEF PlaceInv, NoTaskTwice
<1>d. Distinct(to_assign_job_tasks) /\ ~Queued(jt) /\ jt \notin reported
  BY <1>h, <1>t DEF PlaceInv, NoTaskTwice, Distinct
<1>q. /\ \A x : Queued(x)' <=> Queued(x) \/ x = jt
      /\ Distinct(to_assign_job_tasks)'
  BY SMTT(30), <1>d, StopQueue
<1>1. ActiveInv'
  BY SMTT(30), <1>u, <1>c DEF PlaceInv, ActiveInv, TasksOf, Created
<1>2. QueueInv'
  BY ZenonT(40), <1>c, <1>q, <1>t DEF PlaceInv, QueueInv, HeldInv, HolderInv
<1>3. HeldInv'
  BY <1>u, <1>c DEF PlaceInv, HeldInv
<1>4. NoTaskTwice'
  <2>1. \A i, k \in 1 .. Len(to_assign_job_tasks') :
          to_assign_job_tasks'[i] = to_assign_job_tasks'[k] => i = k
    BY <1>q DEF Distinct
  <2>2. \A v, u \in Workers : v # u => Holds(v)' \cap Holds(u)' = {}
    <3>. TAKE v, u \in Workers
    <3>. HAVE v # u
    <3>1. Holds(v)' \subseteq Holds(v) /\ Holds(u)' \subseteq Holds(u)
      BY <1>h
    <3>2. Holds(v) \cap Holds(u) = {}
      BY <1>n
    <3>. QED
      BY <3>1, <3>2
  <2>3. \A v \in Workers, x \in Tasks : x \in Holds(v)' => ~Queued(x)'
    <3>. TAKE v \in Workers, x \in Tasks
    <3>. HAVE x \in Holds(v)'
    <3>1. x \in Holds(v) /\ ~Queued(x)
      BY <1>h, <1>n
    <3>2. x # jt
      <4>1. CASE v = w
        BY SMTT(30), <4>1, <1>h
      <4>2. CASE v # w
        BY ZenonT(40), <4>2, <3>1, <1>h, <1>n, <1>t
      <4>. QED
        BY <4>1, <4>2
    <3>. QED
      BY <3>1, <3>2, <1>q
  <2>4. \A x \in reported :
          ~Queued(x)' /\ \A v \in Workers : x \notin Holds(v)'
    <3>. TAKE x \in reported
    <3>1. x # jt /\ ~Queued(x) /\ \A v \in Workers : x \notin Holds(v)
      BY SMTT(30), <1>d, <1>n
    <3>. QED
      BY <3>1, <1>h, <1>q
  <2>. QED
    BY <2>1, <2>2, <2>3, <2>4, <1>u DEF NoTaskTwice
<1>5. NoTaskLost'
  <2>. SUFFICES ASSUME NEW x \in Created, x \notin reported,
                       x[1] \notin blacklisted_jobs, ~Queued(x), x # jt
                PROVE  \E v \in tracked : x \in Holds(v)'
    BY <1>c, <1>q, <1>u DEF NoTaskLost
  <2>1. PICK v \in tracked : x \in Holds(v)
    BY SMTT(30) DEF PlaceInv, NoTaskLost
  <2>. QED
    BY <2>1, <1>h, <1>t
<1>6. StartsMatchAssignments'
  <2>. SUFFICES ASSUME NEW v \in Workers, NEW x \in Tasks
                PROVE  <<v, x>> \in worker_job_tasks_starts' <=> x \in Holds(v)'
    BY Zenon DEF StartsMatchAssignments
  <2>1. <<v, x>> \in worker_job_tasks_starts <=> x \in Holds(v)
    BY DEF PlaceInv, StartsMatchAssignments
  <2>. QED
    BY ZenonT(40), <2>1, <1>u, <1>h, <1>t
<1>. QED
  BY <1>1, <1>2, <1>3, <1>4, <1>5, <1>6, <1>d DEF PlaceInv

\* stop_job_on_worker leaves no task with the worker it erases.
LEMMA StopEndPlaces ==
  ASSUME TypeOK, HolderInv, PlaceInv, StopEnd
  PROVE  PlaceInv'
<1>. DEFINE w == cs.worker
<1>t. /\ worker_job_tasks \in [Workers -> SUBSET Tasks]
      /\ tracked \subseteq Workers
      /\ w \in Workers
      /\ cs.op = "stop" /\ cs.tasks = {} /\ cs'.op # "stop"
      /\ worker_job_tasks' = [worker_job_tasks EXCEPT ![w] = {}]
      /\ tracked' = tracked \ {w}
      /\ UNCHANGED <<samplerVars, active_job_tasks, to_assign_job_tasks,
                     worker_job_tasks_starts, blacklisted_jobs, reported>>
  BY DEF TypeOK, QueueTypeOK, HolderTypeOK, StopEnd, EraseEntry, HolderInv,
         Free, failureVars, countVars
<1>h. (\A v \in Workers : Holds(v)' = Holds(v)) /\ Holds(w) = {}
  BY SMTT(30), <1>t DEF Holds
<1>c. Created' = Created
  BY <1>t DEF Created, samplerVars
<1>q. \A x : Queued(x)' <=> Queued(x)
  BY SMTT(30), <1>t DEF Queued
<1>1. ActiveInv' /\ QueueInv'
  BY SMTT(30), <1>t, <1>c, <1>q DEF PlaceInv, ActiveInv, QueueInv
<1>2. HeldInv'
  BY ZenonT(40), <1>t, <1>c DEF PlaceInv, HeldInv
<1>3. NoTaskTwice'
  <2>1. UNCHANGED <<to_assign_job_tasks, reported>>
    BY <1>t
  <2>2. NoTaskTwice
    BY SMTT(30) DEF PlaceInv
  <2>. QED
    BY SMTT(30), <2>1, <2>2, <1>h, <1>q DEF NoTaskTwice
<1>4. NoTaskLost'
  <2>. SUFFICES ASSUME NEW x \in Created, x \notin reported,
                       x[1] \notin blacklisted_jobs, ~Queued(x)
                PROVE  \E v \in tracked' : x \in Holds(v)'
    BY <1>c, <1>q, <1>t DEF NoTaskLost
  <2>1. PICK v \in tracked : x \in Holds(v)
    BY DEF PlaceInv, NoTaskLost
  <2>2. v # w
    BY <2>1, <1>h
  <2>. QED
    BY <2>1, <2>2, <1>h, <1>t
<1>5. StartsMatchAssignments'
  <2>. SUFFICES ASSUME NEW v \in Workers, NEW x \in Tasks
                PROVE  <<v, x>> \in worker_job_tasks_starts' <=> x \in Holds(v)'
    BY Zenon DEF StartsMatchAssignments
  <2>1. <<v, x>> \in worker_job_tasks_starts <=> x \in Holds(v)
    BY DEF PlaceInv, StartsMatchAssignments
  <2>. QED
    BY <2>1, <1>t, <1>h
<1>. QED
  BY <1>1, <1>2, <1>3, <1>4, <1>5 DEF PlaceInv

----------------------------------------------------------------------------
(* Counting *)

\* The set of tasks is finite, and a job has as many tasks as its size.
LEMMA TasksFinite ==
  /\ IsFiniteSet(Tasks)
  /\ total_tasks \in Nat
  /\ \A S \in SUBSET Tasks : IsFiniteSet(S) /\ Cardinality(S) \in Nat
<1>. DEFINE Of(j) == {j} \X (0 .. JobSize[j] - 1)
            f == [j \in Jobs |-> Of(j)]
            R == {Of(j) : j \in Jobs}
<1>1. IsFiniteSet(Jobs)
  BY ConstantsAssumption, FS_Interval DEF Jobs
<1>2. \A j \in Jobs : IsFiniteSet(Of(j))
  <2>. SUFFICES ASSUME NEW j \in Jobs PROVE IsFiniteSet(Of(j))
    OBVIOUS
  <2>1. IsFiniteSet({j})
    BY FS_Singleton
  <2>2. IsFiniteSet(0 .. JobSize[j] - 1)
    BY ConstantsAssumption, FS_Interval
  <2>. QED
    BY Zenon, <2>1, <2>2, FS_Product
<1>3. f \in Surjection(Jobs, R)
  BY DEF Surjection
<1>4. IsFiniteSet(R)
  BY <1>1, <1>3, FS_Surjection
<1>5. IsFiniteSet(Tasks)
  BY Zenon, <1>2, <1>4, FS_UNION DEF Tasks
<1>. QED
  BY <1>5, FS_Subset, FS_CardinalityType DEF total_tasks

\* The tasks of a job are as many as JobSize says.
LEMMA JobTasks ==
  ASSUME NEW j \in Jobs
  PROVE  /\ TasksOf(j) \subseteq Tasks
         /\ IsFiniteSet(TasksOf(j))
         /\ Cardinality(TasksOf(j)) = JobSize[j]
<1>1. TasksOf(j) = {j} \X (0 .. JobSize[j] - 1)
  BY TaskParts DEF TasksOf
<1>2. /\ IsFiniteSet(0 .. JobSize[j] - 1)
      /\ Cardinality(0 .. JobSize[j] - 1) = JobSize[j]
  BY ConstantsAssumption, FS_Interval, SMTT(60)
<1>3. IsFiniteSet({j}) /\ Cardinality({j}) = 1
  BY FS_Singleton
<1>4. /\ IsFiniteSet({j} \X (0 .. JobSize[j] - 1))
      /\ Cardinality({j} \X (0 .. JobSize[j] - 1))
           = Cardinality({j}) * Cardinality(0 .. JobSize[j] - 1)
  BY Zenon, <1>2, <1>3, FS_Product
<1>5. Cardinality({j} \X (0 .. JobSize[j] - 1)) = 1 * JobSize[j]
  BY <1>2, <1>3, <1>4
<1>6. 1 * JobSize[j] = JobSize[j]
  BY ConstantsAssumption
<1>. QED
  BY Zenon, <1>1, <1>4, <1>5, <1>6 DEF TasksOf

CountInv == CountsExact /\ FinishedMeansDone /\ CommittedMeansReported

\* The counts stay right when nothing they count changes.
LEMMA SameCounts ==
  ASSUME CountInv,
         UNCHANGED <<reported, blacklisted_jobs, tasks_used_per_job, committed>>,
         job_result' = "none"
           => /\ job_result = "none" /\ UNCHANGED total_tasks_used
              /\ trigger_shutdown => trigger_shutdown'
              /\ finished' => finished \/ trigger_shutdown
  PROVE  CountInv'
<1>1. CountsExact'
  BY DEF CountInv, CountsExact
<1>2. FinishedMeansDone'
  BY DEF CountInv, FinishedMeansDone
<1>3. CommittedMeansReported'
  BY DEF CountInv, CommittedMeansReported
<1>. QED
  BY <1>1, <1>2, <1>3 DEF CountInv

\* total_tasks is reached exactly when every task is used.
LEMMA AllUsed ==
  ASSUME reported \subseteq Tasks
  PROVE  /\ Used \subseteq Tasks /\ IsFiniteSet(Used) /\ Cardinality(Used) \in Nat
         /\ Cardinality(Used) = total_tasks => Used = Tasks
BY TasksFinite, FS_Subset DEF Used, total_tasks

\* A first report adds one to the counters of its job and of the bulk job; the
\* job's counter reaches the job's size exactly when all its tasks are in.
LEMMA ReportCounts ==
  ASSUME TypeOK, CountInv, NEW jt \in Tasks, FinishedWorkTask(jt),
         Counted(jt) => jt \notin reported
  PROVE  CountInv'
<1>. DEFINE j == jt[1]
            R(i) == reported \cap TasksOf(i)
<1>t. /\ reported \subseteq Tasks /\ tasks_used_per_job \in [Jobs -> Nat]
      /\ j \in Jobs /\ JobSize \in [Jobs -> Nat]
      /\ finished \in BOOLEAN
  BY Zenon, TaskParts, ConstantsAssumption DEF TypeOK, CountTypeOK, MasterTypeOK
<1>u. UNCHANGED <<blacklisted_jobs, trigger_shutdown, job_result>>
  BY DEF FinishedWorkTask, failureVars
<1>1. CASE ~Counted(jt)
  <2>1. /\ UNCHANGED <<reported, tasks_used_per_job, committed, total_tasks_used>>
        /\ finished' = (finished \/ total_tasks_used = total_tasks)
    BY SMTT(30), <1>1 DEF FinishedWorkTask, countVars, CompletesJob, AllTasksUsed
  <2>2. CountsExact' /\ CommittedMeansReported'
    BY ZenonT(40), <2>1, <1>u DEF CountInv, CountsExact, CommittedMeansReported
  <2>3. FinishedMeansDone'
    <3>1. job_result = "none" => total_tasks_used = Cardinality(Used)
      BY DEF CountInv, CountsExact, Used
    <3>2. job_result = "none" /\ total_tasks_used = total_tasks => Used = Tasks
      BY <3>1, <1>t, AllUsed
    <3>. QED
      BY Zenon, <2>1, <3>2, <1>u DEF CountInv, FinishedMeansDone, Used
  <2>. QED
    BY <2>2, <2>3 DEF CountInv
<1>2. CASE Counted(jt)
  <2>1. /\ reported' = reported \cup {jt} /\ jt \notin reported
        /\ tasks_used_per_job' =
             [tasks_used_per_job EXCEPT ![j] = tasks_used_per_job[j] + 1]
        /\ total_tasks_used' = total_tasks_used + 1
        /\ committed' = IF tasks_used_per_job[j] + 1 = JobSize[j]
                          THEN committed \cup {j} ELSE committed
        /\ finished' = (finished \/ total_tasks_used' = total_tasks)
        /\ j \notin blacklisted_jobs
    BY <1>2 DEF FinishedWorkTask, CompletesJob, AllTasksUsed, Counted
  <2>2. /\ R(j)' = R(j) \cup {jt} /\ jt \notin R(j) /\ IsFiniteSet(R(j))
        /\ \A i \in Jobs : i # j => R(i)' = R(i)
    BY <2>1, <1>t, TasksFinite DEF TasksOf
  <2>3. Cardinality(R(j)') = Cardinality(R(j)) + 1
    BY Zenon, <2>2, FS_AddElement
  <2>4. \A i \in Jobs : tasks_used_per_job'[i] = Cardinality(R(i)')
    <3>. SUFFICES ASSUME NEW i \in Jobs
                  PROVE  tasks_used_per_job'[i] = Cardinality(R(i)')
      OBVIOUS
    <3>1. tasks_used_per_job[i] = Cardinality(R(i))
      BY DEF CountInv, CountsExact
    <3>2. CASE i = j
      BY SMTT(30), <3>1, <3>2, <2>1, <2>3, <1>t
    <3>3. CASE i # j
      BY SMTT(30), <3>1, <3>3, <2>1, <2>2, <1>t
    <3>. QED
      BY <3>2, <3>3
  <2>5. job_result = "none" => total_tasks_used' = Cardinality(Used')
    <3>1. Used' = Used \cup {jt} /\ jt \notin Used
      BY <2>1, <1>u DEF Used
    <3>2. Cardinality(Used') = Cardinality(Used) + 1
      BY Zenon, <3>1, <1>t, AllUsed, FS_AddElement
    <3>3. job_result = "none" => total_tasks_used = Cardinality(Used)
      BY DEF CountInv, CountsExact, Used
    <3>. QED
      BY SMTT(30), <3>2, <3>3, <2>1
  <2>6. CountsExact'
    BY <2>4, <2>5, <1>u DEF CountsExact, Used
  <2>7. FinishedMeansDone'
    <3>1. reported' \subseteq Tasks
      BY <2>1, <1>t
    <3>2. job_result = "none" /\ total_tasks_used' = total_tasks => Used' = Tasks
      <4>1. /\ Cardinality(Used') = total_tasks => Used' = Tasks
        BY <3>1, TasksFinite, FS_Subset DEF Used, total_tasks
      <4>. QED
        BY <4>1, <2>5
    <3>. QED
      BY ZenonT(40), <2>1, <3>2, <1>u DEF CountInv, FinishedMeansDone, Used
  <2>8. \A i \in Jobs :
          i \in committed' <=> JobSize[i] > 0 /\ TasksOf(i) \subseteq reported'
    <3>. SUFFICES ASSUME NEW i \in Jobs
                  PROVE  i \in committed' <=>
                           JobSize[i] > 0 /\ TasksOf(i) \subseteq reported'
      OBVIOUS
    <3>1. i \in committed <=> JobSize[i] > 0 /\ TasksOf(i) \subseteq reported
      BY SMTT(30) DEF CountInv, CommittedMeansReported
    <3>2. CASE i # j
      <4>1. jt \notin TasksOf(i)
        BY SMTT(30), <3>2 DEF TasksOf
      <4>. QED
        BY <3>1, <3>2, <4>1, <2>1
    <3>3. CASE i = j
      <4>1. jt \in TasksOf(j) /\ j \notin committed
        BY <3>1, <3>3, <2>1 DEF TasksOf
      <4>2. JobSize[j] > 0
        <5>1. jt[2] \in 0 .. JobSize[j] - 1
          BY TaskParts
        <5>. QED
          BY <5>1, <1>t
      <4>3. /\ IsFiniteSet(TasksOf(j)) /\ Cardinality(TasksOf(j)) = JobSize[j]
            /\ R(j)' \subseteq TasksOf(j)
        BY <1>t, JobTasks DEF TasksOf
      <4>4. Cardinality(R(j)') = tasks_used_per_job[j] + 1
        BY SMTT(30), <2>1, <2>4, <1>t
      <4>5. tasks_used_per_job[j] + 1 = JobSize[j] <=> R(j)' = TasksOf(j)
        BY ZenonT(40), <4>3, <4>4, FS_Subset
      <4>6. R(j)' = TasksOf(j) <=> TasksOf(j) \subseteq reported'
        BY SMTT(30), <2>1
      <4>. QED
        BY SMTT(30), <3>3, <4>1, <4>2, <4>5, <4>6, <2>1
    <3>. QED
      BY <3>2, <3>3
  <2>9. committed' \cap blacklisted_jobs' = {}
    BY <2>1, <1>u DEF CountInv, CommittedMeansReported
  <2>. QED
    BY <2>6, <2>7, <2>8, <2>9 DEF CountInv, CommittedMeansReported
<1>. QED
  BY <1>1, <1>2

\* Blacklisting a job adds its unreported tasks to the total, and the job is
\* not complete: the task that failed is one of them.
LEMMA StopCounts ==
  ASSUME TypeOK, CountInv, NEW jt \in Tasks, StopTask(jt), jt \notin reported
  PROVE  CountInv'
<1>. DEFINE j == jt[1]
            R == reported \cap TasksOf(j)
<1>t. /\ reported \subseteq Tasks /\ tasks_used_per_job \in [Jobs -> Nat]
      /\ j \in Jobs /\ JobSize \in [Jobs -> Nat]
      /\ total_tasks_used \in Int
  BY TaskParts, ConstantsAssumption DEF TypeOK, CountTypeOK
<1>u. UNCHANGED <<reported, tasks_used_per_job, committed, trigger_shutdown,
                  job_result>>
  BY DEF StopTask, tableVars
<1>1. CASE UNCHANGED <<blacklisted_jobs, total_tasks_used, finished>>
  BY <1>1, <1>u, SameCounts
<1>2. CASE /\ j \notin blacklisted_jobs
           /\ blacklisted_jobs' = blacklisted_jobs \cup {j}
           /\ total_tasks_used' =
                total_tasks_used + (JobSize[j] - tasks_used_per_job[j])
           /\ finished' = (finished \/ total_tasks_used' = total_tasks)
  <2>1. Used' = Used \cup TasksOf(j) /\ Used \cap TasksOf(j) = R
    BY SMTT(30), <1>2, <1>u DEF Used, TasksOf
  <2>2. /\ IsFiniteSet(Used) /\ Cardinality(Used) \in Nat
        /\ IsFiniteSet(TasksOf(j)) /\ Cardinality(TasksOf(j)) = JobSize[j]
        /\ Used' \subseteq Tasks
    BY <1>t, AllUsed, JobTasks, <2>1
  <2>3. Cardinality(R) = tasks_used_per_job[j]
    BY SMTT(30), <1>t DEF CountInv, CountsExact
  <2>4. Cardinality(Used') =
          Cardinality(Used) + Cardinality(TasksOf(j)) - Cardinality(R)
    BY <2>1, <2>2, FS_Union
  <2>5. job_result = "none" => total_tasks_used = Cardinality(Used)
    BY DEF CountInv, CountsExact, Used
  <2>6. job_result = "none" => total_tasks_used' = Cardinality(Used')
    BY SMTT(30), <1>2, <1>t, <2>2, <2>3, <2>4, <2>5
  <2>7. CountsExact'
    BY SMTT(30), <2>6, <1>u DEF CountInv, CountsExact, Used
  <2>8. FinishedMeansDone'
    <3>1. Cardinality(Used') = total_tasks => Used' = Tasks
      BY <2>2, TasksFinite, FS_Subset DEF total_tasks
    <3>. QED
      BY ZenonT(40), <1>2, <1>u, <2>6, <3>1 DEF CountInv, FinishedMeansDone, Used
  <2>9. CommittedMeansReported'
    <3>1. jt \in TasksOf(j)
      BY DEF TasksOf
    <3>2. j \notin committed
      BY <1>t, <3>1 DEF CountInv, CommittedMeansReported
    <3>. QED
      BY <1>2, <1>u, <3>2 DEF CountInv, CommittedMeansReported
  <2>. QED
    BY SMTT(30), <2>7, <2>8, <2>9 DEF CountInv
<1>. QED
  BY <1>1, <1>2 DEF StopTask, TasksLeft, AllTasksUsed

----------------------------------------------------------------------------
(* The inductive invariant *)

\* Where the tasks are, and what is counted, after any step
LEMMA TasksStep ==
  ASSUME TypeOK, SamplerInv, HolderInv, ReceivedInv, PlaceInv, CountInv,
         [Next]_vars
  PROVE  PlaceInv' /\ CountInv'
<1>1. CASE Quiet
  <2>1. /\ QuietTasks
        /\ UNCHANGED <<total_tasks_used, tableVars, job_result>>
        /\ trigger_shutdown => trigger_shutdown'
        /\ finished' => finished \/ trigger_shutdown
    BY <1>1 DEF Quiet
  <2>2. UNCHANGED <<reported, blacklisted_jobs, tasks_used_per_job, committed>>
    BY <2>1 DEF QuietTasks, tableVars
  <2>. QED
    BY <2>1, <2>2, QuietPlaces, SameCounts
<1>2. CASE NextWorkReply
  <2>1. /\ QuietTasks
        /\ UNCHANGED <<total_tasks_used, tableVars, job_result, finished,
                       trigger_shutdown>>
    BY <1>2, ReplyIsQuiet
  <2>2. UNCHANGED <<reported, blacklisted_jobs, tasks_used_per_job, committed>>
    BY <2>1 DEF QuietTasks, tableVars
  <2>. QED
    BY <2>1, <2>2, QuietPlaces, SameCounts
<1>3. CASE ProcessJobEnd \/ ProcessJobNoWorkers
  <2>1. QuietTasks /\ job_result' # "none"
    BY <1>3, EndIsQuiet
  <2>2. UNCHANGED <<reported, blacklisted_jobs, tasks_used_per_job, committed>>
    BY Zenon, <1>3 DEF ProcessJobEnd, ProcessJobNoWorkers, FinishedFn, failureVars
  <2>. QED
    BY <2>1, <2>2, QuietPlaces, SameCounts
<1>4. CASE NextWorkAssign
  <2>1. UNCHANGED <<reported, blacklisted_jobs, tasks_used_per_job, committed,
                    total_tasks_used, job_result, finished, trigger_shutdown>>
    BY <1>4 DEF NextWorkAssign, failureVars, tableVars, jobVars
  <2>. QED
    BY <1>4, <2>1, AssignPlaces, SameCounts
<1>5. CASE StopEnd
  <2>1. UNCHANGED <<reported, blacklisted_jobs, tasks_used_per_job, committed,
                    total_tasks_used, job_result, finished, trigger_shutdown>>
    BY <1>5 DEF StopEnd, failureVars, countVars, tableVars, jobVars
  <2>. QED
    BY <1>5, <2>1, StopEndPlaces, SameCounts
<1>6. ASSUME NEW jt \in Tasks, FinishedWorkTask(jt)
      PROVE  PlaceInv' /\ CountInv'
  BY <1>6, ReportPlaces, ReportCounts
<1>7. ASSUME NEW jt \in Tasks, StopTask(jt)
      PROVE  PlaceInv' /\ CountInv'
  BY <1>7, StopPlaces, StopCounts
<1>. QED
  BY <1>1, <1>2, <1>3, <1>4, <1>5, <1>6, <1>7, StepKinds

\* The inductive invariant holds initially.
LEMMA IInvInit == Init => IInv
<1>. SUFFICES ASSUME Init PROVE IInv
  OBVIOUS
<1>1. TypeOK /\ SamplerInv /\ HolderInv
  BY TypeOKInit
<1>2. Created = {} /\ (\A jt : ~Queued(jt)) /\ (\A w \in Workers : Holds(w) = {})
  <2>1. Created = {}
    <3>1. \A jt \in Tasks : jt[1] \in Nat
      BY TaskParts, ConstantsAssumption DEF Jobs
    <3>. QED
      BY <3>1 DEF Created, Init
  <2>2. \A jt : ~Queued(jt)
    BY SMTT(30) DEF Queued, Init
  <2>3. \A w \in Workers : Holds(w) = {}
    BY DEF Holds, Init, Free
  <2>. QED
    BY <2>1, <2>2, <2>3
<1>3. ActiveInv /\ QueueInv /\ HeldInv /\ NoTaskLost
  BY <1>2 DEF Init, ActiveInv, QueueInv, HeldInv, NoTaskLost
<1>4. ReceivedInv /\ OnlyRunningWorkersHold
  BY DEF Init, ReceivedInv, OnlyRunningWorkersHold
<1>5. NoTaskTwice /\ StartsMatchAssignments
  BY <1>2 DEF Init, NoTaskTwice, StartsMatchAssignments
<1>6. FinishedMeansDone
  BY DEF Init, FinishedMeansDone
<1>7. CountsExact
  <2>1. Cardinality({}) = 0
    BY FS_EmptySet
  <2>2. Used = {} /\ \A j \in Jobs : reported \cap TasksOf(j) = {}
    BY DEF Used, Init
  <2>. QED
    BY ZenonT(40), <2>1, <2>2 DEF CountsExact, Used, Init
<1>8. CommittedMeansReported
  <2>. SUFFICES ASSUME NEW j \in Jobs, JobSize[j] > 0
                PROVE  ~(TasksOf(j) \subseteq reported)
    BY DEF CommittedMeansReported, Init
  <2>1. <<j, 0>> \in TasksOf(j)
    BY TaskParts, ConstantsAssumption DEF TasksOf
  <2>. QED
    BY <2>1 DEF Init
<1>. QED
  BY <1>1, <1>3, <1>4, <1>5, <1>6, <1>7, <1>8 DEF IInv

\* The inductive invariant survives every step.
LEMMA IInvStep == IInv /\ [Next]_vars => IInv'
<1>. SUFFICES ASSUME IInv, [Next]_vars PROVE IInv'
  OBVIOUS
<1>1. /\ TypeOK /\ SamplerInv /\ HolderInv /\ ActiveInv /\ ReceivedInv
      /\ HeldInv /\ OnlyRunningWorkersHold /\ PlaceInv /\ CountInv
  BY DEF IInv, PlaceInv, CountInv
<1>2. TypeOK' /\ SamplerInv'
  BY <1>1, TypeOKStep, TasksFinite
<1>3. HolderInv'
  BY <1>1, HolderStep
<1>4. ReceivedInv' /\ OnlyRunningWorkersHold'
  BY <1>1, WhoHoldsStep
<1>5. PlaceInv' /\ CountInv'
  BY <1>1, TasksStep
<1>. QED
  BY <1>2, <1>3, <1>4, <1>5 DEF IInv, PlaceInv, CountInv

----------------------------------------------------------------------------
(* The theorems *)

\* IInv is an invariant: the conjuncts besides the stated properties are what
\* makes them inductive.
THEOREM Invariance == Spec => []IInv
BY IInvInit, IInvStep, PTL DEF Spec

\* The variables of the scheduler keep their types under every interleaving of
\* the handlers: only tasks of the bulk job are queued, assigned or reported.
THEOREM TypeCorrect == Spec => []TypeOK
<1>1. IInv => TypeOK
  BY DEF IInv
<1>. QED
  BY <1>1, Invariance, PTL

\* Every task NextWorkHandler created is reported, blacklisted, queued, or
\* assigned to a worker that can still be stopped, whatever workers do.
THEOREM TasksAreKept == Spec => []NoTaskLost
<1>1. IInv => NoTaskLost
  BY DEF IInv
<1>. QED
  BY <1>1, Invariance, PTL

\* stop_job_on_worker never gives a task to two workers, or queues it twice.
THEOREM TasksAreInOnePlace == Spec => []NoTaskTwice
<1>1. IInv => NoTaskTwice
  BY DEF IInv
<1>. QED
  BY <1>1, Invariance, PTL

\* The counters of FinishedWorkHandler and blacklist_job are exact, however
\* reports, failures and removals interleave.
THEOREM CountersAreExact == Spec => []CountsExact
<1>1. IInv => CountsExact
  BY DEF IInv
<1>. QED
  BY <1>1, Invariance, PTL

\* finished_ is never set early: when FinishedWorkHandler or blacklist_job sets
\* it, every task is reported or belongs to a blacklisted job.
THEOREM FinishedIsDone == Spec => []FinishedMeansDone
<1>1. IInv => FinishedMeansDone
  BY DEF IInv
<1>. QED
  BY <1>1, Invariance, PTL

\* FinishedWorkHandler commits exactly the tables whose tasks were all reported,
\* and none of them is blacklisted later.
THEOREM CommittedIsReported == Spec => []CommittedMeansReported
<1>1. IInv => CommittedMeansReported
  BY DEF IInv
<1>. QED
  BY <1>1, Invariance, PTL

\* The start times by which process_job finds slow tasks are those of the
\* assignments.
THEOREM StartsAreAssignments == Spec => []StartsMatchAssignments
<1>1. IInv => StartsMatchAssignments
  BY DEF IInv
<1>. QED
  BY <1>1, Invariance, PTL

\* Only workers that run the job are assigned tasks, and one that was removed
\* or that left the job keeps none.
THEOREM HoldersRun == Spec => []OnlyRunningWorkersHold
<1>1. IInv => OnlyRunningWorkersHold
  BY DEF IInv
<1>. QED
  BY <1>1, Invariance, PTL

\* A job that was blacklisted has been sampled.
BlacklistedSampled ==
  \A j \in blacklisted_jobs : \E jt \in Created : jt[1] = j

\* The sampler never takes a task back.
LEMMA CreatedGrows ==
  ASSUME IInv, [Next]_vars
  PROVE  Created \subseteq Created'
<1>t. TypeOK /\ SamplerInv /\ HolderInv
  BY DEF IInv
<1>1. CASE Quiet
  BY <1>1 DEF Quiet, QuietTasks
<1>2. CASE NextWorkAssign
  <2>1. SampleTask
    BY <1>2 DEF NextWorkAssign
  <2>. QED
    BY <2>1, <1>t, SampleStep
<1>3. CASE NextWorkReply
  BY <1>3, <1>t, ReplyIsQuiet DEF QuietTasks
<1>4. CASE \/ StopEnd \/ ProcessJobEnd \/ ProcessJobNoWorkers
           \/ \E jt \in Tasks : FinishedWorkTask(jt) \/ StopTask(jt)
  <2>1. UNCHANGED samplerVars
    BY Zenon, <1>4 DEF StopEnd, ProcessJobEnd, ProcessJobNoWorkers, FinishedFn,
                FinishedWorkTask, StopTask
  <2>. QED
    BY <2>1 DEF Created, samplerVars
<1>. QED
  BY <1>1, <1>2, <1>3, <1>4, <1>t, StepKinds

\* Only jobs with a created task are blacklisted.
LEMMA BlacklistStep ==
  ASSUME IInv, BlacklistedSampled, [Next]_vars
  PROVE  BlacklistedSampled'
<1>t. TypeOK /\ SamplerInv /\ HolderInv /\ HeldInv
  BY DEF IInv
<1>1. CASE blacklisted_jobs' = blacklisted_jobs
  BY <1>1, CreatedGrows DEF BlacklistedSampled
<1>2. ASSUME NEW jt \in Tasks, StopTask(jt)
      PROVE  BlacklistedSampled'
  <2>1. jt \in Created
    BY <1>2, <1>t DEF StopTask, HolderInv, HeldInv
  <2>2. blacklisted_jobs' \subseteq blacklisted_jobs \cup {jt[1]}
    BY <1>2 DEF StopTask
  <2>. QED
    BY <2>1, <2>2, CreatedGrows DEF BlacklistedSampled
<1>3. \/ blacklisted_jobs' = blacklisted_jobs
      \/ \E jt \in Tasks : StopTask(jt)
  <2>1. CASE Quiet \/ NextWorkAssign \/ NextWorkReply \/ StopEnd
    BY <2>1 DEF Quiet, QuietTasks, NextWorkAssign, NextWorkReply, StopEnd,
                failureVars
  <2>2. CASE \E jt \in Tasks : FinishedWorkTask(jt)
    BY <2>2 DEF FinishedWorkTask, failureVars
  <2>3. CASE ProcessJobEnd \/ ProcessJobNoWorkers
    BY Zenon, <2>3 DEF ProcessJobEnd, ProcessJobNoWorkers, FinishedFn, failureVars
  <2>. QED
    BY <2>1, <2>2, <2>3, <1>t, StepKinds
<1>. QED
  BY <1>1, <1>2, <1>3

\* If the last job has a task, finished_ is set only after NextWorkHandler has
\* sampled all the jobs: the assertions of the code hold.  (They do not for a
\* bulk job that ends with an empty job.)
THEOREM JobsAreSampled ==
  ASSUME NumJobs # 0 => JobSize[NumJobs - 1] # 0
  PROVE  Spec => []AllJobsSampled
<1>1. Init => BlacklistedSampled
  BY DEF Init, BlacklistedSampled
<1>2. IInv /\ BlacklistedSampled /\ [Next]_vars => BlacklistedSampled'
  BY BlacklistStep
<1>3. IInv /\ BlacklistedSampled => AllJobsSampled
  <2>. SUFFICES ASSUME IInv, BlacklistedSampled, job_result = "none",
                       finished, ~trigger_shutdown
                PROVE  next_job = NumJobs
    BY DEF AllJobsSampled
  <2>0. NumJobs \in Nat /\ JobSize \in [Jobs -> Nat] /\ next_job \in 0 .. NumJobs
    BY ConstantsAssumption DEF IInv, TypeOK, QueueTypeOK
  <2>1. CASE NumJobs = 0
    BY <2>0, <2>1
  <2>2. CASE NumJobs # 0
    <3>1. NumJobs - 1 \in Jobs /\ JobSize[NumJobs - 1] \in Nat \ {0}
      BY <2>0, <2>2 DEF Jobs
    <3>2. <<NumJobs - 1, 0>> \in Tasks
      BY <3>1, TaskParts
    <3>3. \/ <<NumJobs - 1, 0>> \in reported
          \/ NumJobs - 1 \in blacklisted_jobs
      BY <3>2 DEF IInv, FinishedMeansDone
    <3>4. PICK jt \in Created : jt[1] = NumJobs - 1
      BY <3>3 DEF IInv, ActiveInv, BlacklistedSampled
    <3>. QED
      BY <3>4, <2>0, <2>2 DEF Created
  <2>. QED
    BY <2>1, <2>2
<1>. QED
  BY <1>1, <1>2, <1>3, Invariance, PTL DEF Spec

\* A worker about to become IDLE was not removed.
StopsToIdle ==
  cs.op = "stop" /\ cs.then = "IDLE" => worker_state[cs.worker] # "UNREGISTERED"

\* Once removed, a worker stays UNREGISTERED for the rest of the bulk job.
THEOREM RemovalIsFinal == Spec => RemovedForGood
<1>. DEFINE Step == \A w \in Workers : worker_state[w] = "UNREGISTERED"
                      => worker_state'[w] = "UNREGISTERED"
<1>1. Init => StopsToIdle
  <2>1. Init => cs = Free
    BY DEF Init
  <2>2. Free.op # "stop"
    BY SMTT(30) DEF Free
  <2>. QED
    BY <2>1, <2>2 DEF StopsToIdle
<1>2. IInv /\ StopsToIdle /\ [Next]_vars => StopsToIdle' /\ [Step]_vars
  <2>. SUFFICES ASSUME IInv, StopsToIdle, [Next]_vars
                PROVE  StopsToIdle' /\ [Step]_vars
    BY SMTT(30)
  <2>t. /\ worker_state \in [Workers -> WorkerStates] /\ HolderTypeOK
        /\ cs.op \notin {"free", "start"} => cs.worker \in Workers
    BY ZenonT(40) DEF IInv, TypeOK, MasterTypeOK, HolderInv
  <2>1. CASE StartJobOnWorkers \/ StartDone
             \/ \E w \in Workers : RegisterWorker(w)
    <3>1. CASE StartJobOnWorkers
      <4>1. /\ UNCHANGED cs /\ cs.op = "free"
            /\ worker_state' =
                 [w \in Workers |->
                    IF w \in {v \in unstarted_workers : worker_state[v] = "IDLE"}
                      THEN "RUNNING_JOB" ELSE worker_state[w]]
        BY <3>1 DEF StartJobOnWorkers
      <4>. QED
        BY <4>1 DEF StopsToIdle
    <3>3. CASE StartDone
      <4>1. cs' = Free /\ UNCHANGED worker_state
        BY <3>3 DEF StartDone
      <4>2. Free.op # "stop"
        BY DEF Free
      <4>. QED
        BY <4>1, <4>2 DEF StopsToIdle
    <3>2. ASSUME NEW w \in Workers, RegisterWorker(w)
          PROVE  StopsToIdle' /\ Step
      <4>1. /\ UNCHANGED cs /\ worker_state[w] = "ABSENT"
            /\ worker_state' = [worker_state EXCEPT ![w] = "IDLE"]
        BY <3>2 DEF RegisterWorker
      <4>. QED
        BY <4>1, <2>t DEF StopsToIdle
    <3>. QED
      BY ZenonT(40), <2>1, <3>1, <3>2, <3>3
  <2>2. ASSUME NEW w \in Workers,
               \/ FinishedJob(w) \/ UnregisterWorker(w) \/ PingerRemove(w)
               \/ TimeoutRemove(w) \/ StartRemove(w)
        PROVE  StopsToIdle' /\ Step
    <3>1. /\ cs.op # "stop"
          /\ \/ UNCHANGED <<worker_state, cs>>
             \/ StopJobOnWorker(w, "UNREGISTERED", "free")
             \/ StopJobOnWorker(w, "UNREGISTERED", "start")
             \/ /\ worker_state[w] # "UNREGISTERED"
                /\ StopJobOnWorker(w, "IDLE", "free")
      BY <2>2 DEF FinishedJob, UnregisterWorker, PingerRemove, TimeoutRemove,
                  StartRemove, AllAnswered, remove_worker, Removed
    <3>2. CASE UNCHANGED <<worker_state, cs>>
      BY <3>2 DEF StopsToIdle
    <3>3. CASE \/ StopJobOnWorker(w, "UNREGISTERED", "free")
               \/ StopJobOnWorker(w, "UNREGISTERED", "start")
      BY Zenon, <3>1, <3>3, <2>t DEF StopJobOnWorker, StopsToIdle, Free
    <3>4. CASE /\ worker_state[w] # "UNREGISTERED"
               /\ StopJobOnWorker(w, "IDLE", "free")
      BY ZenonT(40), <3>1, <3>4, <2>t DEF StopJobOnWorker, StopsToIdle, Free
    <3>. QED
      BY SMTT(30), <3>1, <3>2, <3>3, <3>4
  <2>3. CASE StopEnd
    <3>1. /\ worker_state' = [worker_state EXCEPT ![cs.worker] = cs.then]
          /\ cs.op = "stop" /\ cs'.op # "stop" /\ cs.worker \in Workers
          /\ cs.then \in {"IDLE", "UNREGISTERED"}
      BY <2>3, <2>t DEF StopEnd, Free, HolderTypeOK
    <3>. QED
      BY <3>1, <2>t DEF StopsToIdle
  <2>4. ASSUME NEW jt \in Tasks, StopTask(jt)
        PROVE  StopsToIdle' /\ Step
    <3>1. UNCHANGED worker_state /\ cs' = [cs EXCEPT !.tasks = @ \ {jt}]
      BY <2>4 DEF StopTask
    <3>2. cs'.op = cs.op /\ cs'.then = cs.then /\ cs'.worker = cs.worker
      BY <3>1, <2>t DEF HolderTypeOK
    <3>. QED
      BY <3>1, <3>2 DEF StopsToIdle
  <2>5. ASSUME NEW w \in Workers,
               \/ NextWork(w) \/ ReportWork(w) \/ WorkerCrash(w)
               \/ NewJobReply(w) \/ FinishedJobThrows(w)
        PROVE  StopsToIdle' /\ Step
    <3>1. /\ UNCHANGED worker_state
          /\ UNCHANGED cs \/ cs'.op \in {"NextWork", "FinishedWork"}
      BY ZenonT(40), <2>5 DEF NextWork, ReportWork, FinishedWork, WorkerCrash, NewJobReply,
                  FinishedJobThrows, Free
    <3>. QED
      BY SMTT(30), <3>1 DEF StopsToIdle
  <2>6. CASE \/ NextWorkAssign \/ NextWorkReply
             \/ FinishedWorkThrows \/ FinishedWorkReply
             \/ \E jt \in Tasks : FinishedWorkTask(jt)
    <3>1. /\ UNCHANGED worker_state
          /\ \/ cs' = Free
             \/ /\ cs.op \in {"NextWork", "FinishedWork"}
                /\ \/ UNCHANGED cs
                   \/ \E T : cs' = [cs EXCEPT !.tasks = T]
                   \/ \E T, n : cs' = [cs EXCEPT !.num = n, !.tasks = T]
      BY ZenonT(40), <2>6 DEF NextWorkAssign, NextWorkReply, FinishedWorkThrows,
                  FinishedWorkReply, FinishedWorkTask
    <3>2. cs'.op # "stop"
      <4>1. CASE cs' = Free
        BY <4>1 DEF Free
      <4>2. ASSUME NEW T, cs' = [cs EXCEPT !.tasks = T] PROVE cs'.op = cs.op
        BY <4>2, <2>t DEF HolderTypeOK
      <4>3. ASSUME NEW T, NEW n, cs' = [cs EXCEPT !.num = n, !.tasks = T]
            PROVE  cs'.op = cs.op
        BY <4>3, <2>t DEF HolderTypeOK
      <4>. QED
        BY ZenonT(40), <3>1, <4>1, <4>2, <4>3
    <3>. QED
      BY ZenonT(40), <3>1, <3>2 DEF StopsToIdle
  <2>7. CASE \/ ProcessJobEnd \/ ProcessJobNoWorkers \/ ClearActive
             \/ TriggerShutdown \/ StartShutdown \/ UNCHANGED vars
    <3>1. UNCHANGED <<worker_state, cs>>
      BY ZenonT(40), <2>7 DEF ProcessJobEnd, ProcessJobNoWorkers, FinishedFn, ClearActive,
                  TriggerShutdown, StartShutdown, vars
    <3>. QED
      BY SMTT(30), <3>1 DEF StopsToIdle
  <2>. QED
    BY ZenonT(40), <2>1, <2>2, <2>3, <2>4, <2>5, <2>6, <2>7 DEF Next, HandlerStep
<1>. QED
  BY <1>1, <1>2, Invariance, PTL DEF Spec, RemovedForGood

\* The master waits for every worker that runs the job, is being asked to, or
\* is just being stopped.
AwaitedInv ==
  \A w \in Workers :
    worker_state[w] = "RUNNING_JOB" =>
      \/ unfinished_workers[w] = "unfinished"
      \/ starting /\ new_jobs[w] # "none"
      \/ cs.op = "stop" /\ cs.worker = w

\* The steps that concern neither work_mutex_ nor who runs the job
LEMMA AwaitedFrame ==
  ASSUME AwaitedInv,
         UNCHANGED <<worker_state, unfinished_workers, starting>>,
         \A w \in Workers : new_jobs[w] # "none" => new_jobs'[w] # "none",
         cs.op = "stop" => cs'.op = "stop" /\ cs'.worker = cs.worker
  PROVE  AwaitedInv'
BY DEF AwaitedInv

\* Every step keeps the record of the workers that process_job waits for.
LEMMA AwaitedStep ==
  ASSUME IInv, AwaitedInv, [Next]_vars
  PROVE  AwaitedInv'
<1>t. /\ worker_state \in [Workers -> WorkerStates] /\ HolderTypeOK
      /\ new_jobs \in [Workers -> {"none", "sent", "valid", "invalid"}]
      /\ unfinished_workers \in
           [Workers -> {"absent", "unfinished", "finished"}]
      /\ cs.op \notin {"free", "start"} => cs.worker \in Workers
  BY ZenonT(40) DEF IInv, TypeOK, MasterTypeOK, StartTypeOK, HolderInv
<1>1. ASSUME NEW w \in Workers, RegisterWorker(w)
      PROVE  AwaitedInv'
  BY <1>1, <1>t DEF RegisterWorker, AwaitedInv
<1>2. CASE StartJobOnWorkers
  BY <1>2, <1>t DEF StartJobOnWorkers, AwaitedInv
<1>3. CASE StartDone
  <2>1. /\ cs.op # "stop" /\ UNCHANGED worker_state
        /\ \A w \in Workers : new_jobs[w] \in {"none", "valid"}
        /\ unfinished_workers' = Recorded
    BY <1>3, <1>t DEF StartDone, AllAnswered
  <2>. QED
    BY <2>1 DEF AwaitedInv, Recorded
<1>4. ASSUME NEW w \in Workers,
             \/ NewJobReply(w) \/ NextWork(w) \/ ReportWork(w) \/ WorkerCrash(w)
             \/ FinishedJobThrows(w)
      PROVE  AwaitedInv'
  <2>1. /\ UNCHANGED <<worker_state, unfinished_workers, starting>>
        /\ \A v \in Workers : new_jobs[v] # "none" => new_jobs'[v] # "none"
        /\ UNCHANGED cs \/ cs.op = "free"
    BY ZenonT(40), <1>4, <1>t DEF NewJobReply, NextWork, ReportWork, FinishedWork,
                      WorkerCrash, FinishedJobThrows, startVars
  <2>. QED
    BY SMTT(30), <2>1, AwaitedFrame
<1>5. ASSUME NEW w \in Workers,
             \/ FinishedJob(w) \/ UnregisterWorker(w) \/ PingerRemove(w)
             \/ TimeoutRemove(w) \/ StartRemove(w)
      PROVE  AwaitedInv'
  <2>1. /\ cs.op # "stop" /\ UNCHANGED starting
        /\ \A v \in Workers \ {w} :
             /\ unfinished_workers'[v] = unfinished_workers[v]
             /\ new_jobs'[v] = new_jobs[v]
        /\ \/ worker_state[w] = "UNREGISTERED" /\ UNCHANGED worker_state
           \/ StopJobOnWorker(w, "IDLE", "free")
           \/ StopJobOnWorker(w, "UNREGISTERED", "free")
           \/ StopJobOnWorker(w, "UNREGISTERED", "start")
    BY Zenon, <1>5, <1>t DEF FinishedJob, UnregisterWorker, PingerRemove,
         TimeoutRemove, StartRemove, AllAnswered, Removed, remove_worker,
         startVars
  <2>2. \/ worker_state'[w] # "RUNNING_JOB"
        \/ cs'.op = "stop" /\ cs'.worker = w
    BY Zenon, <2>1, <1>t DEF StopJobOnWorker, Free
  <2>3. \A v \in Workers \ {w} : worker_state'[v] = worker_state[v]
    BY <2>1, <1>t DEF StopJobOnWorker
  <2>. QED
    BY SMTT(30), <2>1, <2>2, <2>3 DEF AwaitedInv
<1>6. CASE StopEnd
  <2>1. /\ worker_state' = [worker_state EXCEPT ![cs.worker] = cs.then]
        /\ unfinished_workers' =
             [unfinished_workers EXCEPT ![cs.worker] = "finished"]
        /\ UNCHANGED <<starting, new_jobs>>
        /\ cs.worker \in Workers /\ cs.then # "RUNNING_JOB"
    BY <1>6, <1>t DEF StopEnd, HolderTypeOK
  <2>. QED
    BY Zenon, <2>1, <1>t DEF AwaitedInv
<1>7. ASSUME NEW jt \in Tasks, FinishedWorkTask(jt) \/ StopTask(jt)
      PROVE  AwaitedInv'
  <2>1. /\ UNCHANGED <<worker_state, startVars>>
        /\ cs' = [cs EXCEPT !.tasks = @ \ {jt}]
    BY <1>7 DEF FinishedWorkTask, StopTask
  <2>2. cs'.op = cs.op /\ cs'.worker = cs.worker
    BY SMTT(30), <2>1, <1>t DEF HolderTypeOK
  <2>. QED
    BY <2>1, <2>2, AwaitedFrame DEF startVars
<1>8. CASE \/ NextWorkAssign \/ NextWorkReply
           \/ FinishedWorkThrows \/ FinishedWorkReply
  <2>1. UNCHANGED <<worker_state, startVars>> /\ cs.op # "stop"
    BY <1>8 DEF NextWorkAssign, NextWorkReply, FinishedWorkThrows,
                FinishedWorkReply
  <2>. QED
    BY <2>1, AwaitedFrame DEF startVars
<1>9. CASE \/ ProcessJobEnd \/ ProcessJobNoWorkers \/ ClearActive
           \/ TriggerShutdown \/ StartShutdown \/ UNCHANGED vars
  <2>1. UNCHANGED <<worker_state, startVars, cs>>
    BY Zenon, <1>9 DEF ProcessJobEnd, ProcessJobNoWorkers, FinishedFn, ClearActive,
                TriggerShutdown, StartShutdown, vars
  <2>. QED
    BY SMTT(30), <2>1, AwaitedFrame DEF startVars
<1>. QED
  BY SMTT(30), <1>1, <1>2, <1>3, <1>4, <1>5, <1>6, <1>7, <1>8, <1>9 DEF Next, HandlerStep

\* The wait loop of process_job gives up for lack of workers only when the
\* master runs the job on none.
THEOREM NoWorkerIsForgotten == Spec => GivesUpWithoutWorkers
<1>. DEFINE Step == job_result' = "no workers" /\ job_result = "none"
                      => \A w \in Workers : worker_state[w] # "RUNNING_JOB"
<1>1. Init => AwaitedInv
  BY DEF Init, AwaitedInv
<1>2. IInv /\ AwaitedInv /\ [Next]_vars => AwaitedInv' /\ [Step]_vars
  <2>. SUFFICES ASSUME IInv, AwaitedInv, [Next]_vars
                PROVE  AwaitedInv' /\ [Step]_vars
    BY Zenon
  <2>1. AwaitedInv'
    BY SMTT(30), AwaitedStep
  <2>2. CASE ProcessJobNoWorkers
    BY Zenon, <2>1, <2>2 DEF ProcessJobNoWorkers, NoneUnfinished, AwaitedInv
  <2>3. CASE ~ProcessJobNoWorkers
    <3>1. job_result' = job_result \/ job_result' \in {"success", "shutdown"}
      BY Zenon, <2>3, StepKinds DEF IInv, Quiet, NextWorkAssign, NextWorkReply,
         StopEnd, FinishedWorkTask, StopTask, ProcessJobEnd, FinishedFn, jobVars
    <3>. QED
      BY ZenonT(40), <2>1, <3>1
  <2>. QED
    BY Zenon, <2>2, <2>3
<1>. QED
  BY <1>1, <1>2, Invariance, PTL DEF Spec, GivesUpWithoutWorkers

\* The tables committed in memory are those of the complete jobs.
LEMMA CommittedIsComplete ==
  ASSUME CommittedMeansReported, committed \subseteq Jobs
  PROVE  committed = Promise!CompleteJobs(reported)
<1>1. Promise!Jobs = Jobs /\ Promise!Tasks = Tasks
  BY DEF Promise!Jobs, Jobs, Promise!Tasks, Tasks
<1>2. \A j \in Jobs : Promise!TasksOf(j) = TasksOf(j)
  BY <1>1 DEF Promise!TasksOf, TasksOf
<1>3. \A j \in Jobs : TasksOf(j) # {} <=> JobSize[j] > 0
  <2>. SUFFICES ASSUME NEW j \in Jobs
                PROVE  TasksOf(j) # {} <=> JobSize[j] > 0
    OBVIOUS
  <2>1. ASSUME JobSize[j] > 0 PROVE TasksOf(j) # {}
    <3>1. <<j, 0>> \in TasksOf(j)
      BY <2>1, TaskParts, ConstantsAssumption, SMTT(60) DEF TasksOf
    <3>. QED
      BY <3>1
  <2>2. ASSUME NEW jt \in TasksOf(j) PROVE JobSize[j] > 0
    <3>1. jt[2] \in 0 .. JobSize[j] - 1
      BY TaskParts DEF TasksOf
    <3>. QED
      BY <3>1, ConstantsAssumption
  <2>. QED
    BY <2>1, <2>2
<1>. QED
  BY <1>1, <1>2, <1>3 DEF Promise!CompleteJobs, CommittedMeansReported

\* A step that changes nothing the client sees is a stutter of the promise.
LEMMA PromiseStutter ==
  ASSUME UNCHANGED <<reported, blacklisted_jobs, job_result, stored>>
  PROVE  UNCHANGED Promise!vars
BY DEF Promise!vars

\* A step of the scheduler is a step of the promise, or a stutter.
LEMMA PromiseStep ==
  ASSUME IInv, IInv', [Next]_vars
  PROVE  [Promise!Next]_(Promise!vars)
<1>t. /\ TypeOK /\ SamplerInv /\ HolderInv /\ ReceivedInv /\ PlaceInv
      /\ CommittedMeansReported /\ CommittedMeansReported'
      /\ committed \subseteq Jobs /\ committed' \subseteq Jobs
      /\ reported \subseteq Tasks
  BY Zenon DEF IInv, TypeOK, MasterTypeOK, CountTypeOK, PlaceInv
<1>p. Promise!Tasks = Tasks /\ Promise!Jobs = Jobs
  BY DEF Promise!Tasks, Tasks, Promise!Jobs, Jobs
<1>c. committed = Promise!CompleteJobs(reported)
  BY <1>t, CommittedIsComplete
<1>d. committed' = Promise!CompleteJobs(reported')
  <2>1. (CommittedMeansReported /\ committed \subseteq Jobs
           => committed = Promise!CompleteJobs(reported))'
    BY CommittedIsComplete, PTL
  <2>. QED
    BY <2>1, <1>t
<1>1. CASE Quiet \/ NextWorkReply \/ NextWorkAssign \/ StopEnd
  <2>1. UNCHANGED <<reported, blacklisted_jobs, job_result, stored>>
    BY <1>1 DEF Quiet, QuietTasks, NextWorkReply, NextWorkAssign, StopEnd,
                failureVars, countVars, tableVars, jobVars
  <2>. QED
    BY <2>1, PromiseStutter
<1>2. ASSUME NEW jt \in Tasks, FinishedWorkTask(jt)
      PROVE  [Promise!Next]_(Promise!vars)
  <2>1. UNCHANGED <<blacklisted_jobs, job_result>>
    BY <1>2 DEF FinishedWorkTask, failureVars
  <2>2. CASE ~Counted(jt)
    <3>1. UNCHANGED <<reported, stored>>
      BY <1>2, <2>2 DEF FinishedWorkTask, countVars, CompletesJob
    <3>. QED
      BY <2>1, <3>1, PromiseStutter
  <2>3. CASE Counted(jt)
    <3>1. /\ jt \notin reported /\ jt[1] \notin blacklisted_jobs
          /\ reported' = reported \cup {jt}
      BY Zenon, <1>2, <2>3, <1>t, ReportPlaces DEF FinishedWorkTask, Counted
    <3>2. \/ stored' = stored
          \/ jt[1] \in committed' /\ stored' = committed'
      BY <1>2 DEF FinishedWorkTask
    <3>3. Promise!Complete(jt)
      BY <2>1, <3>1, <3>2, <1>d DEF Promise!Complete
    <3>. QED
      BY <3>3, <1>p DEF Promise!Next
  <2>. QED
    BY <2>2, <2>3
<1>3. ASSUME NEW jt \in Tasks, StopTask(jt)
      PROVE  [Promise!Next]_(Promise!vars)
  <2>1. UNCHANGED <<reported, job_result, stored>>
    BY <1>3 DEF StopTask, tableVars
  <2>2. CASE UNCHANGED blacklisted_jobs
    BY <2>1, <2>2, PromiseStutter
  <2>3. CASE /\ jt[1] \notin blacklisted_jobs
             /\ blacklisted_jobs' = blacklisted_jobs \cup {jt[1]}
    <3>1. jt[1] \in Jobs /\ jt \in TasksOf(jt[1]) /\ jt \notin reported
      BY SMTT(30), <1>3, <1>t, TaskParts, StopPlaces DEF TasksOf
    <3>2. jt[1] \notin committed
      BY <3>1, <1>t DEF CommittedMeansReported
    <3>3. Promise!Drop(jt[1])
      BY <2>1, <2>3, <3>2, <1>c DEF Promise!Drop
    <3>. QED
      BY <3>1, <3>3, <1>p DEF Promise!Next
  <2>. QED
    BY <1>3, <2>2, <2>3 DEF StopTask
<1>4. CASE ProcessJobEnd
  <2>1. /\ job_result = "none" /\ finished
        /\ stored' = committed
        /\ job_result' = IF trigger_shutdown THEN "shutdown" ELSE "success"
        /\ UNCHANGED <<reported, blacklisted_jobs>>
    BY <1>4 DEF ProcessJobEnd, FinishedFn, WrittenTables, failureVars
  <2>2. CASE trigger_shutdown
    <3>1. Promise!Fail
      BY <2>1, <2>2, <1>c DEF Promise!Fail
    <3>. QED
      BY <3>1 DEF Promise!Next
  <2>3. CASE ~trigger_shutdown
    <3>1. \A jt \in Tasks : jt \in reported \/ jt[1] \in blacklisted_jobs
      BY <2>1, <2>3 DEF IInv, FinishedMeansDone
    <3>2. Promise!Succeed
      BY SMTT(30), <2>1, <2>3, <3>1, <1>c, <1>p DEF Promise!Succeed
    <3>. QED
      BY <3>2 DEF Promise!Next
  <2>. QED
    BY <2>2, <2>3
<1>5. CASE ProcessJobNoWorkers
  <2>1. Promise!Fail
    BY Zenon, <1>5 DEF ProcessJobNoWorkers, FinishedFn, failureVars, Promise!Fail
  <2>. QED
    BY <2>1 DEF Promise!Next
<1>. QED
  BY SMTT(30), <1>1, <1>2, <1>3, <1>4, <1>5, <1>t, StepKinds

\* The scheduler of the master implements the promise to the client: reports
\* count once, only incomplete jobs are blacklisted, the tables on disk are
\* complete, and success leaves out only blacklisted jobs.
THEOREM PromiseIsKept == Spec => KeepsPromise
<1>1. Init => Promise!Init
  BY DEF Init, Promise!Init
<1>2. IInv /\ IInv' /\ [Next]_vars => [Promise!Next]_(Promise!vars)
  BY PromiseStep
<1>. QED
  BY <1>1, <1>2, Invariance, PTL DEF Spec, KeepsPromise, Promise!Spec

=============================================================================
