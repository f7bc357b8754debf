---------------------------- MODULE BulkJobSteps ----------------------------
(***************************************************************************)
(* The inductive invariant of BulkJob and the first lemmas about it: tasks *)
(* and queues, the types, the holder of work_mutex_, and who may hold what. *)
(* BulkJobProofs goes on from them.                                         *)
(***************************************************************************)
EXTENDS BulkJob, TLAPS

\* The tasks that count as used
Used == {jt \in Tasks : jt \in reported \/ jt[1] \in blacklisted_jobs}

\* The sampler is inside the job before next_job.
SamplerInv ==
  /\ num_tasks = IF next_job = 0 THEN 0 ELSE JobSize[next_job - 1]
  /\ next_task <= num_tasks

\* What the loop of the holder of work_mutex_ works on
HolderInv ==
  /\ cs.op \notin {"free", "start"} => cs.worker \in Workers
  /\ cs.op = "NextWork" =>
       /\ worker_state[cs.worker] = "RUNNING_JOB"
       /\ proc[cs.worker] = "running"
       /\ cs.tasks \subseteq worker_job_tasks[cs.worker]
       /\ cs.tasks # {} => cs.worker \in tracked
  /\ cs.op = "FinishedWork" => cs.tasks \subseteq received[cs.worker]
  /\ cs.op = "stop" => /\ active_bulk_job
                       /\ cs.tasks \subseteq worker_job_tasks[cs.worker]

\* Created tasks are active until they are reported or blacklisted.
ActiveInv ==
  /\ reported \subseteq Created
  /\ active_job_tasks \subseteq Created
  /\ active_job_tasks \cap reported = {}
  /\ \A jt \in Created : \/ jt \in active_job_tasks
                         \/ jt \in reported
                         \/ jt[1] \in blacklisted_jobs

\* Workers are given work only while they run the job, and a worker that can
\* still report holds, as the master sees it, what it will report.
ReceivedInv ==
  \A w \in Workers :
    /\ worker_state[w] = "RUNNING_JOB" /\ w \notin tracked => received[w] = {}
    /\ w \notin tracked => worker_job_tasks[w] = {}
    /\ w \in tracked =>
         \A jt \in received[w] : \/ jt \in worker_job_tasks[w]
                                 \/ jt \in reported
                                 \/ jt[1] \in blacklisted_jobs
    /\ proc[w] = "ready" => received[w] = {} /\ w \notin tracked
    /\ w \in unstarted_workers =>
         worker_state[w] # "RUNNING_JOB" /\ received[w] = {}
    /\ worker_state[w] = "ABSENT" => received[w] = {}

QueueInv ==
  \A jt \in Tasks : Queued(jt) => jt \in Created

HeldInv ==
  \A w \in Workers : worker_job_tasks[w] \subseteq Created

IInv ==
  /\ TypeOK /\ SamplerInv /\ HolderInv /\ ActiveInv /\ ReceivedInv
  /\ QueueInv /\ HeldInv /\ NoTaskTwice /\ NoTaskLost
  /\ CountsExact /\ FinishedMeansDone /\ CommittedMeansReported
  /\ StartsMatchAssignments /\ OnlyRunningWorkersHold

----------------------------------------------------------------------------
(* Tasks, and queues of tasks *)

\* A task is a pair of a job and a position in it.
LEMMA TaskParts ==
  /\ \A jt \in Tasks : /\ jt[1] \in Jobs
                       /\ jt[2] \in 0 .. JobSize[jt[1]] - 1
                       /\ jt = <<jt[1], jt[2]>>
  /\ \A j \in Jobs : \A t \in 0 .. JobSize[j] - 1 : <<j, t>> \in Tasks
BY DEF Tasks

\* What pop_back and push_back do to a queue of tasks
LEMMA QueuePop ==
  ASSUME NEW q \in Seq(Tasks), q # <<>>,
         NEW p, p = SubSeq(q, 1, Len(q) - 1)
  PROVE  /\ Len(q) \in Nat \ {0}
         /\ q[Len(q)] \in Tasks
         /\ p \in Seq(Tasks)
         /\ Len(p) = Len(q) - 1
         /\ \A i \in 1 .. Len(p) : p[i] = q[i]
<1>1. Len(q) \in Nat \ {0}
  OBVIOUS
<1>2. \A i \in 1 .. Len(q) : q[i] \in Tasks
  OBVIOUS
<1>3. \A i \in 1 .. Len(q) - 1 : q[i] \in Tasks
  BY <1>1, <1>2
<1>4. /\ p \in Seq(Tasks)
      /\ Len(p) = IF 1 <= Len(q) - 1 THEN Len(q) - 1 - 1 + 1 ELSE 0
      /\ \A i \in 1 .. Len(q) - 1 - 1 + 1 : p[i] = q[1 + i - 1]
  BY <1>1, <1>3
<1>5. Len(p) = Len(q) - 1
  <2>1. \A n \in Nat \ {0} :
          (IF 1 <= n - 1 THEN n - 1 - 1 + 1 ELSE 0) = n - 1
    OBVIOUS
  <2>. QED
    BY <1>1, <1>4, <2>1, Zenon
<1>6. \A i \in 1 .. Len(p) : p[i] = q[i]
  BY <1>1, <1>4, <1>5
<1>. QED
  BY <1>1, <1>2, <1>4, <1>5, <1>6

\* What push_back leaves in a queue.
LEMMA QueuePush ==
  ASSUME NEW q \in Seq(Tasks), NEW jt \in Tasks,
         NEW p, p = Append(q, jt)
  PROVE  /\ Len(q) \in Nat
         /\ p \in Seq(Tasks)
         /\ Len(p) = Len(q) + 1
         /\ p[Len(p)] = jt
         /\ \A i \in 1 .. Len(q) : p[i] = q[i]
OBVIOUS

----------------------------------------------------------------------------
(* The refill of to_assign_job_tasks in NextWorkHandler *)

\* The sampler stays inside the jobs, and creates each task once.
LEMMA SampleStep ==
  ASSUME TypeOK, SamplerInv, SampleTask
  PROVE  /\ next_job' \in 0 .. NumJobs /\ next_task' \in Nat
         /\ num_tasks' \in Nat
         /\ SamplerInv'
         /\ CreateTask => /\ CreatedTask \in Tasks \ Created
                          /\ Created' = Created \cup {CreatedTask}
         /\ ~CreateTask => Created' = Created
<1>0. /\ NumJobs \in Nat /\ JobSize \in [Jobs -> Nat]
      /\ next_job \in 0 .. NumJobs /\ next_task \in Nat /\ num_tasks \in Nat
      /\ num_tasks = IF next_job = 0 THEN 0 ELSE JobSize[next_job - 1]
      /\ next_task <= num_tasks
  BY ConstantsAssumption DEF TypeOK, QueueTypeOK, SamplerInv
<1>a. /\ next_job' = SampledJob
      /\ num_tasks' = SampledSize
      /\ next_task' = IF CreateTask THEN SampledTask + 1 ELSE SampledTask
  BY DEF SampleTask
<1>1. CASE AdvanceJob
  <2>1. /\ next_job' = next_job + 1 /\ num_tasks' = JobSize[next_job]
        /\ next_task' = IF CreateTask THEN 1 ELSE 0
        /\ next_job \in Jobs
        /\ JobSize[next_job] \in Nat
        /\ CreatedTask = <<next_job, 0>>
        /\ CreateTask <=> 0 < JobSize[next_job]
    BY <1>0, <1>a, <1>1 DEF AdvanceJob, SampledTask, SampledSize, SampledJob,
                      CreateTask, CreatedTask, Jobs
  <2>2. Created = {jt \in Tasks : jt[1] < next_job}
    BY <1>0, <1>1, TaskParts DEF Created, AdvanceJob, Jobs
  <2>3. Created' = {jt \in Tasks : \/ jt[1] < next_job
                                   \/ jt[1] = next_job /\ jt[2] < next_task'}
    BY <2>1, <1>0, TaskParts DEF Created, Jobs
  <2>4. CreateTask => CreatedTask \in Tasks \ Created
    BY <2>1, <2>2, <1>0, TaskParts
  <2>5. CreateTask => Created' = Created \cup {CreatedTask}
    BY <2>1, <2>2, <2>3, <2>4, <1>0, TaskParts DEF Jobs
  <2>6. ~CreateTask => Created' = Created
    BY <2>1, <2>2, <2>3, TaskParts DEF Jobs
  <2>7. SamplerInv'
    BY <2>1, <1>0 DEF SamplerInv
  <2>. QED
    BY <2>1, <2>4, <2>5, <2>6, <2>7, <1>0 DEF Jobs
<1>2. CASE ~AdvanceJob
  <2>1. /\ next_job' = next_job /\ num_tasks' = num_tasks
        /\ next_task' = IF CreateTask THEN next_task + 1 ELSE next_task
        /\ CreatedTask = <<next_job - 1, next_task>>
        /\ CreateTask => next_task < num_tasks
    BY <1>a, <1>2 DEF SampledTask, SampledSize, SampledJob, CreateTask, CreatedTask
  <2>2. CreateTask => CreatedTask \in Tasks \ Created
    <3>. SUFFICES ASSUME CreateTask PROVE CreatedTask \in Tasks \ Created
      OBVIOUS
    <3>1. next_job # 0 /\ next_job - 1 \in Jobs
          /\ next_task \in 0 .. JobSize[next_job - 1] - 1
      BY <2>1, <1>0 DEF Jobs
    <3>. QED
      BY <2>1, <3>1, <1>0, TaskParts DEF Created, Jobs
  <2>3. CreateTask => Created' = Created \cup {CreatedTask}
    BY <2>1, <2>2, <1>0, TaskParts DEF Created, Jobs
  <2>4. ~CreateTask => Created' = Created
    BY <2>1 DEF Created
  <2>5. SamplerInv'
    BY <2>1, <1>0 DEF SamplerInv
  <2>. QED
    BY <2>1, <2>2, <2>3, <2>4, <2>5, <1>0
<1>. QED
  BY <1>1, <1>2

\* What NextWork finds in the queue after the refill
LEMMA RefilledQueue ==
  ASSUME TypeOK, SamplerInv, SampleTask
  PROVE  /\ Refilled \in Seq(Tasks)
         /\ Refilled = IF CreateTask THEN <<CreatedTask>>
                                     ELSE to_assign_job_tasks
         /\ CreateTask => to_assign_job_tasks = <<>>
<1>1. to_assign_job_tasks \in Seq(Tasks)
  BY DEF TypeOK, QueueTypeOK
<1>2. CreateTask => CreatedTask \in Tasks
  BY SampleStep
<1>3. CreateTask => to_assign_job_tasks = <<>>
  BY DEF CreateTask
<1>. QED
  BY <1>1, <1>2, <1>3 DEF Refilled

----------------------------------------------------------------------------
(* Type correctness *)

\* The types, the sampler and the lock holder are right initially.
LEMMA TypeOKInit == Init => TypeOK /\ SamplerInv /\ HolderInv
<1>. SUFFICES ASSUME Init PROVE TypeOK /\ SamplerInv /\ HolderInv
  OBVIOUS
<1>1. QueueTypeOK
  BY ConstantsAssumption DEF Init, QueueTypeOK
<1>2. CountTypeOK
  BY DEF Init, CountTypeOK
<1>3. MasterTypeOK
  BY Zenon DEF Init, MasterTypeOK, WorkerStates
<1>4. HolderTypeOK
  BY ConstantsAssumption DEF Init, HolderTypeOK, Free, WorkerStates
<1>5. ProcTypeOK
  BY ConstantsAssumption DEF Init, ProcTypeOK, ProcStates
<1>6. SamplerInv /\ HolderInv
  BY DEF Init, SamplerInv, HolderInv, Free
<1>7. StartTypeOK
  BY DEF Init, StartTypeOK
<1>. QED
  BY <1>1, <1>2, <1>3, <1>4, <1>5, <1>6, <1>7 DEF TypeOK

\* Types of variables that a step leaves alone
LEMMA TypeFrame ==
  ASSUME TypeOK
  PROVE  /\ UNCHANGED <<samplerVars, assignVars>> => QueueTypeOK'
         /\ UNCHANGED <<failureVars, countVars>> => CountTypeOK'
         /\ UNCHANGED bulkVars => /\ QueueTypeOK' /\ CountTypeOK'
                                  /\ UNCHANGED samplerVars
         /\ UNCHANGED <<tableVars, jobVars, worker_state, armed>>
              => MasterTypeOK'
         /\ UNCHANGED cs => HolderTypeOK'
         /\ cs' = Free => HolderTypeOK'
         /\ UNCHANGED procVars => ProcTypeOK'
         /\ UNCHANGED startVars => StartTypeOK'
<1>1. UNCHANGED <<samplerVars, assignVars>> => QueueTypeOK'
  BY DEF TypeOK, QueueTypeOK, samplerVars, assignVars
<1>2. UNCHANGED <<failureVars, countVars>> => CountTypeOK'
  BY DEF TypeOK, CountTypeOK, failureVars, countVars
<1>3. UNCHANGED <<tableVars, jobVars, worker_state, armed>> => MasterTypeOK'
  BY Zenon DEF TypeOK, MasterTypeOK, tableVars, jobVars
<1>4. UNCHANGED cs => HolderTypeOK'
  BY DEF TypeOK, HolderTypeOK
<1>5. UNCHANGED procVars => ProcTypeOK'
  BY DEF TypeOK, ProcTypeOK, procVars
<1>6. UNCHANGED startVars => StartTypeOK'
  BY DEF TypeOK, StartTypeOK, startVars
<1>7. cs' = Free => HolderTypeOK'
  <2>1. Free \in [op : {"free"}, worker : {NoWorker}, tasks : {{}}, batch : {{}},
                  num : {0}, then : {"IDLE"}, next : {"free"}]
    BY DEF Free
  <2>2. 0 \in 0 .. QueueDepth
    BY ConstantsAssumption
  <2>. QED
    BY <2>1, <2>2 DEF HolderTypeOK
<1>. QED
  BY <1>1, <1>2, <1>3, <1>4, <1>5, <1>6, <1>7 DEF bulkVars

\* stop_job_on_worker keeps the types of worker_state and of the lock holder.
LEMMA StopType ==
  ASSUME TypeOK, NEW w \in Workers, NEW then \in {"IDLE", "UNREGISTERED"},
         NEW next \in {"free", "start"}, StopJobOnWorker(w, then, next)
  PROVE  /\ worker_state' \in [Workers -> WorkerStates]
         /\ HolderTypeOK'
<1>1. worker_state' \in [Workers -> WorkerStates]
  BY Zenon DEF TypeOK, MasterTypeOK, StopJobOnWorker, WorkerStates
<1>2. 0 \in 0 .. QueueDepth
  BY ConstantsAssumption
<1>3. worker_job_tasks[w] \in SUBSET Tasks
  BY DEF TypeOK, QueueTypeOK
<1>4. \/ UNCHANGED cs
      \/ cs' = [op |-> "stop", worker |-> w, tasks |-> worker_job_tasks[w],
                batch |-> {}, num |-> 0, then |-> then, next |-> next]
  BY Zenon DEF StopJobOnWorker, Free
<1>5. HolderTypeOK'
  BY <1>2, <1>3, <1>4 DEF TypeOK, HolderTypeOK
<1>. QED
  BY <1>1, <1>5

\* Steps that leave the state of the bulk job and the tables alone
LEMMA QuietTypes ==
  ASSUME TypeOK, NEW w \in Workers,
         \A S \in SUBSET Tasks : Cardinality(S) \in Nat,
         \/ NextWork(w) \/ ReportWork(w)
         \/ FinishedJob(w) \/ UnregisterWorker(w) \/ WorkerCrash(w)
         \/ PingerRemove(w) \/ TimeoutRemove(w)
  PROVE  TypeOK' /\ UNCHANGED bulkVars
<1>. USE TypeFrame DEF TypeOK
<1>2. CASE NextWork(w)
  <2>1. Cardinality(received[w]) \in Nat
    BY DEF ProcTypeOK
  <2>2. QueueDepth - Cardinality(received[w]) > 0
          => QueueDepth - Cardinality(received[w]) \in 0 .. QueueDepth
    BY <2>1, ConstantsAssumption
  <2>3. HolderTypeOK'
    BY ZenonT(40), <1>2, <2>2 DEF NextWork, HolderTypeOK, Free, WorkerStates
  <2>4. MasterTypeOK'
    BY Zenon, <1>2 DEF NextWork, REQUEST_RPC, MasterTypeOK, jobVars, tableVars
  <2>5. ProcTypeOK'
    BY <1>2 DEF NextWork, ProcTypeOK, ProcStates
  <2>. QED
    BY <1>2, <2>3, <2>4, <2>5 DEF NextWork
<1>3. CASE ReportWork(w)
  <2>1. PICK batch \in SUBSET received[w] : FinishedWork(w, batch)
    BY <1>3 DEF ReportWork
  <2>2. batch \in SUBSET Tasks /\ 0 \in 0 .. QueueDepth
    BY <2>1, ConstantsAssumption DEF ProcTypeOK
  <2>3. HolderTypeOK'
    BY Zenon, <2>1, <2>2 DEF FinishedWork, HolderTypeOK, Free, WorkerStates
  <2>. QED
    BY <2>1, <2>3 DEF FinishedWork
<1>4. CASE FinishedJob(w)
  <2>1. worker_state' \in [Workers -> WorkerStates] /\ HolderTypeOK'
    BY Zenon, <1>4, StopType DEF FinishedJob, MasterTypeOK, WorkerStates
  <2>2. MasterTypeOK'
    BY Zenon, <1>4, <2>1 DEF FinishedJob, REQUEST_RPC, MasterTypeOK, jobVars, tableVars
  <2>3. ProcTypeOK'
    BY Zenon, <1>4 DEF FinishedJob, ProcTypeOK, ProcStates
  <2>4. StartTypeOK'
    BY <1>4 DEF FinishedJob, StartTypeOK
  <2>. QED
    BY <1>4, <2>1, <2>2, <2>3, <2>4 DEF FinishedJob
<1>5. CASE UnregisterWorker(w)
  <2>1. worker_state' \in [Workers -> WorkerStates] /\ HolderTypeOK'
    BY <1>5, StopType DEF UnregisterWorker, remove_worker, WorkerStates
  <2>2. MasterTypeOK'
    BY Zenon, <1>5, <2>1
    DEF UnregisterWorker, REQUEST_RPC, MasterTypeOK, jobVars, tableVars
  <2>3. ProcTypeOK'
    BY <1>5 DEF UnregisterWorker, ProcTypeOK, ProcStates
  <2>. QED
    BY <1>5, <2>1, <2>2, <2>3 DEF UnregisterWorker
<1>6. CASE WorkerCrash(w)
  <2>1. ProcTypeOK'
    BY <1>6 DEF WorkerCrash, ProcTypeOK, ProcStates
  <2>. QED
    BY <1>6, <2>1 DEF WorkerCrash
<1>7. CASE PingerRemove(w) \/ TimeoutRemove(w)
  <2>1. worker_state' \in [Workers -> WorkerStates] /\ HolderTypeOK'
    BY <1>7, StopType DEF PingerRemove, TimeoutRemove, remove_worker, WorkerStates
  <2>2. MasterTypeOK'
    BY Zenon, <1>7, <2>1 DEF PingerRemove, TimeoutRemove, MasterTypeOK, jobVars, tableVars
  <2>. QED
    BY <1>7, <2>1, <2>2 DEF PingerRemove, TimeoutRemove
<1>. QED
  BY <1>2, <1>3, <1>4, <1>5, <1>6, <1>7

\* The same for the steps of start_job_on_workers, and those around them
LEMMA StartTypes ==
  ASSUME TypeOK,
         \/ StartJobOnWorkers \/ StartDone
         \/ \E w \in Workers : \/ RegisterWorker(w) \/ NewJobReply(w)
                              \/ StartRemove(w) \/ FinishedJobThrows(w)
  PROVE  TypeOK' /\ UNCHANGED bulkVars
<1>. USE TypeFrame DEF TypeOK
<1>1. CASE StartJobOnWorkers
  <2>1. MasterTypeOK'
    BY <1>1 DEF StartJobOnWorkers, MasterTypeOK, WorkerStates, jobVars, tableVars
  <2>2. StartTypeOK'
    BY <1>1 DEF StartJobOnWorkers, StartTypeOK
  <2>. QED
    BY <1>1, <2>1, <2>2 DEF StartJobOnWorkers
<1>2. CASE StartDone
  <2>1. HolderTypeOK'
    <3>1. cs' = Free
      BY <1>2 DEF StartDone
    <3>. QED
      BY <3>1, TypeFrame
  <2>2. StartTypeOK'
    BY ZenonT(40), <1>2 DEF StartDone, Recorded, StartTypeOK
  <2>. QED
    BY <1>2, <2>1, <2>2 DEF StartDone
<1>3. ASSUME NEW w \in Workers, RegisterWorker(w)
      PROVE  TypeOK' /\ UNCHANGED bulkVars
  <2>1. MasterTypeOK'
    BY Zenon, <1>3 DEF RegisterWorker, REQUEST_RPC, MasterTypeOK, WorkerStates,
                jobVars, tableVars
  <2>2. StartTypeOK'
    BY <1>3 DEF RegisterWorker, StartTypeOK
  <2>. QED
    BY <1>3, <2>1, <2>2 DEF RegisterWorker
<1>4. ASSUME NEW w \in Workers, NewJobReply(w)
      PROVE  TypeOK' /\ UNCHANGED bulkVars
  <2>1. StartTypeOK'
    BY <1>4 DEF NewJobReply, StartTypeOK
  <2>2. ProcTypeOK'
    <3>1. lost < MaxLost => lost + 1 \in 0 .. MaxLost
      BY ConstantsAssumption DEF ProcTypeOK
    <3>. QED
      BY <1>4, <3>1 DEF NewJobReply, ProcTypeOK, ProcStates
  <2>. QED
    BY <1>4, <2>1, <2>2 DEF NewJobReply
<1>5. ASSUME NEW w \in Workers, StartRemove(w)
      PROVE  TypeOK' /\ UNCHANGED bulkVars
  <2>1. worker_state' \in [Workers -> WorkerStates] /\ HolderTypeOK'
    BY <1>5, StopType DEF StartRemove
  <2>2. MasterTypeOK'
    BY Zenon, <1>5, <2>1 DEF StartRemove, MasterTypeOK, jobVars, tableVars
  <2>3. StartTypeOK'
    BY <1>5 DEF StartRemove, StartTypeOK
  <2>. QED
    BY <1>5, <2>1, <2>2, <2>3 DEF StartRemove
<1>6. ASSUME NEW w \in Workers, FinishedJobThrows(w)
      PROVE  TypeOK' /\ UNCHANGED bulkVars
  <2>1. MasterTypeOK'
    BY Zenon, <1>6 DEF FinishedJobThrows, MasterTypeOK, jobVars, tableVars
  <2>2. ProcTypeOK'
    BY <1>6 DEF FinishedJobThrows, ProcTypeOK, ProcStates
  <2>. QED
    BY <1>6, <2>1, <2>2 DEF FinishedJobThrows
<1>. QED
  BY <1>1, <1>2, <1>3, <1>4, <1>5, <1>6

\* Every step keeps the types and the position of the task sampler.
LEMMA TypeOKStep ==
  ASSUME TypeOK, SamplerInv, HolderInv, [Next]_vars,
         \A S \in SUBSET Tasks : Cardinality(S) \in Nat
  PROVE  TypeOK' /\ SamplerInv'
<1>. USE TypeFrame DEF TypeOK
<1>f. UNCHANGED samplerVars => SamplerInv'
  BY DEF samplerVars, SamplerInv
<1>0. CASE \/ StartJobOnWorkers \/ StartDone
           \/ \E w \in Workers : \/ RegisterWorker(w) \/ NewJobReply(w)
                                \/ StartRemove(w) \/ FinishedJobThrows(w)
  <2>1. TypeOK' /\ UNCHANGED bulkVars
    BY <1>0, StartTypes
  <2>. QED
    BY <2>1, <1>f DEF bulkVars
<1>1. ASSUME NEW w \in Workers,
             \/ NextWork(w) \/ ReportWork(w)
             \/ FinishedJob(w) \/ UnregisterWorker(w) \/ WorkerCrash(w)
             \/ PingerRemove(w) \/ TimeoutRemove(w)
      PROVE  TypeOK' /\ SamplerInv'
  <2>1. TypeOK' /\ UNCHANGED bulkVars
    BY <1>1, QuietTypes
  <2>. QED
    BY <2>1, <1>f DEF bulkVars
<1>2. CASE NextWorkAssign
  <2>. DEFINE w == cs.worker
              jt == Refilled[Len(Refilled)]
  <2>1. w \in Workers
    BY <1>2 DEF NextWorkAssign, HolderInv
  <2>2. SampleTask /\ Refilled # <<>>
    BY <1>2 DEF NextWorkAssign
  <2>3. /\ jt \in Tasks
        /\ to_assign_job_tasks' \in Seq(Tasks)
    BY <1>2, <2>2, RefilledQueue, QueuePop DEF NextWorkAssign
  <2>4. SamplerInv' /\ next_job' \in 0 .. NumJobs /\ next_task' \in Nat
        /\ num_tasks' \in Nat
    BY <2>2, SampleStep
  <2>5. QueueTypeOK'
    <3>0. \/ UNCHANGED <<worker_job_tasks, tracked, worker_job_tasks_starts>>
          \/ /\ worker_job_tasks' =
                  [worker_job_tasks EXCEPT ![w] = @ \cup {jt}]
             /\ tracked' = tracked \cup {w}
             /\ worker_job_tasks_starts' =
                  worker_job_tasks_starts \cup {<<w, jt>>}
      BY <1>2 DEF NextWorkAssign
    <3>1. /\ worker_job_tasks' \in [Workers -> SUBSET Tasks]
          /\ tracked' \subseteq Workers
          /\ worker_job_tasks_starts' \subseteq Workers \X Tasks
      BY <3>0, <2>1, <2>3 DEF QueueTypeOK
    <3>. QED
      BY <2>3, <2>4, <3>1 DEF QueueTypeOK
  <2>6. active_job_tasks' \subseteq Tasks
    BY <2>2, SampleStep DEF SampleTask, CountTypeOK
  <2>7. CountTypeOK'
    BY <1>2, <2>6 DEF NextWorkAssign, CountTypeOK, failureVars
  <2>8. HolderTypeOK'
    <3>1. cs.num - 1 \in 0 .. QueueDepth /\ cs.tasks \cup {jt} \in SUBSET Tasks
      <4>1. cs.num > 0
        BY <1>2 DEF NextWorkAssign
      <4>2. cs.num \in 0 .. QueueDepth /\ cs.tasks \in SUBSET Tasks
        BY Zenon DEF HolderTypeOK
      <4>. QED
        BY <4>1, <4>2, <2>3, ConstantsAssumption
    <3>2. \/ UNCHANGED cs
          \/ cs' = [cs EXCEPT !.num = cs.num - 1, !.tasks = cs.tasks \cup {jt}]
      BY <1>2 DEF NextWorkAssign
    <3>. QED
      BY ZenonT(40), <3>1, <3>2 DEF HolderTypeOK
  <2>. QED
    BY <1>2, <2>4, <2>5, <2>7, <2>8 DEF NextWorkAssign
<1>3. CASE NextWorkReply
  <2>1. SamplerInv' /\ QueueTypeOK' /\ CountTypeOK'
    <3>1. CASE UNCHANGED <<samplerVars, active_job_tasks>>
      BY SMTT(30), <1>3, <3>1, <1>f DEF NextWorkReply, countVars
    <3>2. CASE SampleTask
      <4>1. /\ SamplerInv' /\ next_job' \in 0 .. NumJobs
            /\ next_task' \in Nat /\ num_tasks' \in Nat
        BY <3>2, SampleStep
      <4>2. active_job_tasks' \subseteq Tasks
        BY <3>2, SampleStep DEF SampleTask, CountTypeOK
      <4>. QED
        BY <1>3, <4>1, <4>2
        DEF NextWorkReply, QueueTypeOK, CountTypeOK, assignVars, failureVars
    <3>. QED
      BY <1>3, <3>1, <3>2 DEF NextWorkReply
  <2>2. MasterTypeOK'
    BY Zenon, <1>3 DEF NextWorkReply, REQUEST_RPC, MasterTypeOK, jobVars, tableVars
  <2>3. HolderTypeOK'
    <3>1. cs' = Free
      BY <1>3 DEF NextWorkReply
    <3>. QED
      BY <3>1, TypeFrame
  <2>4. ProcTypeOK'
    <3>1. cs.tasks \subseteq Tasks
      BY DEF HolderTypeOK
    <3>2. lost < MaxLost => lost + 1 \in 0 .. MaxLost
      BY ConstantsAssumption DEF ProcTypeOK
    <3>. QED
      BY <1>3, <3>1, <3>2 DEF NextWorkReply, ProcTypeOK, ProcStates
  <2>. QED
    BY Zenon, <1>3, <2>1, <2>2, <2>3, <2>4 DEF NextWorkReply
<1>4. CASE FinishedWorkThrows
  <2>1. MasterTypeOK'
    BY ZenonT(40), <1>4 DEF FinishedWorkThrows, MasterTypeOK, jobVars, tableVars
  <2>2. HolderTypeOK'
    <3>1. cs' = Free
      BY SMTT(30), <1>4 DEF FinishedWorkThrows
    <3>. QED
      BY <3>1, TypeFrame
  <2>3. ProcTypeOK'
    BY ZenonT(40), <1>4 DEF FinishedWorkThrows, ProcTypeOK, ProcStates
  <2>. QED
    BY SMTT(30), <1>4, <1>f, <2>1, <2>2, <2>3 DEF FinishedWorkThrows
<1>5. CASE FinishedWorkReply
  <2>1. MasterTypeOK'
    BY ZenonT(40), <1>5 DEF FinishedWorkReply, REQUEST_RPC, MasterTypeOK, jobVars, tableVars
  <2>2. HolderTypeOK'
    <3>1. cs' = Free
      BY SMTT(30), <1>5 DEF FinishedWorkReply
    <3>. QED
      BY <3>1, TypeFrame
  <2>3. ProcTypeOK'
    <3>1. lost < MaxLost => lost + 1 \in 0 .. MaxLost
      BY ConstantsAssumption DEF ProcTypeOK
    <3>. QED
      BY <1>5, <3>1 DEF FinishedWorkReply, ProcTypeOK
  <2>. QED
    BY SMTT(30), <1>5, <1>f, <2>1, <2>2, <2>3 DEF FinishedWorkReply
<1>6. ASSUME NEW jt \in Tasks, FinishedWorkTask(jt)
      PROVE  TypeOK' /\ SamplerInv'
  <2>1. QueueTypeOK'
    BY <1>6 DEF FinishedWorkTask, EraseStart, QueueTypeOK, samplerVars
  <2>2. jt[1] \in Jobs
    BY TaskParts
  <2>3. CountTypeOK'
    BY <1>6, <2>2 DEF FinishedWorkTask, CountTypeOK, countVars, failureVars
  <2>4. MasterTypeOK'
    BY Zenon, <1>6, <2>2 DEF FinishedWorkTask, AllTasksUsed, MasterTypeOK
  <2>5. HolderTypeOK'
    BY <1>6 DEF FinishedWorkTask, HolderTypeOK
  <2>. QED
    BY <1>6, <1>f, <2>1, <2>3, <2>4, <2>5 DEF FinishedWorkTask
<1>7. ASSUME NEW jt \in Tasks, StopTask(jt)
      PROVE  TypeOK' /\ SamplerInv'
  <2>1. jt[1] \in Jobs
    BY TaskParts
  <2>2. to_assign_job_tasks' \in Seq(Tasks)
    BY <1>7, QueuePush DEF StopTask, Requeue, QueueTypeOK
  <2>3. QueueTypeOK'
    BY <1>7, <2>2 DEF StopTask, EraseStart, QueueTypeOK, samplerVars
  <2>4. CountTypeOK'
    <3>1. TasksLeft(jt[1]) \in Int
      BY <2>1, ConstantsAssumption DEF TasksLeft, CountTypeOK
    <3>2. job_tasks_num_failures' \in [Tasks -> Nat]
      BY <1>7 DEF StopTask, CountTypeOK
    <3>3. /\ blacklisted_jobs' \subseteq Jobs /\ active_job_tasks' \subseteq Tasks
          /\ total_tasks_used' \in Int
      BY <1>7, <2>1, <3>1 DEF StopTask, CountTypeOK
    <3>4. UNCHANGED <<tasks_used_per_job, reported>>
      BY <1>7 DEF StopTask
    <3>. QED
      BY <3>2, <3>3, <3>4 DEF CountTypeOK
  <2>5. MasterTypeOK'
    BY Zenon, <1>7 DEF StopTask, AllTasksUsed, MasterTypeOK, tableVars
  <2>6. HolderTypeOK'
    BY <1>7 DEF StopTask, HolderTypeOK
  <2>. QED
    BY <1>7, <1>f, <2>3, <2>4, <2>5, <2>6 DEF StopTask
<1>8. CASE StopEnd
  <2>1. QueueTypeOK'
    BY Zenon, <1>8 DEF StopEnd, EraseEntry, QueueTypeOK, samplerVars
  <2>2. MasterTypeOK'
    BY Zenon, <1>8 DEF StopEnd, MasterTypeOK, HolderTypeOK, WorkerStates, jobVars,
                tableVars
  <2>3. HolderTypeOK'
    BY <1>8, ConstantsAssumption DEF StopEnd, HolderTypeOK, Free, WorkerStates
  <2>4. StartTypeOK'
    BY Zenon, <1>8 DEF StopEnd, StartTypeOK
  <2>. QED
    BY <1>8, <1>f, <2>1, <2>2, <2>3, <2>4 DEF StopEnd
<1>9. CASE ProcessJobEnd \/ ProcessJobNoWorkers
  <2>1. /\ total_tasks_used' = 0 /\ finished' = TRUE
        /\ job_result' \in {"success", "no workers", "shutdown"}
        /\ UNCHANGED <<samplerVars, assignVars, committed, active_bulk_job,
                       trigger_shutdown, worker_state, armed, cs, startVars,
                       procVars>>
        /\ UNCHANGED <<failureVars, active_job_tasks, tasks_used_per_job,
                       reported>>
    BY Zenon, <1>9 DEF ProcessJobEnd, ProcessJobNoWorkers, FinishedFn
  <2>2. CountTypeOK'
    <3>1. /\ job_tasks_num_failures' = job_tasks_num_failures
          /\ blacklisted_jobs' = blacklisted_jobs
          /\ active_job_tasks' = active_job_tasks
          /\ tasks_used_per_job' = tasks_used_per_job
          /\ reported' = reported
      BY Zenon, <2>1 DEF failureVars
    <3>2. total_tasks_used' \in Int
      <4>1. 0 \in Int
        OBVIOUS
      <4>. QED
        BY <2>1, <4>1, Zenon
    <3>. QED
      BY <3>1, <3>2 DEF CountTypeOK
  <2>3. stored' \subseteq Jobs
    BY ZenonT(40), <1>9 DEF ProcessJobEnd, ProcessJobNoWorkers, WrittenTables, MasterTypeOK
  <2>4. MasterTypeOK'
    BY ZenonT(40), <2>1, <2>3 DEF MasterTypeOK
  <2>. QED
    BY Zenon, <2>1, <1>f, <2>2, <2>4
<1>10. CASE ClearActive \/ TriggerShutdown \/ StartShutdown
  <2>1. MasterTypeOK'
    BY Zenon, <1>10 DEF ClearActive, TriggerShutdown, StartShutdown, MasterTypeOK,
                 tableVars
  <2>. QED
    BY <1>10, <1>f, <2>1 DEF ClearActive, TriggerShutdown, StartShutdown
<1>11. CASE UNCHANGED vars
  BY <1>11, <1>f DEF vars, bulkVars
<1>. QED
  BY SMTT(30), <1>0, <1>1, <1>2, <1>3, <1>4, <1>5, <1>6, <1>7, <1>8, <1>9, <1>10, <1>11
  DEF Next, HandlerStep

----------------------------------------------------------------------------
(* The holder of work_mutex_, and who may hold tasks *)

\* A step of StopJobOnWorker takes the worker's tasks, or only sets its state.
LEMMA StopStart ==
  ASSUME TypeOK, NEW w \in Workers, NEW then \in {"IDLE", "UNREGISTERED"},
         NEW next, StopJobOnWorker(w, then, next)
  PROVE  \/ /\ active_bulk_job /\ UNCHANGED worker_state
            /\ cs'.op = "stop" /\ cs'.worker = w
            /\ cs'.tasks = worker_job_tasks[w]
            /\ cs'.then = then
         \/ /\ ~active_bulk_job /\ UNCHANGED cs
            /\ worker_state' = [worker_state EXCEPT ![w] = then]
BY Zenon DEF StopJobOnWorker, Free, TypeOK, MasterTypeOK

\* What the holder of work_mutex_ relies on survives every step.
LEMMA HolderStep ==
  ASSUME TypeOK, SamplerInv, HolderInv, [Next]_vars
  PROVE  HolderInv'
<1>t. /\ worker_job_tasks \in [Workers -> SUBSET Tasks]
      /\ received \in [Workers -> SUBSET Tasks]
      /\ worker_state \in [Workers -> WorkerStates]
      /\ proc \in [Workers -> ProcStates]
      /\ HolderTypeOK
  BY ZenonT(40) DEF TypeOK, QueueTypeOK, MasterTypeOK, ProcTypeOK
<1>0. CASE StartJobOnWorkers \/ StartDone
  <2>1. cs'.op = "free"
    BY <1>0, SMTT(60) DEF StartJobOnWorkers, StartDone, Free
  <2>. QED
    BY ZenonT(40), <2>1 DEF HolderInv
<1>1. ASSUME NEW w \in Workers,
             \/ RegisterWorker(w) \/ NewJobReply(w) \/ FinishedJobThrows(w)
             \/ WorkerCrash(w)
      PROVE  HolderInv'
  <2>1. CASE RegisterWorker(w) \/ FinishedJobThrows(w)
    BY ZenonT(40), <2>1, <1>t DEF RegisterWorker, FinishedJobThrows, HolderInv, bulkVars,
                      assignVars, jobVars, procVars
  <2>2. CASE NewJobReply(w)
    BY ZenonT(40), <2>2, <1>t DEF NewJobReply, HolderInv, bulkVars, assignVars, jobVars,
                      procVars
  <2>3. CASE WorkerCrash(w)
    BY <2>3, <1>t DEF WorkerCrash, HolderInv, bulkVars, assignVars, jobVars,
                      procVars
  <2>. QED
    BY SMTT(30), <1>1, <2>1, <2>2, <2>3
<1>2. ASSUME NEW w \in Workers, NextWork(w)
      PROVE  HolderInv'
  BY ZenonT(40), <1>2, <1>t DEF NextWork, RunsJob, HolderInv, Free
<1>3. ASSUME NEW w \in Workers, ReportWork(w)
      PROVE  HolderInv'
  BY <1>3, <1>t DEF ReportWork, FinishedWork, HolderInv, Free, procVars
<1>4. ASSUME NEW w \in Workers,
             \/ FinishedJob(w) \/ UnregisterWorker(w)
             \/ PingerRemove(w) \/ TimeoutRemove(w) \/ StartRemove(w)
      PROVE  HolderInv'
  <2>1. /\ cs.op \in {"free", "start"}
        /\ UNCHANGED <<worker_job_tasks, active_bulk_job>>
        /\ \/ UNCHANGED cs
           \/ StopJobOnWorker(w, "IDLE", "free")
           \/ StopJobOnWorker(w, "UNREGISTERED", "free")
           \/ StopJobOnWorker(w, "UNREGISTERED", "start")
    BY <1>4 DEF FinishedJob, UnregisterWorker, PingerRemove, TimeoutRemove,
                StartRemove, AllAnswered, remove_worker, bulkVars, assignVars,
                jobVars
  <2>2. \/ cs'.op \in {"free", "start"}
        \/ /\ active_bulk_job /\ cs'.op = "stop" /\ cs'.worker = w
           /\ cs'.tasks = worker_job_tasks[w]
    BY <2>1, StopStart DEF WorkerStates
  <2>. QED
    BY <2>1, <2>2 DEF HolderInv
<1>5. CASE NextWorkAssign
  <2>. DEFINE w == cs.worker
              jt == Refilled[Len(Refilled)]
  <2>1. cs.op = "NextWork" /\ w \in Workers /\ UNCHANGED <<worker_state, proc>>
    BY SMTT(30), <1>5 DEF NextWorkAssign, HolderInv, procVars
  <2>2. CASE UNCHANGED <<worker_job_tasks, tracked, cs>>
    BY <2>1, <2>2 DEF HolderInv
  <2>3. CASE /\ worker_job_tasks' =
                  [worker_job_tasks EXCEPT ![w] = @ \cup {jt}]
             /\ tracked' = tracked \cup {w}
             /\ cs' = [cs EXCEPT !.num = @ - 1, !.tasks = @ \cup {jt}]
    <3>1. /\ cs'.op = "NextWork" /\ cs'.worker = w
          /\ cs'.tasks = cs.tasks \cup {jt}
      BY <2>1, <2>3, <1>t DEF HolderTypeOK
    <3>2. worker_job_tasks'[w] = worker_job_tasks[w] \cup {jt}
      BY <2>1, <2>3, <1>t
    <3>. QED
      BY <2>1, <2>3, <3>1, <3>2 DEF HolderInv
  <2>. QED
    BY <1>5, <2>2, <2>3 DEF NextWorkAssign
<1>6. CASE NextWorkReply \/ FinishedWorkThrows \/ FinishedWorkReply \/ StopEnd
  <2>1. cs'.op \in {"free", "start"}
    BY <1>6, <1>t DEF NextWorkReply, FinishedWorkThrows, FinishedWorkReply,
                      StopEnd, Free, HolderTypeOK
  <2>. QED
    BY <2>1 DEF HolderInv
<1>7. ASSUME NEW jt \in Tasks, FinishedWorkTask(jt)
      PROVE  HolderInv'
  <2>1. /\ cs.op = "FinishedWork" /\ cs' = [cs EXCEPT !.tasks = @ \ {jt}]
        /\ UNCHANGED received
    BY Zenon, <1>7 DEF FinishedWorkTask, procVars
  <2>2. /\ cs'.op = "FinishedWork" /\ cs'.worker = cs.worker
        /\ cs'.tasks = cs.tasks \ {jt}
    BY <2>1, <1>t DEF HolderTypeOK
  <2>. QED
    BY <2>1, <2>2 DEF HolderInv
<1>8. ASSUME NEW jt \in Tasks, StopTask(jt)
      PROVE  HolderInv'
  <2>1. /\ cs.op = "stop" /\ cs' = [cs EXCEPT !.tasks = @ \ {jt}]
        /\ UNCHANGED <<worker_job_tasks, active_bulk_job>>
    BY Zenon, <1>8 DEF StopTask
  <2>2. /\ cs'.op = "stop" /\ cs'.worker = cs.worker
        /\ cs'.tasks = cs.tasks \ {jt}
    BY <2>1, <1>t DEF HolderTypeOK
  <2>. QED
    BY <2>1, <2>2 DEF HolderInv
<1>9. CASE ProcessJobEnd \/ ProcessJobNoWorkers
  <2>1. UNCHANGED <<assignVars, active_bulk_job, worker_state, cs, procVars>>
    BY ZenonT(40), <1>9 DEF ProcessJobEnd, ProcessJobNoWorkers, FinishedFn
  <2>. QED
    BY <2>1 DEF HolderInv, assignVars, procVars
<1>10. CASE ClearActive \/ TriggerShutdown \/ StartShutdown
  BY SMTT(30), <1>10 DEF ClearActive, TriggerShutdown, StartShutdown, HolderInv,
               bulkVars, assignVars, procVars
<1>11. CASE UNCHANGED vars
  BY ZenonT(40), <1>11 DEF vars, bulkVars, assignVars, jobVars, procVars, HolderInv
<1>. QED
  BY <1>0, <1>1, <1>2, <1>3, <1>4, <1>5, <1>6, <1>7, <1>8, <1>9, <1>10, <1>11
  DEF Next, HandlerStep

\* Blacklisting more jobs, and ending the bulk job, do not matter to who holds
\* what.
LEMMA HoldsFrame ==
  ASSUME ReceivedInv, OnlyRunningWorkersHold,
         UNCHANGED <<worker_job_tasks, tracked, worker_state, reported, proc,
                     received, unstarted_workers>>,
         blacklisted_jobs \subseteq blacklisted_jobs',
         active_bulk_job' => active_bulk_job
  PROVE  ReceivedInv' /\ OnlyRunningWorkersHold'
BY DEF ReceivedInv, OnlyRunningWorkersHold

\* Only workers that run the job are tracked, and what a tracked worker can
\* still report it holds, unless it was reported or blacklisted before.
LEMMA WhoHoldsStep ==
  ASSUME TypeOK, SamplerInv, HolderInv, ActiveInv, HeldInv, ReceivedInv,
         OnlyRunningWorkersHold, [Next]_vars
  PROVE  ReceivedInv' /\ OnlyRunningWorkersHold'
<1>t. /\ worker_job_tasks \in [Workers -> SUBSET Tasks]
      /\ received \in [Workers -> SUBSET Tasks]
      /\ worker_state \in [Workers -> WorkerStates]
      /\ proc \in [Workers -> ProcStates]
      /\ HolderTypeOK
  BY ZenonT(40) DEF TypeOK, QueueTypeOK, MasterTypeOK, ProcTypeOK
<1>0. CASE StartJobOnWorkers \/ StartDone
  <2>1. UNCHANGED <<worker_job_tasks, tracked, reported, blacklisted_jobs,
                    active_bulk_job, received, proc>>
    BY <1>0 DEF StartJobOnWorkers, StartDone, bulkVars, assignVars, countVars,
                failureVars, jobVars, procVars
  <2>2. \/ UNCHANGED <<worker_state, unstarted_workers>>
        \/ /\ unstarted_workers' = {}
           /\ \A w \in Workers :
                \/ worker_state'[w] = worker_state[w]
                \/ /\ worker_state[w] = "IDLE" /\ w \in unstarted_workers
                   /\ worker_state'[w] = "RUNNING_JOB"
    BY <1>0 DEF StartJobOnWorkers, StartDone
  <2>. QED
    BY Zenon, <2>1, <2>2 DEF ReceivedInv, OnlyRunningWorkersHold
<1>1. ASSUME NEW w \in Workers,
             \/ RegisterWorker(w) \/ NewJobReply(w) \/ FinishedJobThrows(w)
             \/ NextWork(w) \/ WorkerCrash(w)
      PROVE  ReceivedInv' /\ OnlyRunningWorkersHold'
  <2>1. UNCHANGED <<worker_job_tasks, tracked, reported, blacklisted_jobs,
                    active_bulk_job>>
    BY <1>1 DEF RegisterWorker, NewJobReply, FinishedJobThrows, NextWork,
                WorkerCrash, bulkVars, assignVars, countVars, failureVars,
                jobVars
  <2>2. ReceivedInv'
    BY <1>1, <2>1, <1>t DEF RegisterWorker, NewJobReply, FinishedJobThrows,
                            NextWork, WorkerCrash, ReceivedInv, startVars,
                            procVars
  <2>3. OnlyRunningWorkersHold'
    BY <1>1, <2>1, <1>t DEF RegisterWorker, NewJobReply, FinishedJobThrows,
                            NextWork, WorkerCrash, OnlyRunningWorkersHold
  <2>. QED
    BY <2>2, <2>3
<1>2. ASSUME NEW w \in Workers, ReportWork(w)
      PROVE  ReceivedInv' /\ OnlyRunningWorkersHold'
  <2>1. UNCHANGED <<bulkVars, jobVars, worker_state, procVars, startVars>>
    BY Zenon, <1>2 DEF ReportWork, FinishedWork
  <2>2. UNCHANGED <<worker_job_tasks, tracked, worker_state, reported, proc,
                    received, unstarted_workers, blacklisted_jobs,
                    active_bulk_job>>
    BY <2>1 DEF bulkVars, assignVars, countVars, failureVars, jobVars,
                procVars, startVars
  <2>. QED
    BY <2>2, HoldsFrame
<1>3. ASSUME NEW w \in Workers,
             \/ FinishedJob(w) \/ UnregisterWorker(w)
             \/ PingerRemove(w) \/ TimeoutRemove(w) \/ StartRemove(w)
      PROVE  ReceivedInv' /\ OnlyRunningWorkersHold'
  <2>1. /\ UNCHANGED <<worker_job_tasks, tracked, reported, blacklisted_jobs,
                       active_bulk_job, unstarted_workers>>
        /\ \/ UNCHANGED worker_state
           \/ StopJobOnWorker(w, "IDLE", "free")
           \/ StopJobOnWorker(w, "UNREGISTERED", "free")
           \/ StopJobOnWorker(w, "UNREGISTERED", "start")
    BY SMTT(30), <1>3 DEF FinishedJob, UnregisterWorker, PingerRemove, TimeoutRemove,
                StartRemove, remove_worker, bulkVars, assignVars, countVars,
                failureVars, jobVars, startVars
  <2>2. /\ \/ received' = received
           \/ received' = [received EXCEPT ![w] = {}]
        /\ \A v \in Workers : proc'[v] = "ready" => proc[v] = "ready"
    BY <1>3, <1>t DEF FinishedJob, UnregisterWorker, PingerRemove,
                      TimeoutRemove, StartRemove, procVars
  <2>3. \/ UNCHANGED worker_state
        \/ /\ ~active_bulk_job
           /\ \E then \in {"IDLE", "UNREGISTERED"} :
                worker_state' = [worker_state EXCEPT ![w] = then]
    BY SMTT(30), <2>1, StopStart
  <2>4. ReceivedInv'
    BY SMTT(30), <2>1, <2>2, <2>3, <1>t DEF ReceivedInv
  <2>5. OnlyRunningWorkersHold'
    BY Zenon, <2>1, <2>3 DEF OnlyRunningWorkersHold
  <2>. QED
    BY <2>4, <2>5
<1>4. CASE NextWorkAssign
  <2>. DEFINE w == cs.worker
              jt == Refilled[Len(Refilled)]
  <2>1. /\ w \in Workers /\ worker_state[w] = "RUNNING_JOB"
        /\ proc[w] = "running"
        /\ UNCHANGED <<worker_state, active_bulk_job, proc, received, reported,
                       blacklisted_jobs, unstarted_workers>>
    BY SMTT(30), <1>4 DEF NextWorkAssign, HolderInv, jobVars, procVars, failureVars,
                startVars
  <2>2. CASE UNCHANGED <<worker_job_tasks, tracked, cs>>
    BY <2>1, <2>2 DEF ReceivedInv, OnlyRunningWorkersHold
  <2>3. CASE /\ worker_job_tasks' =
                  [worker_job_tasks EXCEPT ![w] = @ \cup {jt}]
             /\ tracked' = tracked \cup {w}
    <3>1. ReceivedInv'
      BY <2>1, <2>3, <1>t DEF ReceivedInv
    <3>2. OnlyRunningWorkersHold'
      BY SMTT(30), <2>1, <2>3, <1>t DEF OnlyRunningWorkersHold
    <3>. QED
      BY Zenon, <3>1, <3>2
  <2>. QED
    BY <1>4, <2>2, <2>3 DEF NextWorkAssign
<1>5. CASE NextWorkReply
  <2>1. /\ UNCHANGED <<worker_job_tasks, tracked, worker_state, reported,
                       blacklisted_jobs, active_bulk_job, unstarted_workers>>
        /\ cs.op = "NextWork" /\ cs.worker \in Workers
        /\ proc[cs.worker] = "running"
        /\ worker_state[cs.worker] = "RUNNING_JOB"
        /\ cs.tasks \subseteq worker_job_tasks[cs.worker]
        /\ cs.tasks # {} => cs.worker \in tracked
    BY <1>5 DEF NextWorkReply, HolderInv, assignVars, failureVars, jobVars,
                startVars
  <2>2. /\ \/ received' = received
           \/ received' =
                [received EXCEPT ![cs.worker] = @ \cup cs.tasks]
        /\ \A v \in Workers : proc'[v] = "ready" => proc[v] = "ready"
    BY <1>5, <1>t DEF NextWorkReply
  <2>3. ReceivedInv'
    <3>1. CASE received' = received
      BY SMTT(30), <3>1, <2>1, <2>2 DEF ReceivedInv
    <3>2. CASE received' = [received EXCEPT ![cs.worker] = @ \cup cs.tasks]
      <4>1. /\ \A v \in Workers : v # cs.worker => received'[v] = received[v]
            /\ received'[cs.worker] = received[cs.worker] \cup cs.tasks
        BY <3>2, <2>1, <1>t
      <4>. QED
        BY SMTT(30), <4>1, <2>1, <2>2 DEF ReceivedInv
    <3>. QED
      BY Zenon, <2>2, <3>1, <3>2
  <2>4. OnlyRunningWorkersHold'
    BY SMTT(30), <2>1 DEF OnlyRunningWorkersHold
  <2>. QED
    BY <2>3, <2>4
<1>6. CASE FinishedWorkThrows \/ FinishedWorkReply
  <2>1. UNCHANGED <<worker_job_tasks, tracked, worker_state, reported,
                    blacklisted_jobs, active_bulk_job, unstarted_workers>>
    BY SMTT(30), <1>6 DEF FinishedWorkThrows, FinishedWorkReply, bulkVars, assignVars,
                countVars, failureVars, jobVars, startVars
  <2>2. /\ \A v \in Workers : received'[v] \subseteq received[v]
        /\ \A v \in Workers : proc'[v] = "ready" => proc[v] = "ready"
    BY ZenonT(40), <1>6, <1>t DEF FinishedWorkThrows, FinishedWorkReply
  <2>3. ReceivedInv'
    BY Zenon, <2>1, <2>2 DEF ReceivedInv
  <2>4. OnlyRunningWorkersHold'
    BY <2>1 DEF OnlyRunningWorkersHold
  <2>. QED
    BY <2>3, <2>4
<1>7. ASSUME NEW jt \in Tasks, FinishedWorkTask(jt)
      PROVE  ReceivedInv' /\ OnlyRunningWorkersHold'
  <2>. DEFINE w == cs.worker
  <2>1. /\ w \in Workers /\ w \in tracked /\ jt \in received[w]
        /\ UNCHANGED <<tracked, worker_state, blacklisted_jobs,
                       active_bulk_job, proc, received, unstarted_workers>>
        /\ worker_job_tasks' = [worker_job_tasks EXCEPT ![w] = @ \ {jt}]
        /\ reported' = IF Counted(jt) THEN reported \cup {jt} ELSE reported
    BY <1>7 DEF FinishedWorkTask, HolderInv, failureVars, procVars, countVars,
                startVars
  <2>2. jt \in reported' \/ jt[1] \in blacklisted_jobs
    <3>1. CASE jt \in worker_job_tasks[w]
      BY <2>1, <3>1 DEF HeldInv, ActiveInv, Counted
    <3>2. CASE jt \notin worker_job_tasks[w]
      BY <2>1, <3>2 DEF ReceivedInv
    <3>. QED
      BY <3>1, <3>2
  <2>3. ReceivedInv'
    BY <2>1, <2>2, <1>t DEF ReceivedInv
  <2>4. OnlyRunningWorkersHold'
    BY <2>1, <1>t DEF OnlyRunningWorkersHold
  <2>. QED
    BY <2>3, <2>4
<1>8. ASSUME NEW jt \in Tasks, StopTask(jt)
      PROVE  ReceivedInv' /\ OnlyRunningWorkersHold'
  <2>1. /\ UNCHANGED <<worker_job_tasks, tracked, worker_state, reported,
                       active_bulk_job, proc, received, unstarted_workers>>
        /\ blacklisted_jobs \subseteq blacklisted_jobs'
    BY <1>8 DEF StopTask, procVars, startVars
  <2>. QED
    BY Zenon, <2>1, HoldsFrame
<1>9. CASE StopEnd
  <2>1. /\ cs.worker \in Workers
        /\ worker_job_tasks' = [worker_job_tasks EXCEPT ![cs.worker] = {}]
        /\ tracked' = tracked \ {cs.worker}
        /\ \E then \in {"IDLE", "UNREGISTERED"} :
             worker_state' = [worker_state EXCEPT ![cs.worker] = then]
        /\ UNCHANGED <<reported, blacklisted_jobs, active_bulk_job, proc,
                       received, unstarted_workers>>
    BY ZenonT(40), <1>9, <1>t DEF StopEnd, EraseEntry, HolderInv, HolderTypeOK, failureVars,
                      countVars, jobVars, procVars
  <2>2. ReceivedInv'
    BY <2>1, <1>t DEF ReceivedInv
  <2>3. OnlyRunningWorkersHold'
    BY <2>1, <1>t DEF OnlyRunningWorkersHold
  <2>. QED
    BY <2>2, <2>3
<1>10. CASE ProcessJobEnd \/ ProcessJobNoWorkers
  <2>1. UNCHANGED <<assignVars, failureVars, reported, active_bulk_job,
                    worker_state, procVars, startVars>>
    BY ZenonT(40), <1>10 DEF ProcessJobEnd, ProcessJobNoWorkers, FinishedFn
  <2>2. /\ UNCHANGED <<worker_job_tasks, tracked, worker_state, reported, proc,
                       received, unstarted_workers, blacklisted_jobs,
                       active_bulk_job>>
    BY <2>1 DEF assignVars, failureVars, procVars, startVars
  <2>. QED
    BY <2>2, HoldsFrame
<1>11. CASE ClearActive \/ TriggerShutdown \/ StartShutdown
  <2>1. /\ UNCHANGED <<worker_job_tasks, tracked, worker_state, reported,
                       blacklisted_jobs, proc, received, unstarted_workers>>
        /\ active_bulk_job' => active_bulk_job
    <3>1. CASE ClearActive
      BY <3>1 DEF ClearActive, bulkVars, assignVars, failureVars,
                    countVars, procVars, startVars
    <3>2. CASE TriggerShutdown
      BY <3>2 DEF TriggerShutdown, bulkVars, assignVars, failureVars,
                    countVars, procVars, startVars
    <3>3. CASE StartShutdown
      BY <3>3 DEF StartShutdown, bulkVars, assignVars, failureVars,
                    countVars, procVars, startVars
    <3>. QED
      BY Zenon, <1>11, <3>1, <3>2, <3>3
  <2>. QED
    BY <2>1, HoldsFrame
<1>12. CASE UNCHANGED vars
  <2>1. /\ UNCHANGED <<worker_job_tasks, tracked, worker_state, reported, proc,
                       received, unstarted_workers, blacklisted_jobs,
                       active_bulk_job>>
    BY <1>12 DEF vars, bulkVars, assignVars, failureVars, countVars, procVars,
                 jobVars, startVars
  <2>. QED
    BY <2>1, HoldsFrame
<1>. QED
  BY <1>0, <1>1, <1>2, <1>3, <1>4, <1>5, <1>6, <1>7, <1>8, <1>9, <1>10, <1>11,
     <1>12
  DEF Next, HandlerStep

=============================================================================
