------------------------------ MODULE BulkJob ------------------------------
(***************************************************************************)
(* The task scheduler of the master (scanner/engine/master.cpp): how the   *)
(* tasks of one bulk job are created, handed to workers, reported back,    *)
(* taken away from workers that fail, blacklisted, and counted until the   *)
(* bulk job is finished and its tables are committed.                      *)
(*                                                                         *)
(* The handlers NextWork, FinishedWork, FinishedJob, UnregisterWorker, the *)
(* pinger and the task timeout all run under work_mutex_.  A handler that  *)
(* loops is modelled by one step per iteration; the variable cs holds the  *)
(* loop's state and stands for work_mutex_, so that no other handler runs  *)
(* between two iterations.                                                 *)
(*                                                                         *)
(* process_job runs beside them: it sends NewJob without the mutex, and     *)
(* takes it again to record the answers.                                   *)
(*                                                                         *)
(* Workers are node ids: the master never reuses one (next_worker_id_++),  *)
(* a process that registers again is a new element.  A worker's side of a  *)
(* call is synchronous (GRPC_BACKOFF, no deadline), so a call is one       *)
(* handler run; its reply may be lost, and is then sent again.             *)
(***************************************************************************)
EXTENDS Integers, Sequences, FiniteSets

CONSTANTS
  Workers,                        \* node ids
  NumJobs,                        \* state->num_jobs
  JobSize,                        \* state->job_tasks[j].size(), per job
  TOTAL_FAILURES_BEFORE_REMOVAL,  \* master.cpp:2114
  CheckpointFrequency,            \* job_params.checkpoint_frequency()
  QueueDepth,                     \* pipeline instances * tasks_in_queue_per_pu
  Late,                           \* workers that register during the bulk job
  Faulty,                         \* workers that may crash or fail the job
  PingsMayFail,                   \* calls to a live faulty worker may fail
  Slow,                           \* workers whose tasks may pass task_timeout
  MayShutdown,                    \* the master may be told to shut down
  MaxLost                         \* bound: replies lost to UNAVAILABLE

Jobs  == 0 .. NumJobs - 1
Tasks == UNION {{j} \X (0 .. JobSize[j] - 1) : j \in Jobs}
TasksOf(j) == {jt \in Tasks : jt[1] = j}

ASSUME ConstantsAssumption ==
  /\ IsFiniteSet(Workers)
  /\ NumJobs \in Nat
  /\ JobSize \in [Jobs -> Nat]
  /\ TOTAL_FAILURES_BEFORE_REMOVAL \in Nat \ {0}
  /\ CheckpointFrequency \in Nat \ {0}
  /\ QueueDepth \in Nat \ {0}
  /\ Late \subseteq Workers
  /\ Faulty \subseteq Workers
  /\ PingsMayFail \in BOOLEAN
  /\ Slow \subseteq Workers
  /\ MayShutdown \in BOOLEAN
  /\ MaxLost \in Nat

VARIABLES
  \* BulkJob (master.h), for the active bulk job
  next_job, next_task, num_tasks,
  to_assign_job_tasks,      \* deque of tasks to hand out; the back goes first
  active_job_tasks,         \* created, not yet counted as finished
  worker_job_tasks,         \* per worker, the tasks assigned to it
  tracked,                  \* the keys of the map worker_job_tasks
  worker_job_tasks_starts,  \* keys of the map of start times
  job_tasks_num_failures, blacklisted_jobs,
  tasks_used_per_job, total_tasks_used,
  unstarted_workers,        \* registered since the last NewJob calls
  unfinished_workers,       \* the map, "absent" for a worker not in it
  \* start_job_on_workers: in progress, and the NewJob call of each worker
  starting, new_jobs,
  \* MasterServerImpl
  worker_state,             \* workers_[w]->state
  active_bulk_job, finished, trigger_shutdown,
  job_result,               \* how process_job returned
  committed, stored,        \* committed tables: in meta_, and on disk
  armed,                    \* the calls with a request outstanding on cq_
  cs,                       \* work_mutex_ and the loop of its holder
  \* the worker processes
  proc, received, lost,
  \* history: the tasks whose report was counted
  reported

samplerVars == <<next_job, next_task, num_tasks>>
assignVars  == <<to_assign_job_tasks, worker_job_tasks, tracked,
                 worker_job_tasks_starts>>
failureVars == <<job_tasks_num_failures, blacklisted_jobs>>
countVars   == <<active_job_tasks, tasks_used_per_job, total_tasks_used,
                 reported>>
bulkVars    == <<samplerVars, assignVars, failureVars, countVars>>
startVars   == <<unstarted_workers, unfinished_workers, starting, new_jobs>>
tableVars   == <<committed, stored>>
jobVars     == <<active_bulk_job, finished, trigger_shutdown, job_result>>
procVars    == <<proc, received, lost>>
vars        == <<bulkVars, startVars, tableVars, jobVars, worker_state, armed,
                 cs, procVars>>

total_tasks == Cardinality(Tasks)

NoWorker == "no worker"
\* work_mutex_ is free
Free == [op |-> "free", worker |-> NoWorker, tasks |-> {}, batch |-> {},
         num |-> 0, then |-> "IDLE", next |-> "free"]

\* ABSENT: the id is not in workers_ yet
WorkerStates == {"ABSENT", "IDLE", "RUNNING_JOB", "UNREGISTERED"}
\* ready: registered, waits for NewJob; draining: told no_more_work; failed:
\* left process_job with an error; hung: waits for a reply that never comes
ProcStates   == {"ready", "running", "draining", "failed", "done", "hung",
                 "dead"}

Calls == {"NextWork", "FinishedWork", "FinishedJob", "UnregisterWorker",
          "RegisterWorker"}

QueueTypeOK ==
  /\ next_job \in 0 .. NumJobs
  /\ next_task \in Nat /\ num_tasks \in Nat
  /\ to_assign_job_tasks \in Seq(Tasks)
  /\ worker_job_tasks \in [Workers -> SUBSET Tasks]
  /\ tracked \subseteq Workers
  /\ worker_job_tasks_starts \subseteq Workers \X Tasks

CountTypeOK ==
  /\ active_job_tasks \subseteq Tasks
  /\ job_tasks_num_failures \in [Tasks -> Nat]
  /\ blacklisted_jobs \subseteq Jobs
  /\ tasks_used_per_job \in [Jobs -> Nat]
  /\ total_tasks_used \in Int
  /\ reported \subseteq Tasks

MasterTypeOK ==
  /\ worker_state \in [Workers -> WorkerStates]
  /\ active_bulk_job \in BOOLEAN
  /\ finished \in BOOLEAN
  /\ trigger_shutdown \in BOOLEAN
  /\ job_result \in {"none", "success", "no workers", "shutdown"}
  /\ committed \subseteq Jobs
  /\ stored \subseteq Jobs
  /\ armed \subseteq Calls

HolderTypeOK ==
  cs \in [op : {"free", "NextWork", "FinishedWork", "stop", "start"},
          worker : Workers \cup {NoWorker}, tasks : SUBSET Tasks,
          batch : SUBSET Tasks, num : 0 .. QueueDepth,
          then : {"IDLE", "UNREGISTERED"}, next : {"free", "start"}]

StartTypeOK ==
  /\ unstarted_workers \subseteq Workers
  /\ unfinished_workers \in [Workers -> {"absent", "unfinished", "finished"}]
  /\ starting \in BOOLEAN
  /\ new_jobs \in [Workers -> {"none", "sent", "valid", "invalid"}]

ProcTypeOK ==
  /\ proc \in [Workers -> ProcStates]
  /\ received \in [Workers -> SUBSET Tasks]
  /\ lost \in 0 .. MaxLost

\* Every variable keeps its type; in particular the sampler never runs past
\* the last job and only tasks of the bulk job are queued, held or reported.
TypeOK ==
  /\ QueueTypeOK /\ CountTypeOK /\ MasterTypeOK /\ HolderTypeOK
  /\ StartTypeOK /\ ProcTypeOK

----------------------------------------------------------------------------
(* Faulty variants of definitions below, each a bug the code could have: a  *)
(* property is worth checking if substituting one makes TLC find a          *)
(* violation.  No specification uses them.                                  *)

Fault_NotRequestedAgain(call)  == armed' = armed \ {call}
Fault_ReportsNotMatched(jt)    == jt[1] \notin blacklisted_jobs
Fault_ComparesTooEarly(jt)     == /\ jt \in active_job_tasks
                                  /\ tasks_used_per_job[jt[1]] = JobSize[jt[1]]
Fault_StateKept(w, then, next) ==
  /\ cs' = IF active_bulk_job
             THEN [Free EXCEPT !.op = "stop", !.worker = w, !.then = then,
                               !.tasks = worker_job_tasks[w], !.next = next]
             ELSE cs
  /\ UNCHANGED worker_state
Fault_NotRequeued(jt)          == to_assign_job_tasks
Fault_WholeJobCounted(j)       == JobSize[j]
Fault_EntryKept(w)             == worker_job_tasks
Fault_ReturnsToIdle(w)         == FALSE
Fault_NotWritten               == stored
Fault_NotRecorded              == unfinished_workers

----------------------------------------------------------------------------
(* The bulk job as it is when process_job has sent NewJob to the workers    *)
(* that were idle                                                           *)

Init ==
  /\ next_job = 0 /\ next_task = 0 /\ num_tasks = 0
  /\ to_assign_job_tasks = <<>>
  /\ active_job_tasks = {}
  /\ worker_job_tasks = [w \in Workers |-> {}]
  /\ tracked = {}
  /\ worker_job_tasks_starts = {}
  /\ job_tasks_num_failures = [jt \in Tasks |-> 0]
  /\ blacklisted_jobs = {}
  /\ tasks_used_per_job = [j \in Jobs |-> 0]
  /\ total_tasks_used = 0
  /\ unstarted_workers = {}
  /\ unfinished_workers = [w \in Workers |-> "absent"]
  /\ starting = TRUE
  /\ new_jobs = [w \in Workers |-> IF w \in Late THEN "none" ELSE "sent"]
  /\ worker_state = [w \in Workers |-> IF w \in Late THEN "ABSENT"
                                                     ELSE "RUNNING_JOB"]
  /\ active_bulk_job = TRUE
  /\ finished = FALSE /\ trigger_shutdown = FALSE
  /\ job_result = "none"
  /\ committed = {} /\ stored = {}
  /\ armed = Calls
  /\ cs = Free
  /\ proc = [w \in Workers |-> "ready"]
  /\ received = [w \in Workers |-> {}]
  /\ lost = 0
  /\ reported = {}

\* REQUEST_RPC: a handler asks for the next call of its kind, unless the
\* master is shutting down
REQUEST_RPC(call) ==
  armed' = IF trigger_shutdown THEN armed \ {call} ELSE armed

----------------------------------------------------------------------------
(* Workers that register, and start_job_on_workers *)

RegisterWorker(w) ==
  /\ cs.op = "free" /\ "RegisterWorker" \in armed
  /\ worker_state[w] = "ABSENT"
  /\ worker_state' = [worker_state EXCEPT ![w] = "IDLE"]
  /\ unstarted_workers' = IF active_bulk_job THEN unstarted_workers \cup {w}
                                             ELSE unstarted_workers
  /\ REQUEST_RPC("RegisterWorker")
  /\ UNCHANGED <<bulkVars, unfinished_workers, starting, new_jobs, tableVars,
                 jobVars, cs, procVars>>

\* The wait loop of process_job starts the workers that registered: those
\* still idle become RUNNING_JOB and are sent NewJob.
StartJobOnWorkers ==
  LET started == {w \in unstarted_workers : worker_state[w] = "IDLE"}
  IN
  /\ cs.op = "free"
  /\ job_result = "none" /\ ~starting
  /\ unstarted_workers # {}
  /\ unstarted_workers' = {}
  /\ starting' = TRUE
  /\ new_jobs' = [w \in Workers |-> IF w \in started THEN "sent" ELSE "none"]
  /\ worker_state' = [w \in Workers |-> IF w \in started THEN "RUNNING_JOB"
                                                         ELSE worker_state[w]]
  /\ UNCHANGED <<bulkVars, unfinished_workers, tableVars, jobVars, armed, cs,
                 procVars>>

\* The answer to NewJob.  If it is lost, the call that is sent again finds the
\* worker running a job; a call that never arrives fails in the end.
NewJobReply(w) ==
  /\ new_jobs[w] = "sent"
  /\ \/ /\ proc[w] = "ready"
        /\ proc' = [proc EXCEPT ![w] = "running"]
        /\ \/ /\ new_jobs' = [new_jobs EXCEPT ![w] = "valid"]
              /\ UNCHANGED lost
           \/ /\ lost < MaxLost
              /\ lost' = lost + 1
              /\ new_jobs' = [new_jobs EXCEPT ![w] = "invalid"]
     \/ /\ proc[w] = "dead" \/ (PingsMayFail /\ w \in Faulty)
        /\ new_jobs' = [new_jobs EXCEPT ![w] = "invalid"]
        /\ UNCHANGED <<proc, lost>>
  /\ UNCHANGED <<bulkVars, unstarted_workers, unfinished_workers, starting,
                 tableVars, jobVars, worker_state, armed, cs, received>>

\* Every call was answered, and start_job_on_workers holds work_mutex_ again.
AllAnswered ==
  /\ cs.op \in {"free", "start"}
  /\ starting /\ \A w \in Workers : new_jobs[w] # "sent"

----------------------------------------------------------------------------
(* NextWorkHandler *)

\* Only a worker that runs the job may be given work.
RunsJob(w) == worker_state[w] = "RUNNING_JOB"

\* A worker asks for as much work as its queues have room for.  One that
\* does not run the job is told to stop.
NextWork(w) ==
  LET num_work == QueueDepth - Cardinality(received[w])
  IN
  /\ cs.op = "free" /\ "NextWork" \in armed
  /\ proc[w] = "running" /\ num_work > 0
  /\ IF RunsJob(w)
       THEN /\ cs' = [Free EXCEPT !.op = "NextWork", !.worker = w,
                                  !.num = num_work]
            /\ UNCHANGED <<proc, armed>>
       ELSE /\ proc' = [proc EXCEPT ![w] = "draining"]
            /\ REQUEST_RPC("NextWork")
            /\ UNCHANGED cs
  /\ UNCHANGED <<bulkVars, startVars, tableVars, jobVars, worker_state, received, lost>>

\* With nothing to assign, the sampler moves on to the next job, once per
\* iteration: a job without tasks yields nothing this time.
AdvanceJob ==
  to_assign_job_tasks = <<>> /\ next_task = num_tasks /\ next_job < NumJobs
SampledTask == IF AdvanceJob THEN 0 ELSE next_task
SampledSize == IF AdvanceJob THEN JobSize[next_job] ELSE num_tasks
SampledJob  == IF AdvanceJob THEN next_job + 1 ELSE next_job
CreateTask  == to_assign_job_tasks = <<>> /\ SampledTask < SampledSize
CreatedTask == <<SampledJob - 1, SampledTask>>

\* to_assign_job_tasks after the refill at the head of the loop
Refilled == IF CreateTask THEN <<CreatedTask>> ELSE to_assign_job_tasks

SampleTask ==
  /\ next_job' = SampledJob
  /\ num_tasks' = SampledSize
  /\ next_task' = IF CreateTask THEN SampledTask + 1 ELSE SampledTask
  /\ active_job_tasks' = IF CreateTask THEN active_job_tasks \cup {CreatedTask}
                                       ELSE active_job_tasks

\* One iteration that pops a task: it goes to the worker, or is thrown away
\* if its job was blacklisted.
NextWorkAssign ==
  LET w  == cs.worker
      jt == Refilled[Len(Refilled)]
  IN
  /\ cs.op = "NextWork" /\ cs.num > 0
  /\ Refilled # <<>>
  /\ SampleTask
  /\ to_assign_job_tasks' = SubSeq(Refilled, 1, Len(Refilled) - 1)
  /\ IF jt[1] \in blacklisted_jobs
       THEN UNCHANGED <<worker_job_tasks, tracked, worker_job_tasks_starts, cs>>
       ELSE /\ worker_job_tasks' =
                 [worker_job_tasks EXCEPT ![w] = @ \cup {jt}]
            /\ tracked' = tracked \cup {w}
            /\ worker_job_tasks_starts' =
                 worker_job_tasks_starts \cup {<<w, jt>>}
            /\ cs' = [cs EXCEPT !.num = @ - 1, !.tasks = @ \cup {jt}]
  /\ UNCHANGED <<failureVars, tasks_used_per_job, total_tasks_used, reported,
                 startVars, tableVars, jobVars, worker_state, armed, procVars>>

\* Leaving the loop, with all the work asked for or with nothing left to hand
\* out.  An empty reply says no_more_work if the bulk job is finished, else
\* wait_for_work.  If the reply is lost the worker asks again.
NextWorkReply ==
  LET w == cs.worker
  IN
  /\ cs.op = "NextWork"
  /\ IF cs.num = 0 THEN UNCHANGED <<samplerVars, active_job_tasks>>
                   ELSE Refilled = <<>> /\ SampleTask
  /\ cs' = Free
  /\ REQUEST_RPC("NextWork")
  /\ \/ /\ received' = [received EXCEPT ![w] = @ \cup cs.tasks]
        /\ proc' = [proc EXCEPT ![w] =
                      IF cs.tasks = {} /\ finished THEN "draining" ELSE @]
        /\ UNCHANGED lost
     \/ /\ lost < MaxLost
        /\ lost' = lost + 1
        /\ UNCHANGED <<received, proc>>
  /\ UNCHANGED <<assignVars, failureVars, tasks_used_per_job,
                 total_tasks_used, reported, startVars, tableVars, jobVars,
                 worker_state>>

----------------------------------------------------------------------------
(* FinishedWorkHandler *)

\* A worker reports a batch of tasks it has saved.
FinishedWork(w, batch) ==
  /\ cs.op = "free" /\ "FinishedWork" \in armed
  /\ proc[w] \in {"running", "draining"}
  /\ batch # {} /\ batch \subseteq received[w]
  /\ cs' = [Free EXCEPT !.op = "FinishedWork", !.worker = w,
                        !.tasks = batch, !.batch = batch]
  /\ UNCHANGED <<bulkVars, startVars, tableVars, jobVars, worker_state, armed, procVars>>

\* worker_job_tasks.at(worker_id) throws when the worker was stopped.  The
\* thread pool drops the exception with the future that holds it: the call is
\* never answered, and FinishedWork never requested again.
FinishedWorkThrows ==
  /\ cs.op = "FinishedWork" /\ cs.tasks # {}
  /\ cs.worker \notin tracked
  /\ armed' = armed \ {"FinishedWork"}
  /\ proc' = [proc EXCEPT ![cs.worker] = "hung"]
  /\ cs' = Free
  /\ UNCHANGED <<bulkVars, startVars, tableVars, jobVars, worker_state, received, lost>>

\* Only the first report of a task is counted, and none of a blacklisted job.
Counted(jt) == jt[1] \notin blacklisted_jobs /\ jt \in active_job_tasks

\* The report of jt is the last one of its job.
CompletesJob(jt) ==
  Counted(jt) /\ tasks_used_per_job[jt[1]] + 1 = JobSize[jt[1]]

\* Every task of the bulk job is reported or blacklisted: finished_ is set.
AllTasksUsed(used) == used = total_tasks

\* The keys of worker_job_tasks_starts without the one of jt on w
EraseStart(w, jt) == worker_job_tasks_starts \ {<<w, jt>>}

\* One work id of the report: the task leaves the worker and, if its job was
\* not blacklisted and this is its first report, it is counted; the last task
\* of a job commits the job's table, and writes the metadata every so often.
FinishedWorkTask(jt) ==
  LET w == cs.worker
      j == jt[1]
  IN
  /\ cs.op = "FinishedWork" /\ jt \in cs.tasks
  /\ w \in tracked
  /\ worker_job_tasks' = [worker_job_tasks EXCEPT ![w] = @ \ {jt}]
  /\ worker_job_tasks_starts' = EraseStart(w, jt)
  /\ IF Counted(jt)
       THEN /\ active_job_tasks' = active_job_tasks \ {jt}
            /\ total_tasks_used' = total_tasks_used + 1
            /\ tasks_used_per_job' = [tasks_used_per_job EXCEPT ![j] = @ + 1]
            /\ reported' = reported \cup {jt}
       ELSE UNCHANGED countVars
  /\ committed' = IF CompletesJob(jt) THEN committed \cup {j} ELSE committed
  /\ stored' = IF CompletesJob(jt) /\ j % CheckpointFrequency = 0
                 THEN committed' ELSE stored
  /\ finished' = (finished \/ AllTasksUsed(total_tasks_used'))
  /\ cs' = [cs EXCEPT !.tasks = @ \ {jt}]
  /\ UNCHANGED <<samplerVars, to_assign_job_tasks, tracked, failureVars,
                 active_bulk_job, trigger_shutdown, job_result, worker_state,
                 armed, startVars, procVars>>

\* If the acknowledgement is lost the worker reports the same batch again.
FinishedWorkReply ==
  LET w == cs.worker
  IN
  /\ cs.op = "FinishedWork" /\ cs.tasks = {}
  /\ cs' = Free
  /\ REQUEST_RPC("FinishedWork")
  /\ \/ /\ received' = [received EXCEPT ![w] = @ \ cs.batch]
        /\ UNCHANGED lost
     \/ /\ lost < MaxLost
        /\ lost' = lost + 1
        /\ UNCHANGED received
  /\ UNCHANGED <<bulkVars, startVars, tableVars, jobVars, worker_state, proc>>

----------------------------------------------------------------------------
(* stop_job_on_worker, remove_worker and blacklist_job *)

\* stop_job_on_worker(w), then workers_[w]->state = then, then on with next.
\* Outside an active bulk job only the state is set.
StopJobOnWorker(w, then, next) ==
  IF active_bulk_job
    THEN /\ cs' = [Free EXCEPT !.op = "stop", !.worker = w, !.then = then,
                               !.tasks = worker_job_tasks[w], !.next = next]
         /\ UNCHANGED worker_state
    ELSE /\ worker_state' = [worker_state EXCEPT ![w] = then]
         /\ UNCHANGED cs

remove_worker(w) == StopJobOnWorker(w, "UNREGISTERED", "free")

\* The order of the std::set of (job, task) tuples
Before(s, t) == s[1] < t[1] \/ (s[1] = t[1] /\ s[2] < t[2])

\* A reassigned task goes to the end that NextWork takes from.
Requeue(jt) == Append(to_assign_job_tasks, jt)

\* Blacklisting a job counts the tasks left in it as used.
TasksLeft(j) == JobSize[j] - tasks_used_per_job[j]

\* One iteration of the loop of stop_job_on_worker: the task goes back to the
\* queue and its failure is counted; the third failure blacklists its job.
StopTask(jt) ==
  LET j         == jt[1]
      failures  == job_tasks_num_failures[jt] + 1
      blacklist == /\ failures >= TOTAL_FAILURES_BEFORE_REMOVAL
                   /\ j \notin blacklisted_jobs
  IN
  /\ cs.op = "stop" /\ jt \in cs.tasks
  /\ \A other \in cs.tasks \ {jt} : Before(jt, other)
  /\ to_assign_job_tasks' = Requeue(jt)
  /\ worker_job_tasks_starts' = EraseStart(cs.worker, jt)
  /\ job_tasks_num_failures' =
       [job_tasks_num_failures EXCEPT ![jt] = failures]
  /\ IF blacklist
       THEN /\ blacklisted_jobs' = blacklisted_jobs \cup {j}
            /\ active_job_tasks' = active_job_tasks \ TasksOf(j)
            /\ total_tasks_used' = total_tasks_used + TasksLeft(j)
            /\ finished' = (finished \/ AllTasksUsed(total_tasks_used'))
       ELSE UNCHANGED <<blacklisted_jobs, active_job_tasks, total_tasks_used,
                        finished>>
  /\ cs' = [cs EXCEPT !.tasks = @ \ {jt}]
  /\ UNCHANGED <<samplerVars, worker_job_tasks, tracked, tasks_used_per_job,
                 reported, tableVars, active_bulk_job, trigger_shutdown,
                 job_result, worker_state, armed, startVars,
                 procVars>>

\* worker_job_tasks.erase(worker_id)
EraseEntry(w) == [worker_job_tasks EXCEPT ![w] = {}]

\* After the loop the worker's entry is erased, it is not waited for any more,
\* and its state is set.
StopEnd ==
  LET w == cs.worker
  IN
  /\ cs.op = "stop" /\ cs.tasks = {}
  /\ worker_job_tasks' = EraseEntry(w)
  /\ tracked' = tracked \ {w}
  /\ unfinished_workers' = [unfinished_workers EXCEPT ![w] = "finished"]
  /\ worker_state' = [worker_state EXCEPT ![w] = cs.then]
  /\ cs' = [Free EXCEPT !.op = cs.next]
  /\ UNCHANGED <<samplerVars, to_assign_job_tasks, worker_job_tasks_starts,
                 failureVars, countVars, unstarted_workers, starting, new_jobs,
                 tableVars, jobVars, armed, procVars>>

----------------------------------------------------------------------------
(* The callers of stop_job_on_worker and remove_worker *)

\* start_job_on_workers removes the workers that did not accept the job
StartRemove(w) ==
  /\ AllAnswered
  /\ new_jobs[w] = "invalid"
  /\ new_jobs' = [new_jobs EXCEPT ![w] = "none"]
  /\ StopJobOnWorker(w, "UNREGISTERED", "start")
  /\ UNCHANGED <<bulkVars, unstarted_workers, unfinished_workers, starting,
                 tableVars, jobVars, armed, procVars>>

\* The workers that accepted the job are waited for.
Recorded ==
  [w \in Workers |-> IF new_jobs[w] = "valid" THEN "unfinished"
                                              ELSE unfinished_workers[w]]

\* and records the others.
StartDone ==
  /\ AllAnswered
  /\ \A w \in Workers : new_jobs[w] # "invalid"
  /\ unfinished_workers' = Recorded
  /\ new_jobs' = [w \in Workers |-> "none"]
  /\ starting' = FALSE
  /\ cs' = Free
  /\ UNCHANGED <<bulkVars, unstarted_workers, tableVars, jobVars, worker_state,
                 armed, procVars>>

\* A removed worker's FinishedJob changes nothing but unfinished_workers.
Removed(w) == worker_state[w] = "UNREGISTERED"

\* A worker that drained its pipeline succeeded; one that leaves process_job
\* with an error abandons the tasks it holds.
LeavesJob(w, as) ==
  \/ as = "done" /\ proc[w] = "draining" /\ received[w] = {}
  \/ as = "failed" /\ proc[w] \in {"running", "draining"} /\ w \in Faulty

\* FinishedJobHandler
FinishedJob(w) ==
  /\ cs.op = "free" /\ "FinishedJob" \in armed
  /\ \E as \in {"done", "failed"} :
       LeavesJob(w, as) /\ proc' = [proc EXCEPT ![w] = as]
  /\ unfinished_workers[w] # "absent"
  /\ unfinished_workers' = [unfinished_workers EXCEPT ![w] = "finished"]
  /\ IF Removed(w)
       THEN UNCHANGED <<worker_state, cs>>
       ELSE StopJobOnWorker(w, "IDLE", "free")
  /\ REQUEST_RPC("FinishedJob")
  /\ received' = [received EXCEPT ![w] = {}]
  /\ UNCHANGED <<bulkVars, unstarted_workers, starting, new_jobs, tableVars,
                 jobVars, lost>>

\* unfinished_workers.at(worker_id) throws while start_job_on_workers waits for
\* the answers of other workers: like FinishedWorkThrows.
FinishedJobThrows(w) ==
  /\ cs.op = "free" /\ "FinishedJob" \in armed
  /\ \E as \in {"done", "failed"} : LeavesJob(w, as)
  /\ unfinished_workers[w] = "absent"
  /\ armed' = armed \ {"FinishedJob"}
  /\ proc' = [proc EXCEPT ![w] = "hung"]
  /\ received' = [received EXCEPT ![w] = {}]
  /\ UNCHANGED <<bulkVars, startVars, tableVars, jobVars, worker_state, cs,
                 lost>>

\* UnregisterWorkerHandler, called by a process whose job failed, before it
\* registers again under another id, or that was told to shut down
UnregisterWorker(w) ==
  /\ cs.op = "free" /\ "UnregisterWorker" \in armed
  /\ worker_state[w] # "ABSENT"
  /\ \/ proc[w] = "failed"
     \/ trigger_shutdown /\ proc[w] \in {"ready", "running", "draining"}
  /\ proc' = [proc EXCEPT ![w] = "dead"]
  /\ received' = [received EXCEPT ![w] = {}]
  /\ remove_worker(w)
  /\ REQUEST_RPC("UnregisterWorker")
  /\ UNCHANGED <<bulkVars, startVars, tableVars, jobVars, lost>>

\* The process of a worker dies with the tasks it holds.  (Dying during a
\* call is dying after its reply.)
WorkerCrash(w) ==
  /\ w \in Faulty
  /\ cs.worker # w
  /\ proc[w] # "dead" /\ worker_state[w] # "ABSENT"
  /\ proc' = [proc EXCEPT ![w] = "dead"]
  /\ received' = [received EXCEPT ![w] = {}]
  /\ UNCHANGED <<bulkVars, startVars, tableVars, jobVars, worker_state, armed, cs, lost>>

\* The pinger removes a worker after three failed pings: its process died, or
\* only the network to it failed.
PingerRemove(w) ==
  /\ cs.op = "free"
  /\ proc[w] = "dead" \/ (PingsMayFail /\ w \in Faulty)
  /\ worker_state[w] \notin {"ABSENT", "UNREGISTERED"}
  /\ remove_worker(w)
  /\ UNCHANGED <<bulkVars, startVars, tableVars, jobVars, armed, procVars>>

\* The wait loop of process_job removes a worker one of whose tasks has been
\* running for longer than task_timeout; its process is not told.
TimeoutRemove(w) ==
  /\ cs.op = "free"
  /\ job_result = "none" /\ ~starting
  /\ w \in Slow
  /\ \E jt \in Tasks : <<w, jt>> \in worker_job_tasks_starts
  /\ remove_worker(w)
  /\ UNCHANGED <<bulkVars, startVars, tableVars, jobVars, armed, procVars>>

----------------------------------------------------------------------------
(* The end of process_job *)

\* finished_fn, up to where it waits for active_mutex_
FinishedFn(result) ==
  /\ job_result' = result
  /\ total_tasks_used' = 0
  /\ finished' = TRUE
  /\ UNCHANGED <<samplerVars, assignVars, failureVars, active_job_tasks,
                 tasks_used_per_job, reported, committed, active_bulk_job,
                 trigger_shutdown, worker_state, armed, cs, startVars,
                 procVars>>

\* write_database_metadata: the tables on disk become those of meta_.
WrittenTables == committed

\* The wait loop of process_job is over: the bulk job is finished, and every
\* worker confirmed it or 60 seconds went by.  The metadata is written, with
\* the bulk job committed unless finished_ was set by a shutdown.
ProcessJobEnd ==
  /\ job_result = "none" /\ ~starting
  /\ finished
  /\ stored' = WrittenTables
  /\ FinishedFn(IF trigger_shutdown THEN "shutdown" ELSE "success")

\* The wait loop sees no worker that runs the job and has yet to finish it.
NoneUnfinished ==
  \A w \in Workers : ~(/\ worker_state[w] = "RUNNING_JOB"
                       /\ unfinished_workers[w] = "unfinished")

\* Unfinished work, and no unfinished worker for no_workers_timeout seconds:
\* the bulk job fails, and the metadata is not written again.
ProcessJobNoWorkers ==
  /\ job_result = "none" /\ ~starting
  /\ ~finished
  /\ cs.op = "free"
  /\ NoneUnfinished
  /\ UNCHANGED stored
  /\ FinishedFn("no workers")

\* The end of finished_fn: active_mutex_ is held by the handlers that report
\* work or stop a worker, so active_bulk_job_ is cleared after them.
ClearActive ==
  /\ active_bulk_job /\ job_result # "none"
  /\ cs.op \notin {"FinishedWork", "stop"}
  /\ active_bulk_job' = FALSE
  /\ UNCHANGED <<bulkVars, startVars, tableVars, finished, trigger_shutdown, job_result,
                 worker_state, armed, cs, procVars>>

\* ShutdownHandler or the watchdog
TriggerShutdown ==
  /\ MayShutdown /\ ~trigger_shutdown
  /\ trigger_shutdown' = TRUE
  /\ UNCHANGED <<bulkVars, startVars, tableVars, active_bulk_job, finished, job_result,
                 worker_state, armed, cs, procVars>>

\* start_shutdown, once the workers were told: finished_ is set so that
\* process_job returns, whether or not the work is done.
StartShutdown ==
  /\ trigger_shutdown /\ ~finished
  /\ finished' = TRUE
  /\ UNCHANGED <<bulkVars, startVars, tableVars, active_bulk_job, trigger_shutdown,
                 job_result, worker_state, armed, cs, procVars>>

----------------------------------------------------------------------------
\* Steps of the holder of work_mutex_
HandlerStep ==
  \/ NextWorkAssign \/ NextWorkReply
  \/ FinishedWorkThrows \/ FinishedWorkReply
  \/ \E jt \in Tasks : FinishedWorkTask(jt) \/ StopTask(jt)
  \/ StopEnd

\* A worker's batches: any of the tasks it was given may be done
ReportWork(w) == \E batch \in SUBSET received[w] : FinishedWork(w, batch)

Next ==
  \/ HandlerStep
  \/ \E w \in Workers :
       \/ RegisterWorker(w)
       \/ NewJobReply(w)
       \/ StartRemove(w)
       \/ NextWork(w)
       \/ ReportWork(w)
       \/ FinishedJob(w)
       \/ FinishedJobThrows(w)
       \/ UnregisterWorker(w)
       \/ WorkerCrash(w)
       \/ PingerRemove(w)
       \/ TimeoutRemove(w)
  \/ StartJobOnWorkers
  \/ StartDone
  \/ ProcessJobEnd
  \/ ProcessJobNoWorkers
  \/ ClearActive
  \/ TriggerShutdown
  \/ StartShutdown

Spec == Init /\ [][Next]_vars

----------------------------------------------------------------------------
(* Properties *)

\* Tasks that the sampler has created
Created == {jt \in Tasks : \/ jt[1] < next_job - 1
                           \/ jt[1] = next_job - 1 /\ jt[2] < next_task}

Queued(jt) == \E i \in 1 .. Len(to_assign_job_tasks) :
                to_assign_job_tasks[i] = jt

\* What w still has to report, as the master sees it: while w is stopped its
\* tasks move one by one from cs to the queue
Holds(w) == IF cs.op = "stop" /\ cs.worker = w THEN cs.tasks
                                               ELSE worker_job_tasks[w]

\* No task is lost: however workers fail, are removed or lose replies, a task
\* that was created, was not reported and was not blacklisted is waiting in
\* to_assign_job_tasks or is assigned to a worker that can still be stopped.
NoTaskLost ==
  \A jt \in Created :
    \/ jt \in reported
    \/ jt[1] \in blacklisted_jobs
    \/ Queued(jt)
    \/ \E w \in tracked : jt \in Holds(w)

\* No task is in two places: it is queued at most once, held by at most one
\* worker, never both, and once its report was counted neither.  The comment
\* at master.cpp:1082 allows for several holders; the reassignment in
\* stop_job_on_worker never makes them.
NoTaskTwice ==
  /\ \A i, k \in 1 .. Len(to_assign_job_tasks) :
       to_assign_job_tasks[i] = to_assign_job_tasks[k] => i = k
  /\ \A v, w \in Workers : v # w => Holds(v) \cap Holds(w) = {}
  /\ \A w \in Workers, jt \in Tasks : jt \in Holds(w) => ~Queued(jt)
  /\ \A jt \in reported :
       ~Queued(jt) /\ \A w \in Workers : jt \notin Holds(w)

\* The counters are exact until process_job returns: a repeated or late
\* report never counts a task twice, and blacklisting a job adds exactly its
\* unreported tasks, so that total_tasks is reached neither early nor never.
CountsExact ==
  /\ \A j \in Jobs :
       tasks_used_per_job[j] = Cardinality(reported \cap TasksOf(j))
  /\ job_result = "none" =>
       total_tasks_used =
         Cardinality({jt \in Tasks : jt \in reported
                                     \/ jt[1] \in blacklisted_jobs})

\* finished_ stops every worker, so it must not be set early: unless
\* process_job gave up or the master is shutting down, every task of every job
\* that was not blacklisted has been reported by then.
FinishedMeansDone ==
  job_result = "none" /\ finished /\ ~trigger_shutdown =>
    \A jt \in Tasks : jt \in reported \/ jt[1] \in blacklisted_jobs

\* FinishedWorkHandler commits a table exactly when the last of its job's
\* tasks is reported, and a job whose table is committed is never blacklisted
\* by the failure of a worker afterwards.
CommittedMeansReported ==
  /\ \A j \in Jobs :
       j \in committed <=> JobSize[j] > 0 /\ TasksOf(j) \subseteq reported
  /\ committed \cap blacklisted_jobs = {}

\* The task timeout removes the worker of any key of worker_job_tasks_starts:
\* the keys are exactly the assignments, so no worker is removed for a task
\* that it reported or that was taken away from it.
StartsMatchAssignments ==
  \A w \in Workers, jt \in Tasks :
    <<w, jt>> \in worker_job_tasks_starts <=> jt \in Holds(w)

\* Tasks are assigned only to workers that run the job; a worker that was
\* removed or that left the job holds none, so that a dead one keeps none.
OnlyRunningWorkersHold ==
  active_bulk_job =>
    \A w \in Workers :
      /\ w \in tracked => worker_state[w] = "RUNNING_JOB"
      /\ w \notin tracked => worker_job_tasks[w] = {}

\* The promise to the client, over the state of the master
Promise == INSTANCE BulkJobSpec WITH done <- reported,
             dropped <- blacklisted_jobs, result <- job_result, tables <- stored

\* The scheduler keeps the promise of BulkJobSpec whatever workers do: a task
\* counts once, a complete job is never blacklisted, tables reach the disk
\* only when complete, success leaves out only blacklisted jobs.
KeepsPromise == Promise!Spec

\* A removed worker stays removed: the FinishedJob of a process that was taken
\* for dead does not make it IDLE again, eligible for the next bulk job.
RemovedForGood ==
  [][\A w \in Workers : worker_state[w] = "UNREGISTERED"
                          => worker_state'[w] = "UNREGISTERED"]_vars

\* The bulk job is given up for lack of workers only when the master runs it
\* on none: a worker that accepted NewJob and was neither removed nor told to
\* stop is waited for, however registrations, answers and failures interleave.
GivesUpWithoutWorkers ==
  [][job_result' = "no workers" /\ job_result = "none"
       => \A w \in Workers : worker_state[w] # "RUNNING_JOB"]_vars

\* The assertions at master.cpp:1110, 1796 and 2166: when the bulk job is
\* finished, the sampler has been through all the jobs.
AllJobsSampled ==
  job_result = "none" /\ finished /\ ~trigger_shutdown => next_job = NumJobs

\* The master keeps serving FinishedWork until it shuts down: the comment at
\* master.cpp:1082 says a second report of a task assigned to several workers
\* is expected and ignored.
FinishedWorkServed == trigger_shutdown \/ "FinishedWork" \in armed

----------------------------------------------------------------------------
(* Liveness.  Pool threads and the process_job thread run, calls waiting for *)
(* work_mutex_ get it, live workers finish what they are given.              *)

Fairness ==
  /\ WF_vars(HandlerStep)
  /\ WF_vars(ProcessJobEnd)
  /\ WF_vars(ClearActive)
  /\ SF_vars(StartJobOnWorkers)
  /\ SF_vars(StartDone)
  /\ \A w \in Workers :
       /\ WF_vars(NewJobReply(w))
       /\ SF_vars(StartRemove(w))
       /\ SF_vars(NextWork(w))
       /\ SF_vars(ReportWork(w))
       /\ SF_vars(FinishedJob(w))
       /\ SF_vars(proc[w] = "dead" /\ PingerRemove(w))

FairSpec == Spec /\ Fairness

\* No worker waits for a reply that never comes because its handler threw
\* (late_report and early_failure show how one can).
NoneHung == \A w \in Workers : proc[w] # "hung"

\* If some worker stays alive, the bulk job ends, and not by giving up: the
\* tasks of dead workers come back and are done by others, or their job is
\* blacklisted.
BulkJobSucceeds == []NoneHung => <>(job_result = "success")

\* Every worker is let go at the end, the dead and the slow ones included: none
\* stays RUNNING_JOB, a state in which no later bulk job would use it.
WorkersReleased ==
  []NoneHung => <>[](\A w \in Workers : worker_state[w] # "RUNNING_JOB")

\* The message at worker.cpp:939: a worker that could not report FinishedJob
\* dies, "since the master could hang if it sees the worker is still alive but
\* has not finished its job".  So the bulk job ends if some worker stays alive.
BulkJobEnds == <>(job_result # "none")

=============================================================================
