------------------------------ MODULE Cluster ------------------------------
(***************************************************************************)
(* The cluster of one master and its worker processes over several bulk    *)
(* jobs (scanner/engine/master.cpp, worker.cpp): how a process registers,  *)
(* is told of a bulk job, reports it finished, fails and registers again,  *)
(* is pinged, removed, restarted at the same address and shut down, and    *)
(* how the master starts a bulk job, waits for its workers and ends it.    *)
(* The tasks of a bulk job are the subject of BulkJob; here they are only  *)
(* "finished_ becomes true" (WorkDone).                                    *)
(*                                                                         *)
(* The master's threads are the job processor (pc), the pinger and the     *)
(* handlers, which run under work_mutex_ and are one step each.  A worker  *)
(* process has a job processor thread (wpc; the first registration, made   *)
(* by the thread that starts the worker, ends before that thread has       *)
(* anything to do), the gRPC handlers NewJob, Ping and Shutdown, and the   *)
(* watchdog.  A NewJob call may reach its address late, after the master   *)
(* gave it up, or after another process took over the address.             *)
(*                                                                         *)
(* The client waits for a bulk job before it starts the next one, as       *)
(* Database.run of the Python client does.                                 *)
(***************************************************************************)
EXTENDS Integers, FiniteSets

CONSTANTS
  Procs,                        \* addresses at which a worker process runs
  MaxIds,                       \* bound: registrations
  MaxJobs,                      \* bound: bulk jobs
  MaxFaults,                    \* bound: steps marked Fault below
  MaxRestarts,                  \* bound: processes started anew
  FAILED_PINGS_BEFORE_REMOVAL   \* master.cpp:1894

Ids  == 0 .. MaxIds - 1
Jobs == 1 .. MaxJobs
None == -1

ASSUME ClusterAssumption ==
  /\ IsFiniteSet(Procs)
  /\ {MaxIds, MaxJobs, MaxFaults, MaxRestarts} \subseteq Nat
  /\ FAILED_PINGS_BEFORE_REMOVAL \in Nat \ {0, 1}

VARIABLES
  master,               \* "up", "stopping" (start_shutdown) or "down"
  workers,              \* WorkerState::state of each node id
  address,              \* WorkerState::address
  failed_pings,         \* WorkerState::failed_pings
  next_worker_id,
  active_bulk_job, active_bulk_job_id,
  created,              \* keys of bulk_jobs_state_
  unstarted_workers, unfinished_workers,   \* of the newest entry
  finished,             \* finished_
  pc,                   \* job processor thread
  awaiting,             \* NewJob calls start_job_on_workers waits for
  valid_workers, invalid_workers,
  calls,                \* NewJob calls that may still reach their address
  to_shutdown,          \* worker_ids of start_shutdown
  procs,                \* the worker process at each address
  faults, restarts

membership == <<workers, address, failed_pings, next_worker_id>>
jobvars    == <<active_bulk_job, active_bulk_job_id, created, finished>>
waited     == <<unstarted_workers, unfinished_workers>>
starting   == <<awaiting, valid_workers, invalid_workers>>
budget     == <<faults, restarts>>
cluster    == <<master, membership, jobvars, waited, pc, starting, calls, to_shutdown>>
vars == <<cluster, procs, budget>>

Registered(id) == workers[id] \in {"IDLE", "RUNNING_JOB"}
Up(p)      == procs[p].wpc # "off"
Serving(p) == Up(p) /\ procs[p].serving

\* A worker process before it has registered.
NewProcess == [wpc |-> "register", state |-> "INITIALIZING", node_id |-> None,
               reply |-> None, unregistered |-> FALSE, active |-> FALSE,
               job |-> 0, success |-> TRUE, trigger_shutdown |-> FALSE,
               serving |-> TRUE]
EndedProcess == [NewProcess EXCEPT !.wpc = "off"]

Process ==
  [wpc : {"off", "register", "registered", "wait", "process_job", "finished",
          "returned", "unregister", "rejoin", "hung"},
   state : {"INITIALIZING", "IDLE", "RUNNING_JOB", "SHUTTING_DOWN"},
   node_id : Ids \cup {None}, reply : Ids \cup {None},
   unregistered : BOOLEAN, active : BOOLEAN, job : 0 .. MaxJobs,
   success : BOOLEAN, trigger_shutdown : BOOLEAN, serving : BOOLEAN]

TypeOK ==
  /\ master \in {"up", "stopping", "down"}
  /\ workers \in [Ids -> {"none", "IDLE", "RUNNING_JOB", "UNREGISTERED"}]
  /\ address \in [Ids -> Procs \cup {None}]
  /\ failed_pings \in [Ids -> 0 .. FAILED_PINGS_BEFORE_REMOVAL - 1]
  /\ next_worker_id \in 0 .. MaxIds
  /\ active_bulk_job \in BOOLEAN /\ finished \in BOOLEAN
  /\ active_bulk_job_id \in 0 .. MaxJobs /\ created \subseteq Jobs
  /\ unstarted_workers \subseteq Ids
  /\ unfinished_workers \in [Ids -> {"absent", "true", "false"}]
  /\ pc \in {"wait", "setup", "await", "loop"}
  /\ awaiting \subseteq Ids /\ valid_workers \subseteq Ids
  /\ invalid_workers \subseteq Ids /\ to_shutdown \subseteq Ids
  /\ calls \subseteq [id : Ids, job : Jobs]
  /\ faults \in 0 .. MaxFaults /\ restarts \in 0 .. MaxRestarts
  /\ procs \in [Procs -> Process]

Init ==
  /\ master = "up"
  /\ workers = [id \in Ids |-> "none"]
  /\ address = [id \in Ids |-> None]
  /\ failed_pings = [id \in Ids |-> 0]
  /\ next_worker_id = 0
  /\ active_bulk_job = FALSE /\ active_bulk_job_id = 0 /\ created = {}
  /\ unstarted_workers = {}
  /\ unfinished_workers = [id \in Ids |-> "absent"]
  /\ finished = TRUE
  /\ pc = "wait"
  /\ awaiting = {} /\ valid_workers = {} /\ invalid_workers = {}
  /\ calls = {} /\ to_shutdown = {}
  /\ procs = [p \in Procs |-> NewProcess]
  /\ faults = 0 /\ restarts = 0

\* The master's memory is gone with it.
MasterGone ==
  /\ master' = "down"
  /\ workers' = [id \in Ids |-> "none"]
  /\ address' = [id \in Ids |-> None]
  /\ failed_pings' = [id \in Ids |-> 0]
  /\ next_worker_id' = 0
  /\ active_bulk_job' = FALSE /\ active_bulk_job_id' = 0 /\ created' = {}
  /\ unstarted_workers' = {}
  /\ unfinished_workers' = [id \in Ids |-> "absent"]
  /\ finished' = TRUE
  /\ pc' = "wait"
  /\ awaiting' = {} /\ valid_workers' = {} /\ invalid_workers' = {}
  /\ calls' = {} /\ to_shutdown' = {}
  /\ UNCHANGED procs

\* What the bound MaxFaults limits: crashes, failed jobs, calls lost or late (a
\* row of lost pings is one), timeouts of tasks and of the end of a bulk job,
\* and shutdowns.
Fault == faults < MaxFaults /\ faults' = faults + 1 /\ UNCHANGED restarts

Set(p, r) == procs' = [procs EXCEPT ![p] = r]

-----------------------------------------------------------------------------
(* Removing workers *)

\* NewJob has set active_bulk_job_id_ and process_job has not yet inserted its
\* state: bulk_jobs_state_.at(active_bulk_job_id_) throws.
NoState == active_bulk_job /\ active_bulk_job_id \notin created

\* remove_worker of every id of S (with stop_job_on_worker), when it does not
\* throw.  failed_pings of a removed worker is not read again.
remove_worker(S) ==
  /\ workers' = [id \in Ids |-> IF id \in S THEN "UNREGISTERED" ELSE workers[id]]
  /\ unfinished_workers' =
       IF active_bulk_job
         THEN [id \in Ids |-> IF id \in S THEN "false" ELSE unfinished_workers[id]]
         ELSE unfinished_workers
  /\ failed_pings' = [id \in Ids |-> IF id \in S THEN 0 ELSE failed_pings[id]]
  /\ UNCHANGED <<address, next_worker_id, unstarted_workers>>

\* UnregisterWorkerHandler.  The call may be lost; when the handler throws it is
\* never answered, and the worker's deadline of 15 s passes.
UnregisterWorkerHandler(id) ==
  \/ master = "up" /\ ~NoState /\ remove_worker({id})
  \/ UNCHANGED <<membership, waited>>

-----------------------------------------------------------------------------
(* Faulty variants of definitions below (mutants); no specification uses them *)

\* A worker that registers during a bulk job waits for the next one.
Fault_with_late_worker(id) == unstarted_workers

\* A second NewJob takes over a worker that is already running a job.
Fault_accepts_job(r) == r.state # "SHUTTING_DOWN"

\* The watchdog looks only at a worker that is idle.
Fault_not_pinged(p) ==
  /\ procs[p].state = "IDLE"
  /\ master = "down" \/ \A id \in Ids : address[id] = p => ~Registered(id)

\* The workers that accepted the job are not entered as unfinished.
Fault_recorded ==
  [id \in Ids |-> IF id \in invalid_workers THEN "false" ELSE unfinished_workers[id]]

\* A bulk job whose workers are all gone is waited for without a timeout.
Fault_all_workers_finished ==
  /\ finished
  /\ \A id \in Ids : ~(workers[id] = "RUNNING_JOB" /\ unfinished_workers[id] = "true")

\* Any answer to a ping at the address will do.
Fault_answers_ping(id) == Serving(address[id])

-----------------------------------------------------------------------------
(* A worker process *)

\* unstarted_workers after a registration.
with_late_worker(id) ==
  IF active_bulk_job /\ ~NoState THEN unstarted_workers \cup {id}
                                ELSE unstarted_workers

\* register_with_master, the call: RegisterWorkerHandler at the master.  The
\* handler throws after it has entered the worker, when NoState.
RegisterWorker(p) ==
  LET id == next_worker_id IN
  /\ procs[p].wpc = "register" /\ master = "up" /\ id \in Ids
  /\ next_worker_id' = id + 1
  /\ workers' = [workers EXCEPT ![id] = "IDLE"]
  /\ address' = [address EXCEPT ![id] = p]
  /\ unstarted_workers' = with_late_worker(id)
  /\ Set(p, IF NoState THEN [procs[p] EXCEPT !.wpc = "hung"]
            ELSE [procs[p] EXCEPT !.wpc = "registered", !.reply = id])
  /\ UNCHANGED <<master, failed_pings, jobvars, unfinished_workers, pc, starting,
                 calls, to_shutdown, budget>>

\* register_with_master, the answer.  state_ becomes IDLE whatever it was.
Registration(p) ==
  /\ procs[p].wpc = "registered"
  /\ Set(p, [procs[p] EXCEPT !.wpc = "wait", !.state = "IDLE",
                             !.node_id = procs[p].reply, !.reply = None])
  /\ UNCHANGED <<cluster, budget>>

\* The job processor thread wakes up and enters process_job.
StartProcessing(p) ==
  /\ procs[p].wpc = "wait" /\ procs[p].active /\ ~procs[p].trigger_shutdown
  /\ Set(p, [procs[p] EXCEPT !.wpc = "process_job", !.success = TRUE])
  /\ UNCHANGED <<cluster, budget>>

\* NextWork answers no_more_work: the worker is not RUNNING_JOB, another bulk
\* job is active, or the work is finished.
NoMoreWork(p) ==
  \/ workers[procs[p].node_id] # "RUNNING_JOB"
  \/ procs[p].job # active_bulk_job_id
  \/ finished

\* The main loop of process_job ends: no work is left, the process is being
\* shut down, the job failed here, or the master is gone.
LeaveMainLoop(p) ==
  /\ procs[p].wpc = "process_job"
  /\ \/ /\ procs[p].trigger_shutdown \/ master = "down"
        /\ Set(p, [procs[p] EXCEPT !.wpc = "finished", !.success = FALSE])
        /\ UNCHANGED budget
     \/ /\ master = "up" /\ NoMoreWork(p)
        /\ Set(p, [procs[p] EXCEPT !.wpc = "finished"])
        /\ UNCHANGED budget
     \/ /\ Fault
        /\ Set(p, [procs[p] EXCEPT !.wpc = "finished", !.success = FALSE])
  /\ UNCHANGED cluster

\* FinishedJobHandler for worker id and bulk job k.
FinishedJobHandler(id, k) ==
  \/ /\ k # active_bulk_job_id
     /\ UNCHANGED <<workers, unfinished_workers>>
  \/ /\ k = active_bulk_job_id
     /\ unfinished_workers[id] # "absent"
     /\ unfinished_workers' = [unfinished_workers EXCEPT ![id] = "false"]
     /\ workers' = IF workers[id] = "UNREGISTERED" THEN workers
                   ELSE [workers EXCEPT ![id] = "IDLE"]

\* unfinished_workers.at(worker_id) throws: the call is never answered.
FinishedJobThrows(id, k) ==
  k = active_bulk_job_id /\ unfinished_workers[id] = "absent"

\* finished_fn of process_job.
FinishedJob(p) ==
  LET r == procs[p] IN
  /\ r.wpc = "finished"
  /\ \/ /\ r.trigger_shutdown
        /\ Set(p, [r EXCEPT !.wpc = "returned"])
        /\ UNCHANGED <<workers, unfinished_workers>>
     \/ /\ ~r.trigger_shutdown /\ master = "up"
        /\ FinishedJobHandler(r.node_id, r.job)
        /\ Set(p, [r EXCEPT !.wpc = "returned"])
     \/ /\ ~r.trigger_shutdown /\ master = "up"
        /\ FinishedJobThrows(r.node_id, r.job)
        /\ Set(p, [r EXCEPT !.wpc = "hung"])
        /\ UNCHANGED <<workers, unfinished_workers>>
  /\ UNCHANGED <<master, address, failed_pings, next_worker_id, jobvars,
                 unstarted_workers, pc, starting, calls, to_shutdown, budget>>

\* process_job returns.  After a success the state goes back to IDLE unless a
\* Shutdown changed it.  (active_bulk_job_id_ is not read until the next NewJob.)
ProcessJobReturns(p) ==
  LET r == procs[p] IN
  /\ r.wpc = "returned"
  /\ Set(p, IF r.success
              THEN [r EXCEPT !.wpc = "wait", !.active = FALSE, !.job = 0,
                             !.state = IF @ = "RUNNING_JOB" THEN "IDLE" ELSE @]
              ELSE [r EXCEPT !.wpc = "unregister", !.active = FALSE, !.job = 0,
                             !.success = TRUE])
  /\ UNCHANGED <<cluster, budget>>

\* After a failed job: try_unregister ...
TryUnregister(p) ==
  LET r == procs[p] IN
  /\ r.wpc = "unregister"
  /\ Set(p, [r EXCEPT !.wpc = "rejoin", !.unregistered = TRUE])
  /\ IF r.unregistered THEN UNCHANGED <<membership, waited>>
                       ELSE UnregisterWorkerHandler(r.node_id)
  /\ UNCHANGED <<master, jobvars, pc, starting, calls, to_shutdown, budget>>

\* ... and then the process starts over; register_with_master follows.
Rejoin(p) ==
  /\ procs[p].wpc = "rejoin"
  /\ Set(p, [procs[p] EXCEPT !.wpc = "register", !.state = "INITIALIZING",
                             !.unregistered = FALSE])
  /\ UNCHANGED <<cluster, budget>>

\* The test and set of state_ that lets a NewJob call in.
accepts_job(r) == r.state = "IDLE"

\* A NewJob call reaches its address.  While the process is INITIALIZING the
\* call waits.  The master gets the answer if it still waits for it.
NewJob(c) ==
  LET p == address[c.id]
      r == procs[p]
      heard == c.id \in awaiting /\ c.job = active_bulk_job_id
  IN
  /\ Serving(p) /\ r.state # "INITIALIZING"
  /\ calls' = calls \ {c}
  /\ IF accepts_job(r)
       THEN Set(p, [r EXCEPT !.state = "RUNNING_JOB", !.active = TRUE,
                             !.job = c.job])
       ELSE UNCHANGED procs
  /\ awaiting' = IF heard THEN awaiting \ {c.id} ELSE awaiting
  /\ valid_workers' = IF heard /\ accepts_job(r)
                        THEN valid_workers \cup {c.id} ELSE valid_workers
  /\ invalid_workers' = IF heard /\ ~accepts_job(r)
                          THEN invalid_workers \cup {c.id} ELSE invalid_workers
  /\ UNCHANGED <<master, membership, jobvars, waited, pc, to_shutdown, budget>>

-----------------------------------------------------------------------------
(* The end of a worker process *)

\* No ping within the watchdog's timeout.  The timeout (50 s) is longer than a
\* round of the pinger (5 s and the deadline of a ping), so it passes only when
\* no registered node id has this address.
not_pinged(p) ==
  master = "down" \/ \A id \in Ids : address[id] = p => ~Registered(id)

\* start_watchdog: the thread runs once the process has registered.
Watchdog(p) ==
  /\ Serving(p) /\ procs[p].node_id # None /\ ~procs[p].trigger_shutdown
  /\ not_pinged(p)
  /\ Set(p, [procs[p] EXCEPT !.trigger_shutdown = TRUE])
  /\ UNCHANGED <<cluster, budget>>

\* The server stops and ~WorkerImpl begins: the process unregisters unless it
\* is INITIALIZING or has done so.
StopServing(p) ==
  LET r == procs[p] IN
  /\ Serving(p) /\ r.trigger_shutdown /\ r.node_id # None
  /\ Set(p, [r EXCEPT !.serving = FALSE, !.state = "SHUTTING_DOWN",
                      !.unregistered = @ \/ r.state # "INITIALIZING"])
  /\ IF r.state = "INITIALIZING" \/ r.unregistered
       THEN UNCHANGED <<membership, waited>>
       ELSE UnregisterWorkerHandler(r.node_id)
  /\ UNCHANGED <<master, jobvars, pc, starting, calls, to_shutdown, budget>>

\* ~WorkerImpl joins the job processor thread, which has left its loop.
Exit(p) ==
  /\ procs[p].wpc = "wait" /\ ~procs[p].serving
  /\ Set(p, EndedProcess)
  /\ UNCHANGED <<cluster, budget>>

\* The master is gone and the call under way fails: a first registration ends
\* the process, a later one leaves it INITIALIZING, and FinishedJob kills it
\* (LOG(FATAL)).
CallFails(p) ==
  LET r == procs[p] IN
  /\ master = "down" /\ r.wpc \in {"register", "finished", "hung"}
  /\ r.wpc = "finished" => ~r.trigger_shutdown
  /\ Set(p, IF r.node_id # None /\ r.state = "INITIALIZING"
              THEN [r EXCEPT !.wpc = "wait"] ELSE EndedProcess)
  /\ UNCHANGED <<cluster, budget>>

\* A process is killed.
Crash(p) ==
  /\ Up(p)
  /\ Fault
  /\ Set(p, EndedProcess)
  /\ UNCHANGED cluster

\* A new process is started at the address of one that ended.
Restart(p) ==
  /\ ~Up(p) /\ master = "up" /\ restarts < MaxRestarts
  /\ restarts' = restarts + 1
  /\ Set(p, NewProcess)
  /\ UNCHANGED <<cluster, faults>>

-----------------------------------------------------------------------------
(* The master *)

\* NewJobHandler, for the next bulk job of the client.
NewJobHandler ==
  /\ master = "up" /\ ~active_bulk_job /\ active_bulk_job_id < MaxJobs
  /\ finished' = FALSE
  /\ active_bulk_job' = TRUE
  /\ active_bulk_job_id' = active_bulk_job_id + 1
  /\ UNCHANGED <<master, membership, created, waited, pc, starting, calls,
                 to_shutdown, procs, budget>>

\* process_job inserts the state of the bulk job.
CreateState ==
  /\ pc = "wait" /\ active_bulk_job /\ master = "up"
  /\ created' = created \cup {active_bulk_job_id}
  /\ unstarted_workers' = {}
  /\ unfinished_workers' = [id \in Ids |-> "absent"]
  /\ pc' = "setup"
  /\ UNCHANGED <<master, membership, active_bulk_job, active_bulk_job_id,
                 finished, starting, calls, to_shutdown, procs, budget>>

\* finished_fn of process_job.
finished_fn ==
  /\ pc' = "wait"
  /\ finished' = TRUE
  /\ active_bulk_job' = FALSE
  /\ UNCHANGED <<master, membership, active_bulk_job_id, created, waited,
                 starting, calls, to_shutdown, procs, budget>>

\* The bulk job is refused before any worker hears of it.
RefuseJob == pc = "setup" /\ master # "down" /\ finished_fn

\* start_job_on_workers for the ids of S that are IDLE: the NewJob calls.
start_job_on_workers(S) ==
  LET idle == {id \in S : workers[id] = "IDLE"} IN
  /\ workers' = [id \in Ids |-> IF id \in idle THEN "RUNNING_JOB" ELSE workers[id]]
  /\ awaiting' = idle
  /\ valid_workers' = {} /\ invalid_workers' = {}
  /\ calls' = calls \cup {[id |-> id, job |-> active_bulk_job_id] : id \in idle}
  /\ unstarted_workers' = {}
  /\ pc' = "await"
  /\ UNCHANGED <<master, address, failed_pings, next_worker_id, jobvars,
                 unfinished_workers, to_shutdown, procs, budget>>

StartJob ==
  /\ pc = "setup" /\ master # "down"
  /\ start_job_on_workers(Ids)

StartLateWorkers ==
  /\ pc = "loop" /\ unstarted_workers # {} /\ master # "down"
  /\ start_job_on_workers(unstarted_workers)

\* A NewJob call fails for good: nobody listens at the address, its deadline
\* passes while another registration of the process is under way, or (a fault)
\* before the process answers.
NewJobFails(id) ==
  LET p == address[id] IN
  /\ id \in awaiting /\ master # "down"
  /\ IF Serving(p) /\ id \in {procs[p].node_id, procs[p].reply} THEN Fault ELSE UNCHANGED budget
  /\ awaiting' = awaiting \ {id}
  /\ invalid_workers' = invalid_workers \cup {id}
  /\ UNCHANGED <<master, membership, jobvars, waited, pc, valid_workers, calls,
                 to_shutdown, procs>>

\* unfinished_workers after the answers to the NewJob calls.
recorded ==
  [id \in Ids |-> IF id \in valid_workers THEN "true"
                  ELSE IF id \in invalid_workers THEN "false"
                  ELSE unfinished_workers[id]]

\* start_job_on_workers, the answers.
RecordAnswers ==
  /\ pc = "await" /\ awaiting = {} /\ master # "down"
  /\ workers' = [id \in Ids |-> IF id \in invalid_workers THEN "UNREGISTERED"
                                ELSE workers[id]]
  /\ failed_pings' = [id \in Ids |-> IF id \in invalid_workers THEN 0
                                     ELSE failed_pings[id]]
  /\ unfinished_workers' = recorded
  /\ valid_workers' = {} /\ invalid_workers' = {}
  /\ pc' = "loop"
  /\ UNCHANGED <<master, address, next_worker_id, jobvars, unstarted_workers,
                 awaiting, calls, to_shutdown, procs, budget>>

\* The last task of the bulk job is reported (FinishedWork) by a worker that
\* runs it, or given up with one (blacklist_job).
WorkDone ==
  /\ master = "up" /\ active_bulk_job /\ ~finished
  /\ \E p \in Procs : /\ procs[p].wpc = "process_job"
                      /\ procs[p].job = active_bulk_job_id
                      /\ workers[procs[p].node_id] = "RUNNING_JOB"
  /\ finished' = TRUE
  /\ UNCHANGED <<master, membership, active_bulk_job, active_bulk_job_id, created,
                 waited, pc, starting, calls, to_shutdown, procs, budget>>

all_workers_finished ==
  \A id \in Ids : ~(workers[id] = "RUNNING_JOB" /\ unfinished_workers[id] = "true")

\* The wait loop ends and the bulk job with it: all is finished; 60 s have
\* passed since the work was (a fault); or no worker is left and
\* no_workers_timeout has passed.
EndJob ==
  /\ pc = "loop" /\ master # "down"
  /\ all_workers_finished
  /\ finished_fn

GiveUpWaiting ==
  /\ pc = "loop" /\ master # "down" /\ finished
  /\ Fault
  /\ pc' = "wait"
  /\ active_bulk_job' = FALSE
  /\ UNCHANGED <<master, membership, active_bulk_job_id, created, finished, waited,
                 starting, calls, to_shutdown, procs>>

\* A worker whose task has passed task_timeout is removed.
TaskTimeout(id) ==
  /\ pc = "loop" /\ master # "down"
  /\ workers[id] = "RUNNING_JOB" /\ unfinished_workers[id] = "true"
  /\ Fault
  /\ remove_worker({id})
  /\ UNCHANGED <<master, jobvars, pc, starting, calls, to_shutdown, procs>>

\* The pinger removes a worker; remove_worker throws when NoState, and the
\* exception ends the master.
remove_pinged(id) ==
  \/ /\ ~NoState
     /\ remove_worker({id})
     /\ UNCHANGED <<master, jobvars, pc, starting, calls, to_shutdown, procs>>
  \/ NoState /\ MasterGone

\* The process at the address answers with this node id.
answers_ping(id) == Serving(address[id]) /\ procs[address[id]].node_id = id

\* One ping of the pinger thread.  An answer with another node id removes the
\* worker at once (also, a race counted as a fault, when the process has not yet
\* stored the id); so does the last of a row of failed pings.
Ping(id) ==
  LET p == address[id]
      failed == failed_pings[id] + 1
  IN
  /\ master # "down" /\ Registered(id)
  /\ \/ /\ answers_ping(id)
        /\ failed_pings' = [failed_pings EXCEPT ![id] = 0]
        /\ UNCHANGED <<master, workers, address, next_worker_id, waited, jobvars,
                       pc, starting, calls, to_shutdown, procs, budget>>
     \/ /\ Serving(p) /\ ~answers_ping(id)
        /\ remove_pinged(id)
        /\ IF procs[p].reply = id THEN Fault ELSE UNCHANGED budget
     \/ /\ failed >= FAILED_PINGS_BEFORE_REMOVAL
        /\ remove_pinged(id)
        /\ UNCHANGED budget
     \/ /\ failed < FAILED_PINGS_BEFORE_REMOVAL
        /\ failed_pings' = [failed_pings EXCEPT ![id] = failed]
        /\ IF Serving(p) /\ failed = 1 THEN Fault ELSE UNCHANGED budget
        /\ UNCHANGED <<master, workers, address, next_worker_id, jobvars, waited,
                       pc, starting, calls, to_shutdown, procs>>

\* The pinger looks up the state of the active bulk job at the start of a
\* round; the exception leaves its thread and ends the master.
PingerThrows ==
  /\ master # "down" /\ NoState
  /\ MasterGone /\ UNCHANGED budget

\* start_shutdown, after a Shutdown call or the master's own watchdog.
StartShutdown ==
  /\ master = "up"
  /\ Fault
  /\ master' = "stopping"
  /\ to_shutdown' = {id \in Ids : Registered(id)}
  /\ UNCHANGED <<membership, jobvars, waited, pc, starting, calls, procs>>

\* Shutdown of one worker.  The handler unregisters, but the thread that would
\* receive that call is the one in start_shutdown: both calls run into their
\* deadline, and then trigger_shutdown_ is set.
ShutdownWorker(id) ==
  LET p == address[id] IN
  /\ master = "stopping" /\ id \in to_shutdown
  /\ to_shutdown' = to_shutdown \ {id}
  /\ IF Serving(p) /\ procs[p].state # "SHUTTING_DOWN"
       THEN Set(p, [procs[p] EXCEPT !.state = "SHUTTING_DOWN",
                                    !.unregistered = TRUE,
                                    !.trigger_shutdown = TRUE])
       ELSE UNCHANGED procs
  /\ UNCHANGED <<master, membership, jobvars, waited, pc, starting, calls, budget>>

\* The master process ends: after start_shutdown, or killed.
MasterEnds ==
  /\ \/ master = "stopping" /\ to_shutdown = {} /\ UNCHANGED budget
     \/ master = "up" /\ Fault
  /\ MasterGone

-----------------------------------------------------------------------------
\* The steps the threads of the master and of the processes take.
System ==
  \/ \E p \in Procs :
       \/ RegisterWorker(p) \/ Registration(p) \/ StartProcessing(p)
       \/ LeaveMainLoop(p) \/ FinishedJob(p) \/ ProcessJobReturns(p)
       \/ TryUnregister(p) \/ Rejoin(p) \/ Exit(p) \/ CallFails(p)
       \/ Watchdog(p) \/ StopServing(p)
  \/ \E c \in calls : NewJob(c)
  \/ CreateState \/ RefuseJob \/ StartJob \/ StartLateWorkers
  \/ RecordAnswers \/ EndJob \/ GiveUpWaiting \/ WorkDone \/ MasterEnds
  \/ \E id \in Ids : \/ NewJobFails(id) \/ TaskTimeout(id) \/ Ping(id)
                      \/ ShutdownWorker(id)

\* What happens to the cluster: its client, failures and races.
Environment ==
  \/ NewJobHandler \/ PingerThrows \/ StartShutdown
  \/ \E p \in Procs : Crash(p) \/ Restart(p)

Next == System \/ Environment

\* The threads keep running; no fault has to happen.
Spec == Init /\ [][Next]_vars /\ WF_vars(System /\ UNCHANGED budget)

-----------------------------------------------------------------------------
(* Properties *)

\* While a bulk job runs, a worker that is IDLE and has not had its turn in it
\* (RegisterWorkerHandler came after start_job_on_workers collected the idle
\* workers) is on the list of workers still to start.
NoneForgotten ==
  pc \in {"await", "loop"} =>
    \A id \in Ids : workers[id] = "IDLE" /\ unfinished_workers[id] = "absent"
                      => id \in unstarted_workers

\* The wait loop of process_job waits for every process that runs the active
\* bulk job and that NextWork would give tasks of it.  It does so under the id of
\* the process, unless the NewJob call that started it was made for an id that
\* an earlier process at the address had: then this bulk job has, or had, an
\* entry for that one.
RunningIsWaitedFor ==
  pc = "loop" =>
    \A p \in Procs :
      /\ procs[p].wpc = "process_job" /\ procs[p].job = active_bulk_job_id
      /\ workers[procs[p].node_id] = "RUNNING_JOB"
      => \/ unfinished_workers[procs[p].node_id] = "true"
         \/ \E id \in Ids \ {procs[p].node_id} :
              address[id] = p /\ unfinished_workers[id] # "absent"

\* A NewJob call never replaces the bulk job a process is working on: the test
\* and set of state_ lets one in only when the job processor waits.
JobNotReplaced ==
  [][\A p \in Procs :
       procs[p].wpc \in {"process_job", "finished"} /\ procs'[p].wpc # "off"
         => procs'[p].job = procs[p].job]_vars

NoneHung == \A p \in Procs : procs[p].wpc # "hung"

\* A bulk job ends, whatever fails, unless the master does.
BulkJobEnds == []<>(~active_bulk_job \/ master = "down" \/ ~NoneHung)

\* A node id that no process answers to: its process ended, was replaced at its
\* address, or has registered again.
Stale(id) == /\ Registered(id)
             /\ ~Up(address[id]) \/ procs[address[id]].node_id # id

\* The pinger removes every stale node id.
StaleIdsRemoved == []<>(\A id \in Ids : ~Stale(id))

\* A process the master no longer knows, by the id it has, ends or has registered
\* again; when the master is gone, it ends.
Orphan(p) == /\ Serving(p) /\ procs[p].node_id # None
             /\ master = "down" \/ workers[procs[p].node_id] = "UNREGISTERED"

OrphansEnd == []<>(\A p \in Procs : Orphan(p) => procs[p].wpc = "hung")
=============================================================================
