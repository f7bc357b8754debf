--------------------------- MODULE ClusterProofs ---------------------------
(***************************************************************************)
(* Proofs about the membership of the cluster, for any number of           *)
(* processes, registrations, bulk jobs, faults and restarts.               *)
(***************************************************************************)
EXTENDS Cluster, TLAPS

-----------------------------------------------------------------------------
(* The inductive invariant *)

\* Where a process is, and what its state_ and its bulk job are then.  A
\* process with a bulk job is not IDLE: the test and set of NewJob fails.
Consistent(r) ==
  /\ r.active => r.state \in {"RUNNING_JOB", "SHUTTING_DOWN"}
  /\ r.wpc \in {"process_job", "finished", "returned"} => r.active
  /\ r.wpc \in {"register", "registered", "unregister", "rejoin"} =>
       ~r.active /\ r.state # "IDLE"
  /\ r.wpc = "registered" => r.reply \in Ids
  /\ r.wpc \in {"wait", "process_job", "finished", "returned", "unregister", "rejoin"}
       => r.node_id \in Ids

Processes == \A p \in Procs : Consistent(procs[p])

\* The node ids that have been handed out are those below next_worker_id; the
\* master uses no others, and processes have no others while it is there.
Known ==
  /\ \A id \in Ids : workers[id] # "none" <=> id < next_worker_id
  /\ \A id \in Ids : id < next_worker_id => address[id] \in Procs
  /\ \A id \in Ids : id >= next_worker_id =>
       unfinished_workers[id] = "absent" /\ id \notin unstarted_workers
  /\ \A c \in calls : c.id < next_worker_id
  /\ \A id \in awaiting \cup valid_workers \cup invalid_workers \cup to_shutdown :
       id < next_worker_id
  /\ master # "down" =>
       \A p \in Procs : /\ procs[p].node_id < next_worker_id
                        /\ procs[p].reply < next_worker_id

\* Where the job processor thread of the master is, and the active bulk job.
Phase ==
  /\ pc # "wait" => active_bulk_job /\ active_bulk_job_id \in created
  /\ pc = "wait" /\ active_bulk_job => active_bulk_job_id \notin created
  /\ created \subseteq 1 .. active_bulk_job_id
  /\ active_bulk_job => active_bulk_job_id # 0
  /\ awaiting \cup valid_workers \cup invalid_workers # {} => pc = "await"
  /\ master = "down" => pc = "wait" /\ ~active_bulk_job

\* The newest bulk job has called this id, or is calling it, with NewJob, or has
\* seen it removed.
Called(id) ==
  \/ id \in awaiting \cup valid_workers \cup invalid_workers
  \/ unfinished_workers[id] # "absent"

\* NewJob calls of the newest bulk job, and the processes that accepted one,
\* go back to an id it has called at their address.
CallsMade ==
  /\ \A c \in calls :
       /\ c.job <= active_bulk_job_id
       /\ c.job = active_bulk_job_id =>
            active_bulk_job_id \in created /\ pc # "setup" /\ Called(c.id)
  /\ master # "down" =>
       \A p \in Procs :
         /\ procs[p].job <= active_bulk_job_id
         /\ procs[p].job = active_bulk_job_id /\ active_bulk_job_id # 0 =>
              /\ active_bulk_job_id \in created /\ pc # "setup"
              /\ \E id \in Ids : address[id] = p /\ Called(id)

\* A worker has one turn in a bulk job: it is started from IDLE, and once it is
\* IDLE again it has an entry and is not started another time.  The workers that
\* are being started are not among those still to start.
OneTurn ==
  /\ pc # "wait" =>
       \A id \in Ids : workers[id] = "RUNNING_JOB" => unfinished_workers[id] # "false"
  /\ pc # "wait" =>
       \A id \in unstarted_workers :
         /\ workers[id] # "RUNNING_JOB"
         /\ workers[id] = "IDLE" => unfinished_workers[id] = "absent"
         /\ id \notin awaiting \cup valid_workers \cup invalid_workers
  /\ pc = "setup" =>
       \A id \in Ids : unfinished_workers[id] = "absent" \/ workers[id] = "UNREGISTERED"

IInv == TypeOK /\ Processes /\ Known /\ Phase /\ CallsMade /\ OneTurn /\ NoneForgotten

-----------------------------------------------------------------------------
(* Steps that start nothing *)

LEMMA Constants ==
  /\ MaxIds \in Nat /\ MaxJobs \in Nat /\ MaxFaults \in Nat /\ MaxRestarts \in Nat
  /\ FAILED_PINGS_BEFORE_REMOVAL \in Nat /\ FAILED_PINGS_BEFORE_REMOVAL >= 2
  /\ \A id \in Ids : id \in Nat /\ id < MaxIds
  /\ \A k \in Jobs : k \in Nat /\ k # 0 /\ k <= MaxJobs
BY ClusterAssumption DEF Ids, Jobs

\* What may happen to the entries of a node id outside start_job_on_workers and
\* registrations: nothing, its removal, or a FinishedJob.
Settles(id) ==
  \/ /\ workers'[id] = workers[id]
     /\ unfinished_workers'[id] = unfinished_workers[id]
  \/ /\ workers[id] # "none" /\ workers'[id] = "UNREGISTERED"
     /\ unfinished_workers'[id] \in {unfinished_workers[id], "false"}
  \/ /\ workers[id] \notin {"none", "UNREGISTERED"} /\ workers'[id] = "IDLE"
     /\ unfinished_workers[id] # "absent" /\ unfinished_workers'[id] = "false"

\* What a process keeps, or gives up, when it accepts no NewJob.
Keeps(p) ==
  /\ procs'[p].job \in {procs[p].job, 0}
  /\ procs'[p].node_id \in {procs[p].node_id, procs[p].reply, None}
  /\ procs'[p].reply \in {procs[p].reply, None}

LEMMA QuietStep ==
  ASSUME IInv, TypeOK', Processes',
         UNCHANGED <<master, address, next_worker_id, active_bulk_job,
                     active_bulk_job_id, created, unstarted_workers, pc,
                     starting, calls>>,
         to_shutdown' \subseteq to_shutdown,
         \A p \in Procs : Keeps(p),
         \A id \in Ids : Settles(id)
  PROVE  IInv'
<1>0. /\ TypeOK /\ Known /\ Phase /\ CallsMade /\ OneTurn /\ NoneForgotten
  BY DEF IInv
<1>1. /\ awaiting' = awaiting /\ valid_workers' = valid_workers
      /\ invalid_workers' = invalid_workers /\ address' = address
      /\ next_worker_id' = next_worker_id /\ master' = master
      /\ active_bulk_job' = active_bulk_job /\ active_bulk_job_id' = active_bulk_job_id
      /\ created' = created /\ unstarted_workers' = unstarted_workers
      /\ pc' = pc /\ calls' = calls
  BY DEF starting
<1>2. /\ next_worker_id \in Nat /\ active_bulk_job_id \in Nat
      /\ unstarted_workers \subseteq Ids
      /\ \A c \in calls : c.id \in Ids
      /\ \A p \in Procs : procs[p].job \in Nat
  BY <1>0, Constants DEF TypeOK, Process
<1>3. Known'
  <2>1. \A id \in Ids : workers'[id] # "none" <=> id < next_worker_id
    BY <1>0, <1>1 DEF Known, Settles
  <2>2. ASSUME NEW id \in Ids, id >= next_worker_id
        PROVE  unfinished_workers'[id] = "absent" /\ id \notin unstarted_workers'
    <3>1. id \in Nat /\ workers[id] = "none" /\ unfinished_workers[id] = "absent"
      BY <1>0, <1>2, <2>2, Constants DEF Known
    <3> QED
      BY <1>0, <1>1, <2>2, <3>1 DEF Known, Settles
  <2>3. ASSUME NEW p \in Procs, master # "down"
        PROVE  procs'[p].node_id < next_worker_id /\ procs'[p].reply < next_worker_id
    <3>1. procs[p].node_id < next_worker_id /\ procs[p].reply < next_worker_id
          /\ None < next_worker_id
      BY <1>0, <1>2, <2>3 DEF Known, None
    <3> QED
      BY <3>1 DEF Keeps
  <2>4. \A id \in awaiting' \cup valid_workers' \cup invalid_workers' \cup to_shutdown' :
          id < next_worker_id
    BY <1>0, <1>1 DEF Known
  <2>5. /\ \A id \in Ids : id < next_worker_id => address[id] \in Procs
        /\ \A c \in calls : c.id < next_worker_id
    BY <1>0 DEF Known
  <2> QED
    BY <1>1, <2>1, <2>2, <2>3, <2>4, <2>5 DEF Known
<1>4. Phase'
  BY <1>0, <1>1 DEF Phase
<1>5. CallsMade'
  <2>1. ASSUME NEW id \in Ids, Called(id) PROVE Called(id)'
    BY <1>1, <2>1 DEF Called, Settles
  <2>2. ASSUME NEW c \in calls
        PROVE  /\ c.job <= active_bulk_job_id
               /\ c.job = active_bulk_job_id =>
                    active_bulk_job_id \in created /\ pc # "setup" /\ Called(c.id)'
    BY <1>0, <1>2, <2>1 DEF CallsMade
  <2>3. ASSUME NEW p \in Procs, master # "down"
        PROVE  /\ procs'[p].job <= active_bulk_job_id
               /\ procs'[p].job = active_bulk_job_id /\ active_bulk_job_id # 0 =>
                    /\ active_bulk_job_id \in created /\ pc # "setup"
                    /\ \E id \in Ids : address[id] = p /\ Called(id)'
    <3>1. procs'[p].job \in {procs[p].job, 0}
      BY DEF Keeps
    <3> QED
      BY <1>0, <1>2, <2>1, <2>3, <3>1 DEF CallsMade
  <2> QED
    BY <1>1, <2>2, <2>3 DEF CallsMade
<1>6. OneTurn'
  <2>1. ASSUME NEW id \in Ids, pc # "wait", workers'[id] = "RUNNING_JOB"
        PROVE  unfinished_workers'[id] # "false"
    BY <1>0, <2>1 DEF OneTurn, Settles
  <2>2. ASSUME NEW id \in unstarted_workers, pc # "wait"
        PROVE  /\ workers'[id] # "RUNNING_JOB"
               /\ workers'[id] = "IDLE" => unfinished_workers'[id] = "absent"
               /\ id \notin awaiting \cup valid_workers \cup invalid_workers
    <3>1. /\ id \notin awaiting \cup valid_workers \cup invalid_workers
          /\ workers[id] # "RUNNING_JOB"
          /\ workers[id] = "IDLE" => unfinished_workers[id] = "absent"
          /\ workers[id] \in {"none", "IDLE", "RUNNING_JOB", "UNREGISTERED"}
      BY <1>0, <1>2, <2>2 DEF OneTurn, TypeOK
    <3> QED
      BY <1>2, <3>1 DEF Settles
  <2>3. ASSUME NEW id \in Ids, pc = "setup"
        PROVE  unfinished_workers'[id] = "absent" \/ workers'[id] = "UNREGISTERED"
    BY <1>0, <2>3 DEF OneTurn, Settles
  <2> QED
    BY <1>1, <2>1, <2>2, <2>3 DEF OneTurn
<1>7. NoneForgotten'
  BY <1>0, <1>1 DEF NoneForgotten, Settles
<1> QED
  BY <1>3, <1>4, <1>5, <1>6, <1>7 DEF IInv

LEMMA Budget ==
  ASSUME TypeOK, Fault \/ UNCHANGED budget
  PROVE  faults' \in 0 .. MaxFaults /\ restarts' \in 0 .. MaxRestarts
BY Constants DEF TypeOK, Fault, budget

\* A step of one process that neither calls the master nor accepts a NewJob.
LEMMA ProcessStep ==
  ASSUME IInv, NEW p \in Procs, NEW r \in Process, Set(p, r), Consistent(r),
         r.job \in {procs[p].job, 0},
         r.node_id \in {procs[p].node_id, procs[p].reply, None},
         r.reply \in {procs[p].reply, None},
         UNCHANGED cluster,
         faults' \in 0 .. MaxFaults, restarts' \in 0 .. MaxRestarts
  PROVE  IInv'
<1>0. TypeOK /\ Processes
  BY DEF IInv
<1>1. /\ procs' \in [Procs -> Process]
      /\ \A q \in Procs : procs'[q] = IF q = p THEN r ELSE procs[q]
  BY <1>0 DEF TypeOK, Set
<1>2. TypeOK'
  BY <1>0, <1>1 DEF TypeOK, cluster, membership, jobvars, waited, starting
<1>3. Processes'
  BY <1>0, <1>1 DEF Processes
<1>4. \A q \in Procs : Keeps(q)
  BY <1>1 DEF Keeps
<1>5. \A id \in Ids : Settles(id)
  BY DEF Settles, cluster, membership, waited
<1> QED
  BY <1>2, <1>3, <1>4, <1>5, QuietStep DEF cluster, membership, jobvars, waited

LEMMA ProcessesHaveType ==
  ASSUME IInv, NEW p \in Procs
  PROVE  procs[p] \in Process /\ Consistent(procs[p])
BY DEF IInv, TypeOK, Processes

\* NewProcess and EndedProcess, field by field.
LEMMA FreshProcess ==
  /\ NewProcess \in Process /\ Consistent(NewProcess)
  /\ EndedProcess \in Process /\ Consistent(EndedProcess)
  /\ NewProcess.job = 0 /\ NewProcess.node_id = None /\ NewProcess.reply = None
  /\ EndedProcess.job = 0 /\ EndedProcess.node_id = None /\ EndedProcess.reply = None
  /\ NewProcess.wpc = "register" /\ EndedProcess.wpc = "off"
<1>1. 0 \in 0 .. MaxJobs /\ None \in Ids \cup {None}
  BY Constants
<1>2. NewProcess \in Process /\ EndedProcess \in Process
  BY Zenon, <1>1 DEF NewProcess, EndedProcess, Process
<1> QED
  BY <1>2 DEF NewProcess, EndedProcess, Consistent

LEMMA RegistrationPreserves ==
  ASSUME IInv, NEW p \in Procs, Registration(p)
  PROVE  IInv'
<1> DEFINE r == [procs[p] EXCEPT !.wpc = "wait", !.state = "IDLE",
                                 !.node_id = procs[p].reply, !.reply = None]
<1>1. r \in Process /\ Consistent(r) /\ r.job = procs[p].job
      /\ r.node_id = procs[p].reply /\ r.reply = None
  BY ZenonT(40), ProcessesHaveType DEF Process, Consistent, Registration
<1> QED
  BY Zenon, <1>1, ProcessStep, Budget DEF Registration, IInv

LEMMA StartProcessingPreserves ==
  ASSUME IInv, NEW p \in Procs, StartProcessing(p)
  PROVE  IInv'
<1> DEFINE r == [procs[p] EXCEPT !.wpc = "process_job", !.success = TRUE]
<1>1. r \in Process /\ Consistent(r) /\ r.job = procs[p].job
      /\ r.node_id = procs[p].node_id /\ r.reply = procs[p].reply
  BY ZenonT(40), ProcessesHaveType DEF Process, Consistent, StartProcessing
<1> QED
  BY Zenon, <1>1, ProcessStep, Budget DEF StartProcessing, IInv

LEMMA LeaveMainLoopPreserves ==
  ASSUME IInv, NEW p \in Procs, LeaveMainLoop(p)
  PROVE  IInv'
<1>1. PICK r \in {[procs[p] EXCEPT !.wpc = "finished", !.success = FALSE],
                  [procs[p] EXCEPT !.wpc = "finished"]} : Set(p, r)
  BY DEF LeaveMainLoop
<1>2. r \in Process /\ Consistent(r) /\ r.job = procs[p].job
      /\ r.node_id = procs[p].node_id /\ r.reply = procs[p].reply
  BY Zenon, ProcessesHaveType DEF Process, Consistent, LeaveMainLoop
<1> QED
  BY <1>1, <1>2, ProcessStep, Budget DEF LeaveMainLoop, IInv

LEMMA ProcessJobReturnsPreserves ==
  ASSUME IInv, NEW p \in Procs, ProcessJobReturns(p)
  PROVE  IInv'
<1> DEFINE q == procs[p]
           a == [q EXCEPT !.wpc = "wait", !.active = FALSE, !.job = 0,
                          !.state = IF @ = "RUNNING_JOB" THEN "IDLE" ELSE @]
           b == [q EXCEPT !.wpc = "unregister", !.active = FALSE, !.job = 0,
                          !.success = TRUE]
<1>1. a \in Process /\ Consistent(a) /\ a.job = 0 /\ a.node_id = q.node_id /\ a.reply = q.reply
  <2>1. q \in Process /\ Consistent(q) /\ q.wpc = "returned" /\ 0 \in 0 .. MaxJobs
    BY ProcessesHaveType, Constants DEF ProcessJobReturns
  <2> DEFINE st == IF q.state = "RUNNING_JOB" THEN "IDLE" ELSE q.state
  <2>2. st \in {"INITIALIZING", "IDLE", "RUNNING_JOB", "SHUTTING_DOWN"}
    BY <2>1 DEF Process
  <2>3. a = [q EXCEPT !.wpc = "wait", !.active = FALSE, !.job = 0, !.state = st]
    BY <2>1 DEF Process
  <2> HIDE DEF q, st, a
  <2> QED
    BY Zenon, <2>1, <2>2, <2>3 DEF Process, Consistent
<1>2. b \in Process /\ Consistent(b) /\ b.job = 0 /\ b.node_id = q.node_id /\ b.reply = q.reply
  <2>1. q \in Process /\ Consistent(q) /\ q.wpc = "returned" /\ 0 \in 0 .. MaxJobs
    BY ProcessesHaveType, Constants DEF ProcessJobReturns
  <2> HIDE DEF q
  <2> QED
    BY Zenon, <2>1 DEF Process, Consistent
<1>3. Set(p, a) \/ Set(p, b)
  BY DEF ProcessJobReturns
<1> HIDE DEF a, b
<1> QED
  BY <1>1, <1>2, <1>3, ProcessStep, Budget DEF ProcessJobReturns, IInv

LEMMA RejoinPreserves ==
  ASSUME IInv, NEW p \in Procs, Rejoin(p)
  PROVE  IInv'
<1> DEFINE r == [procs[p] EXCEPT !.wpc = "register", !.state = "INITIALIZING",
                                 !.unregistered = FALSE]
<1>1. r \in Process /\ Consistent(r) /\ r.job = procs[p].job
      /\ r.node_id = procs[p].node_id /\ r.reply = procs[p].reply
  BY ZenonT(40), ProcessesHaveType DEF Process, Consistent, Rejoin
<1> QED
  BY Zenon, <1>1, ProcessStep, Budget DEF Rejoin, IInv

LEMMA WatchdogPreserves ==
  ASSUME IInv, NEW p \in Procs, Watchdog(p)
  PROVE  IInv'
<1> DEFINE r == [procs[p] EXCEPT !.trigger_shutdown = TRUE]
<1>1. r \in Process /\ Consistent(r) /\ r.job = procs[p].job
      /\ r.node_id = procs[p].node_id /\ r.reply = procs[p].reply
  BY Zenon, ProcessesHaveType DEF Process, Consistent
<1> QED
  BY Zenon, <1>1, ProcessStep, Budget DEF Watchdog, IInv

\* The ends of a process, and its new start.
LEMMA ProcessEndsPreserves ==
  ASSUME IInv, NEW p \in Procs, Exit(p) \/ CallFails(p) \/ Crash(p) \/ Restart(p)
  PROVE  IInv'
<1>1. CASE Exit(p) \/ Crash(p)
  BY <1>1, FreshProcess, ProcessStep, Budget DEF Exit, Crash, IInv
<1>2. CASE CallFails(p)
  <2> DEFINE r == [procs[p] EXCEPT !.wpc = "wait"]
  <2>1. CASE procs[p].node_id # None /\ procs[p].state = "INITIALIZING"
    <3>1. r \in Process /\ Consistent(r) /\ r.job = procs[p].job
          /\ r.node_id = procs[p].node_id /\ r.reply = procs[p].reply
      BY <1>2, <2>1, ProcessesHaveType DEF Process, Consistent, CallFails
    <3> QED
      BY Zenon, <1>2, <2>1, <3>1, ProcessStep, Budget DEF CallFails, IInv
  <2>2. CASE ~(procs[p].node_id # None /\ procs[p].state = "INITIALIZING")
    BY <1>2, <2>2, FreshProcess, ProcessStep, Budget DEF CallFails, IInv
  <2> QED
    BY <2>1, <2>2
<1>3. CASE Restart(p)
  <2>1. faults' \in 0 .. MaxFaults /\ restarts' \in 0 .. MaxRestarts
    BY <1>3, Constants DEF Restart, IInv, TypeOK
  <2> QED
    BY <1>3, <2>1, FreshProcess, ProcessStep DEF Restart
<1> QED
  BY <1>1, <1>2, <1>3

-----------------------------------------------------------------------------
(* Steps that settle node ids *)

\* The master starts nothing, and its variables keep their types.
Quiet ==
  /\ UNCHANGED <<master, address, next_worker_id, active_bulk_job, active_bulk_job_id,
                 created, unstarted_workers, pc, starting, calls>>
  /\ to_shutdown' \subseteq to_shutdown
  /\ workers' \in [Ids -> {"none", "IDLE", "RUNNING_JOB", "UNREGISTERED"}]
  /\ unfinished_workers' \in [Ids -> {"absent", "true", "false"}]
  /\ failed_pings' \in [Ids -> 0 .. FAILED_PINGS_BEFORE_REMOVAL - 1]
  /\ finished' \in BOOLEAN
  /\ faults' \in 0 .. MaxFaults /\ restarts' \in 0 .. MaxRestarts
  /\ \A id \in Ids : Settles(id)

LEMMA QuietType ==
  ASSUME TypeOK, Quiet, procs' \in [Procs -> Process]
  PROVE  TypeOK'
BY DEF TypeOK, Quiet, starting

LEMMA QuietMaster ==
  ASSUME IInv, Quiet, UNCHANGED procs
  PROVE  IInv'
<1>1. TypeOK' /\ Processes'
  BY QuietType DEF IInv, TypeOK, Processes
<1>2. \A p \in Procs : Keeps(p)
  BY DEF Keeps
<1> QED
  BY <1>1, <1>2, QuietStep DEF Quiet

LEMMA QuietProcess ==
  ASSUME IInv, Quiet, NEW p \in Procs, NEW r \in Process, Set(p, r), Consistent(r),
         r.job = procs[p].job, r.node_id = procs[p].node_id, r.reply = procs[p].reply
  PROVE  IInv'
<1>0. TypeOK /\ Processes
  BY DEF IInv
<1>1. /\ procs' \in [Procs -> Process]
      /\ \A q \in Procs : procs'[q] = IF q = p THEN r ELSE procs[q]
  BY <1>0 DEF TypeOK, Set
<1>2. TypeOK'
  BY <1>0, <1>1, QuietType
<1>3. Processes'
  BY <1>0, <1>1 DEF Processes
<1>4. \A q \in Procs : Keeps(q)
  BY <1>1 DEF Keeps
<1> QED
  BY <1>2, <1>3, <1>4, QuietStep DEF Quiet

\* remove_worker settles a node id that was handed out.
LEMMA RemovalIsQuiet ==
  ASSUME TypeOK, NEW n \in Ids, workers[n] # "none", remove_worker({n})
  PROVE  /\ workers' \in [Ids -> {"none", "IDLE", "RUNNING_JOB", "UNREGISTERED"}]
         /\ unfinished_workers' \in [Ids -> {"absent", "true", "false"}]
         /\ failed_pings' \in [Ids -> 0 .. FAILED_PINGS_BEFORE_REMOVAL - 1]
         /\ UNCHANGED <<address, next_worker_id, unstarted_workers>>
         /\ \A id \in Ids : Settles(id)
<1>1. 0 \in 0 .. FAILED_PINGS_BEFORE_REMOVAL - 1
  BY Constants
<1>2. /\ workers' \in [Ids -> {"none", "IDLE", "RUNNING_JOB", "UNREGISTERED"}]
      /\ \A id \in Ids : workers'[id] = IF id = n THEN "UNREGISTERED" ELSE workers[id]
  BY DEF TypeOK, remove_worker
<1>3. /\ unfinished_workers' \in [Ids -> {"absent", "true", "false"}]
      /\ \A id \in Ids : \/ unfinished_workers'[id] = unfinished_workers[id]
                         \/ id = n /\ unfinished_workers'[id] = "false"
  <2>1. unfinished_workers \in [Ids -> {"absent", "true", "false"}]
    BY DEF TypeOK
  <2>2. \/ unfinished_workers' = unfinished_workers
        \/ unfinished_workers' =
             [id \in Ids |-> IF id \in {n} THEN "false" ELSE unfinished_workers[id]]
    BY DEF remove_worker
  <2>3. CASE unfinished_workers' = unfinished_workers
    BY <2>1, <2>3
  <2>4. CASE unfinished_workers' =
               [id \in Ids |-> IF id \in {n} THEN "false" ELSE unfinished_workers[id]]
    BY <2>1, <2>4
  <2> QED
    BY <2>2, <2>3, <2>4
<1>4. failed_pings' \in [Ids -> 0 .. FAILED_PINGS_BEFORE_REMOVAL - 1]
  BY <1>1 DEF TypeOK, remove_worker
<1>5. \A id \in Ids : Settles(id)
  BY <1>2, <1>3 DEF Settles
<1> QED
  BY <1>2, <1>3, <1>4, <1>5 DEF remove_worker

\* Nothing happens to any node id.
LEMMA NothingSettles ==
  ASSUME UNCHANGED <<workers, unfinished_workers>>
  PROVE  \A id \in Ids : Settles(id)
BY DEF Settles

\* The id a process has been told, while the master is there, was handed out.
LEMMA OwnId ==
  ASSUME IInv, NEW p \in Procs, master # "down", procs[p].node_id \in Ids
  PROVE  workers[procs[p].node_id] # "none"
BY DEF IInv, Known

LEMMA UnregisterIsQuiet ==
  ASSUME IInv, NEW p \in Procs, procs[p].node_id \in Ids,
         \/ UnregisterWorkerHandler(procs[p].node_id)
         \/ UNCHANGED <<membership, waited>>,
         UNCHANGED <<master, jobvars, pc, starting, calls, to_shutdown, budget>>
  PROVE  Quiet
<1>1. TypeOK
  BY DEF IInv
<1>2. faults' \in 0 .. MaxFaults /\ restarts' \in 0 .. MaxRestarts
  BY <1>1 DEF TypeOK, budget
<1>3. CASE master = "up" /\ remove_worker({procs[p].node_id})
  BY <1>1, <1>2, <1>3, RemovalIsQuiet, OwnId DEF Quiet, TypeOK, jobvars
<1>4. CASE UNCHANGED <<membership, waited>>
  BY <1>1, <1>2, <1>4, NothingSettles DEF Quiet, TypeOK, jobvars, membership, waited
<1> QED
  BY <1>3, <1>4 DEF UnregisterWorkerHandler

LEMMA TryUnregisterPreserves ==
  ASSUME IInv, NEW p \in Procs, TryUnregister(p)
  PROVE  IInv'
<1> DEFINE r == [procs[p] EXCEPT !.wpc = "rejoin", !.unregistered = TRUE]
<1>1. r \in Process /\ Consistent(r) /\ r.job = procs[p].job
      /\ r.node_id = procs[p].node_id /\ r.reply = procs[p].reply
      /\ procs[p].node_id \in Ids
  BY Zenon, ProcessesHaveType DEF Process, Consistent, TryUnregister
<1>2. Set(p, r)
  BY DEF TryUnregister
<1> HIDE DEF r
<1>3. Quiet
  BY <1>1, UnregisterIsQuiet DEF TryUnregister
<1> QED
  BY <1>1, <1>2, <1>3, QuietProcess

LEMMA StopServingPreserves ==
  ASSUME IInv, NEW p \in Procs, StopServing(p)
  PROVE  IInv'
<1> DEFINE u == procs[p].unregistered \/ procs[p].state # "INITIALIZING"
           r == [procs[p] EXCEPT !.serving = FALSE, !.state = "SHUTTING_DOWN",
                                 !.unregistered = u]
<1>1. u \in BOOLEAN /\ procs[p].node_id \in Ids
  BY ProcessesHaveType DEF Process, StopServing
<1>2. Set(p, r)
  BY DEF StopServing, Set
<1> HIDE DEF u
<1>3. r \in Process /\ Consistent(r) /\ r.job = procs[p].job
      /\ r.node_id = procs[p].node_id /\ r.reply = procs[p].reply
  BY Zenon, <1>1, ProcessesHaveType DEF Process, Consistent
<1> HIDE DEF r
<1>4. Quiet
  BY <1>1, UnregisterIsQuiet DEF StopServing
<1> QED
  BY <1>2, <1>3, <1>4, QuietProcess

LEMMA FinishedJobPreserves ==
  ASSUME IInv, NEW p \in Procs, FinishedJob(p)
  PROVE  IInv'
<1> DEFINE n == procs[p].node_id
<1>0. TypeOK /\ procs[p] \in Process /\ Consistent(procs[p]) /\ procs[p].wpc = "finished"
  BY ProcessesHaveType DEF FinishedJob, IInv
<1>1. PICK w \in {"returned", "hung"} : Set(p, [procs[p] EXCEPT !.wpc = w])
  BY DEF FinishedJob
<1> DEFINE r == [procs[p] EXCEPT !.wpc = w]
<1>2. r \in Process /\ Consistent(r) /\ r.job = procs[p].job
      /\ r.node_id = n /\ r.reply = procs[p].reply /\ n \in Ids
  BY <1>0 DEF Process, Consistent
<1>3. \/ UNCHANGED <<workers, unfinished_workers>>
      \/ master = "up" /\ FinishedJobHandler(n, procs[p].job)
  BY DEF FinishedJob
<1> HIDE DEF r
<1>4. /\ workers' \in [Ids -> {"none", "IDLE", "RUNNING_JOB", "UNREGISTERED"}]
      /\ unfinished_workers' \in [Ids -> {"absent", "true", "false"}]
      /\ \A id \in Ids : Settles(id)
  <2>1. CASE UNCHANGED <<workers, unfinished_workers>>
    BY <1>0, <2>1, NothingSettles DEF TypeOK
  <2>2. CASE /\ master = "up" /\ unfinished_workers[n] # "absent"
             /\ unfinished_workers' = [unfinished_workers EXCEPT ![n] = "false"]
             /\ workers' = IF workers[n] = "UNREGISTERED" THEN workers
                           ELSE [workers EXCEPT ![n] = "IDLE"]
    <3>1. workers[n] # "none"
      BY <1>2, <2>2, OwnId
    <3> HIDE DEF n
    <3>2. /\ workers' \in [Ids -> {"none", "IDLE", "RUNNING_JOB", "UNREGISTERED"}]
          /\ \A id \in Ids : workers'[id] = IF id = n /\ workers[n] # "UNREGISTERED"
                                              THEN "IDLE" ELSE workers[id]
      BY <1>0, <1>2, <2>2 DEF TypeOK
    <3>3. /\ unfinished_workers' \in [Ids -> {"absent", "true", "false"}]
          /\ \A id \in Ids : unfinished_workers'[id] =
                               IF id = n THEN "false" ELSE unfinished_workers[id]
      BY <1>0, <1>2, <2>2 DEF TypeOK
    <3> QED
      BY <2>2, <3>1, <3>2, <3>3 DEF Settles
  <2> QED
    BY <1>3, <2>1, <2>2 DEF FinishedJobHandler
<1>5. Quiet
  BY <1>0, <1>4 DEF Quiet, FinishedJob, TypeOK, jobvars, budget
<1> QED
  BY Zenon, <1>1, <1>2, <1>5, QuietProcess DEF r

LEMMA TaskTimeoutPreserves ==
  ASSUME IInv, NEW n \in Ids, TaskTimeout(n)
  PROVE  IInv'
<1>1. TypeOK /\ workers[n] # "none" /\ remove_worker({n})
  BY DEF IInv, TaskTimeout
<1>2. faults' \in 0 .. MaxFaults /\ restarts' \in 0 .. MaxRestarts
  BY <1>1, Budget DEF TaskTimeout
<1>3. Quiet
  BY <1>1, <1>2, RemovalIsQuiet DEF Quiet, TypeOK, jobvars, TaskTimeout
<1> QED
  BY <1>3, QuietMaster DEF TaskTimeout

LEMMA WorkDonePreserves ==
  ASSUME IInv, WorkDone
  PROVE  IInv'
<1>1. TypeOK /\ finished' = TRUE
  BY DEF IInv, WorkDone
<1>2. Quiet
  BY <1>1, NothingSettles DEF Quiet, TypeOK, membership, waited, budget, WorkDone
<1> QED
  BY <1>2, QuietMaster DEF WorkDone

LEMMA ShutdownWorkerPreserves ==
  ASSUME IInv, NEW n \in Ids, ShutdownWorker(n)
  PROVE  IInv'
<1> DEFINE p == address[n]
           r == [procs[p] EXCEPT !.state = "SHUTTING_DOWN", !.unregistered = TRUE,
                                 !.trigger_shutdown = TRUE]
<1>0. TypeOK
  BY DEF IInv
<1>1. Quiet
  BY <1>0, NothingSettles DEF Quiet, TypeOK, membership, waited, jobvars, budget, ShutdownWorker
<1>2. p \in Procs
  BY DEF IInv, Known, ShutdownWorker
<1>3. r \in Process /\ Consistent(r) /\ r.job = procs[p].job
      /\ r.node_id = procs[p].node_id /\ r.reply = procs[p].reply
  <2>1. procs[p] \in Process /\ Consistent(procs[p])
    BY <1>2, ProcessesHaveType
  <2> HIDE DEF p
  <2> QED
    BY ZenonT(40), <2>1 DEF Process, Consistent
<1>4. Set(p, r) \/ UNCHANGED procs
  BY DEF ShutdownWorker
<1> HIDE DEF p, r
<1> QED
  BY <1>1, <1>2, <1>3, <1>4, QuietMaster, QuietProcess

-----------------------------------------------------------------------------
(* The end of the master *)

LEMMA MasterGonePreserves ==
  ASSUME IInv, MasterGone, Fault \/ UNCHANGED budget
  PROVE  IInv'
<1>0. TypeOK /\ Processes
  BY DEF IInv
<1>1. faults' \in 0 .. MaxFaults /\ restarts' \in 0 .. MaxRestarts
  BY <1>0, Budget
<1>2. /\ 0 \in 0 .. FAILED_PINGS_BEFORE_REMOVAL - 1 /\ 0 \in 0 .. MaxIds
      /\ 0 \in 0 .. MaxJobs
  BY Constants
<1>3. TypeOK'
  <2>1. /\ workers' \in [Ids -> {"none", "IDLE", "RUNNING_JOB", "UNREGISTERED"}]
        /\ unfinished_workers' \in [Ids -> {"absent", "true", "false"}]
    BY DEF MasterGone
  <2>2. /\ address' \in [Ids -> Procs \cup {None}]
        /\ failed_pings' \in [Ids -> 0 .. FAILED_PINGS_BEFORE_REMOVAL - 1]
    BY <1>2 DEF MasterGone
  <2> QED
    BY Zenon, <1>0, <1>1, <1>2, <2>1, <2>2 DEF TypeOK, MasterGone
<1>4. Processes'
  BY <1>0 DEF Processes, MasterGone
<1>5. Known'
  BY Constants DEF Known, MasterGone
<1>6. Phase' /\ CallsMade' /\ OneTurn' /\ NoneForgotten'
  BY DEF Phase, CallsMade, OneTurn, NoneForgotten, MasterGone
<1> QED
  BY <1>3, <1>4, <1>5, <1>6 DEF IInv

\* One ping: an answer, a failure counted, or the removal of the worker.
LEMMA PingPreserves ==
  ASSUME IInv, NEW n \in Ids, Ping(n)
  PROVE  IInv'
<1>0. TypeOK /\ workers[n] # "none" /\ failed_pings[n] \in Nat
  <2>1. TypeOK /\ failed_pings \in [Ids -> 0 .. FAILED_PINGS_BEFORE_REMOVAL - 1]
    BY Zenon DEF IInv, TypeOK
  <2>2. workers[n] # "none"
    BY DEF Ping, Registered
  <2> QED
    BY <2>1, <2>2, Constants
<1>1. faults' \in 0 .. MaxFaults /\ restarts' \in 0 .. MaxRestarts
  BY <1>0, Budget DEF Ping
<1>2. CASE remove_pinged(n)
  <2>1. CASE MasterGone
    BY <2>1, MasterGonePreserves DEF Ping
  <2>2. CASE /\ remove_worker({n})
             /\ UNCHANGED <<master, jobvars, pc, starting, calls, to_shutdown, procs>>
    <3>1. Quiet
      BY <1>0, <1>1, <2>2, RemovalIsQuiet DEF Quiet, TypeOK, jobvars
    <3> QED
      BY <2>2, <3>1, QuietMaster
  <2> QED
    BY <1>2, <2>1, <2>2 DEF remove_pinged
<1>3. ASSUME NEW k \in {0, failed_pings[n] + 1},
             k < FAILED_PINGS_BEFORE_REMOVAL,
             failed_pings' = [failed_pings EXCEPT ![n] = k],
             UNCHANGED <<master, workers, address, next_worker_id, waited, jobvars,
                         pc, starting, calls, to_shutdown, procs>>
      PROVE  IInv'
  <2>1. k \in 0 .. FAILED_PINGS_BEFORE_REMOVAL - 1
    BY <1>0, <1>3, Constants
  <2>2. failed_pings' \in [Ids -> 0 .. FAILED_PINGS_BEFORE_REMOVAL - 1]
    BY <1>0, <1>3, <2>1 DEF TypeOK
  <2>3. Quiet
    BY <1>0, <1>1, <1>3, <2>2, NothingSettles DEF Quiet, TypeOK, jobvars, waited
  <2> QED
    BY <1>3, <2>3, QuietMaster
<1>4. 0 < FAILED_PINGS_BEFORE_REMOVAL
  BY Constants
<1> QED
  BY <1>2, <1>3, <1>4 DEF Ping

LEMMA MasterEndsPreserves ==
  ASSUME IInv, PingerThrows \/ MasterEnds
  PROVE  IInv'
BY MasterGonePreserves DEF PingerThrows, MasterEnds

-----------------------------------------------------------------------------
(* The steps that call the workers *)

LEMMA StartShutdownPreserves ==
  ASSUME IInv, StartShutdown
  PROVE  IInv'
<1>0. TypeOK /\ Processes /\ Known /\ Phase /\ CallsMade /\ OneTurn /\ NoneForgotten
  BY DEF IInv
<1>1. /\ workers' = workers /\ address' = address /\ failed_pings' = failed_pings
      /\ next_worker_id' = next_worker_id /\ active_bulk_job' = active_bulk_job
      /\ active_bulk_job_id' = active_bulk_job_id /\ created' = created
      /\ finished' = finished /\ unstarted_workers' = unstarted_workers
      /\ unfinished_workers' = unfinished_workers /\ pc' = pc /\ awaiting' = awaiting
      /\ valid_workers' = valid_workers /\ invalid_workers' = invalid_workers
      /\ calls' = calls /\ procs' = procs /\ master = "up" /\ master' = "stopping"
      /\ to_shutdown' = {id \in Ids : Registered(id)}
  BY DEF StartShutdown, membership, jobvars, waited, starting
<1>2. faults' \in 0 .. MaxFaults /\ restarts' \in 0 .. MaxRestarts
  BY <1>0, Budget DEF StartShutdown
<1>3. TypeOK'
  BY <1>0, <1>1, <1>2 DEF TypeOK
<1>4. Processes'
  BY <1>0, <1>1 DEF Processes
<1>5. \A id \in to_shutdown' : id < next_worker_id
  BY <1>0, <1>1 DEF Known, Registered
<1>6. Known'
  BY <1>0, <1>1, <1>5 DEF Known
<1>7. Phase' /\ OneTurn' /\ NoneForgotten'
  BY <1>0, <1>1 DEF Phase, OneTurn, NoneForgotten
<1>8. CallsMade'
  BY <1>0, <1>1 DEF CallsMade, Called
<1> QED
  BY <1>3, <1>4, <1>6, <1>7, <1>8 DEF IInv

\* A step of the job processor thread of the master, or of a handler, that
\* leaves the processes, the membership and the calls alone.
LEMMA JobStep ==
  ASSUME IInv,
         UNCHANGED <<master, membership, calls, to_shutdown, procs, starting>>,
         faults' \in 0 .. MaxFaults, restarts' \in 0 .. MaxRestarts,
         active_bulk_job' \in BOOLEAN, finished' \in BOOLEAN,
         active_bulk_job_id' \in active_bulk_job_id .. MaxJobs,
         created' \subseteq Jobs, pc' \in {"wait", "setup"},
         unstarted_workers' \subseteq unstarted_workers,
         \A id \in Ids : unfinished_workers'[id] \in {unfinished_workers[id], "absent"},
         unfinished_workers' \in [Ids -> {"absent", "true", "false"}],
         Phase', CallsMade',
         pc' = "setup" => /\ unstarted_workers' = {}
                          /\ \A id \in Ids : unfinished_workers'[id] = "absent"
  PROVE  IInv'
<1>0. TypeOK /\ Processes /\ Known /\ OneTurn /\ NoneForgotten
  BY DEF IInv
<1>1. /\ workers' = workers /\ address' = address /\ failed_pings' = failed_pings
      /\ next_worker_id' = next_worker_id /\ awaiting' = awaiting
      /\ valid_workers' = valid_workers /\ invalid_workers' = invalid_workers
      /\ calls' = calls /\ procs' = procs /\ master' = master /\ to_shutdown' = to_shutdown
  BY DEF membership, starting
<1>2. active_bulk_job_id' \in 0 .. MaxJobs
  BY <1>0, Constants DEF TypeOK
<1>3. TypeOK'
  BY <1>0, <1>1, <1>2 DEF TypeOK
<1>4. Processes'
  BY <1>0, <1>1 DEF Processes
<1>5. Known'
  BY <1>0, <1>1 DEF Known
<1>6. OneTurn'
  BY <1>0 DEF OneTurn
<1>7. NoneForgotten'
  BY DEF NoneForgotten
<1> QED
  BY <1>3, <1>4, <1>5, <1>6, <1>7 DEF IInv

LEMMA NewJobHandlerPreserves ==
  ASSUME IInv, NewJobHandler
  PROVE  IInv'
<1>0. TypeOK /\ Phase /\ CallsMade
  BY DEF IInv
<1>1. /\ pc = "wait" /\ pc' = pc /\ master = "up" /\ master' = master
      /\ active_bulk_job' = TRUE /\ finished' = FALSE
      /\ active_bulk_job_id' = active_bulk_job_id + 1 /\ created' = created
      /\ active_bulk_job_id \in Nat /\ active_bulk_job_id' \in active_bulk_job_id .. MaxJobs
      /\ unstarted_workers' = unstarted_workers /\ unfinished_workers' = unfinished_workers
      /\ awaiting' = awaiting /\ valid_workers' = valid_workers
      /\ invalid_workers' = invalid_workers /\ calls' = calls /\ procs' = procs
      /\ faults' = faults /\ restarts' = restarts
  BY <1>0, Constants DEF NewJobHandler, Phase, TypeOK, waited, starting, budget
<1>2. Phase'
  BY <1>0, <1>1 DEF Phase
<1>3. /\ \A c \in calls : c.job \in Nat
      /\ \A p \in Procs : procs[p].job \in Nat
  BY <1>0, Constants DEF TypeOK, Process
<1>4. CallsMade'
  BY <1>0, <1>1, <1>3 DEF CallsMade
<1> QED
  BY Zenon, <1>0, <1>1, <1>2, <1>4, JobStep DEF NewJobHandler, TypeOK

LEMMA CreateStatePreserves ==
  ASSUME IInv, CreateState
  PROVE  IInv'
<1>0. TypeOK /\ Phase /\ CallsMade
  BY DEF IInv
<1>1. /\ pc = "wait" /\ pc' = "setup" /\ master = "up" /\ master' = master
      /\ active_bulk_job = TRUE /\ active_bulk_job' = TRUE /\ finished' = finished
      /\ active_bulk_job_id' = active_bulk_job_id
      /\ created' = created \cup {active_bulk_job_id}
      /\ unstarted_workers' = {} /\ unfinished_workers' = [id \in Ids |-> "absent"]
      /\ awaiting' = awaiting /\ valid_workers' = valid_workers
      /\ invalid_workers' = invalid_workers /\ calls' = calls /\ procs' = procs
      /\ faults' = faults /\ restarts' = restarts
  BY <1>0 DEF CreateState, TypeOK, starting, budget
<1>2. /\ active_bulk_job_id \in Jobs /\ active_bulk_job_id \in Nat \ {0}
      /\ active_bulk_job_id \in active_bulk_job_id .. MaxJobs
      /\ active_bulk_job_id \in 1 .. active_bulk_job_id
  BY <1>0, <1>1, Constants DEF TypeOK, Phase, Jobs
<1>3. Phase'
  BY <1>0, <1>1, <1>2 DEF Phase
<1>4. CallsMade'
  BY <1>0, <1>1 DEF CallsMade, Phase
<1> QED
  BY <1>0, <1>1, <1>2, <1>3, <1>4, JobStep DEF CreateState, TypeOK

LEMMA EndsPreserve ==
  ASSUME IInv, RefuseJob \/ EndJob \/ GiveUpWaiting
  PROVE  IInv'
<1>0. TypeOK /\ Phase /\ CallsMade
  BY DEF IInv
<1>1. /\ pc \in {"setup", "loop"} /\ pc' = "wait" /\ master' = master
      /\ active_bulk_job' = FALSE /\ finished' \in BOOLEAN
      /\ active_bulk_job_id' = active_bulk_job_id /\ created' = created
      /\ unstarted_workers' = unstarted_workers /\ unfinished_workers' = unfinished_workers
      /\ awaiting' = awaiting /\ valid_workers' = valid_workers /\ address' = address
      /\ invalid_workers' = invalid_workers /\ calls' = calls /\ procs' = procs
  BY Zenon, <1>0 DEF RefuseJob, EndJob, GiveUpWaiting, finished_fn, TypeOK, starting, waited,
              membership
<1>2. faults' \in 0 .. MaxFaults /\ restarts' \in 0 .. MaxRestarts
  BY <1>0, Budget DEF RefuseJob, EndJob, GiveUpWaiting, finished_fn
<1>3. active_bulk_job_id \in active_bulk_job_id .. MaxJobs
  BY <1>0, Constants DEF TypeOK
<1>4. Phase'
  BY <1>0, <1>1 DEF Phase
<1>5. CallsMade'
  BY <1>0, <1>1 DEF CallsMade, Called
<1>6. UNCHANGED <<master, membership, calls, to_shutdown, procs, starting>>
  BY DEF RefuseJob, EndJob, GiveUpWaiting, finished_fn
<1> QED
  BY Zenon, <1>0, <1>1, <1>2, <1>3, <1>4, <1>5, <1>6, JobStep DEF TypeOK

\* The answers of the workers: calls are answered or given up, and what they
\* leave behind is that the id has been called.
LEMMA AnswerStep ==
  ASSUME IInv,
         UNCHANGED <<master, membership, jobvars, waited, pc, to_shutdown>>,
         TypeOK', Processes',
         awaiting' \subseteq awaiting,
         awaiting' \cup valid_workers' \cup invalid_workers'
           = awaiting \cup valid_workers \cup invalid_workers,
         calls' \subseteq calls,
         \A p \in Procs :
           /\ procs'[p].node_id = procs[p].node_id /\ procs'[p].reply = procs[p].reply
           /\ \/ procs'[p].job = procs[p].job
              \/ \E c \in calls : c.job = procs'[p].job /\ address[c.id] = p
  PROVE  IInv'
<1>0. TypeOK /\ Known /\ Phase /\ CallsMade /\ OneTurn /\ NoneForgotten
  BY DEF IInv
<1>1. /\ workers' = workers /\ address' = address /\ failed_pings' = failed_pings
      /\ next_worker_id' = next_worker_id /\ active_bulk_job' = active_bulk_job
      /\ active_bulk_job_id' = active_bulk_job_id /\ created' = created
      /\ finished' = finished /\ unstarted_workers' = unstarted_workers
      /\ unfinished_workers' = unfinished_workers /\ pc' = pc
      /\ master' = master /\ to_shutdown' = to_shutdown
  BY DEF membership, jobvars, waited
<1>2. \A id \in Ids : Called(id)' <=> Called(id)
  BY <1>1 DEF Called
<1>3. Known'
  BY <1>0, <1>1 DEF Known
<1>4. Phase'
  BY <1>0, <1>1 DEF Phase
<1>5. CallsMade'
  <2>0. \A c \in calls : c.id \in Ids
    BY <1>0 DEF TypeOK
  <2>1. ASSUME NEW c \in calls'
        PROVE  /\ c.job <= active_bulk_job_id
               /\ c.job = active_bulk_job_id =>
                    active_bulk_job_id \in created /\ pc # "setup" /\ Called(c.id)'
    BY <1>0, <1>2, <2>0 DEF CallsMade
  <2>2. ASSUME NEW p \in Procs, master # "down"
        PROVE  /\ procs'[p].job <= active_bulk_job_id
               /\ procs'[p].job = active_bulk_job_id /\ active_bulk_job_id # 0 =>
                    /\ active_bulk_job_id \in created /\ pc # "setup"
                    /\ \E id \in Ids : address[id] = p /\ Called(id)'
    <3>1. CASE procs'[p].job = procs[p].job
      BY <1>0, <1>2, <2>2, <3>1 DEF CallsMade
    <3>2. CASE \E c \in calls : c.job = procs'[p].job /\ address[c.id] = p
      <4>1. PICK c \in calls : c.job = procs'[p].job /\ address[c.id] = p
        BY <3>2
      <4>2. c.id \in Ids
        BY <2>0
      <4> QED
        BY <1>0, <1>2, <4>1, <4>2 DEF CallsMade
    <3> QED
      BY <3>1, <3>2
  <2> QED
    BY <1>1, <2>1, <2>2 DEF CallsMade
<1>6. OneTurn'
  BY <1>0, <1>1 DEF OneTurn
<1>7. NoneForgotten'
  BY <1>0, <1>1 DEF NoneForgotten
<1> QED
  BY <1>3, <1>4, <1>5, <1>6, <1>7 DEF IInv

LEMMA NewJobFailsPreserves ==
  ASSUME IInv, NEW n \in Ids, NewJobFails(n)
  PROVE  IInv'
<1>0. TypeOK /\ Processes
  BY DEF IInv
<1>1. faults' \in 0 .. MaxFaults /\ restarts' \in 0 .. MaxRestarts
  BY <1>0, Budget DEF NewJobFails
<1>2. TypeOK'
  BY <1>0, <1>1 DEF TypeOK, NewJobFails, membership, jobvars, waited
<1>3. Processes'
  BY Zenon, <1>0 DEF Processes, NewJobFails
<1>4. n \in awaiting /\ awaiting' = awaiting \ {n} /\ valid_workers' = valid_workers
      /\ invalid_workers' = invalid_workers \cup {n} /\ calls' = calls /\ procs' = procs
      /\ UNCHANGED <<master, membership, jobvars, waited, pc, to_shutdown>>
  BY Zenon DEF NewJobFails
<1> QED
  BY <1>2, <1>3, <1>4, AnswerStep

LEMMA NewJobPreserves ==
  ASSUME IInv, NEW c \in calls, NewJob(c)
  PROVE  IInv'
<1> DEFINE p == address[c.id]
           r == [procs[p] EXCEPT !.state = "RUNNING_JOB", !.active = TRUE, !.job = c.job]
<1>0. TypeOK /\ Processes /\ c.id \in Ids /\ c.job \in Jobs /\ p \in Procs
  BY DEF IInv, TypeOK, Known
<1>1. procs[p] \in Process /\ Consistent(procs[p]) /\ c.job \in 0 .. MaxJobs
  BY <1>0, ProcessesHaveType, Constants
<1>2. \/ procs' = procs
      \/ procs[p].state = "IDLE" /\ procs' = [procs EXCEPT ![p] = r]
  BY DEF NewJob, accepts_job, Set
<1>3. /\ calls' = calls \ {c}
      /\ awaiting' \subseteq awaiting
      /\ valid_workers' \subseteq Ids /\ invalid_workers' \subseteq Ids
      /\ awaiting' \cup valid_workers' \cup invalid_workers'
           = awaiting \cup valid_workers \cup invalid_workers
  BY <1>0 DEF NewJob, TypeOK
<1>4. UNCHANGED <<master, membership, jobvars, waited, pc, to_shutdown, budget>>
  BY DEF NewJob
<1> HIDE DEF p
<1>5. procs[p].state = "IDLE" => r \in Process /\ Consistent(r)
  BY Zenon, <1>1 DEF Process, Consistent
<1>6. r.job = c.job /\ r.node_id = procs[p].node_id /\ r.reply = procs[p].reply
  BY <1>1 DEF Process
<1> HIDE DEF r
<1>7. procs' \in [Procs -> Process] /\ Processes'
  <2>1. procs \in [Procs -> Process]
    BY <1>0 DEF TypeOK
  <2> QED
    BY <1>0, <1>2, <1>5, <2>1 DEF Processes
<1>8. TypeOK'
  BY <1>0, <1>3, <1>4, <1>7 DEF TypeOK, membership, jobvars, waited, budget
<1>9. ASSUME NEW q \in Procs
      PROVE  /\ procs'[q].node_id = procs[q].node_id /\ procs'[q].reply = procs[q].reply
             /\ \/ procs'[q].job = procs[q].job
                \/ \E d \in calls : d.job = procs'[q].job /\ address[d.id] = q
  <2>1. procs \in [Procs -> Process] /\ address[c.id] = p
    BY <1>0 DEF TypeOK, p
  <2>2. procs'[q] = procs[q] \/ (q = p /\ procs'[q] = r)
    BY <1>2, <2>1
  <2> QED
    BY <1>6, <2>1, <2>2
<1> QED
  BY Zenon, <1>3, <1>4, <1>7, <1>8, <1>9, AnswerStep

LEMMA RegisterWorkerPreserves ==
  ASSUME IInv, NEW p \in Procs, RegisterWorker(p)
  PROVE  IInv'
<1> DEFINE n == next_worker_id
<1>0. TypeOK /\ Processes /\ Known /\ Phase /\ CallsMade /\ OneTurn /\ NoneForgotten
      /\ n \in Ids /\ n \in Nat
  BY Constants DEF IInv, RegisterWorker
<1>1. /\ procs[p] \in Process /\ Consistent(procs[p]) /\ procs[p].wpc = "register"
      /\ master = "up"
  BY ProcessesHaveType DEF RegisterWorker
<1>2. /\ master' = master /\ failed_pings' = failed_pings
      /\ active_bulk_job' = active_bulk_job /\ active_bulk_job_id' = active_bulk_job_id
      /\ created' = created /\ finished' = finished
      /\ unfinished_workers' = unfinished_workers /\ pc' = pc /\ awaiting' = awaiting
      /\ valid_workers' = valid_workers /\ invalid_workers' = invalid_workers
      /\ calls' = calls /\ to_shutdown' = to_shutdown
      /\ faults' = faults /\ restarts' = restarts /\ next_worker_id' = n + 1
  BY DEF RegisterWorker, jobvars, starting, budget
<1>3. /\ workers' \in [Ids -> {"none", "IDLE", "RUNNING_JOB", "UNREGISTERED"}]
      /\ address' \in [Ids -> Procs \cup {None}]
      /\ \A id \in Ids : workers'[id] = IF id = n THEN "IDLE" ELSE workers[id]
      /\ \A id \in Ids : address'[id] = IF id = n THEN p ELSE address[id]
  BY <1>0 DEF RegisterWorker, TypeOK
<1>4. /\ unstarted_workers' \in {unstarted_workers, unstarted_workers \cup {n}}
      /\ pc # "wait" => unstarted_workers' = unstarted_workers \cup {n}
  BY <1>0 DEF RegisterWorker, with_late_worker, NoState, Phase
<1>5. /\ procs' \in [Procs -> Process] /\ Processes'
      /\ \A q \in Procs : /\ procs'[q].job = procs[q].job
                          /\ procs'[q].node_id = procs[q].node_id
                          /\ procs'[q].reply \in {procs[q].reply, n}
  <2> DEFINE a == [procs[p] EXCEPT !.wpc = "hung"]
             b == [procs[p] EXCEPT !.wpc = "registered", !.reply = n]
  <2>1. /\ a \in Process /\ Consistent(a) /\ a.job = procs[p].job
        /\ a.node_id = procs[p].node_id /\ a.reply = procs[p].reply
    BY <1>1 DEF Process, Consistent
  <2>2. /\ b \in Process /\ Consistent(b) /\ b.job = procs[p].job
        /\ b.node_id = procs[p].node_id /\ b.reply = n
    BY Zenon, <1>0, <1>1 DEF Process, Consistent
  <2>3. procs' = [procs EXCEPT ![p] = a] \/ procs' = [procs EXCEPT ![p] = b]
    BY Zenon DEF RegisterWorker, Set
  <2>4. procs \in [Procs -> Process]
    BY <1>0 DEF TypeOK
  <2> HIDE DEF a, b
  <2>5. PICK r \in {a, b} : procs' = [procs EXCEPT ![p] = r]
    BY <2>3
  <2>6. procs' \in [Procs -> Process] /\ \A q \in Procs : procs'[q] = IF q = p THEN r ELSE procs[q]
    BY <2>1, <2>2, <2>4, <2>5
  <2> QED
    BY <1>0, <2>1, <2>2, <2>6 DEF Processes
<1>6. TypeOK'
  <2>1. n + 1 \in 0 .. MaxIds /\ unstarted_workers' \subseteq Ids
    BY <1>0, <1>4, Constants DEF TypeOK, Ids
  <2> QED
    BY <1>0, <1>2, <1>3, <1>5, <2>1 DEF TypeOK
<1> HIDE DEF n
<1>7. Known'
  <2>0. /\ \A id \in Ids : id \in Nat
        /\ n = next_worker_id /\ n \in Nat
        /\ awaiting \cup valid_workers \cup invalid_workers \cup to_shutdown \subseteq Ids
        /\ \A c \in calls : c.id \in Ids
    BY <1>0, Constants DEF TypeOK, n
  <2>a. \A q \in Procs : procs[q].node_id \in Int /\ procs[q].reply \in Int
    <3>1. \A q \in Procs : procs[q] \in Process
      BY <1>0 DEF TypeOK
    <3>2. \A x \in Ids \cup {None} : x \in Int
      BY Constants DEF None
    <3> QED
      BY <3>1, <3>2 DEF Process
  <2>b. /\ \A id \in Ids : workers[id] # "none" <=> id < n
        /\ \A id \in Ids : id < n => address[id] \in Procs
        /\ \A id \in Ids : id >= n => unfinished_workers[id] = "absent" /\ id \notin unstarted_workers
        /\ \A c \in calls : c.id < n
        /\ \A id \in awaiting \cup valid_workers \cup invalid_workers \cup to_shutdown : id < n
        /\ \A q \in Procs : procs[q].node_id < n /\ procs[q].reply < n
    BY <1>0, <1>1, <2>0 DEF Known
  <2>c. \A i \in Nat : /\ i < n + 1 <=> (i < n \/ i = n)
                       /\ i >= n + 1 <=> (i >= n /\ i # n)
    BY <2>0
  <2>1. \A id \in Ids : workers'[id] # "none" <=> id < n + 1
    BY <1>3, <2>0, <2>b, <2>c
  <2>2. \A id \in Ids : id < n + 1 => address'[id] \in Procs
    BY <1>3, <2>0, <2>b, <2>c
  <2>3. \A id \in Ids : id >= n + 1 =>
          unfinished_workers[id] = "absent" /\ id \notin unstarted_workers'
    BY <1>4, <2>0, <2>b, <2>c
  <2>4. /\ \A c \in calls : c.id < n + 1
        /\ \A id \in awaiting \cup valid_workers \cup invalid_workers \cup to_shutdown :
             id < n + 1
    BY <2>0, <2>b, <2>c
  <2>5. \A q \in Procs : procs'[q].node_id < n + 1 /\ procs'[q].reply < n + 1
    BY <1>5, <2>0, <2>a, <2>b
  <2> QED
    BY <1>2, <2>1, <2>2, <2>3, <2>4, <2>5 DEF Known
<1>8. Phase'
  BY <1>0, <1>2 DEF Phase
<1>9. n \notin awaiting \cup valid_workers \cup invalid_workers
      /\ unfinished_workers[n] = "absent"
  <2>1. /\ \A id \in awaiting \cup valid_workers \cup invalid_workers \cup to_shutdown :
             id < next_worker_id
        /\ next_worker_id >= next_worker_id => unfinished_workers[n] = "absent"
    BY Zenon, <1>0 DEF Known, n
  <2>2. \A m \in Nat : m >= m /\ ~(m < m)
    OBVIOUS
  <2> QED
    BY Zenon, <1>0, <2>1, <2>2 DEF n
<1>10. CallsMade'
  <2>1. \A id \in Ids : Called(id)' <=> Called(id)
    BY <1>2 DEF Called
  <2>2. \A c \in calls : c.id \in Ids
    BY <1>0 DEF TypeOK
  <2>3. ASSUME NEW q \in Procs, NEW id \in Ids, address[id] = q, Called(id)
        PROVE  address'[id] = q /\ Called(id)'
    BY <1>3, <1>9, <2>1, <2>3 DEF Called
  <2>4. \A c \in calls :
          /\ c.job <= active_bulk_job_id
          /\ c.job = active_bulk_job_id =>
               active_bulk_job_id \in created /\ pc # "setup" /\ Called(c.id)'
    BY Zenon, <1>0, <2>1, <2>2 DEF CallsMade
  <2>5. \A q \in Procs :
          /\ procs'[q].job <= active_bulk_job_id
          /\ procs'[q].job = active_bulk_job_id /\ active_bulk_job_id # 0 =>
               /\ active_bulk_job_id \in created /\ pc # "setup"
               /\ \E id \in Ids : address'[id] = q /\ Called(id)'
    BY <1>0, <1>1, <1>5, <2>3 DEF CallsMade
  <2> QED
    BY Zenon, <1>2, <2>4, <2>5 DEF CallsMade
<1>11. OneTurn'
  <2>0. unstarted_workers \subseteq Ids
    BY <1>0 DEF TypeOK
  <2> QED
    BY <1>0, <1>2, <1>3, <1>4, <1>9, <2>0 DEF OneTurn
<1>12. NoneForgotten'
  BY <1>0, <1>2, <1>3, <1>4 DEF NoneForgotten
<1> QED
  BY <1>5, <1>6, <1>7, <1>8, <1>10, <1>11, <1>12 DEF IInv

\* start_job_on_workers calls the workers of S.  Those still to be called are
\* all in S, and an IDLE worker of S has no entry yet.
LEMMA StartPreserves ==
  ASSUME IInv, NEW S \in SUBSET Ids, start_job_on_workers(S),
         pc \in {"setup", "loop"}, master # "down",
         \A id \in S : workers[id] = "IDLE" => unfinished_workers[id] = "absent",
         \A id \in Ids : workers[id] = "IDLE" /\ unfinished_workers[id] = "absent"
                           => id \in S
  PROVE  IInv'
<1> DEFINE idle == {id \in S : workers[id] = "IDLE"}
           made == {[id |-> id, job |-> active_bulk_job_id] : id \in idle}
<1>0. TypeOK /\ Processes /\ Known /\ Phase /\ CallsMade /\ OneTurn /\ NoneForgotten
  BY DEF IInv
<1>1. /\ awaiting = {} /\ valid_workers = {} /\ invalid_workers = {}
      /\ active_bulk_job = TRUE /\ active_bulk_job_id \in created
      /\ active_bulk_job_id \in Jobs /\ active_bulk_job_id \in Nat
  BY SMTT(30), <1>0, Constants DEF Phase, TypeOK
<1>2. /\ master' = master /\ address' = address /\ failed_pings' = failed_pings
      /\ next_worker_id' = next_worker_id /\ active_bulk_job' = active_bulk_job
      /\ active_bulk_job_id' = active_bulk_job_id /\ created' = created
      /\ finished' = finished /\ unfinished_workers' = unfinished_workers
      /\ to_shutdown' = to_shutdown /\ procs' = procs
      /\ faults' = faults /\ restarts' = restarts
      /\ awaiting' = idle /\ valid_workers' = {} /\ invalid_workers' = {}
      /\ unstarted_workers' = {} /\ pc' = "await" /\ calls' = calls \cup made
  BY Zenon DEF start_job_on_workers, jobvars, budget
<1>3. /\ workers' \in [Ids -> {"none", "IDLE", "RUNNING_JOB", "UNREGISTERED"}]
      /\ \A id \in Ids : workers'[id] = IF id \in idle THEN "RUNNING_JOB" ELSE workers[id]
  BY SMTT(30), <1>0 DEF start_job_on_workers, TypeOK
<1>4. idle \subseteq Ids /\ \A id \in idle : workers[id] = "IDLE" /\ id \in S
  BY Zenon
<1>5. made \subseteq [id : Ids, job : Jobs]
      /\ \A c \in made : c.job = active_bulk_job_id /\ c.id \in idle
  BY <1>1
<1>6. \A id \in Ids : (workers[id] = "IDLE" /\ unfinished_workers[id] = "absent") => id \in idle
  OBVIOUS
<1> HIDE DEF idle, made
<1>7. TypeOK'
  BY Zenon, <1>0, <1>2, <1>3, <1>4, <1>5 DEF TypeOK
<1>8. Processes'
  BY Zenon, <1>0, <1>2 DEF Processes
<1>9. Known'
  <2>1. \A id \in idle : id < next_worker_id
    BY Zenon, <1>0, <1>4 DEF Known
  <2>2. \A id \in Ids : workers'[id] # "none" <=> id < next_worker_id
    BY SMTT(30), <1>0, <1>3, <1>4 DEF Known
  <2>3. \A c \in calls' : c.id < next_worker_id
    BY Zenon, <1>0, <1>2, <1>5, <2>1 DEF Known
  <2> QED
    BY Zenon, <1>0, <1>2, <2>1, <2>2, <2>3 DEF Known
<1>10. Phase'
  BY Zenon, <1>0, <1>1, <1>2 DEF Phase
<1>11. CallsMade'
  <2>1. \A id \in Ids : Called(id) => Called(id)'
    BY Zenon, <1>1, <1>2 DEF Called
  <2>2. \A id \in idle : Called(id)'
    BY <1>2 DEF Called
  <2>3. \A c \in calls : c.id \in Ids
    BY Zenon, <1>0 DEF TypeOK
  <2>4. ASSUME NEW c \in calls'
        PROVE  /\ c.job <= active_bulk_job_id
               /\ c.job = active_bulk_job_id => Called(c.id)'
    BY <1>0, <1>1, <1>2, <1>5, <2>1, <2>2, <2>3 DEF CallsMade
  <2>5. ASSUME NEW p \in Procs
        PROVE  /\ procs[p].job <= active_bulk_job_id
               /\ procs[p].job = active_bulk_job_id /\ active_bulk_job_id # 0 =>
                    \E id \in Ids : address[id] = p /\ Called(id)'
    BY <1>0, <2>1 DEF CallsMade
  <2> QED
    BY Zenon, <1>1, <1>2, <2>4, <2>5 DEF CallsMade
<1>12. OneTurn'
  <2>1. ASSUME NEW id \in Ids, workers'[id] = "RUNNING_JOB"
        PROVE  unfinished_workers[id] # "false"
    BY Zenon, <1>0, <1>3, <1>4, <2>1 DEF OneTurn
  <2> QED
    BY <1>2, <2>1 DEF OneTurn
<1>13. NoneForgotten'
  BY <1>2, <1>3, <1>6 DEF NoneForgotten
<1> QED
  BY <1>7, <1>8, <1>9, <1>10, <1>11, <1>12, <1>13 DEF IInv

\* At the start every IDLE worker is called; later the late ones.
LEMMA StartsPreserve ==
  ASSUME IInv, StartJob \/ StartLateWorkers
  PROVE  IInv'
<1>0. TypeOK /\ OneTurn /\ NoneForgotten
  BY Zenon DEF IInv
<1>1. CASE StartJob
  <2>1. \A id \in Ids : workers[id] = "IDLE" => unfinished_workers[id] = "absent"
    BY <1>0, <1>1 DEF OneTurn, StartJob
  <2> QED
    BY <1>1, <2>1, StartPreserves DEF StartJob
<1>2. CASE StartLateWorkers
  <2>1. unstarted_workers \in SUBSET Ids
    BY <1>0 DEF TypeOK
  <2>2. \A id \in unstarted_workers : workers[id] = "IDLE" => unfinished_workers[id] = "absent"
    BY <1>0, <1>2 DEF OneTurn, StartLateWorkers
  <2>3. \A id \in Ids : workers[id] = "IDLE" /\ unfinished_workers[id] = "absent"
                          => id \in unstarted_workers
    BY <1>0, <1>2 DEF NoneForgotten, StartLateWorkers
  <2> QED
    BY <1>2, <2>1, <2>2, <2>3, StartPreserves DEF StartLateWorkers
<1> QED
  BY <1>1, <1>2

LEMMA RecordAnswersPreserves ==
  ASSUME IInv, RecordAnswers
  PROVE  IInv'
<1>0. TypeOK /\ Processes /\ Known /\ Phase /\ CallsMade /\ OneTurn /\ NoneForgotten
  BY DEF IInv
<1>1. /\ master' = master /\ address' = address /\ next_worker_id' = next_worker_id
      /\ active_bulk_job' = active_bulk_job /\ active_bulk_job_id' = active_bulk_job_id
      /\ created' = created /\ finished' = finished
      /\ unstarted_workers' = unstarted_workers /\ awaiting' = awaiting
      /\ calls' = calls /\ to_shutdown' = to_shutdown /\ procs' = procs
      /\ faults' = faults /\ restarts' = restarts
      /\ valid_workers' = {} /\ invalid_workers' = {} /\ pc' = "loop"
      /\ pc = "await" /\ awaiting = {} /\ master # "down"
  BY DEF RecordAnswers, jobvars, budget
<1>2. /\ workers' \in [Ids -> {"none", "IDLE", "RUNNING_JOB", "UNREGISTERED"}]
      /\ \A id \in Ids : workers'[id] =
           IF id \in invalid_workers THEN "UNREGISTERED" ELSE workers[id]
  BY <1>0 DEF RecordAnswers, TypeOK
<1>3. /\ unfinished_workers' \in [Ids -> {"absent", "true", "false"}]
      /\ \A id \in Ids : unfinished_workers'[id] =
           IF id \in valid_workers THEN "true"
           ELSE IF id \in invalid_workers THEN "false" ELSE unfinished_workers[id]
  <2>1. unfinished_workers \in [Ids -> {"absent", "true", "false"}]
    BY <1>0 DEF TypeOK
  <2> QED
    BY <2>1 DEF RecordAnswers, recorded
<1>4. failed_pings' \in [Ids -> 0 .. FAILED_PINGS_BEFORE_REMOVAL - 1]
  <2>1. 0 \in 0 .. FAILED_PINGS_BEFORE_REMOVAL - 1
    BY Constants
  <2> QED
    BY <1>0, <2>1 DEF RecordAnswers, TypeOK
<1>5. TypeOK'
  BY <1>0, <1>1, <1>2, <1>3, <1>4 DEF TypeOK
<1>6. Processes'
  BY Zenon, <1>0, <1>1 DEF Processes
<1>7. Known'
  <2>1. \A id \in valid_workers \cup invalid_workers : id \in Ids /\ id < next_worker_id
    BY Zenon, <1>0 DEF Known, TypeOK
  <2>2. \A id \in Ids : workers'[id] # "none" <=> id < next_worker_id
    BY <1>0, <1>2, <2>1 DEF Known
  <2>3. \A id \in Ids : id >= next_worker_id => id \notin valid_workers \cup invalid_workers
    <3>1. next_worker_id \in 0 .. MaxIds
      BY Zenon, <1>0 DEF TypeOK
    <3> QED
      BY <2>1, <3>1, Constants DEF Ids
  <2>4. \A id \in Ids : id >= next_worker_id => unfinished_workers'[id] = "absent"
    BY <1>0, <1>3, <2>3 DEF Known
  <2> QED
    BY Zenon, <1>0, <1>1, <2>2, <2>4 DEF Known
<1>8. Phase'
  BY <1>0, <1>1 DEF Phase
<1>9. CallsMade'
  <2>1. \A id \in Ids : Called(id) => Called(id)'
    BY <1>1, <1>3 DEF Called
  <2>2. \A c \in calls : c.id \in Ids
    <3>1. calls \subseteq [id : Ids, job : Jobs]
      BY Zenon, <1>0 DEF TypeOK
    <3> QED
      BY <3>1
  <2> QED
    BY <1>0, <1>1, <2>1, <2>2 DEF CallsMade
<1>10. OneTurn'
  <2>0. unstarted_workers \subseteq Ids
    BY Zenon, <1>0 DEF TypeOK
  <2> QED
    BY <1>0, <1>1, <1>2, <1>3, <2>0 DEF OneTurn
<1>11. NoneForgotten'
  BY <1>0, <1>1, <1>2, <1>3 DEF NoneForgotten
<1> QED
  BY <1>5, <1>6, <1>7, <1>8, <1>9, <1>10, <1>11 DEF IInv

-----------------------------------------------------------------------------
(* The theorems *)

LEMMA Initially == Init => IInv
<1> SUFFICES ASSUME Init PROVE IInv
  OBVIOUS
<1>1. /\ 0 \in 0 .. FAILED_PINGS_BEFORE_REMOVAL - 1 /\ 0 \in 0 .. MaxIds
      /\ 0 \in 0 .. MaxJobs /\ 0 \in 0 .. MaxFaults /\ 0 \in 0 .. MaxRestarts
  BY Constants
<1>2. TypeOK
  <2>1. /\ workers \in [Ids -> {"none", "IDLE", "RUNNING_JOB", "UNREGISTERED"}]
        /\ unfinished_workers \in [Ids -> {"absent", "true", "false"}]
    BY DEF Init
  <2>2. /\ address \in [Ids -> Procs \cup {None}]
        /\ failed_pings \in [Ids -> 0 .. FAILED_PINGS_BEFORE_REMOVAL - 1]
        /\ procs \in [Procs -> Process]
    BY <1>1, FreshProcess DEF Init
  <2> QED
    BY Zenon, <1>1, <2>1, <2>2 DEF TypeOK, Init
<1>3. Processes
  BY SMTT(30), FreshProcess DEF Processes, Init
<1>4. Known
  BY FreshProcess, Constants DEF Known, Init, None
<1>5. CallsMade
  BY FreshProcess DEF CallsMade, Init
<1>6. Phase /\ OneTurn /\ NoneForgotten
  BY DEF Phase, OneTurn, NoneForgotten, Init
<1> QED
  BY <1>2, <1>3, <1>4, <1>5, <1>6 DEF IInv

LEMMA Stutters ==
  ASSUME IInv, UNCHANGED vars
  PROVE  IInv'
<1>1. Quiet
  BY NothingSettles DEF IInv, Quiet, TypeOK, vars, cluster, membership, jobvars, waited, budget
<1> QED
  BY <1>1, QuietMaster DEF vars

LEMMA Inductive == IInv /\ [Next]_vars => IInv'
<1> SUFFICES ASSUME IInv, [Next]_vars PROVE IInv'
  OBVIOUS
<1>1. ASSUME NEW p \in Procs, 
             \/ RegisterWorker(p) \/ Registration(p) \/ StartProcessing(p)
             \/ LeaveMainLoop(p) \/ FinishedJob(p) \/ ProcessJobReturns(p)
      PROVE  IInv'
  BY <1>1, RegisterWorkerPreserves, RegistrationPreserves, StartProcessingPreserves,
     LeaveMainLoopPreserves, FinishedJobPreserves, ProcessJobReturnsPreserves
<1>2. ASSUME NEW p \in Procs, 
             \/ TryUnregister(p) \/ Rejoin(p) \/ Exit(p) \/ CallFails(p)
             \/ Watchdog(p) \/ StopServing(p) \/ Crash(p) \/ Restart(p)
      PROVE  IInv'
  BY <1>2, TryUnregisterPreserves, RejoinPreserves, ProcessEndsPreserves,
     WatchdogPreserves, StopServingPreserves
<1>3. ASSUME NEW c \in calls, NewJob(c)
      PROVE  IInv'
  BY <1>3, NewJobPreserves
<1>4. ASSUME \/ CreateState \/ RefuseJob \/ StartJob \/ StartLateWorkers
             \/ RecordAnswers \/ EndJob \/ GiveUpWaiting \/ WorkDone \/ MasterEnds
             \/ NewJobHandler \/ PingerThrows \/ StartShutdown
      PROVE  IInv'
  BY <1>4, CreateStatePreserves, EndsPreserve, StartsPreserve, RecordAnswersPreserves,
     WorkDonePreserves, MasterEndsPreserves, NewJobHandlerPreserves, StartShutdownPreserves
<1>5. ASSUME NEW id \in Ids,
             NewJobFails(id) \/ TaskTimeout(id) \/ Ping(id) \/ ShutdownWorker(id)
      PROVE  IInv'
  BY <1>5, NewJobFailsPreserves, TaskTimeoutPreserves, PingPreserves,
     ShutdownWorkerPreserves
<1> QED
  BY <1>1, <1>2, <1>3, <1>4, <1>5, Stutters DEF Next, System, Environment

\* The inductive invariant holds of the cluster, whatever fails.
THEOREM Invariance == Spec => []IInv
BY Initially, Inductive, PTL DEF Spec

\* The variables of the master and of the processes keep their types; the pings
\* of a registered worker that failed stay below FAILED_PINGS_BEFORE_REMOVAL.
THEOREM TypeCorrect == Spec => []TypeOK
<1>1. IInv => TypeOK
  BY DEF IInv
<1> QED
  BY <1>1, Invariance, PTL

\* A worker that registers while a bulk job runs is on its list of workers still
\* to start (RegisterWorkerHandler against start_job_on_workers).
THEOREM NoWorkerForgotten == Spec => []NoneForgotten
<1>1. IInv => NoneForgotten
  BY DEF IInv
<1> QED
  BY <1>1, Invariance, PTL

\* The wait loop of process_job has an entry for every process that runs the
\* active bulk job and gets its tasks.
THEOREM RunningWorkersAreWaitedFor == Spec => []RunningIsWaitedFor
<1>1. IInv => RunningIsWaitedFor
  <2> SUFFICES ASSUME IInv, pc = "loop", NEW p \in Procs,
                      procs[p].wpc = "process_job", procs[p].job = active_bulk_job_id,
                      workers[procs[p].node_id] = "RUNNING_JOB"
               PROVE  \/ unfinished_workers[procs[p].node_id] = "true"
                      \/ \E id \in Ids \ {procs[p].node_id} :
                           address[id] = p /\ unfinished_workers[id] # "absent"
    BY DEF RunningIsWaitedFor
  <2>0. TypeOK /\ Phase /\ CallsMade /\ OneTurn
    BY DEF IInv
  <2>1. procs[p].node_id \in Ids
    BY ProcessesHaveType DEF Consistent
  <2>2. /\ awaiting = {} /\ valid_workers = {} /\ invalid_workers = {}
        /\ active_bulk_job_id # 0 /\ master # "down"
    BY <2>0 DEF Phase
  <2>3. PICK id \in Ids : address[id] = p /\ unfinished_workers[id] # "absent"
    BY <2>0, <2>2 DEF CallsMade, Called
  <2>4. /\ unfinished_workers[procs[p].node_id] # "false"
        /\ unfinished_workers[procs[p].node_id] \in {"absent", "true", "false"}
    BY <2>0, <2>1 DEF OneTurn, TypeOK
  <2> QED
    BY <2>3, <2>4
<1> QED
  BY <1>1, Invariance, PTL

\* A process keeps the bulk job it works on until process_job has returned: the
\* test and set of state_ in NewJob lets no other one in.
THEOREM JobsAreNotReplaced == Spec => JobNotReplaced
<1> DEFINE Working(p) == procs[p].wpc \in {"process_job", "finished"}
           Kept(p) == procs'[p].wpc # "off" => procs'[p].job = procs[p].job
<1>1. ASSUME IInv, Next
      PROVE  \A p \in Procs : Working(p) => Kept(p)
  <2>0. /\ procs \in [Procs -> Process]
        /\ \A q \in Procs : procs[q] \in Process /\ Consistent(procs[q])
    BY <1>1, ProcessesHaveType DEF IInv, TypeOK
  <2>1. CASE procs' = procs
    BY <2>1
  <2>2. ASSUME NEW q \in Procs, NEW r, Set(q, r),
               \/ ~Working(q)
               \/ r.wpc = "off"
               \/ r.job = procs[q].job
        PROVE  \A p \in Procs : Working(p) => Kept(p)
    <3>1. \A p \in Procs : procs'[p] = IF p = q THEN r ELSE procs[p]
      BY <2>0, <2>2 DEF Set
    <3> QED
      BY <2>2, <3>1
  <2> HIDE DEF Kept
  <2>3. ASSUME NEW q \in Procs,
               \/ RegisterWorker(q) \/ Registration(q) \/ StartProcessing(q)
               \/ ProcessJobReturns(q) \/ TryUnregister(q) \/ Rejoin(q) \/ Exit(q)
               \/ Restart(q)
        PROVE  \A p \in Procs : Working(p) => Kept(p)
    <3>1. ~Working(q)
      BY <2>3 DEF RegisterWorker, Registration, StartProcessing, ProcessJobReturns,
                  TryUnregister, Rejoin, Exit, Restart, Up
    <3>2. \E r : Set(q, r)
      BY <2>3 DEF RegisterWorker, Registration, StartProcessing, ProcessJobReturns,
                  TryUnregister, Rejoin, Exit, Restart
    <3> QED
      BY <2>2, <3>1, <3>2
  <2>4. ASSUME NEW q \in Procs,
               \/ LeaveMainLoop(q) \/ FinishedJob(q) \/ Watchdog(q) \/ StopServing(q)
        PROVE  \A p \in Procs : Working(p) => Kept(p)
    <3>1. CASE LeaveMainLoop(q) \/ FinishedJob(q)
      <4>1. \A w, u : /\ [procs[q] EXCEPT !.wpc = w].job = procs[q].job
                      /\ [procs[q] EXCEPT !.wpc = w, !.success = u].job = procs[q].job
        BY <2>0 DEF Process
      <4>2. \/ \E w : Set(q, [procs[q] EXCEPT !.wpc = w])
            \/ \E w, u : Set(q, [procs[q] EXCEPT !.wpc = w, !.success = u])
        BY <3>1, Zenon DEF LeaveMainLoop, FinishedJob
      <4> QED
        BY Zenon, <2>2, <4>1, <4>2
    <3>2. CASE Watchdog(q)
      <4>1. [procs[q] EXCEPT !.trigger_shutdown = TRUE].job = procs[q].job
        BY <2>0 DEF Process
      <4> QED
        BY Zenon, <3>2, <4>1, <2>2 DEF Watchdog
    <3>3. CASE StopServing(q)
      <4>1. PICK u : Set(q, [procs[q] EXCEPT !.serving = FALSE, !.state = "SHUTTING_DOWN",
                                             !.unregistered = u])
        BY Zenon, <3>3 DEF StopServing
      <4>2. [procs[q] EXCEPT !.serving = FALSE, !.state = "SHUTTING_DOWN",
                             !.unregistered = u].job = procs[q].job
        BY <2>0 DEF Process
      <4> QED
        BY Zenon, <4>1, <4>2, <2>2
    <3> QED
      BY Zenon, <2>4, <3>1, <3>2, <3>3
  <2>5. ASSUME NEW q \in Procs, CallFails(q) \/ Crash(q)
        PROVE  \A p \in Procs : Working(p) => Kept(p)
    <3>1. [procs[q] EXCEPT !.wpc = "wait"].job = procs[q].job
      BY <2>0 DEF Process
    <3>2. \/ Set(q, [procs[q] EXCEPT !.wpc = "wait"])
          \/ Set(q, EndedProcess)
      BY <2>5 DEF CallFails, Crash
    <3> QED
      BY Zenon, <3>1, <3>2, <2>2, FreshProcess
  <2>6. ASSUME NEW c \in calls, NewJob(c)
        PROVE  \A p \in Procs : Working(p) => Kept(p)
    <3> DEFINE q == address[c.id]
    <3>0. q \in Procs
      <4>1. c \in [id : Ids, job : Jobs] /\ Known
        BY Zenon, <1>1, <2>6 DEF IInv, TypeOK
      <4>2. c.id < next_worker_id
        BY Zenon, <4>1, <2>6 DEF Known
      <4> QED
        BY <4>1, <4>2 DEF Known
    <3>1. CASE procs[q].state = "IDLE"
      <4>1. ~Working(q)
        BY <2>0, <3>0, <3>1 DEF Consistent
      <4>2. \E r : Set(q, r)
        BY <2>6, <3>1 DEF NewJob, accepts_job
      <4> QED
        BY <2>2, <3>0, <4>1, <4>2
    <3>2. CASE procs[q].state # "IDLE"
      BY <2>1, <2>6, <3>2 DEF NewJob, accepts_job
    <3> QED
      BY <3>1, <3>2
  <2>7. ASSUME NEW id \in Ids, ShutdownWorker(id)
        PROVE  \A p \in Procs : Working(p) => Kept(p)
    <3> DEFINE q == address[id]
               r == [procs[q] EXCEPT !.state = "SHUTTING_DOWN", !.unregistered = TRUE,
                                     !.trigger_shutdown = TRUE]
    <3>0. q \in Procs
      BY <1>1, <2>7 DEF IInv, Known, ShutdownWorker
    <3>1. Set(q, r) \/ procs' = procs
      BY <2>7 DEF ShutdownWorker
    <3> HIDE DEF q
    <3>2. r.job = procs[q].job
      BY SMTT(30), <2>0, <3>0 DEF Process
    <3> HIDE DEF r
    <3> QED
      BY <2>1, <2>2, <3>0, <3>1, <3>2
  <2>8. ASSUME \/ CreateState \/ RefuseJob \/ StartJob \/ StartLateWorkers
               \/ RecordAnswers \/ EndJob \/ GiveUpWaiting \/ WorkDone \/ MasterEnds
               \/ NewJobHandler \/ PingerThrows \/ StartShutdown
               \/ \E id \in Ids : NewJobFails(id) \/ TaskTimeout(id) \/ Ping(id)
        PROVE  procs' = procs
    BY Zenon, <2>8 DEF CreateState, RefuseJob, StartJob, StartLateWorkers, RecordAnswers, EndJob,
       GiveUpWaiting, WorkDone, MasterEnds, NewJobHandler, PingerThrows, StartShutdown,
       NewJobFails, TaskTimeout, Ping, remove_pinged, MasterGone, finished_fn,
       start_job_on_workers
  <2> HIDE DEF Working
  <2> QED
    BY Zenon, <1>1, <2>1, <2>3, <2>4, <2>5, <2>6, <2>7, <2>8 DEF Next, System, Environment
<1>2. IInv /\ [Next]_vars => [\A p \in Procs : Working(p) => Kept(p)]_vars
  BY <1>1
<1>3. Spec => [][\A p \in Procs : Working(p) => Kept(p)]_vars
  BY <1>2, Invariance, PTL DEF Spec
<1>4. [][\A p \in Procs : Working(p) => Kept(p)]_vars => JobNotReplaced
  <2>1. [\A p \in Procs : Working(p) => Kept(p)]_vars =>
          [\A p \in Procs :
             procs[p].wpc \in {"process_job", "finished"} /\ procs'[p].wpc # "off"
               => procs'[p].job = procs[p].job]_vars
    OBVIOUS
  <2> QED
    BY <2>1, PTL DEF JobNotReplaced
<1> QED
  BY <1>3, <1>4

=============================================================================
