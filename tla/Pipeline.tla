------------------------------ MODULE Pipeline ------------------------------
(***************************************************************************)
(* The threads with which a worker runs one bulk job (WorkerImpl::process_job *)
(* and the drivers of scanner/engine/worker.cpp): load, pre-evaluate,        *)
(* evaluate (one thread per kernel group), post-evaluate, save coordinator   *)
(* and save threads, joined by queues, and the main loop that asks the       *)
(* master for tasks and reports the ones that are retired.                   *)
(*                                                                           *)
(* A packet carries the numbers of its rows, not their contents.  Every      *)
(* kernel group is one kernel that keeps the row numbers, drops the first    *)
(* Warmup rows of a task and needs Lookahead rows after the one it computes. *)
(***************************************************************************)
EXTENDS Integers, Sequences, FiniteSets
LOCAL INSTANCE SequencesExt
LOCAL INSTANCE FiniteSetsExt
LOCAL INSTANCE Functions

CONSTANTS
  NumTasks, NumLoaders, NumInstances, NumGroups, NumSavers,
  Rows,           \* source rows of a task
  IoPacket,       \* io_packet_size
  WorkPacket,     \* work_packet_size
  Lookahead,      \* last element of the stencil of a kernel
  Warmup,         \* rows of bounded state before the first output row
  Batch,          \* batch size of a kernel
  QueueDepth,     \* tasks_in_queue_per_pu
  Profiling,      \* job_params->profiling(): wait for all kernels to start
  FailingKernels, \* instances whose kernels may be found invalid
  FailingDecode,  \* instances whose in-place decoder may report an error
  MayFail,        \* a call to the master may fail, the worker may be shut down
  JobsMayBeBlacklisted  \* the master may drop tasks that are in the pipeline

Tasks     == 1 .. NumTasks
Loaders   == 1 .. NumLoaders
Instances == 1 .. NumInstances
Groups    == 1 .. NumGroups
Savers    == 0 .. NumSavers - 1

ASSUME PipelineAssumption ==
  /\ {NumTasks, NumLoaders, NumInstances, NumGroups, NumSavers, Rows, IoPacket,
      WorkPacket, Batch, QueueDepth} \subseteq Nat \ {0}
  /\ {Lookahead, Warmup} \subseteq Nat
  \* the master refuses other packet sizes, and a task has an output row
  /\ IoPacket % WorkPacket = 0
  /\ NumGroups * (Lookahead + Warmup) < Rows
  /\ FailingKernels \subseteq Instances /\ FailingDecode \subseteq Instances
  /\ {Profiling, MayFail, JobsMayBeBlacklisted} \subseteq BOOLEAN

VARIABLES
  queue,     \* the queues between the threads
  loader,    \* load_driver: what it reads
  pre,       \* pre_evaluate_driver
  eval,      \* evaluate_driver and its EvaluateWorker
  post,      \* post_evaluate_driver: buffered_entry_
  coord,     \* save_coordinator
  saver,     \* save_driver: tasks with a SaveWorker
  main,      \* process_job: program counter and local variables
  stored,    \* rows in the file of each task
  given,     \* tasks handed out by the master
  reported,  \* how often each task was reported
  fatal      \* LOG(FATAL) ended the process

vars == <<queue, loader, pre, eval, post, coord, saver, main, stored, given,
          reported, fatal>>

----------------------------------------------------------------------------
(* Faulty variants of definitions below (mutants); no specification uses them *)

Fault_SmallestTask(i)    ==
  Min({t \in DOMAIN pre[i].work : pre[i].work[t] # <<>>})
Fault_RoundRobin(t)      == coord.last_worker_assigned % NumSavers
Fault_LeavesEarly(retired) == TRUE
Fault_MostWork(i) ==
  \A k \in Instances : main.allocated[i] - main.retired[i] >= main.allocated[k] - main.retired[k]
Fault_WaitsForMore(retired) == SumFunction(retired) > SumFunction(main.allocated)

----------------------------------------------------------------------------
(* Entries and queues *)

NoTask == 0
Entry == [inst : Nat, task : Nat, rows : Seq(Nat), first : BOOLEAN,
          last_in_io_packet : BOOLEAN, last_in_task : BOOLEAN]

Task(i, t) == [inst |-> i, task |-> t, rows |-> <<>>, first |-> TRUE,
               last_in_io_packet |-> FALSE, last_in_task |-> FALSE]

\* The entry with job_index -1
ExitMessage == [Task(0, NoTask) EXCEPT !.first = FALSE]

load_work            == <<"load", 0, 0>>
initial_eval_work(i) == <<"initial", i, 0>>
eval_work(i, g)      == <<"eval", i, g>>
output_eval_work     == <<"output", 0, 0>>
save_work(s)         == <<"save", s, 0>>
retired_tasks        == <<"retired", 0, 0>>

\* The last queue of eval_work feeds post-evaluation.
post_work(i) == eval_work(i, NumGroups + 1)

\* A queue keeps the order of each producer, and none between two of them: the
\* main thread (producer 0) adds only exit messages, except to load_work.
MainThread == 0
Producers(q) ==
  {MainThread} \cup CASE q[1] = "load"    -> {}
                      [] q[1] = "initial" -> Loaders
                      [] q[1] = "output"  -> Instances
                      [] q[1] = "retired" -> {s + 1 : s \in Savers}
                      [] OTHER            -> {1}

Queues ==
  {load_work, output_eval_work, retired_tasks}
    \cup {initial_eval_work(i) : i \in Instances}
    \cup {eval_work(i, g) : i \in Instances, g \in 1 .. NumGroups + 1}
    \cup {save_work(s) : s \in Savers}

Pushed(Q, q, p, e) == [Q EXCEPT ![q][p] = Append(@, e)]
Popped(Q, q, p)    == [Q EXCEPT ![q][p] = Tail(@)]
Empty(q)           == \A p \in Producers(q) : queue[q][p] = <<>>

\* push_exit_message and its kin: one exit message for each queue of qs
ExitPushed(qs) ==
  [q \in Queues |-> IF q \in qs
                      THEN [queue[q] EXCEPT ![MainThread] = Append(@, ExitMessage)]
                      ELSE queue[q]]

\* The rows that go in and out of kernel group g for every task
InputRows(g) == [k \in 1 .. Rows - (g - 1) * (Lookahead + Warmup)
                   |-> (g - 1) * Warmup + k]
OutputRows   == InputRows(NumGroups + 1)

----------------------------------------------------------------------------
(* State *)

Status == {"starting", "running", "exited"}

\* The threads, the queues and the main loop hold values of these shapes.
TypeOK ==
  /\ \A q \in Queues : \A p \in Producers(q) : queue[q][p] \in Seq(Entry)
  /\ \A l \in Loaders :
       /\ loader[l].status \in Status
       /\ loader[l].entry \in Entry /\ loader[l].current_row \in Nat
  /\ \A i \in Instances :
       /\ pre[i].status \in Status /\ pre[i].active \in Tasks \cup {NoTask}
       /\ DOMAIN pre[i].work \subseteq Tasks
       /\ pre[i].entry \in Entry /\ pre[i].failed \in BOOLEAN
       /\ post[i].status \in Status /\ post[i].task \in Tasks \cup {NoTask}
       /\ post[i].rows \in Seq(Nat)
       /\ \A g \in Groups : /\ eval[i, g].status \in Status
                            /\ eval[i, g].used \in Nat /\ eval[i, g].made \in Nat
  /\ coord.status \in Status /\ coord.last_worker_assigned \in Nat
  /\ coord.worker \in [Tasks -> Savers \cup {-1}]
  /\ \A s \in Savers : saver[s].status \in Status /\ saver[s].tasks \subseteq Tasks
  /\ main.allocated \in [Instances -> Nat] /\ main.retired \in [Instances -> Nat]
  /\ main.finished \in BOOLEAN /\ main.success \in BOOLEAN
  /\ main.work \subseteq Tasks /\ main.step \in Nat
  /\ stored \in [Tasks -> Seq(Nat)] /\ given \subseteq Tasks
  /\ reported \in [Tasks -> Nat] /\ fatal \in BOOLEAN

Init ==
  /\ queue = [q \in Queues |-> [p \in Producers(q) |-> <<>>]]
  /\ loader = [l \in Loaders |-> [status |-> "running", entry |-> ExitMessage,
                                  current_row |-> 0]]
  /\ pre = [i \in Instances |-> [status |-> "running", active |-> NoTask,
                                 work |-> <<>>, entry |-> ExitMessage,
                                 failed |-> FALSE]]
  /\ eval = [ig \in Instances \X Groups |->
               [status |-> "starting", task |-> NoTask, used |-> 0, made |-> 0,
                failed |-> FALSE]]
  /\ post = [i \in Instances |-> [status |-> "running", task |-> NoTask, rows |-> <<>>]]
  /\ coord = [status |-> "running", worker |-> [t \in Tasks |-> -1],
              last_worker_assigned |-> 0]
  /\ saver = [s \in Savers |-> [status |-> "running", tasks |-> {}]]
  /\ main = [pc |-> "startup", step |-> 1, work |-> {}, finished |-> FALSE,
             success |-> TRUE, allocated |-> [i \in Instances |-> 0],
             retired |-> [i \in Instances |-> 0]]
  /\ stored = [t \in Tasks |-> <<>>]
  /\ given = {} /\ reported = [t \in Tasks |-> 0]
  /\ fatal = FALSE

----------------------------------------------------------------------------
(* Load threads *)

\* load_work.pop: the next task, or the end of the thread
LoadPop(l) ==
  LET e == Head(queue[load_work][MainThread])
  IN
  /\ loader[l].status = "running" /\ loader[l].entry.task = NoTask
  /\ queue[load_work][MainThread] # <<>>
  /\ queue' = Popped(queue, load_work, MainThread)
  /\ loader' = [loader EXCEPT ![l] =
                  IF e.task = NoTask
                    THEN [@ EXCEPT !.status = "exited"]
                    ELSE [@ EXCEPT !.entry = e, !.current_row = 0]]
  /\ UNCHANGED <<pre, eval, post, coord, saver, main, stored, given, reported, fatal>>

\* One io packet goes to the pipeline instance of the task; only the first one
\* has task_streams.
LoadYield(l) ==
  LET e    == loader[l].entry
      row  == loader[l].current_row
      next == row + IoPacket
  IN
  /\ loader[l].status = "running" /\ e.task # NoTask
  /\ queue' = Pushed(queue, initial_eval_work(e.inst), l,
                     [e EXCEPT !.rows = SubSeq(InputRows(1), row + 1, Min({next, Rows})),
                               !.first = (row = 0), !.last_in_task = (next >= Rows)])
  /\ loader' = [loader EXCEPT ![l].current_row = next,
                              ![l].entry = IF next >= Rows THEN ExitMessage ELSE @]
  /\ UNCHANGED <<pre, eval, post, coord, saver, main, stored, given, reported, fatal>>

----------------------------------------------------------------------------
(* Pre-evaluate threads *)

\* There is no work at all, or none for the active task.
MustPop(i) ==
  \/ DOMAIN pre[i].work = {}
  \/ pre[i].active # NoTask /\ pre[i].work[pre[i].active] = <<>>

\* task_work_queue with e in the queue of its task
Sorted(work, e) ==
  [t \in DOMAIN work \cup {e.task} |->
     (IF t \in DOMAIN work THEN work[t] ELSE <<>>)
       \o (IF t = e.task THEN <<e>> ELSE <<>>)]

PrePop(i) ==
  /\ pre[i].status = "running" /\ pre[i].entry.task = NoTask /\ MustPop(i)
  /\ \E p \in Producers(initial_eval_work(i)) :
       LET q == queue[initial_eval_work(i)][p]
       IN
       /\ q # <<>>
       /\ queue' = Popped(queue, initial_eval_work(i), p)
       /\ pre' = [pre EXCEPT ![i] =
                    IF Head(q).task = NoTask
                      THEN [@ EXCEPT !.status = "exited"]
                      ELSE [@ EXCEPT !.work = Sorted(@, Head(q))]]
  /\ UNCHANGED <<loader, eval, post, coord, saver, main, stored, given, reported, fatal>>

\* The task to go on with: the active one, else the first of the map
ActiveTask(i) ==
  IF pre[i].active # NoTask THEN pre[i].active ELSE Min(DOMAIN pre[i].work)

\* The next io packet of that task is fed to the PreEvaluateWorker.
PreFeed(i) ==
  /\ pre[i].status = "running" /\ pre[i].entry.task = NoTask /\ ~MustPop(i)
  /\ LET t == ActiveTask(i)
     IN  pre' = [pre EXCEPT ![i].active = t, ![i].entry = Head(pre[i].work[t]),
                            ![i].work[t] = Tail(@)]
  /\ UNCHANGED <<queue, loader, eval, post, coord, saver, main, stored, given,
                 reported, fatal>>

\* One work packet is pushed.  After the last one of the task its queue is
\* erased and the next task may become active.
PreYield(i) ==
  LET e    == pre[i].entry
      n    == Min({WorkPacket, Len(e.rows)})
      rest == SubSeq(e.rows, n + 1, Len(e.rows))
      over == rest = <<>>
      work == pre[i].work
  IN
  /\ pre[i].status = "running" /\ e.task # NoTask
  /\ queue' = Pushed(queue, eval_work(i, 1), 1,
                     [e EXCEPT !.rows = SubSeq(e.rows, 1, n),
                               !.last_in_io_packet = over])
  /\ pre' = [pre EXCEPT
       ![i].entry  = IF over THEN ExitMessage ELSE [e EXCEPT !.rows = rest, !.first = FALSE],
       ![i].active = IF over /\ e.last_in_task THEN NoTask ELSE @,
       ![i].work   = IF over /\ e.last_in_task
                       THEN [t \in DOMAIN work \ {pre[i].active} |-> work[t]] ELSE @]
  /\ UNCHANGED <<loader, eval, post, coord, saver, main, stored, given, reported, fatal>>

\* The in-place decoder reports an error: the thread sets its result and ends.
PreFails(i) ==
  /\ i \in FailingDecode /\ pre[i].status = "running" /\ pre[i].entry.task # NoTask
  /\ pre' = [pre EXCEPT ![i].status = "exited", ![i].failed = TRUE]
  /\ UNCHANGED <<queue, loader, eval, post, coord, saver, main, stored, given,
                 reported, fatal>>

----------------------------------------------------------------------------
(* Evaluate threads *)

\* The constructor of EvaluateWorker: kernels are created and validated.
EvalStart(i, g) ==
  /\ eval[i, g].status = "starting"
  /\ eval' = [eval EXCEPT ![i, g].status = "running"]
  /\ UNCHANGED <<queue, loader, pre, post, coord, saver, main, stored, given,
                 reported, fatal>>

\* A kernel does not validate: the thread sets its result and ends.
EvalStartFails(i, g) ==
  /\ i \in FailingKernels /\ eval[i, g].status = "starting"
  /\ eval' = [eval EXCEPT ![i, g].status = "exited", ![i, g].failed = TRUE]
  /\ UNCHANGED <<queue, loader, pre, post, coord, saver, main, stored, given,
                 reported, fatal>>

TooFar == -1

\* current_valid_input_idx_ after the rows of a packet: a row beyond the one
\* that is expected is fatal, an older one is skipped.
InputIndex(g, used, rows) ==
  LET expected == InputRows(g)
      Use(u, r) == IF u = TooFar \/ u = Len(expected) THEN u
                   ELSE IF r > expected[u + 1] THEN TooFar
                   ELSE IF r = expected[u + 1] THEN u + 1 ELSE u
  IN  FoldLeft(Use, used, rows)

\* How many rows the kernel computes when it has used `used` rows and computed
\* `made`: whole batches, except at the end of the task.
Producible(g, used, made) ==
  LET left == Max({used - Lookahead - made, 0})
      bs   == IF Len(InputRows(g)) - used < Batch THEN 1 ELSE Batch
  IN  left - (left % bs)

\* One packet: new_task if it has task_streams, feed, yield, push.  A process
\* that must not go on (not all rows of the last task used, a row missing, no
\* task at all) ends.
EvalStep(i, g) ==
  /\ eval[i, g].status = "running"
  /\ \E p \in Producers(eval_work(i, g)) :
       LET q    == queue[eval_work(i, g)][p]
           e    == Head(q)
           old  == eval[i, g]
           cur  == IF e.first THEN [old EXCEPT !.task = e.task, !.used = 0, !.made = 0]
                   ELSE old
           used == InputIndex(g, cur.used, e.rows)
           made == cur.made + Producible(g, used, cur.made)
           out  == SubSeq(InputRows(g), Max({cur.made, Warmup}) + 1, made)
       IN
       /\ q # <<>>
       /\ IF e.task = NoTask
            THEN /\ queue' = Popped(queue, eval_work(i, g), p)
                 /\ eval' = [eval EXCEPT ![i, g].status = "exited"]
                 /\ UNCHANGED fatal
            ELSE IF \/ e.first /\ old.task # NoTask /\ old.used # Len(InputRows(g))
                    \/ cur.task = NoTask
                    \/ used = TooFar
            THEN fatal' = TRUE /\ UNCHANGED <<queue, eval>>
            ELSE /\ queue' = Pushed(Popped(queue, eval_work(i, g), p), eval_work(i, g + 1), 1,
                                    [e EXCEPT !.rows = out, !.first = @ /\ g < NumGroups])
                 /\ eval' = [eval EXCEPT ![i, g] = [cur EXCEPT !.used = used, !.made = made]]
                 /\ UNCHANGED fatal
  /\ UNCHANGED <<loader, pre, post, coord, saver, main, stored, given, reported>>

----------------------------------------------------------------------------
(* Post-evaluate threads *)

\* Rows are buffered up to the last work packet of an io packet; a buffer
\* without rows is kept for the next one.
PostStep(i) ==
  /\ post[i].status = "running"
  /\ \E p \in Producers(post_work(i)) :
       LET q    == queue[post_work(i)][p]
           e    == Head(q)
           task == IF post[i].task = NoTask THEN e.task ELSE post[i].task
           rows == post[i].rows \o e.rows
       IN
       /\ q # <<>>
       /\ IF e.task = NoTask
            THEN /\ queue' = Popped(queue, post_work(i), p)
                 /\ post' = [post EXCEPT ![i].status = "exited"]
            ELSE IF e.last_in_io_packet /\ rows # <<>>
            THEN /\ queue' = Pushed(Popped(queue, post_work(i), p), output_eval_work, i,
                                    [e EXCEPT !.task = task, !.rows = rows, !.inst = i])
                 /\ post' = [post EXCEPT ![i].task = NoTask, ![i].rows = <<>>]
            ELSE /\ queue' = Popped(queue, post_work(i), p)
                 /\ post' = [post EXCEPT ![i].task = task, ![i].rows = rows]
  /\ UNCHANGED <<loader, pre, eval, coord, saver, main, stored, given, reported, fatal>>

----------------------------------------------------------------------------
(* Save coordinator and save threads *)

\* The save thread of task t: the one it has, else the next in turn
AssignedWorker(t) ==
  IF coord.worker[t] # -1 THEN coord.worker[t]
  ELSE coord.last_worker_assigned % NumSavers

CoordStep ==
  /\ coord.status = "running"
  /\ \E p \in Producers(output_eval_work) :
       LET q == queue[output_eval_work][p]
           e == Head(q)
           w == AssignedWorker(e.task)
       IN
       /\ q # <<>>
       /\ IF e.task = NoTask
            THEN /\ queue' = Popped(queue, output_eval_work, p)
                 /\ coord' = [coord EXCEPT !.status = "exited"]
            ELSE /\ queue' = Pushed(Popped(queue, output_eval_work, p), save_work(w), 1, e)
                 /\ coord' = [coord EXCEPT
                      !.worker[e.task] = IF e.last_in_task THEN -1 ELSE w,
                      !.last_worker_assigned = IF coord.worker[e.task] = -1 THEN @ + 1 ELSE @]
  /\ UNCHANGED <<loader, pre, eval, post, saver, main, stored, given, reported, fatal>>

\* The first packet of a task creates a SaveWorker, which opens the files anew;
\* after the last one they are closed and the task is retired.
SaveStep(s) ==
  /\ saver[s].status = "running"
  /\ \E p \in Producers(save_work(s)) :
       LET q   == queue[save_work(s)][p]
           e   == Head(q)
           old == IF e.task \in saver[s].tasks THEN stored[e.task] ELSE <<>>
       IN
       /\ q # <<>>
       /\ IF e.task = NoTask
            THEN /\ queue' = Popped(queue, save_work(s), p)
                 /\ saver' = [saver EXCEPT ![s].status = "exited"]
                 /\ UNCHANGED stored
            ELSE /\ stored' = [stored EXCEPT ![e.task] = old \o e.rows]
                 /\ saver' = [saver EXCEPT ![s].tasks = IF e.last_in_task THEN @ \ {e.task}
                                                        ELSE @ \cup {e.task}]
                 /\ queue' = IF e.last_in_task
                               THEN Pushed(Popped(queue, save_work(s), p), retired_tasks, s + 1, e)
                               ELSE Popped(queue, save_work(s), p)
  /\ UNCHANGED <<loader, pre, eval, post, coord, main, given, reported, fatal>>

----------------------------------------------------------------------------
(* The main loop of process_job *)

threadVars == <<loader, pre, eval, post, coord, saver, stored, fatal>>

AcceptedTasks  == SumFunction(main.allocated)
ProcessedTasks == SumFunction(main.retired)
Outstanding(i) == main.allocated[i] - main.retired[i]

\* With profiling, the main thread waits until all kernels have started.
MainStartup ==
  /\ main.pc = "startup"
  /\ Profiling => \A i \in Instances, g \in Groups :
                    eval[i, g].status # "starting" /\ ~eval[i, g].failed
  /\ main' = [main EXCEPT !.pc = "top"]
  /\ UNCHANGED <<queue, given, reported, threadVars>>

\* trigger_shutdown_ is raised, or a call to the master keeps failing.
MainFails ==
  /\ MayFail /\ main.pc \in {"top", "ask"}
  /\ main' = [main EXCEPT !.pc = "flush", !.step = 1, !.success = FALSE]
  /\ UNCHANGED <<queue, given, reported, threadVars>>

\* The retired tasks, and how many of them are of one task or one instance
RetiredEntries ==
  UNION {{<<p, k>> : k \in DOMAIN queue[retired_tasks][p]} : p \in Producers(retired_tasks)}
RetiredEntry(pk) == queue[retired_tasks][pk[1]][pk[2]]
TimesRetired(t)  == Cardinality({pk \in RetiredEntries : RetiredEntry(pk).task = t})
RetiredBy(i)     == Cardinality({pk \in RetiredEntries : RetiredEntry(pk).inst = i})
NoneRetired == [queue EXCEPT ![retired_tasks] = [p \in Producers(retired_tasks) |-> <<>>]]

AllProcessed(retired) == SumFunction(retired) = AcceptedTasks

\* All retired tasks are reported with FinishedWork.  After the done signal the
\* loop ends when every accepted task was retired.
MainReport ==
  LET retired == [i \in Instances |-> main.retired[i] + RetiredBy(i)]
  IN
  /\ main.pc = "top"
  /\ queue' = NoneRetired
  /\ reported' = [t \in Tasks |-> reported[t] + TimesRetired(t)]
  /\ main' = [main EXCEPT
       !.retired = retired,
       !.pc = IF ~main.finished THEN "ask"
              ELSE IF AllProcessed(retired) THEN "exit" ELSE "top"]
  /\ UNCHANGED <<given, threadVars>>

\* FinishedWork fails after the tasks were taken from the queue.
MainReportFails ==
  /\ MayFail /\ main.pc = "top" /\ RetiredEntries # {}
  /\ queue' = NoneRetired
  /\ main' = [main EXCEPT !.pc = "flush", !.step = 1, !.success = FALSE]
  /\ UNCHANGED <<given, reported, threadVars>>

WorkToRequest == NumInstances * QueueDepth - (AcceptedTasks - ProcessedTasks)

\* The reply to NextWork has packets.
MainNextWork ==
  /\ main.pc = "ask"
  /\ \E ts \in SUBSET (Tasks \ given) :
       /\ ts # {} /\ Cardinality(ts) <= WorkToRequest
       /\ main' = [main EXCEPT !.pc = "assign", !.work = ts]
       /\ given' = given \cup ts
  /\ UNCHANGED <<queue, reported, threadVars>>

\* The reply says no_more_work: all tasks that were handed out are done, or
\* those that are not belong to a job that was blacklisted meanwhile.
MainNoMoreWork ==
  /\ main.pc = "ask" /\ WorkToRequest > 0
  /\ JobsMayBeBlacklisted \/ \A t \in given : reported[t] > 0
  /\ main' = [main EXCEPT !.pc = "check", !.finished = TRUE]
  /\ UNCHANGED <<queue, given, reported, threadVars>>

\* The reply says wait_for_work, or it is not time to ask yet.
MainWait ==
  /\ main.pc = "ask"
  /\ main' = [main EXCEPT !.pc = "check"]
  /\ UNCHANGED <<queue, given, reported, threadVars>>

\* The first of the instances with the least work
LeastWork(i) ==
  \A k \in Instances : /\ Outstanding(i) <= Outstanding(k)
                       /\ k < i => Outstanding(i) < Outstanding(k)

\* A work packet goes to the instance with the least work.
MainAssign ==
  /\ main.pc = "assign"
  /\ \E t \in main.work, i \in Instances :
       /\ LeastWork(i)
       /\ queue' = Pushed(queue, load_work, MainThread, Task(i, t))
       /\ main' = [main EXCEPT !.allocated[i] = @ + 1, !.work = @ \ {t},
                               !.pc = IF main.work = {t} THEN "check" ELSE "assign"]
  /\ UNCHANGED <<given, reported, threadVars>>

\* The results of pre-evaluate and evaluate threads end the loop.
MainCheck ==
  LET failed == \E i \in Instances : pre[i].failed \/ \E g \in Groups : eval[i, g].failed
  IN
  /\ main.pc = "check"
  /\ main' = IF failed THEN [main EXCEPT !.pc = "flush", !.step = 1, !.success = FALSE]
             ELSE [main EXCEPT !.pc = "top"]
  /\ UNCHANGED <<queue, given, reported, threadVars>>

----------------------------------------------------------------------------
(* The end of process_job *)

\* The order in which a failed job clears its queues
FlushOrder ==
  <<load_work>>
    \o [i \in Instances |-> initial_eval_work(i)]
    \o [k \in 1 .. (NumGroups + 1) * NumInstances |->
          eval_work(((k - 1) % NumInstances) + 1, ((k - 1) \div NumInstances) + 1)]
    \o <<output_eval_work>>
    \o [k \in 1 .. NumSavers |-> save_work(k - 1)]
    \o <<retired_tasks>>

\* One try_dequeue of clear: an entry is dropped, or the queue is empty and the
\* next one is cleared.  The other threads go on meanwhile.
MainFlush ==
  LET q == FlushOrder[main.step]
  IN
  /\ main.pc = "flush"
  /\ \/ \E p \in Producers(q) : /\ queue[q][p] # <<>>
                                /\ queue' = Popped(queue, q, p)
                                /\ UNCHANGED main
     \/ /\ Empty(q)
        /\ main' = IF main.step = Len(FlushOrder)
                     THEN [main EXCEPT !.pc = "exit", !.step = 1]
                     ELSE [main EXCEPT !.step = @ + 1]
        /\ UNCHANGED queue
  /\ UNCHANGED <<given, reported, threadVars>>

\* Exit step k of the main thread, after the threads of the step before joined
ExitStep(k, joined, Q) ==
  /\ main.pc = "exit" /\ main.step = k /\ joined
  /\ queue' = Q
  /\ main' = [main EXCEPT !.step = @ + 1]
  /\ UNCHANGED <<given, reported, threadVars>>

Exited(threads) == \A th \in DOMAIN threads : threads[th].status = "exited"
EvalExited(g)   == \A i \in Instances : eval[i, g].status = "exited"

ExitLoad ==
  ExitStep(1, TRUE, [queue EXCEPT ![load_work][MainThread] =
                       @ \o [l \in Loaders |-> ExitMessage]])
ExitPre ==
  ExitStep(2, Exited(loader), ExitPushed({initial_eval_work(i) : i \in Instances}))
ExitEval(g) ==
  ExitStep(2 + g, IF g = 1 THEN Exited(pre) ELSE EvalExited(g - 1),
           ExitPushed({eval_work(i, g) : i \in Instances}))
ExitPost ==
  ExitStep(NumGroups + 3, EvalExited(NumGroups),
           ExitPushed({post_work(i) : i \in Instances}))
ExitCoord ==
  ExitStep(NumGroups + 4, Exited(post), ExitPushed({output_eval_work}))
ExitSave(s) ==
  ExitStep(NumGroups + 5 + s, coord.status = "exited" /\ Empty(save_work(s)),
           ExitPushed({save_work(s)}))

\* While a save thread has work, the tasks it retires are thrown away.
ExitSaveWait(s) ==
  /\ main.pc = "exit" /\ main.step = NumGroups + 5 + s
  /\ coord.status = "exited" /\ ~Empty(save_work(s)) /\ ~Empty(retired_tasks)
  /\ queue' = NoneRetired
  /\ UNCHANGED <<main, given, reported, threadVars>>

MainDone ==
  /\ main.pc = "exit" /\ main.step = NumGroups + 5 + NumSavers /\ Exited(saver)
  /\ main' = [main EXCEPT !.pc = "done"]
  /\ UNCHANGED <<queue, given, reported, threadVars>>

MainExit ==
  \/ ExitLoad \/ ExitPre \/ ExitPost \/ ExitCoord \/ MainDone
  \/ \E g \in Groups : ExitEval(g)
  \/ \E s \in Savers : ExitSave(s) \/ ExitSaveWait(s)

----------------------------------------------------------------------------
LoadStep(l) == LoadPop(l) \/ LoadYield(l)
PreStep(i)  == PrePop(i) \/ PreFeed(i) \/ PreYield(i)
EvalThread(i, g) == EvalStart(i, g) \/ EvalStep(i, g)

MainStep ==
  \/ MainStartup \/ MainReport \/ MainWait \/ MainNextWork \/ MainNoMoreWork
  \/ MainAssign \/ MainCheck \/ MainFlush \/ MainExit

Stopped == (fatal \/ main.pc = "done") /\ UNCHANGED vars

Next ==
  \/ /\ ~fatal
     /\ \/ \E l \in Loaders : LoadStep(l)
        \/ \E i \in Instances : PreStep(i) \/ PreFails(i) \/ PostStep(i)
        \/ \E i \in Instances, g \in Groups : EvalThread(i, g) \/ EvalStartFails(i, g)
        \/ CoordStep
        \/ \E s \in Savers : SaveStep(s)
        \/ MainStep \/ MainReportFails \/ MainFails
  \/ Stopped

Spec == Init /\ [][Next]_vars

\* Every thread that can go on does, and nothing has to fail.  The master does
\* not answer wait_for_work for ever: no_more_work comes when all tasks are done.
Fairness ==
  /\ \A l \in Loaders : WF_vars(~fatal /\ LoadStep(l))
  /\ \A i \in Instances : WF_vars(~fatal /\ PreStep(i)) /\ WF_vars(~fatal /\ PostStep(i))
  /\ \A i \in Instances, g \in Groups : WF_vars(~fatal /\ EvalThread(i, g))
  /\ WF_vars(~fatal /\ CoordStep)
  /\ \A s \in Savers : WF_vars(~fatal /\ SaveStep(s))
  /\ WF_vars(~fatal /\ MainStep)
  /\ SF_vars(~fatal /\ (MainNextWork \/ MainNoMoreWork))

FairSpec == Spec /\ Fairness

----------------------------------------------------------------------------
(* Properties *)

\* A task is reported to the master at most once, and only when its file has all
\* of its output rows once and in order: whatever packets of other tasks the
\* threads handle in between, on however many load and save threads.
ReportedTasksAreSaved ==
  \A t \in Tasks : reported[t] > 0 => reported[t] = 1 /\ stored[t] = OutputRows

\* The LOG(FATAL) of EvaluateWorker (evaluate_worker.cpp:412, :602) and the
\* access to rows of a task that was never set up are out of reach: when a new
\* task starts, the rows of the one before were all used, in order.
AllRowsUsed == ~fatal

\* No instance has more than tasks_in_queue_per_pu tasks, though the main loop
\* only limits their sum.
QueuesBalanced == \A i \in Instances : Outstanding(i) \in 0 .. QueueDepth

\* A worker that ends a job with success leaves nothing behind: each accepted
\* task was reported, no exit message overtook a packet in a queue, and no
\* thread kept a part of a task.
NothingLeftBehind ==
  main.pc = "done" /\ main.success =>
    /\ \A t \in given : reported[t] = 1
    /\ \A q \in Queues : Empty(q)
    /\ \A i \in Instances : DOMAIN pre[i].work = {} /\ post[i].task = NoTask
    /\ \A t \in Tasks : coord.worker[t] = -1
    /\ \A s \in Savers : saver[s].tasks = {}

\* process_job ends: all threads are joined, when the job succeeds and when it
\* fails with packets in the queues, or the process is ended by LOG(FATAL).
ProcessJobEnds == <>(fatal \/ main.pc = "done")

=============================================================================
