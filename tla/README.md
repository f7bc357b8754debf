# A TLA+ model of Scanner

Scanner (`src/scanner`) runs a graph of ops over the rows of video and blob
tables. A *master* process splits a *bulk job* into jobs (one output table
each) and every job into tasks (a range of output rows). *Worker* processes pull
tasks from the master, run each through a pipeline of stages (load, decode,
evaluate, encode, save), and report it. The database metadata (table
descriptors, the megafile) lives in a storage backend that all of them share.

This directory holds a specification of the parts of that system whose
correctness is hard to see in the code or to reach by a test, the instances on
which TLC checks them, and proofs for the properties that matter most. A
module `X` has its instance in `MCX.tla` and its proofs in `XProofs.tla`;
`XSteps.tla` is the first part of a long proof. `TypeOK` of a module states its
types.

## The system and its parts

| Part | Code | State | Operations | Model |
| --- | --- | --- | --- | --- |
| Bulk job scheduler | `engine/master.cpp` (`NextWorkHandler`, `FinishedWorkHandler`, `FinishedJobHandler`, `process_job`, `start_job_on_workers`, `stop_job_on_worker`, `blacklist_job`, `start_worker_pinger`) | `BulkJob` (`master.h`), `workers_`, `finished_`, `active_bulk_job_` | hand out tasks, count reports, reassign, blacklist, commit | `BulkJob`, `BulkJobSpec` |
| Cluster and job lifecycle | `engine/master.cpp`, `engine/worker.cpp` (`NewJob`, `RegisterWorker`, watchdogs) | `workers_`, `bulk_jobs_state_`, a worker's `active_bulk_job_` | start, end and replace bulk jobs, register again | `Cluster` |
| Table and op registry | `engine/master.cpp` (`ListTables`, `NewTable`, `DeleteTables`, `RegisterOp`, ...) | `meta_`, `table_metas_`, registries | one critical section per call | table calls in `Database` |
| Worker pipeline | `engine/worker.cpp` (`process_job`, the `*_driver` functions), `util/queue.h` | queues, `batched_retired_tasks`, `allocated_work_to_queues`, thread results | load, evaluate, save, report, flush, join | `Pipeline` |
| Evaluate workers | `engine/evaluate_worker.cpp` | row positions of every op, element caches | `new_task`, `feed`, `yield` | `EvaluateWorker`, `Pipeline` |
| DAG analysis | `engine/dag_analysis.cpp`, "building tasks" in `master.cpp` | none (functions of a job) | row counts, tasks, rows needed per op, live columns | `DagAnalysis` |
| Samplers, partitioners | `engine/sampler.cpp` | none | rows up and down a sampling op, groups | `Samplers` |
| Memory allocators | `util/memory.cpp` | `allocations_`, `allocation_map`, refs | `allocate`, `free`, block references | `PoolAllocator`, `BlockAllocator` |
| Metadata and storage | `engine/metadata.cpp`, `engine/table_meta_cache.cpp` | descriptors, megafile, cache | write, read, recover | `Database` |
| Load, save, column source and sink | `engine/load_worker.cpp`, `engine/save_worker.cpp`, `engine/column_*.cpp` | packets of a task, open item files | yield, new_task, save, finish | packets in `Pipeline`, video intervals in `Decoder` |
| Ingest, video index | `engine/ingest.cpp`, `video/h264_byte_stream_index_creator.cpp` | NAL unit and keyframe index | feed a packet, write the table | writes in `Database`; index not modelled |
| Video decoding | `video/decoder_automata.cpp`, decoders | feeder thread handshake, queued frames | initialize, get_frames, feeder | `Decoder` |
| Standard library of ops | `src/stdlib` | none between rows | numeric kernels | not modelled: no protocol state |
| Python client | `python/scannerpy` | none | builds graphs, sends calls | not modelled: translation to protobuf |

The master hands a worker task ids (`BulkJob`); the worker derives from a task
the rows every op reads (`DagAnalysis`, `Samplers`) and pushes the task into its
pipeline (`Pipeline`), where each kernel group's `EvaluateWorker` turns packets
of source rows into output rows; save threads write them and the main loop
reports the task to the master. Buffers of rows come from the pools of
`memory.cpp` (`PoolAllocator`, `BlockAllocator`). `Cluster` is how workers join and leave
over several bulk jobs, `Database` what a stop of the master leaves on storage,
`Decoder` how a video column becomes frames.

What makes this hard: calls that are lost, retried or late on the way to the
master; handlers that wait for replies without `work_mutex_`; workers that die,
fail or are taken for dead; pipeline threads that run while their queues are
flushed; packets of several tasks that overtake one another; inputs of an op
that arrive at different rates; row numbers that are renumbered at every
sampling op. `PROJECT.json` lists these hazards line by line with the
properties that would catch them.

## BulkJob: the scheduler of the master

`BulkJob.tla` models one bulk job, from the moment `process_job` has sent
`NewJob` to the idle workers until it returns and every worker is let go.

**State.** The variables are the fields of `struct BulkJob` and of
`MasterServerImpl` with the code's names: `to_assign_job_tasks` (a deque whose
back goes first), `active_job_tasks`, `worker_job_tasks` and its key set
`tracked` (a missing key makes `.at` throw, so it is kept apart from an empty
set), `worker_job_tasks_starts` (only its keys: a clock is not modelled),
`job_tasks_num_failures`, `blacklisted_jobs`, the counters, `unstarted_workers`
and `unfinished_workers`. `armed` is the set of calls for which a request is
outstanding on the completion queue: a handler that throws never asks for the
next one. `cs` is `work_mutex_` together with the loop of the handler that holds
it. `proc`, `received` and `lost` are the worker processes and the network;
`reported` is a history variable.

**Actions.** A handler that loops is one action per iteration, so that its
intermediate states are visible to what does not take `work_mutex_`
(`process_job`'s end, `finished_fn`, shutdown).

| Action | Code |
| --- | --- |
| `RegisterWorker`, `UnregisterWorker` | the handlers of those calls |
| `StartJobOnWorkers`, `NewJobReply`, `StartRemove`, `StartDone` | `start_job_on_workers`: send, wait for every answer without the mutex, remove who did not accept, record the others |
| `NextWork`, `NextWorkAssign`, `NextWorkReply` | `NextWorkHandler`: entry, one iteration, reply |
| `FinishedWork`, `FinishedWorkTask`, `FinishedWorkReply`, `FinishedWorkThrows` | `FinishedWorkHandler`; the last is `worker_job_tasks.at` |
| `FinishedJob`, `FinishedJobThrows` | `FinishedJobHandler`; the last is `unfinished_workers.at` |
| `StopTask`, `StopEnd` | `stop_job_on_worker` with `blacklist_job`, and the state its caller sets |
| `PingerRemove`, `TimeoutRemove`, `WorkerCrash` | `start_worker_pinger`; the task timeout of `process_job`; a process that dies |
| `ProcessJobEnd`, `ProcessJobNoWorkers`, `ClearActive` | the wait loop of `process_job` and `finished_fn` |
| `TriggerShutdown`, `StartShutdown` | `ShutdownHandler`/watchdog, `start_shutdown` |

**Faults.** Workers in `Faulty` may crash, fail the job, or (with
`PingsMayFail`) be unreachable while alive; workers in `Slow` may pass the task
timeout; at most `MaxLost` replies are lost, after which the client's retry
sends the call again. Node ids are never reused (`next_worker_id_++`), so a
process that registers again is a new member of `Late`.

**Promise.** `BulkJobSpec.tla` is what the client is promised: a task is done
once, a job is dropped only while incomplete, tables on disk are complete, and
success leaves out only dropped jobs. `KeepsPromise` says that the scheduler
implements it, with `reported`, `blacklisted_jobs`, `job_result` and `stored`
for its variables.

### Runs

| Run | Instance | Shows |
| --- | --- | --- |
| `bulk_job_faults` | 2 jobs (2 tasks and 1), 2 interchangeable faulty workers, one lost reply, 2 failures blacklist | `NoTaskLost`, `NoTaskTwice`, `CountsExact`, `RemovedForGood` and `GivesUpWithoutWorkers` under every order of crashes, failures, timeouts, pings and retries |
| `bulk_job_blacklist` | 2 failing workers and a good one, 2 failures blacklist, a shutdown at any moment | blacklisting neither ends the bulk job early (`FinishedMeansDone`) nor touches a committed table (`CommittedMeansReported`); refinement of `BulkJobSpec` (`KeepsPromise`) |
| `bulk_job_live` | a late faulty worker and a good one, fairness | the bulk job succeeds, workers are released |
| `late_report` | one worker over the task timeout | violation: a late report kills the FinishedWork service |
| `early_failure` | a worker fails while another has not answered `NewJob` | violation: the bulk job never ends |

Two workers are enough for the races between a holder and the one that takes
over. The code blacklists a job after three failures; the limit is a constant,
and two failing workers and a limit of two reach the same transitions with a
good worker left to go on. Two jobs, one
of them with two tasks, distinguish the last task of a job from the last of the
bulk job. The runs stop where the system does (`CHECK_DEADLOCK FALSE`): after
`ClearActive` nothing of this bulk job is left to do.

**Fairness.** Pool threads and the `process_job` thread run (`WF` on the
mutex holder's steps and on the end of the wait loop). Calls wait for
`work_mutex_`, which others take in between: `SF` on their first step, which is
what a mutex that starves nobody gives. `WorkerCrash`, failures, timeouts and
shutdown are never forced; the pinger is fair for dead workers only.

### Proofs

`BulkJobSteps.tla` (the inductive invariant, queues, types, the holder of the
mutex) and `BulkJobProofs.tla` prove, for every set of workers, number and size
of jobs, limit, and whatever faults occur: `TypeCorrect`, `TasksAreKept`,
`TasksAreInOnePlace`, `CountersAreExact`, `FinishedIsDone`,
`CommittedIsReported`, `StartsAreAssignments`, `HoldersRun`, `RemovalIsFinal`,
`NoWorkerIsForgotten` and `PromiseIsKept`; and `JobsAreSampled` when the last job
has a task. `StartsAreAssignments` and `HoldersRun` are proved and in no run.
The only assumptions are those of `ConstantsAssumption` (finitely many workers, natural
sizes, positive limits).

The invariants are not inductive by themselves. `IInv` adds

- `SamplerInv`: the sampler's position lies inside its job;
- `HolderInv`: what the handler that holds the mutex knows (its worker runs the
  job and is tracked when it must be, the tasks being stopped are the worker's);
- `ActiveInv`: active tasks are exactly the created ones that were neither
  reported nor blacklisted, which is why a repeated report is not counted;
- `ReceivedInv`: a process only holds tasks after it was started;
- `QueueInv`, `HeldInv`: what is queued or held was created.

Each conjunct has one lemma that goes through the actions. Most actions leave
the tasks where they are (`Quiet`); the others are `NextWorkAssign`,
`FinishedWorkTask`, `StopTask` and `StopEnd`, and the lemmas on places
(`AssignPlaces`, ...) and on counts (`ReportCounts`, `StopCounts`) are about
those. `AwaitedInv` (a worker that runs the job is unfinished, about to be
recorded, or being stopped) carries `NoWorkerIsForgotten`. The refinement maps
every step to a step or a stutter of `BulkJobSpec` (`PromiseStep`).

`JobsAreSampled` needs its assumption: when the last job is empty, `finished_` is
set before the sampler has moved past it, and the assertion at
`master.cpp:1110` (left out of a release build) does not hold. Its proof adds
that a blacklisted job has been sampled (`BlacklistedSampled`). Liveness
(`BulkJobSucceeds`, `WorkersReleased`) is model-checked only.

## Pipeline: the threads of a worker

`Pipeline.tla` models `WorkerImpl::process_job` from the creation of its threads
to the last join, for one bulk job.

**State.** `queue` maps each queue to one FIFO per producing thread: a
`moodycamel` queue keeps the order of each producer's items and none between
producers. `loader`, `pre`, `eval`, `post`, `coord` and `saver` are the threads
(their local variables and whether they run), `main` is the main loop with its
program counter, `allocated` and `retired` counts and exit phase. `stored` is
what the save threads wrote, `given` and `reported` what the master knows, and
`fatal` a `LOG(FATAL)` of `EvaluateWorker`. A packet carries row numbers only;
each kernel group is one kernel with `Lookahead`, `Warmup` and `Batch`.

**Actions.** One per pop and per yield of each driver: `LoadPop`, `LoadYield`,
`PrePop`, `PreFeed`, `PreYield`, `EvalStep`, `PostStep`, `CoordStep`, `SaveStep`;
and the main loop in the order of the code: `MainReport` (drain `retired_tasks`,
report), `MainNextWork`, `MainNoMoreWork`, `MainWait`, `MainAssign`, `MainCheck`
(errors of the threads), `MainFlush` (one queue per step, while the threads
run) and `ExitLoad` ... `ExitSave` (exit messages, then joins). `PreFails`,
`EvalStartFails`, `MainReportFails` and `MainFails` are the failures the code
handles.

| Run | Instance | Shows |
| --- | --- | --- |
| `pipeline_packets` | 2 tasks of 5 rows in packets of 2 and 1, 2 load and 2 save threads, 1 instance, 2 kernel groups, batches of 2, profiling | a task is reported once and complete (`ReportedTasksAreSaved`), no row is missed (`AllRowsUsed`), nothing is left in a queue or thread (`NothingLeftBehind`) |
| `pipeline_failure` | 2 instances, 2 save threads, failures of calls, kernels and decoders at any moment, fairness | `process_job` ends (`ProcessJobEnds`), tasks are spread (`QueuesBalanced`), nothing incomplete is reported |

Two load threads let packets of two tasks overtake one another; lookahead that
leaves the first packets of a task without output, and batches that do not
divide a packet, reach the buffering in post-evaluation. Two tasks tell the
active task from the waiting one. Deadlock is checked: the only state without
a step is the end.

**Fairness.** Every thread that can go on does (`WF`); failures are never
forced. The master answers `wait_for_work` only until all tasks are done:
`SF` on the answer that is not a wait.

Three things go wrong. A flush between two packets of
a task lets the evaluate thread end the process (`worker.cpp:1876`): `AllRowsUsed`
is checked in the run without failures, and `ProcessJobEnds` counts that end.
`process_job` never ends, with profiling, after a kernel fails to validate
(`worker.cpp:1676`), and, after `no_more_work`, when a decoder fails while a task
of a blacklisted job is in the pipeline (`worker.cpp:1761`): the constants of the
passing runs leave these two out.

## PoolAllocator and BlockAllocator: memory

`PoolAllocator.tla` models `allocate` and `free` of `util/memory.cpp`, each one
step under `lock_`. `allocations` is the vector `allocations_`; `held` is what
callers hold, and `fatal` the size that did not fit. Addresses are offsets;
unsigned subtraction is modulo `SizeT`. An empty buffer is a legal request, and
then two allocations share an offset: `free` erases the first of them.

`BlockAllocator.tla` puts the block allocator above it: `allocate` and
`allocate_sizes` take a buffer from the pool and record it in a second step
(`block_buffer`, `record_block`), `add_refs` adds references, `delete_buffer`
looks the pointer up and frees it in another step (`delete_buffer`,
`block_free`). `allocation_map` counts the entries of the multimap for a pointer
and a block, `block_vec` is the vector. Callers know pointers only: a reference
is a pointer with the block it was handed out with and a number that tells it
from others to the same element, and no operation reads these two. A shape is
the list of the values of `cursor` in `allocate_sizes`: the start of each element
and then the size of the block.

The run `allocators` checks the pool and the blocks together: three
interchangeable blocks of one element of 5 bytes, of 1+3 or of 0+1, at most two references each,
a pool of 16 with alignment 4. Gaps of every kind occur, also ones that are large
enough only before alignment, and neighbours that come and go while elements
are freed. `OwnedIsAllocated`: a block in use is never given back;
`NothingLeaked`: it is with its last reference. It may stop when the pool is
exceeded (`CHECK_DEADLOCK FALSE`).
`ShapeAssumption` leaves out blocks that end with an empty element: its pointer
may be the address of the next block, and then `free` may take that one.

`PoolAllocatorProofs.tla` proves, for every pool size, alignment and set of
sizes (no request wraps `SizeT`: `PoolAssumption`): `DisjointBuffers`,
`NonNegativeGaps`, `FreeSucceeds` and `FullWhenFatal`. The inductive invariant
`IInv` is `TypeOK` with

- `Ordered`: allocations are aligned and in order, each ending before the next
  one starts;
- `Inside`: all end inside the pool, but for the one that exceeded it;
- `Backed`: a one-to-one map takes every buffer held to an allocation that has
  its offset and reaches as far (empty buffers share offsets, so an allocation
  may stand for another buffer than the one it was made for);
- `fatal # BadFree`.

`FullWhenFatal` needs a first allocation that ends past a given offset:
`LeastNat` proves the least-number principle from the library's well-founded
minimum, and `FullStep` uses it.

`BlockAllocatorProofs.tla` proves `OwnedStaysAllocated` and `NoBlockLeaks` for
every pool, set of shapes and bound on references, and
`PoolRefinement`: the block allocator implements the specification of the pool
(`BlockSpec => Spec`), so that the theorems about the pool hold of it
(`BlockPoolSafe`). The assumptions are `PoolAssumption` and `ShapeAssumption`.
Its invariant `BInv` is the pool's `IInv`, `BlockTypeOK` and, until the process
ends with an error,

- `BlockOK`: a block has memory of its size, its counter is the number of
  references to it, and it is recorded as long as there is one;
- `MapOK`: the map has one entry for each reference to a block of
  `allocate_sizes`, and none for others;
- `VecOK`: the vector has each recorded block of `allocate` once;
- `Points`: a reference points into its block.

`OwnedIsAllocated` is `Points`, which needs the others: `free` gets a pointer and
must drop a reference to the block that the pointer came from. Blocks are
disjoint (`Backed` and `Ordered` of the pool), so the block around a pointer is
its own (`Points`), and the map or the vector finds it and nothing else (`MapOK`,
`VecOK`); the counter then reaches zero exactly with the last reference.

## Cluster: workers come, work and go

`Cluster.tla` models the master and the worker processes over several bulk
jobs. The tasks are left to `BulkJob`: here a bulk job is the step `WorkDone`
that sets `finished_`.

**State.** `workers`, `address`, `failed_pings`, `next_worker_id` are
`workers_` of the master; `active_bulk_job`, `active_bulk_job_id`, `finished`
and `created` (the keys of `bulk_jobs_state_`) its job variables; `pc` is the
thread of `process_job`. `procs` has for each address the process that runs
there: its job processor thread (`wpc`), `state_`, `node_id_`, the flags
`unregistered_`, `trigger_shutdown_`, and whether its server still runs.
`calls` are `NewJob` calls that may still arrive, also after the master gave
them up or another process took over the address.

**Actions.** The handlers of the master (`RegisterWorker`, `FinishedJob`,
`UnregisterWorkerHandler`, `NewJobHandler`), the steps of `process_job`
(`CreateState`, `StartJob`, `RecordAnswers`, `StartLateWorkers`, `EndJob`,
`GiveUpWaiting`, `TaskTimeout`), the pinger (`Ping`, `PingerThrows`), shutdown,
and the worker's threads (`StartProcessing`, `LeaveMainLoop`,
`ProcessJobReturns`, `TryUnregister`, `Rejoin`, `Watchdog`, `StopServing`,
`Exit`). `Fault` marks what need not happen: crashes, lost pings, failed calls,
timeouts, shutdowns. `Restart` starts a process at an old address.

Between `NewJobHandler` and `CreateState` the state of the active bulk job is
missing (`NoState`) and `.at` throws: a registering process is never answered
(`hung`), and the pinger's exception ends the master. Both are in the model;
the liveness properties leave out a process that hangs.

The run `cluster` has two addresses, three node ids, two bulk jobs, one fault,
one restart and removal after two lost pings (three in the code; the count is a
constant). One fault at any point is what single failures reach; the restart
gives an address a second process while the first one's id is still known.
`NoneForgotten`: an idle worker that has not had its turn is on the list to be
started. `RunningIsWaitedFor`: `process_job` has an entry for every process it
gives work to. `JobNotReplaced`: `NewJob` never replaces the job of a process.
`BulkJobEnds`, `StaleIdsRemoved`, `OrphansEnd`: bulk jobs end, ids without a
process go, processes without a master end. A system that ran out of ids, jobs
and faults may stop (`CHECK_DEADLOCK FALSE`).

**Fairness.** One `WF` on all steps of threads that are no fault: some thread
goes on while any can. It is the weakest assumption under which a scheduler
runs at all. The client starts its next bulk job after the last one ended, as
`Database.run` of the Python client does; the watchdog's 50 s are longer than a
round of pings, so that it fires only at a process that is not pinged.

### Proofs

`ClusterProofs.tla` proves `TypeCorrect`, `NoWorkerForgotten`,
`RunningWorkersAreWaitedFor` and `JobsAreNotReplaced` for any addresses, node
ids, bulk jobs, faults and restarts, from `ClusterAssumption` alone (natural
bounds, at least two lost pings before a removal). `IInv` is `TypeOK` and
`NoneForgotten` with

- `Processes`: where a process's threads are fixes whether it has a bulk job,
  an id and a `state_`; one that has a bulk job is not `IDLE`, so the test and
  set of `NewJob` fails (`JobsAreNotReplaced`);
- `Known`: the ids below `next_worker_id_` are those the master, its calls and
  the processes know;
- `Phase`: where `process_job` is, and which bulk job has a state;
- `CallsMade`: a call of the newest bulk job that may still arrive, and a process
  that accepted one, go back to an id at that address which this bulk job called.
  It holds although an answer may be lost, a call be duplicated, and the address
  taken over by another process;
- `OneTurn`: a worker is started at most once in a bulk job.

Every action is either quiet (`QuietStep`: it starts nothing and only removes or
releases workers), a step of one process (`ProcessStep`), or one of the few that
call, answer or create a bulk job, which have lemmas of their own.

The proof changed `RunningIsWaitedFor`. It used to ask for the entry of the id
the process goes by, and the instance, with a single fault, agreed. With two
faults it fails: a worker that the 60 s timeout left `RUNNING_JOB` accepts the
next bulk job through a call for an older, `IDLE` id at its address; it is given
tasks under its id, and the wait loop has an entry only for the older one. The
property now allows an entry of another id at the same address.

Known deviations, in the model or beside it: after the 60 s of
`GiveUpWaiting` a worker that reports after the next `NewJob` is ignored and
stays `RUNNING_JOB`; a `NewJob` call for an old node id is accepted under the
new one; a ping that is answered before the worker has stored its id removes
it; `Shutdown` and `UnregisterWorker` wait for each other until their deadlines.

## Database: metadata across restarts

`Database.tla` models `meta_`, the descriptor cache and three kinds of files:
the database descriptor (`db`), the megafile (`mega`) and one descriptor file
per table (`files`). Each write of one file is a step, and the master may stop
between any two of them (`Restart`): the next one has what the files hold. A
descriptor is the name of the table it describes, so that a stale one can be
told from the right one. `saved`, `maker`, `issued` and `reported` are history.

A bulk job goes through `NewJob`, `UpdateTables` (tables and megafile),
`StartWorkers` (database descriptor, then workers hear of the ids),
`SaveTable`, `FinishedWork` (commit in memory, checkpoint every
`CheckpointFrequency`), `CommitBulkJob`, `ReportFinished`; or ends in
`RejectJob`, `FailNoWorkers`, `FailShutdown`. Client calls are `NewTable` in
three steps, `DeleteTables`, `GetTables`, and an ingest with good and bad videos.

The run `database` has two names, outputs of one or two tables, three table
ids, two bulk jobs and two restarts: a table can be deleted and made again, and
what two masters in a row left behind meets in the third. It checks that
every table that is named can be described (`DescriptorsReadable`), that output
tables get their own descriptors (`JobDescriptors`), that storage agrees with
memory (`StorageAgrees`), that a committed table is complete
(`CommittedComplete`), that what the client was told stays (`FinishedDurable`),
and that an id that workers know is not given out again (`NeverReissued`).

`DatabaseSteps.tla` and `DatabaseProofs.tla` prove all of them, and the types, for any names, outputs, checkpoint
frequency and bounds. The invariants say little about a master in the middle of
an operation; `IInv` adds where it is (`Position`), what the copy of an ingest
holds (`IngestCopy`), that unused ids are unused (`Unused`), that storage and
memory agree on the ids both have (`Agree`, `JobsAgree`), and the properties in
a form that speaks of memory and storage alike (`Described`, `Complete`,
`JobTables`, `Issued`, `Reported`). One lemma per operation of
`DatabaseMetadata` says what it changes, one per action that `IInv` is kept.

Assumed, and not checked by the code: clients call while no bulk job is being
set up or finished (`process_job` uses `meta_` without `work_mutex_`), and
ingest only between bulk jobs (its recovery would drop commits since the last
checkpoint). Two things go wrong within the model and are excluded by the
statements: `NewTable` commits before its items are written
(`CommittedComplete` is about the other makers), and a table that `NewTable` or
ingest makes under an id left in the megafile by a stopped master is served
with the older descriptor (`JobDescriptors` is about output tables).

## Samplers, DagAnalysis, EvaluateWorker: which rows, and when

`Samplers.tla` has every sampler and partitioner of `sampler.cpp` as operators
on sequences of rows. `DagAnalysis.tla` has the functions of `dag_analysis.cpp`
on a job (a sequence of ops): validation, row counts, boundaries of tasks,
the rows every op must read and compute for a task (`TaskStream`s), live
columns. `EvaluateWorker.tla` is the state machine: `new_task` resets the ops
and `feed` takes one packet through all of them, with the positions, caches and
batches of the code. An element is named by its op, column and row; an op given
the right elements puts out the right ones and `Wrong` otherwise, so that
`TaskDelivered` compares what comes out with the definition of the graph, not
with another run of the algorithm.

The run `evaluate` goes through all graphs of `MCEvaluateWorker.tla`: chains of
sampler, kernel and sampler; joins of inputs at different rates, one read
twice; slices; graphs that must be rejected; with four stencils, batches of one
and two, no, bounded and unbounded state, packets of one to three rows, two
tasks in a row in either order. Streams of 6 or 7 rows have a first, a middle
and a short last task and leave a rest for every stride and batch.
`TaskDelivered`: a task puts out exactly its rows, each with the right element,
and no check of the worker fails. `KernelInputsRight`: no element of a window was
dropped, and a kernel with state has seen its warm-up rows in order.
`TasksCoverJob`: the tasks of a job are its rows, once each.

The graphs leave out what is known to go wrong: a saved column that is also
read by a kernel with a stencil or warm-up (`evaluate_worker.cpp:1063`), the
gather partitioner, whose `group_at` ignores its argument (`sampler.cpp:716`),
and two slices with different numbers of groups (`dag_analysis.cpp:655`). Row
numbers stay far below the widths of the code's integers and floats.

## Decoder: two threads around a codec

`Decoder.tla` follows the rows of a video column from the column source, which
cuts them into intervals of keyframes, through `PreEvaluateWorker` to
`DecoderAutomata`: the caller (`initialize`, `get_frames`, the destructor) and
the feeder thread, with one mutex, one condition variable for both and atomics.
A critical section is a step, and so is what the caller does while the feeder
is parked. `notify_one` wakes a sleeping thread and is lost otherwise. The codec
holds back `Delay` frames, needs a keyframe or the frame before, and shows
`Garbage` otherwise or when its sample was read from a freed buffer.

The run `decoder` has two items of 9 and 2 frames with keyframes 0, 2, 4 and 0,
every request for one or two rows and two for three, two requests in a row,
work packets of 2 frames, a pause above one decoded frame and a codec that
holds back two. The last group of the first item is long enough for the feeder
to fill the queue. Requests within a group of pictures, across groups,
across a skipped group and across items all occur, and a second request meets
whatever the first left behind. `FramesRight`: the frames handed out are the
ones asked for. `RetrieverInStep`: the assertions of the code. `QueueBounded`:
decoded frames do not pile up. `CallsReturn`, with `WF` on each of the two
threads: no lost wake-up. After the destructor nothing is left to do
(`CHECK_DEADLOCK FALSE`).

`PreEvaluateWorker` frees the encoded buffers of an entry before `initialize`
waits for the feeder. The model lets the codec see other bytes then, or refuse
the packet, which ends the process (`CodecRefuses`): `FramesRight` holds
nevertheless, and `CallsReturn` counts that end.

### Proofs

`DecoderProofs.tla` proves `FramesAreRight`, `RetrieverStaysInStep` and
`QueueStaysBounded` for any table, requests, work packet size, pause threshold
and codec delay. It assumes that thresholds are
natural numbers (`DecoderAssumption`) and what the column source promises
(`ColumnSourceAssumption`): the segments it cuts hold the rows asked for, in
order, each from a keyframe on. That is a fact about a recursive computation;
TLC evaluates it for every request of the run. `IInv` consists of

- `Shapes`, what is needed of the types, and `Feeder`, `Counting`: a parked
  feeder is parked, a feeding one has a segment, and calls count their frames;
- `Rows`: where the retriever is in the rows, and that what it copied out is
  right (`FramesRight`);
- `Stream`: the queue followed by the codec holds consecutive frames, from the
  one the retriever counts to the one the feeder is at; the feeder is in the
  retriever's segment and at work while frames lack, or has fed it and parks;
- `Change`, `Starts`: the same at the change of a segment, and that a feeder does
  not begin a segment before the discontinuity was sent;
- `Stale`: what an io packet leaves in the codec and the queue is flushed by the
  next `initialize`, because the last call took a frame;
- `Ahead`: how much is decoded ahead of the retriever, for each place of the
  feeder.

The proof changed `QueueBounded`. The bound was one frame smaller, which the
instance of that time agreed with because its segments were too short. When the
last frame of a call also ends a segment, the feeder is restarted before that
frame is counted; it fills the queue of the new segment, waits for room, and
feeds one more sample once the call has its frames.

## Not modelled

- `stdlib` and the Python client: numeric kernels and translation to protobuf,
  without protocol state. Third-party headers in the tree are not the system's.
- The codecs, NVIDIA and Intel decoders, GPU memory, storage back ends, gRPC and
  `moodycamel` queues: libraries, present by what the code relies on.
- The H.264 index, demuxing, item files and video encoding: functions of bytes,
  whose properties are about the formats.
- Registration of ops, sources, sinks and kernels, loading of libraries, the
  choice of devices and the arguments of kernels: tables that are filled once.
- The profiler, logging and command-line tools.
- Overlapping `NewJob` calls of several clients (`master.cpp:1194`).
- Data races on statistics and on `meta_`: their outcome is not bounded.
- The linked allocator, which is compiled out; `buffers_in_same_block` and the
  destructors of the allocators, which no other step depends on.

## What the prover does not reach

Liveness (`BulkJobSucceeds`, `WorkersReleased`, `ProcessJobEnds`, `BulkJobEnds`,
`StaleIdsRemoved`, `OrphansEnd`, `CallsReturn`) is checked by TLC only: the
prover has neither fairness nor `ENABLED`. What samplers, the DAG analysis, the
column source and the evaluate worker compute is defined by recursion over data,
and induction over it is out of its reach: `KernelInputsRight`, `TaskDelivered`
and `TasksCoverJob` are checked on the graphs of the run `evaluate`. `Pipeline`
has no proofs: `ReportedTasksAreSaved`, `AllRowsUsed`, `NothingLeftBehind` and
`QueuesBalanced` count the entries of all queues, sums over a changing set of
threads, and its instances are the evidence.
