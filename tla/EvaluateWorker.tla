--------------------------- MODULE EvaluateWorker ---------------------------
(***************************************************************************)
(* EvaluateWorker (scanner/engine/evaluate_worker.cpp): the rows of a task *)
(* go through all ops of a job, packet by packet.                          *)
(*                                                                         *)
(* An element is named by the row of the stream it is the right element    *)
(* of: <<op, column, row>>.  Null is the element of a row that Space left  *)
(* empty or of a row that was not in the cache.  An op that is handed the  *)
(* right elements puts out the right ones, any other puts out Wrong.       *)
(***************************************************************************)
EXTENDS DagAnalysis
LOCAL INSTANCE FiniteSetsExt
LOCAL INSTANCE SequencesExt

CONSTANTS
  Jobs,         \* the jobs, see DagAnalysis
  WorkPackets,  \* values of work_packet_size
  MaxTasks      \* how many tasks the worker is given, one after the other

VARIABLES
  job, packet,  \* the job and its work_packet_size
  info,         \* what is known of the job: its DAGAnalysisInfo and its tasks
  task,         \* the output rows of the task, <<>> before the first one
  streams,      \* its TaskStreams and source rows
  ops,          \* for every op: its position in each row list, its cache
  fed,          \* the packets of the task fed so far
  calls,        \* for every op: the batches its kernel was run on
  output,       \* the rows put out for each column of the sink
  tasks,        \* the number of tasks so far
  fatal         \* the LOG(FATAL) that ended the process, or "none"

vars == <<job, packet, info, task, streams, ops, fed, calls, output, tasks, fatal>>

Null  == <<"null">>
Wrong == <<"wrong">>
NoRow == -1

EvalOps(j)  == 2 .. Len(j.ops) - 1
Sink(j)     == Len(j.ops)
StreamAt(k) == streams.streams[k - 1]
NoStreams   == [streams |-> <<>>, group |-> 0, ok |-> TRUE, source |-> <<>>]

\* slice_group_: new_task() keeps that of the last of its ops' streams.
slice_group == StreamAt(Sink(job) - 1).slice_group

\* The state of op k at the start of a task
NewOp(j, k) ==
  LET inputs == DOMAIN j.ops[k].inputs
  IN  [in |-> [a \in inputs |-> 0], compute |-> 0, used |-> 0, out |-> 0,
       cache |-> [a \in inputs |-> <<>>]]

Fresh(j)     == [k \in EvalOps(j) |-> NewOp(j, k)]
NoCalls(j)   == [k \in EvalOps(j) |-> <<>>]
NoOutput(j)  == [a \in DOMAIN j.ops[Sink(j)].inputs |-> <<>>]

\* The packets of the task have all been fed.
TaskFed ==
  LET longest == Max({0} \cup {Len(streams.source[c]) : c \in DOMAIN streams.source})
  IN  fed * packet >= longest

----------------------------------------------------------------------------
(* feed(): one op *)

\* The elements of a column that op k reads: the rows of valid_input_rows, in
\* order.  bad: a row went by before the one the op waits for came
Taken(k, op, a, column) ==
  LET valid == StreamAt(k).valid_input
      step(acc, e) ==
        [idx   |-> IF acc.idx < Len(valid) /\ e.row = valid[acc.idx + 1] THEN acc.idx + 1 ELSE acc.idx,
         taken |-> IF acc.idx < Len(valid) /\ e.row = valid[acc.idx + 1] THEN Append(acc.taken, e) ELSE acc.taken,
         bad   |-> acc.bad \/ (acc.idx < Len(valid) /\ e.row > valid[acc.idx + 1])]
  IN  FoldLeft(step, [idx |-> op.in[a], taken |-> <<>>, bad |-> FALSE], column)

\* current_compute_idx_: the compute rows found in the cache of the first input
ComputeIdx(k, op) ==
  LET rows == StreamAt(k).compute
      step(idx, e) == IF idx < Len(rows) /\ e.row = rows[idx + 1] THEN idx + 1 ELSE idx
  IN  FoldLeft(step, op.compute, op.cache[1])

Counted(k, op) == [op EXCEPT !.compute = ComputeIdx(k, op)]

\* The op with the elements of the packet added to its cache
Cached(k, op, side) ==
  LET map == info.columns[k].column_mapping
      new == [a \in DOMAIN map |-> Taken(k, op, a, side[map[a]])]
  IN  [bad |-> \E a \in DOMAIN new : new[a].bad,
       op  |-> Counted(k, [op EXCEPT !.in    = [a \in DOMAIN new |-> new[a].idx],
                                     !.cache = [a \in DOMAIN new |-> @[a] \o new[a].taken]])]

\* max_row_id_seen: the last row that every input has
RowSeen(op) ==
  IF \E a \in DOMAIN op.cache : op.cache[a] = <<>> THEN -1
  ELSE Min({op.cache[a][Len(op.cache[a])].row : a \in DOMAIN op.cache})

\* A row outside of the op's input is replaced by the one at the edge.
Clamp(row, max) == IF row < 0 THEN 0 ELSE IF row >= max THEN max - 1 ELSE row

IsKernel(k)   == job.ops[k].kind = "Kernel"
StencilOf(k)  == IF IsKernel(k) THEN job.ops[k].stencil ELSE <<0>>
MaxRows(k)    == DomainSize(job.ops[k], info.total, slice_group)

\* The batch size, 1 when fewer rows than a batch are still to come
BatchSize(k, op) ==
  IF ~IsKernel(k) THEN 1
  ELSE IF Len(StreamAt(k).valid_input) - op.in[1] < job.ops[k].batch THEN 1
  ELSE job.ops[k].batch

\* compute_producible_elements
Producible(k, op) ==
  LET rows  == StreamAt(k).compute
      last  == StencilOf(k)[Len(StencilOf(k))]
      seen  == RowSeen(op)
      max   == MaxRows(k)
      Ready(i) == Clamp(rows[i] + last, max) <= seen
      late  == {i \in op.used + 1 .. op.compute : ~Ready(i)}
      n     == (IF late = {} THEN op.compute ELSE Min(late) - 1) - op.used
  IN  n - (n % BatchSize(k, op))

\* The element of the cache for a row, a default one if there is none
Lookup(cache, row) ==
  LET at == {i \in DOMAIN cache : cache[i].row = row}
  IN  IF at = {} THEN Null ELSE cache[Max(at)].el

\* The kernel is handed the elements of the rows around r from every input.
Window(k, op, r) ==
  LET max == MaxRows(k)
  IN
  \A a \in DOMAIN op.cache : \A s \in DOMAIN StencilOf(k) :
    LET row == Clamp(r + StencilOf(k)[s], max)
    IN  Lookup(op.cache[a], row) = <<job.ops[k].inputs[a][1], job.ops[k].inputs[a][2], row>>

SamplerOf(k) ==
  job.ops[k].samplers[IF Len(job.ops[k].samplers) > 1 THEN slice_group + 1 ELSE 1]

\* The rows op k puts out for the rows it can run on: [row, el], where el is
\* the element handed on.  Row -1 is where Slice looks up a row that its group
\* does not have: map::at throws.
OutputsFor(k, op, rows) ==
  LET o     == job.ops[k]
      At(i) == op.cache[1][i].el
      down  == get_downstream_rows(SamplerOf(k), rows)
      group == group_at(o.partitioner, MaxRows(k), slice_group)
      offset == GroupOffset(info.total[o.inputs[1][1]], slice_group)
  IN
  CASE IsSampling(o) ->
         [i \in DOMAIN down |-> [row |-> down[i].row,
                                 el  |-> IF down[i].from = 0 THEN Null ELSE At(down[i].from)]]
    [] o.kind = "Slice" ->
         [i \in DOMAIN rows |-> [row |-> Max({j \in DOMAIN group : group[j] = rows[i]} \cup {0}) - 1,
                                 el  |-> At(i)]]
    [] o.kind = "Unslice" -> [i \in DOMAIN rows |-> [row |-> rows[i] + offset, el |-> At(i)]]
    [] o.kind = "Kernel"  ->
         [i \in DOMAIN rows |-> [row |-> rows[i], el |-> IF Window(k, op, rows[i]) THEN Null ELSE Wrong]]

\* What is kept of the rows put out: those of valid_output_rows, in order
KeptOutput(k, op, rows) ==
  LET valid == StreamAt(k).valid_output
      step(acc, e) ==
        IF acc.out < Len(valid) /\ e.row = valid[acc.out + 1]
        THEN [out |-> acc.out + 1, kept |-> Append(acc.kept, e)] ELSE acc
  IN  FoldLeft(step, [out |-> op.out, kept |-> <<>>], rows)

\* The elements to drop from every cache after n rows have been put out
Dropped(k, op, n) ==
  LET valid == StreamAt(k).valid_input
      first == valid[Min({op.used + n, Len(valid) - 1}) + 1] + StencilOf(k)[1]
  IN  IF valid = <<>> THEN 0
      ELSE Len(SelectSeq(op.cache[1], LAMBDA e : e.row < first))

----------------------------------------------------------------------------
(* What an op ought to hand on *)

\* The stream that a sampler makes of n rows: the row of each of its elements,
\* or NoRow for a null one
SampleOf(s, n) ==
  CASE s.kind = "All"           -> RangeSeq(0, n)
    [] s.kind = "Strided"       -> SelectSeq(RangeSeq(0, n), LAMBDA r : r % s.stride = 0)
    [] s.kind = "StridedRanges" ->
         FlattenSeq([i \in DOMAIN s.starts |->
           SelectSeq(RangeSeq(s.starts[i], s.ends[i]), LAMBDA r : (r - s.starts[i]) % s.stride = 0)])
    [] s.kind = "Gather"        -> s.rows
    [] s.kind = "SpaceNull"     ->
         [i \in 1 .. n * s.spacing |-> IF (i - 1) % s.spacing = 0 THEN (i - 1) \div s.spacing ELSE NoRow]
    [] s.kind = "SpaceRepeat"   -> [i \in 1 .. n * s.spacing |-> (i - 1) \div s.spacing]

\* The rows of group g of a partition of n rows
GroupOf(p, n, g) ==
  CASE p.kind = "Strided"      ->
         LET all == SelectSeq(RangeSeq(0, n), LAMBDA r : r % p.stride = 0)
         IN  SubSeq(all, g * p.group_size + 1, Min({Len(all), (g + 1) * p.group_size}))
    [] p.kind = "StridedRange" ->
         SelectSeq(RangeSeq(p.starts[g + 1], p.ends[g + 1]), LAMBDA r : (r - p.starts[g + 1]) % p.stride = 0)
    [] p.kind = "Gather"       -> p.groups[g + 1]

\* The element handed on for a row is the right one.
Right(k, e) ==
  LET o     == job.ops[k]
      in    == o.inputs[1]
      n     == IF in[1] = 1 THEN job.source[in[2]] ELSE MaxRows(k)
      from  == CASE IsSampling(o)       -> SampleOf(SamplerOf(k), n)[e.row + 1]
                 [] o.kind = "Slice"   -> GroupOf(o.partitioner, n, streams.group)[e.row + 1]
                 [] o.kind = "Unslice" ->
                      e.row - GroupOffset(info.total[in[1]], streams.group)
  IN  IF o.kind = "Kernel" THEN e.el # Wrong
      ELSE e.el = IF from = NoRow THEN Null ELSE <<in[1], in[2], from>>

\* Column c of op k, its elements named
Named(k, c, rows) ==
  [i \in DOMAIN rows |->
     [row |-> rows[i].row, el |-> IF Right(k, rows[i]) THEN <<k, c, rows[i].row>> ELSE Wrong]]

----------------------------------------------------------------------------
(* feed(): all ops *)

\* The batches the kernel of op k is called with
Batches(k, rows) ==
  LET b == job.ops[k].batch
  IN  IF ~IsKernel(k) THEN <<>>
      ELSE [i \in 1 .. CeilDiv(Len(rows), b) |-> SubSeq(rows, (i - 1) * b + 1, Min({Len(rows), i * b}))]

\* The columns after op k, given those before it and the rows it kept
Columns(k, side, kept) ==
  LET c    == info.columns[k]
      used == SelectSeq([i \in 1 .. Outputs(job, k) |-> i], LAMBDA i : i \notin c.unused_outputs)
      all  == side \o [i \in DOMAIN used |-> Named(k, used[i], kept)]
      live == SelectSeq([i \in DOMAIN all |-> i], LAMBDA i : i \notin c.dead_columns)
  IN  [i \in DOMAIN live |-> all[live[i]]]

\* Op k has put out the rows for n of its inputs: its new state, the columns
\* after it and its calls.  The process ends when a row was missed, a row is
\* not in the slice group or (undefined behaviour) an element is to be dropped
\* from an empty cache.
Finished(k, side, in, n, rows, kept, drop) ==
  [op    |-> [in.op EXCEPT !.used  = IF StreamAt(k).valid_input = <<>> THEN @ ELSE @ + n,
                           !.out   = kept.out,
                           !.cache = [a \in DOMAIN @ |-> SubSeq(@[a], drop + 1, Len(@[a]))]],
   side  |-> Columns(k, side, kept.kept),
   calls |-> Batches(k, rows),
   fatal |-> CASE in.bad -> "Not enough rows"
               [] \E i \in DOMAIN rows : rows[i].row < 0 -> "out of range"
               [] \E a \in DOMAIN in.op.cache : Len(in.op.cache[a]) < drop -> "pop_front"
               [] OTHER -> "none"]

PutOut(k, side, in, n, rows) ==
  Finished(k, side, in, n, rows, KeptOutput(k, in.op, rows), Dropped(k, in.op, n))

RunOn(k, side, in, n) ==
  PutOut(k, side, in, n, OutputsFor(k, in.op, SubSeq(StreamAt(k).compute, in.op.used + 1, in.op.used + n)))

FilledCache(k, side, in) == RunOn(k, side, in, Producible(k, in.op))

\* One op: fill the cache, run on what it is enough for, hand on, clean up
FeedOp(k, side) == FilledCache(k, side, Cached(k, ops[k], side))

\* The rows of the next packet in column c of the source.  The load worker's
\* packets are a multiple of packet, so they make no difference; a column that
\* has come to its end is empty from then on.
PacketOf(c) ==
  LET rows  == streams.source[c]
      start == fed * packet
  IN  [i \in 1 .. Max({0, Min({packet, Len(rows) - start})}) |->
         [row |-> rows[start + i], el |-> <<1, c, rows[start + i]>>]]

\* acc: the columns, states, calls and failure after the ops up to op k - 1
Fold(acc, k, r) ==
  [side  |-> r.side,
   ops   |-> [acc.ops EXCEPT ![k] = r.op],
   calls |-> [acc.calls EXCEPT ![k] = @ \o r.calls],
   fatal |-> IF acc.fatal = "none" THEN r.fatal ELSE acc.fatal]

\* All ops, in order
FeedOps ==
  LET step(acc, k) == Fold(acc, k, FeedOp(k, acc.side))
  IN  FoldLeft(step, [side  |-> [c \in DOMAIN job.source |-> PacketOf(c)],
                      ops   |-> ops,
                      calls |-> calls,
                      fatal |-> "none"],
               RangeSeq(2, Sink(job)))

feed ==
  /\ fatal = "none" /\ task # <<>> /\ ~TaskFed
  /\ fed' = fed + 1
  /\ \E done \in {FeedOps} :
       /\ ops' = done.ops
       /\ calls' = done.calls
       /\ output' = [a \in DOMAIN output |-> output[a] \o done.side[info.columns[Sink(job)].column_mapping[a]]]
       /\ fatal' = done.fatal
  /\ UNCHANGED <<job, packet, info, task, streams, tasks>>

\* The state that new_task() leaves behind
Reset(j) == Fresh(j)

\* new_task() with the rows that derive_stencil_requirements found.  A task it
\* finds no rows for never gets as far as the evaluate worker.
new_task ==
  /\ fatal = "none" /\ tasks < MaxTasks /\ (task = <<>> \/ TaskFed)
  /\ \E t \in ToRows(info.tasks) :
       /\ task' = t
       /\ streams' = derive_stencil_requirements(job, info.total, t)
  /\ tasks' = tasks + 1
  /\ fatal' = IF task # <<>> /\ \E k \in EvalOps(job) : \E a \in DOMAIN ops[k].in :
                   ops[k].in[a] # Len(StreamAt(k).valid_input)
              THEN "did not use all rows"
              ELSE IF streams'.ok THEN "none" ELSE "no rows for the task"
  /\ ops' = Reset(job)
  /\ fed' = 0
  /\ calls' = NoCalls(job)
  /\ output' = NoOutput(job)
  /\ UNCHANGED <<job, packet, info>>

\* The analysis of a job, and its tasks
InfoOf(j, total) ==
  [total   |-> total,
   columns |-> perform_liveness_analysis(j),
   tasks   |-> IF Accepted(total) THEN Tasks(PartitionBoundaries(j, total)) ELSE <<>>]

Analysis(j) == InfoOf(j, TotalRows(j))

Init ==
  /\ job \in {j \in Jobs : validate_jobs_and_ops(j)}
  /\ info = Analysis(job)
  /\ Accepted(info.total)
  /\ packet \in {w \in WorkPackets : job.packet % w = 0}
  /\ task = <<>> /\ streams = NoStreams
  /\ ops = Fresh(job)
  /\ fed = 0 /\ calls = NoCalls(job) /\ output = NoOutput(job)
  /\ tasks = 0 /\ fatal = "none"

\* The worker has been given all its tasks, or the process has ended.
Stopped ==
  /\ fatal # "none" \/ (tasks = MaxTasks /\ TaskFed) \/ info.tasks = <<>>
  /\ UNCHANGED vars

Next == new_task \/ feed \/ Stopped

Spec == Init /\ [][Next]_vars

----------------------------------------------------------------------------
(* Properties *)

\* Positions are within the lists they index, elements are named or wrong.
TypeOK ==
  /\ job \in Jobs /\ packet \in WorkPackets /\ tasks \in 0 .. MaxTasks
  /\ \A k \in EvalOps(job) :
       /\ ops[k].compute \in Nat /\ ops[k].used \in 0 .. ops[k].compute
       /\ task # <<>> =>
            /\ \A a \in DOMAIN ops[k].in : ops[k].in[a] \in 0 .. Len(StreamAt(k).valid_input)
            /\ ops[k].compute <= Len(StreamAt(k).compute)
            /\ ops[k].out \in 0 .. Len(StreamAt(k).valid_output)

\* A task that has been fed in full has put out exactly its rows, in order, each
\* with the right element in every column of the sink: whatever the packets,
\* and however the rows of the inputs of an op came in.  No LOG(FATAL) of the
\* worker ends the process on the way: the rows derived for a task on one side
\* are the rows that come by on the other.
TaskDelivered ==
  /\ fatal = "none"
  /\ task # <<>> /\ TaskFed =>
       \A a \in DOMAIN output :
         LET in == job.ops[Sink(job)].inputs[a]
         IN  output[a] = [i \in DOMAIN task |-> [row |-> task[i], el |-> <<in[1], in[2], task[i]>>]]

\* Every row a kernel runs on, warm-up rows included, comes with the right
\* elements of its window: none was dropped from the cache, or taken from it
\* before all inputs had come in.  A kernel with state has seen its warm-up
\* rows, or all rows, just before each row whose output is kept.
KernelInputsRight ==
  \A k \in EvalOps(job) :
    /\ \A i \in DOMAIN calls[k] : \A j \in DOMAIN calls[k][i] : calls[k][i][j].el # Wrong
    /\ task # <<>> =>
         LET ran == FlattenSeq(calls[k])
             w   == job.ops[k].warmup
         IN  \A i \in DOMAIN ran :
               ran[i].row \in ToRows(StreamAt(k).valid_output) =>
                 IF w = Always THEN i = ran[i].row + 1
                 ELSE \A d \in 1 .. Min({w, ran[i].row}) : i > d /\ ran[i - d].row = ran[i].row - d

\* The tasks of a job are its output rows, each in one task, in order
\* (the assertion on partition_boundaries in master.cpp).
TasksCoverJob ==
  FlattenSeq(info.tasks) = RangeSeq(0, info.total[Sink(job)][1])

=============================================================================
