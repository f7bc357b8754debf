---------------------------- MODULE DagAnalysis ----------------------------
(***************************************************************************)
(* What master and worker compute from the graph of a job before it runs   *)
(* (scanner/engine/dag_analysis.cpp, Building tasks in master.cpp).        *)
(*                                                                         *)
(* A job is [ops, source, packet]: the ops in topological order, the rows  *)
(* of each source column and io_packet_size.  ops[1] is the source op that *)
(* remap_input_op_edges makes of all of them, with one column per source,  *)
(* and the last op is the sink.  The other ops have                        *)
(*   kind     "Sample", "Space", "Slice", "Unslice" or "Kernel"            *)
(*   inputs   a sequence of <<op, column>>, columns numbered from 1        *)
(*   samplers (Sample, Space) one for each slice group                     *)
(*   partitioner (Slice)                                                   *)
(*   stencil, batch, warmup, outputs (Kernel); warmup is Stateless, Always *)
(*            for unbounded state, or a number of rows                     *)
(* Slice groups are numbered from 0, ops from 1.                           *)
(***************************************************************************)
EXTENDS Samplers
LOCAL INSTANCE FiniteSetsExt
LOCAL INSTANCE SequencesExt

Stateless == -1
Always    == -2

RangeSeq(a, b)  == [i \in 1 .. b - a |-> a + i - 1]
ToRows(seq)     == {seq[i] : i \in DOMAIN seq}
Ops(job)        == DOMAIN job.ops
IsSampling(op)  == op.kind \in {"Sample", "Space"}

\* The columns an op adds to the live columns
Outputs(job, i) ==
  CASE job.ops[i].kind = "Source" -> Len(job.source)
    [] job.ops[i].kind = "Kernel" -> job.ops[i].outputs
    [] job.ops[i].kind = "Sink"   -> 0
    [] OTHER -> 1

----------------------------------------------------------------------------
(* Faulty variants of definitions below (mutants); no specification uses them *)

Fault_NoWarmup(op, rows) == rows
Fault_DropsLast(rows, max) == SelectSeq(rows, LAMBDA r : 0 <= r /\ r < max - 1)

----------------------------------------------------------------------------
(* populate_analysis_info *)

\* op_slice_level: the slice level of an op's output
SliceLevel(job, i) ==
  LET level[k \in Ops(job)] ==
        LET op == job.ops[k]
            above == IF op.inputs = <<>> THEN 0 ELSE level[op.inputs[1][1]]
        IN  CASE op.kind = "Slice"   -> above + 1
              [] op.kind = "Unslice" -> above - 1
              [] OTHER -> above
  IN  level[i]

----------------------------------------------------------------------------
(* validate_jobs_and_ops *)

\* An op reads columns that are there, of ops before it at one slice level.
\* Only the sink reads what an unslice op put together.
ValidInputs(job, i) ==
  LET ins == job.ops[i].inputs
  IN  \A a \in DOMAIN ins :
        /\ ins[a][1] < i
        /\ ins[a][2] \in 1 .. Outputs(job, ins[a][1])
        /\ SliceLevel(job, ins[a][1]) = SliceLevel(job, ins[1][1])
        /\ job.ops[ins[a][1]].kind = "Unslice" => job.ops[i].kind = "Sink"

\* Slices do not nest, and the output is not sliced.
ValidLevel(job, i) ==
  LET above == SliceLevel(job, job.ops[i].inputs[1][1])
  IN  /\ job.ops[i].kind \in {"Slice", "Sink"} => above = 0
      /\ job.ops[i].kind = "Unslice" => above > 0

\* There is one sampler outside of slices.
ValidSampling(job, i) ==
  IsSampling(job.ops[i]) =>
    /\ Len(job.ops[i].samplers) > 0
    /\ SliceLevel(job, i) = 0 => Len(job.ops[i].samplers) = 1

validate_jobs_and_ops(job) ==
  /\ Len(job.ops) >= 2 /\ job.ops[Len(job.ops)].kind = "Sink"
  /\ \A i \in 2 .. Len(job.ops) : ValidInputs(job, i) /\ ValidLevel(job, i) /\ ValidSampling(job, i)

----------------------------------------------------------------------------
(* determine_input_rows_to_slices: how many rows every op puts out *)

\* What takes the place of the rows of an op that the analysis rejects
NoRows == <<-1>>

\* The rows an op puts out in each slice group, given those of its inputs
OutputRows(op, ins) ==
  LET first == ins[1]
      sum   == MapThenSumSet(LAMBDA g : first[g], DOMAIN first)
  IN
  CASE NoRows \in ToRows(ins) \/ \E a \in DOMAIN ins : ins[a] # first -> NoRows
    [] IsSampling(op) ->
         IF Len(op.samplers) # Len(first) \/ \E g \in DOMAIN first : ~validate(op.samplers[g])
         THEN NoRows
         ELSE [g \in DOMAIN first |-> get_num_downstream_rows(op.samplers[g], first[g])]
    [] op.kind = "Slice"   ->
         IF validate_partitioner(op.partitioner, first[1])
         THEN total_rows_per_group(op.partitioner, first[1])
         ELSE NoRows
    [] op.kind = "Unslice" -> <<sum>>
    [] OTHER -> first

\* InputRows: the rows of an op's inputs; total_rows_per_op: of its output
\* (of op 1, the source op: those of its first column)
TotalRows(job) ==
  LET total[i \in Ops(job)] ==
        LET op == job.ops[i]
            In(a) == IF op.inputs[a][1] = 1 THEN <<job.source[op.inputs[a][2]]>>
                     ELSE total[op.inputs[a][1]]
        IN  IF i = 1 THEN <<job.source[1]>>
            ELSE OutputRows(op, [a \in DOMAIN op.inputs |-> In(a)])
  IN  total

\* The job passes the analysis of the master.
Accepted(total) == total[Len(total)] # NoRows

\* op_input_domain_size: the rows of the op the first input comes from
DomainSize(op, total, group) ==
  LET rows == total[op.inputs[1][1]]
  IN  IF Len(rows) = 1 THEN rows[1] ELSE rows[group + 1]

----------------------------------------------------------------------------
(* The tasks of a job: one per slice group, or chunks of the output *)

SliceOps(job) == {i \in Ops(job) : job.ops[i].kind = "Slice"}

\* derive_slice_final_output_rows: the rows that reach the sink from a group of
\* size n.  The inputs of an op all have as many rows, so it does not matter
\* which way down from the slice op is taken.
SliceFinalRows(job, slice, group, n) ==
  LET Count[i \in Ops(job)] ==   \* the rows entering op i, -1 if no way leads there
        IF i <= slice THEN IF i = slice THEN n ELSE -1
        ELSE LET p == Max({q \in {job.ops[i].inputs[a][1] : a \in DOMAIN job.ops[i].inputs} :
                              Count[q] # -1} \cup {1})
             IN  IF p > slice /\ IsSampling(job.ops[p])
                 THEN get_num_downstream_rows(job.ops[p].samplers[group + 1], Count[p])
                 ELSE Count[p]
  IN  Count[Len(job.ops)]

\* partition_boundaries of a job that slices n rows
SliceBoundaries(job, slice, n) ==
  LET part == job.ops[slice].partitioner
      Rows(g) == SliceFinalRows(job, slice, g, Len(group_at(part, n, g)))
  IN  [i \in 1 .. total_groups(part, n) + 1 |-> MapThenSumSet(Rows, 0 .. i - 2)]

\* partition_boundaries
PartitionBoundaries(job, total) ==
  IF SliceOps(job) = {}
  THEN [i \in 1 .. CeilDiv(total[Len(total)][1], job.packet) |-> (i - 1) * job.packet] \o total[Len(total)]
  ELSE LET slice == Min(SliceOps(job))
       IN  SliceBoundaries(job, slice, total[job.ops[slice].inputs[1][1]][1])

\* job_tasks: the output rows of every task
Tasks(bounds) == [i \in 1 .. Len(bounds) - 1 |-> RangeSeq(bounds[i], bounds[i + 1])]

----------------------------------------------------------------------------
(* derive_stencil_requirements: the rows every op reads, runs on and keeps  *)
(* so that the sink gets the rows of a task                                *)

\* The rows a kernel must run on to put out the given ones
ComputeRows(op, rows) ==
  CASE op.warmup = Stateless -> rows
    [] op.warmup = Always    -> RangeSeq(0, rows[Len(rows)] + 1)
    [] OTHER -> Sorted({r - k : r \in ToRows(rows), k \in 0 .. op.warmup} \cap Nat)

\* handle_boundary: REPEAT_EDGE and REPEAT_NULL leave out the rows past the ends
Bounded(rows, max) == SelectSeq(rows, LAMBDA r : 0 <= r /\ r < max)

\* The first rows of an unslice op's groups: those of group g start here
GroupOffset(counts, g) == MapThenSumSet(LAMBDA k : counts[k], 1 .. g)

\* The group of an unslice op that has all of the rows
UnsliceGroup(counts, rows) ==
  CHOOSE g \in 0 .. Len(counts) - 1 :
    GroupOffset(counts, g) <= rows[1] /\ rows[Len(rows)] < GroupOffset(counts, g + 1)

\* The stream of a kernel on an input of max rows that runs on the rows run
KernelStream(op, rows, run, max) ==
  LET read == Bounded(Sorted({r + s : r \in ToRows(run), s \in ToRows(op.stencil)}), max)
  IN  [valid_input |-> read, compute |-> IF run = <<>> THEN read ELSE run, valid_output |-> rows, ok |-> TRUE]

\* The stream of any other op that reads the rows in
Stream(rows, in) == [valid_input |-> in, compute |-> in, valid_output |-> rows, ok |-> TRUE]

\* The stream of an op whose sampler asks for the rows up, or fails
SamplingStream(rows, up) == [Stream(rows, up.rows) EXCEPT !.ok = up.ok]

\* The stream of an op for the rows it must put out, level being its slice level
StreamOf(op, level, total, rows, group) ==
  CASE IsSampling(op) ->
         SamplingStream(rows, get_upstream_rows(op.samplers[IF level > 0 THEN group + 1 ELSE 1], rows))
    [] op.kind = "Slice"   ->
         LET sliced == group_at(op.partitioner, total[op.inputs[1][1]][1], group)
         IN  Stream(rows, [j \in DOMAIN rows |-> sliced[rows[j] + 1]])
    [] op.kind = "Unslice" ->
         Stream(rows, [j \in DOMAIN rows |-> rows[j] - GroupOffset(total[op.inputs[1][1]], group)])
    [] op.kind = "Sink"    -> Stream(rows, rows)
    [] op.kind = "Kernel"  ->
         KernelStream(op, rows, ComputeRows(op, rows),
                      DomainSize(op, total, IF level > 0 THEN group ELSE 0))

\* The slice group from op i up: every op below the unslice op has group 0
GroupAt(op, total, rows, group) ==
  IF op.kind = "Unslice" THEN UnsliceGroup(total[op.inputs[1][1]], rows) ELSE group

\* The source ops were made one op, and its columns are asked for one by one.
Asked(in) == IF in[1] = 1 THEN in ELSE <<in[1], 0>>

\* The walk w past the ops below op has come to op, whose stream in group is s.
\* need: the rows asked of an op above or of a column of the source
WalkOver(w, op, group, s) ==
  LET reads == {Asked(op.inputs[a]) : a \in DOMAIN op.inputs}
  IN  [need    |-> [in \in DOMAIN w.need \cup reads |->
                      (IF in \in DOMAIN w.need THEN w.need[in] ELSE {})
                      \cup (IF in \in reads THEN ToRows(s.valid_input) ELSE {})],
       group   |-> group,
       ok      |-> w.ok /\ s.ok,
       streams |-> <<[slice_group |-> group] @@ s>> \o w.streams]

WalkInto(w, op, level, total, rows, group) ==
  WalkOver(w, op, group, StreamOf(op, level, total, rows, group))

WalkTo(w, op, level, total, rows) ==
  WalkInto(w, op, level, total, rows, GroupAt(op, total, rows, w.group))

\* The rows asked of op i
Needed(w, i) == Sorted(UNION {w.need[in] : in \in DOMAIN w.need \cap {<<i, 0>>}})

\* What is asked of the source, and the streams: streams[i - 1] is that of op i
FromWalk(job, w) ==
  [streams |-> w.streams,
   group   |-> w.group,
   ok      |-> w.ok,
   source  |-> [c \in DOMAIN job.source |-> Sorted(UNION {w.need[in] : in \in DOMAIN w.need \cap {<<1, c>>}})]]

\* The walk from the sink up to the source
derive_stencil_requirements(job, total, output_rows) ==
  LET n == Len(job.ops)
      walk[i \in 2 .. n + 1] ==   \* past ops i .. n
        IF i = n + 1 THEN [need |-> [x \in {} |-> {}], group |-> 0, ok |-> TRUE, streams |-> <<>>]
        ELSE LET w == walk[i + 1]
             IN  WalkTo(w, job.ops[i], SliceLevel(job, i), total, IF i = n THEN output_rows ELSE Needed(w, i))
  IN  FromWalk(job, walk[2])

----------------------------------------------------------------------------
(* perform_liveness_analysis: the columns handed from op to op *)

\* The last op that uses a column of op i
LastUsed(job, col) ==
  Max({k \in Ops(job) : \E a \in DOMAIN job.ops[k].inputs : job.ops[k].inputs[a] = col}
      \cup {IF col[1] = 1 THEN 2 ELSE col[1]})

\* live_columns: the columns still needed after op k, oldest op first
live_columns(job, k) ==
  LET Of(i) == [c \in 1 .. Outputs(job, i) |-> <<i, c>>]
      all   == FlattenSeq([i \in 1 .. Min({Len(job.ops) - 1, k}) |-> Of(i)])
  IN  SelectSeq(all, LAMBDA col : LastUsed(job, col) > k)

\* What op k does with the columns, those live before it being prev: columns
\* of its own that no op reads, places in prev of the columns it is the last to
\* use, and places in prev of its inputs
ColumnsAt(job, k, prev) ==
  [unused_outputs |-> {c \in 1 .. Outputs(job, k) : LastUsed(job, <<k, c>>) = k},
   dead_columns   |-> {j \in DOMAIN prev : LastUsed(job, prev[j]) = k},
   column_mapping |-> [a \in DOMAIN job.ops[k].inputs |->
                         CHOOSE j \in DOMAIN prev : prev[j] = job.ops[k].inputs[a]]]

perform_liveness_analysis(job) ==
  [k \in 2 .. Len(job.ops) |-> ColumnsAt(job, k, live_columns(job, k - 1))]

=============================================================================
