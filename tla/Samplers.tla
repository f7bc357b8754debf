------------------------------ MODULE Samplers ------------------------------
(***************************************************************************)
(* The domain samplers and partitioners of scanner/engine/sampler.cpp.     *)
(*                                                                         *)
(* A sampler says which rows of the stream above an op (upstream) make up  *)
(* the stream below it (downstream).  It is a record with the field kind,  *)
(* the name make_domain_sampler_instance looks up, and its arguments.      *)
(* Rows are numbered from 0 as in the code, sequences from 1.              *)
(*                                                                         *)
(* The code divides with a float in places: exact below 2^24 rows.         *)
(***************************************************************************)
EXTENDS Integers, Sequences, FiniteSets
LOCAL INSTANCE FiniteSetsExt
LOCAL INSTANCE SequencesExt

CeilDiv(a, b) == -((-a) \div b)

Sorted(S) == [i \in 1 .. Cardinality(S) |-> CHOOSE r \in S : Cardinality({q \in S : q < r}) = i - 1]

\* The results of a call: rows, or failure
Ok(rows) == [ok |-> TRUE, rows |-> rows]
Failed   == [ok |-> FALSE, rows |-> <<>>]

\* The element f(i) for every i in 1 .. n that satisfies keep, in order
Pick(n, keep(_), f(_)) ==
  LET kept == SelectSeq([i \in 1 .. n |-> i], keep)
  IN  [j \in 1 .. Len(kept) |-> f(kept[j])]

----------------------------------------------------------------------------
(* Faulty variants of definitions below (mutants); no specification uses them *)

Fault_LastGroupFull(p, n, g) ==
  [i \in 1 .. p.group_size |-> (p.group_size * g + i - 1) * p.stride]

----------------------------------------------------------------------------
(* DefaultDomainSampler: "All" *)

AllUpstream(s, down) == Ok(down)
AllCount(s, n)       == n
AllDownstream(s, up) == [i \in DOMAIN up |-> [row |-> up[i], from |-> i]]

----------------------------------------------------------------------------
(* StridedDomainSampler.  Its validate() never fails: the checks of the        *)
(* constructor go unread.                                                  *)

StridedUpstream(s, down) == Ok([j \in DOMAIN down |-> down[j] * s.stride])
StridedCount(s, n)       == CeilDiv(n, s.stride)
StridedDownstream(s, up) ==
  Pick(Len(up), LAMBDA i : up[i] % s.stride = 0,
                LAMBDA i : [row |-> up[i] \div s.stride, from |-> i])

----------------------------------------------------------------------------
(* StridedRangesDomainSampler *)

StridedRangesValid(s) ==
  /\ s.stride > 0
  /\ Len(s.starts) = Len(s.ends)
  /\ \A i \in DOMAIN s.starts : s.starts[i] <= s.ends[i]

\* The rows of range i, and offset_at_range_starts_
RangeRows(s, i) == CeilDiv(s.ends[i] - s.starts[i], s.stride)
RangeOffset(s, i) == MapThenSumSet(LAMBDA k : RangeRows(s, k), 1 .. i - 1)

StridedRangesUpstream(s, down) ==
  LET Holding(r) == {i \in DOMAIN s.starts : r < RangeOffset(s, i + 1)}
      Row(r)     == LET i == Min(Holding(r))
                    IN  s.starts[i] + (r - RangeOffset(s, i)) * s.stride
  IN  IF \E j \in DOMAIN down : Holding(down[j]) = {} THEN Failed
      ELSE Ok([j \in DOMAIN down |-> Row(down[j])])

StridedRangesCount(s, n) ==
  LET past == {i \in DOMAIN s.ends : n < s.ends[i]}
  IN  IF past = {} THEN RangeOffset(s, Len(s.ends) + 1)
      ELSE RangeOffset(s, Min(past)) + CeilDiv(n - s.starts[Min(past)], s.stride)

\* The ranges are walked once for all the rows: a row outside the current
\* range moves to the next one that has it, for good.
StridedRangesDownstream(s, up) ==
  LET n  == Len(s.ends)
      At[i \in 0 .. Len(up)] ==
        IF i = 0 THEN 1
        ELSE LET here == {k \in At[i - 1] .. n : s.starts[k] <= up[i] /\ up[i] < s.ends[k]}
             IN  IF here = {} THEN n + 1 ELSE Min(here)
      Relative(i) == up[i] - s.starts[At[i]]
  IN  Pick(Len(up), LAMBDA i : At[i] <= n /\ Relative(i) % s.stride = 0,
                    LAMBDA i : [row |-> RangeOffset(s, At[i]) + Relative(i) \div s.stride,
                                from |-> i])

----------------------------------------------------------------------------
(* GatherDomainSampler *)

\* gather_rows_ maps a row to the last place it is listed at.
GatherRow(s, r) ==
  CHOOSE i \in DOMAIN s.rows : s.rows[i] = r /\ \A k \in i + 1 .. Len(s.rows) : s.rows[k] # r

GatherUpstream(s, down) ==
  IF \E j \in DOMAIN down : down[j] >= Len(s.rows) THEN Failed
  ELSE Ok([j \in DOMAIN down |-> s.rows[down[j] + 1]])

GatherCount(s, n) ==
  LET past == {i \in DOMAIN s.rows : s.rows[i] >= n}
  IN  IF past = {} THEN Len(s.rows) ELSE Min(past) - 1

GatherDownstream(s, up) ==
  Pick(Len(up), LAMBDA i : \E k \in DOMAIN s.rows : s.rows[k] = up[i],
                LAMBDA i : [row |-> GatherRow(s, up[i]) - 1, from |-> i])

----------------------------------------------------------------------------
(* SpaceNullDomainSampler and SpaceRepeatDomainSampler *)

SpaceUpstream(s, down) == Ok(Sorted({down[j] \div s.spacing : j \in DOMAIN down}))
SpaceCount(s, n)       == n * s.spacing

\* Row i * spacing + k of the result is made from row i, or null if k > 0.
Spaced(s, up, null) ==
  [j \in 1 .. Len(up) * s.spacing |->
     LET i == (j - 1) \div s.spacing + 1
         k == (j - 1) % s.spacing
     IN  [row |-> up[i] * s.spacing + k, from |-> IF null /\ k > 0 THEN 0 ELSE i]]

SpaceNullDownstream(s, up)   == Spaced(s, up, TRUE)
SpaceRepeatDownstream(s, up) == Spaced(s, up, FALSE)

----------------------------------------------------------------------------
(* The DomainSampler that make_domain_sampler_instance makes *)

validate(s) == s.kind = "StridedRanges" => StridedRangesValid(s)

\* The upstream rows that the downstream rows are made from
get_upstream_rows(s, down) ==
  CASE s.kind = "All"           -> AllUpstream(s, down)
    [] s.kind = "Strided"       -> StridedUpstream(s, down)
    [] s.kind = "StridedRanges" -> StridedRangesUpstream(s, down)
    [] s.kind = "Gather"        -> GatherUpstream(s, down)
    [] s.kind \in {"SpaceNull", "SpaceRepeat"} -> SpaceUpstream(s, down)

\* How many rows a stream of n rows is turned into
get_num_downstream_rows(s, n) ==
  CASE s.kind = "All"           -> AllCount(s, n)
    [] s.kind = "Strided"       -> StridedCount(s, n)
    [] s.kind = "StridedRanges" -> StridedRangesCount(s, n)
    [] s.kind = "Gather"        -> GatherCount(s, n)
    [] s.kind \in {"SpaceNull", "SpaceRepeat"} -> SpaceCount(s, n)

\* The downstream rows made from the rows of a packet, each with the position
\* in the packet of the element it is given, 0 for a null element
get_downstream_rows(s, up) ==
  CASE s.kind = "All"           -> AllDownstream(s, up)
    [] s.kind = "Strided"       -> StridedDownstream(s, up)
    [] s.kind = "StridedRanges" -> StridedRangesDownstream(s, up)
    [] s.kind = "Gather"        -> GatherDownstream(s, up)
    [] s.kind = "SpaceNull"     -> SpaceNullDownstream(s, up)
    [] s.kind = "SpaceRepeat"   -> SpaceRepeatDownstream(s, up)

----------------------------------------------------------------------------
(* Partitioners of a stream of n rows: groups are numbered from 0 *)

StridedPartitionerValid(p) == p.stride > 0 /\ p.group_size > 0

\* offset_at_group_[g]
StridedOffset(p, n, g) == Min({g * p.group_size, CeilDiv(n, p.stride)})

StridedGroup(p, n, g) ==
  LET s == p.group_size * g
      e == Min({CeilDiv(n, p.stride), s + p.group_size})
  IN  [i \in 1 .. e - s |-> (s + i - 1) * p.stride]

StridedRangePartitionerValid(p, n) == StridedRangesValid(p) /\ \A i \in DOMAIN p.ends : p.ends[i] <= n

StridedRangeGroup(p, g) ==
  [i \in 1 .. RangeRows(p, g + 1) |-> p.starts[g + 1] + (i - 1) * p.stride]

GatherOffset(p, g) == MapThenSumSet(LAMBDA k : Len(p.groups[k]), 1 .. g)

\* GatherPartitioner looks at curr_group_idx_, which is 0 in the fresh instances
\* the engine uses, and not at its argument.
GatherGroup(p, g) == p.groups[1]

\* The Partitioner that make_partitioner_instance makes
validate_partitioner(p, n) ==
  CASE p.kind = "Strided"      -> StridedPartitionerValid(p)
    [] p.kind = "StridedRange" -> StridedRangePartitionerValid(p, n)
    [] p.kind = "Gather"       -> TRUE

total_groups(p, n) ==
  CASE p.kind = "Strided"      -> CeilDiv(CeilDiv(n, p.stride), p.group_size)
    [] p.kind = "StridedRange" -> Len(p.starts)
    [] p.kind = "Gather"       -> Len(p.groups)

offset_at_group(p, n, g) ==
  CASE p.kind = "Strided"      -> StridedOffset(p, n, g)
    [] p.kind = "StridedRange" -> RangeOffset(p, g + 1)
    [] p.kind = "Gather"       -> GatherOffset(p, g)

total_rows_per_group(p, n) ==
  [i \in 1 .. total_groups(p, n) |-> offset_at_group(p, n, i) - offset_at_group(p, n, i - 1)]

\* The rows of group g
group_at(p, n, g) ==
  CASE p.kind = "Strided"      -> StridedGroup(p, n, g)
    [] p.kind = "StridedRange" -> StridedRangeGroup(p, g)
    [] p.kind = "Gather"       -> GatherGroup(p, g)

=============================================================================
