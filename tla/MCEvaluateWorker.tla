-------------------------- MODULE MCEvaluateWorker --------------------------
(***************************************************************************)
(* Jobs for EvaluateWorker: families of small graphs.                      *)
(***************************************************************************)
EXTENDS EvaluateWorker

Source         == [kind |-> "Source", inputs |-> <<>>]
Sampled(s, i)  == [kind |-> "Sample", inputs |-> <<<<i, 1>>>>, samplers |-> s]
Spread(s, i)   == [kind |-> "Space", inputs |-> <<<<i, 1>>>>, samplers |-> s]
Sliced(p, i)   == [kind |-> "Slice", inputs |-> <<<<i, 1>>>>, partitioner |-> p]
Unsliced(i)    == [kind |-> "Unslice", inputs |-> <<<<i, 1>>>>]
Saved(ins)     == [kind |-> "Sink", inputs |-> ins]
Kernel(ins, stencil, batch, warmup, outputs) ==
  [kind |-> "Kernel", inputs |-> ins, stencil |-> stencil, batch |-> batch,
   warmup |-> warmup, outputs |-> outputs]

All            == [kind |-> "All"]
Strided(n)     == [kind |-> "Strided", stride |-> n]
Ranges(s, e, n) == [kind |-> "StridedRanges", starts |-> s, ends |-> e, stride |-> n]
Gathered(r)    == [kind |-> "Gather", rows |-> r]
Nulls(n)       == [kind |-> "SpaceNull", spacing |-> n]
Repeats(n)     == [kind |-> "SpaceRepeat", spacing |-> n]
Groups(n, g)   == [kind |-> "Strided", stride |-> n, group_size |-> g]
RangeGroups(s, e, n) == [kind |-> "StridedRange", starts |-> s, ends |-> e, stride |-> n]

Stencils == {<<0>>, <<-1, 0>>, <<0, 1>>, <<-1, 0, 1>>}

\* A sampler, a kernel and a second sampler in a row
Chains ==
  {[ops |-> <<Source, Sampled(<<s>>, 1), Kernel(<<<<2, 1>>>>, st, b, w, 1), t, Saved(<<<<4, 1>>>>)>>,
    source |-> <<7>>, packet |-> p] :
     p \in {2, 4}, s \in {All, Strided(2), Ranges(<<0, 3>>, <<3, 6>>, 2), Gathered(<<0, 1, 3, 5>>)},
     st \in Stencils, b \in {1, 2}, w \in {Stateless, 1, Always},
     t \in {Sampled(<<Gathered(<<1, 2>>)>>, 3), Sampled(<<Strided(2)>>, 3),
            Spread(<<Nulls(2)>>, 3), Spread(<<Repeats(3)>>, 3)}}

\* Two sources, one of them sampled and spaced out again: the inputs of the
\* second kernel come at different rates, one of them was read before, and it
\* leaves a column unused
Joins ==
  {[ops |-> <<Source, Sampled(<<Strided(2)>>, 1), Kernel(<<<<2, 1>>>>, <<0, 1>>, b, Stateless, 1),
              Spread(<<Repeats(2)>>, 3), Kernel(ins, st, b, w, 3), Saved(<<<<5, 3>>, <<5, 2>>>>)>>,
    source |-> <<6, 6>>, packet |-> p] :
     ins \in {<<<<4, 1>>, <<1, 2>>>>, <<<<1, 2>>, <<4, 1>>>>, <<<<4, 1>>, <<1, 1>>>>},
     st \in Stencils, b \in {1, 2}, w \in {Stateless, 1, Always}, p \in {2, 3}}

\* A stream cut into groups that are worked on one by one
Slices ==
  {[ops |-> <<Source, Sliced(p, 1), Sampled(<<s, All>>, 2), Kernel(<<<<3, 1>>>>, st, 2, w, 1),
              Unsliced(4), Saved(<<<<5, 1>>>>)>>,
    source |-> <<7>>, packet |-> 2] :
     p \in {Groups(1, 4), Groups(2, 2), RangeGroups(<<0, 1>>, <<4, 6>>, 1)},
     s \in {All, Strided(2)}, st \in Stencils, w \in {Stateless, 1, Always}}

\* Graphs that are rejected: an op after the groups are put together again, a
\* slice of a slice, and groups that are never put together
Rejected ==
  {[ops |-> graph, source |-> <<4>>, packet |-> 2] :
     graph \in {<<Source, Sliced(Groups(1, 2), 1), Unsliced(2), Kernel(<<<<3, 1>>>>, <<0>>, 1, Stateless, 1), Saved(<<<<4, 1>>>>)>>,
              <<Source, Sliced(Groups(1, 2), 1), Sliced(Groups(1, 2), 2), Unsliced(3), Saved(<<<<4, 1>>>>)>>,
              <<Source, Sliced(Groups(1, 2), 1), Saved(<<<<2, 1>>>>)>>}}

MCJobs == Chains \cup Joins \cup Slices \cup Rejected

=============================================================================
