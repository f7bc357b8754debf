-------------------------- MODULE MCBlockAllocator --------------------------
(* An instance of BlockAllocator, and of the pool below it, for TLC *)
EXTENDS BlockAllocator, TLC

\* One element, two of them, and an empty one before another
MCShapes == {<<0, 5>>, <<0, 1, 4>>, <<0, 0, 1>>}

BufferSymmetry == Permutations(Buffers)

=============================================================================
