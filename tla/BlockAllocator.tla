--------------------------- MODULE BlockAllocator ---------------------------
(***************************************************************************)
(* BlockAllocator (scanner/util/memory.cpp) over a PoolAllocator: one      *)
(* buffer of the pool for several elements, each of which is freed by      *)
(* itself, in any order and by any thread.                                 *)
(*                                                                         *)
(* A handle of Buffers names a block (the Allocation record) from the call *)
(* that allocates it until its memory is given back.  Callers know         *)
(* pointers only: a reference is a pointer with the block it was handed    *)
(* out with and a number that tells it from others to the same element,    *)
(* and no operation reads the latter two.                                  *)
(***************************************************************************)
EXTENDS PoolAllocator

CONSTANTS
  Shapes,     \* the blocks asked for: see ShapeAssumption
  MaxRefs     \* bound: references to one block

\* A shape is the list of the values that cursor takes in allocate_sizes: where
\* each element starts in the block, and after the last one the total size.
Elements(shape) == 1 .. Len(shape) - 1
Total(shape)    == shape[Len(shape)]

\* The last element of a block is not empty: the pointer to an empty one may
\* also be the address of the next block.
ASSUME ShapeAssumption ==
  /\ MaxRefs \in Nat
  /\ \A shape \in Shapes :
       /\ shape \in Seq(Nat) /\ Len(shape) \in 2 .. MaxRefs + 1
       /\ shape[1] = 0
       /\ \A i, j \in DOMAIN shape : i <= j => shape[i] <= shape[j]
       /\ shape[Len(shape) - 1] # Total(shape)
       /\ Total(shape) \in Sizes

VARIABLES
  block,            \* the record of each handle, or NoBlock
  allocation_map,   \* allocation_map_: how many entries a pointer and block have
  block_vec,        \* allocations_ of the block allocator, handles
  owned,            \* the references callers hold
  deleting          \* those for which delete_buffer found a block

blockVars == <<block, allocation_map, block_vec, owned, deleting>>

Pointers == 0 .. PoolSize - 1
Refs     == Pointers \X Buffers \X (1 .. MaxRefs)
NoBlock  == [via |-> "none", shape |-> <<>>, recorded |-> FALSE, refs |-> 0]

Size(b) == Total(block[b].shape)

\* The references in R to block b, and those of them with the pointer ptr
RefsTo(R, b)      == {r \in R : r[2] = b}
RefsAt(R, ptr, b) == {r \in R : r[1] = ptr /\ r[2] = b}

AllRefs == owned \cup deleting

\* Records, counters and references have these shapes.
BlockTypeOK ==
  /\ block \in [Buffers -> [via : {"map", "vec"}, shape : Shapes, recorded : BOOLEAN,
                            refs : Nat] \cup {NoBlock}]
  /\ allocation_map \in [Pointers \X Buffers -> Nat]
  /\ block_vec \in Seq(Buffers)
  /\ owned \subseteq Refs /\ deleting \subseteq Refs

----------------------------------------------------------------------------
(* Faulty variants of definitions below (mutants); no specification uses them *)

Fault_NotInserted(b, ptr, n) == allocation_map
Fault_LastButOne(refs)       == refs <= 1

----------------------------------------------------------------------------
(* Lookups *)

\* The blocks of the entries that find may return for a pointer
map_find(ptr) == {b \in Buffers : allocation_map[<<ptr, b>>] > 0}

\* The indices of the blocks around a pointer; find_buffer takes the first.
blocks_around(ptr) ==
  {k \in DOMAIN block_vec : /\ ptr >= held[block_vec[k]].offset
                            /\ ptr < held[block_vec[k]].offset + Size(block_vec[k])}

vec_find(ptr) == {k \in blocks_around(ptr) : \A j \in blocks_around(ptr) : k <= j}

buffer_in_block(ptr) == map_find(ptr) # {} \/ blocks_around(ptr) # {}

----------------------------------------------------------------------------
(* allocate and allocate_sizes: the buffer first, without a lock, then the  *)
(* record under the lock of the vector or of the map.                       *)

block_buffer(b, via, shape) ==
  /\ block[b] = NoBlock /\ RefsTo(AllRefs, b) = {}
  /\ allocate(b, Total(shape))
  /\ block' = [block EXCEPT ![b] = [via |-> via, shape |-> shape,
                                    recorded |-> FALSE, refs |-> 0]]
  /\ UNCHANGED <<allocation_map, block_vec, owned, deleting>>

\* A reference to each element
element_refs(b) ==
  {<<held[b].offset + block[b].shape[i], b, i>> : i \in Elements(block[b].shape)}

\* allocate_sizes inserts an entry for each element.
map_with_elements(b) ==
  [e \in Pointers \X Buffers |->
     allocation_map[e] + Cardinality(RefsAt(element_refs(b), e[1], e[2]))]

record_block(b) ==
  /\ fatal = NoFatal
  /\ held[b] # NoBuffer /\ ~block[b].recorded
  /\ block' = [block EXCEPT ![b].recorded = TRUE,
                            ![b].refs = Len(block[b].shape) - 1]
  /\ IF block[b].via = "map"
       THEN /\ allocation_map' = map_with_elements(b)
            /\ UNCHANGED block_vec
       ELSE /\ block_vec' = Append(block_vec, b)
            /\ UNCHANGED allocation_map
  /\ owned' = owned \cup element_refs(b)
  /\ UNCHANGED <<vars, deleting>>

----------------------------------------------------------------------------
(* add_refs, delete_buffer and free *)

\* The map after add_refs has inserted n entries
map_with_refs(b, ptr, n) == [allocation_map EXCEPT ![<<ptr, b>>] = @ + n]

\* The numbers that no reference to block b has
unused(b) == (1 .. MaxRefs) \ {r[3] : r \in RefsTo(AllRefs, b)}

\* More references like r, with the numbers N
new_refs(r, N) == {<<r[1], r[2], k>> : k \in N}

\* A caller that holds a reference adds more of them.
add_refs(r, N) ==
  LET n == Cardinality(N)
  IN
  /\ fatal = NoFatal
  /\ owned' = owned \cup new_refs(r, N)
  /\ fatal' = IF buffer_in_block(r[1]) THEN fatal ELSE BadFree
  /\ IF map_find(r[1]) # {}
       THEN \E b \in map_find(r[1]) :
              /\ block' = [block EXCEPT ![b].refs = @ + n]
              /\ allocation_map' = map_with_refs(b, r[1], n)
       ELSE /\ block' = [b \in Buffers |->
                           IF \E k \in vec_find(r[1]) : block_vec[k] = b
                             THEN [block[b] EXCEPT !.refs = @ + n] ELSE block[b]]
            /\ UNCHANGED allocation_map
  /\ UNCHANGED <<allocations, held, block_vec, deleting>>

\* delete_buffer first looks for the block; a pointer outside of every block is
\* given to the system allocator, which did not allocate it.
delete_buffer(r) ==
  /\ fatal = NoFatal
  /\ owned' = owned \ {r}
  /\ deleting' = deleting \cup {r}
  /\ fatal' = IF buffer_in_block(r[1]) THEN fatal ELSE BadFree
  /\ UNCHANGED <<allocations, held, block, allocation_map, block_vec>>

\* The count at which the memory is given back
no_refs(refs) == refs = 0

\* A reference to block b is dropped, and the block with the last one.
drop_ref(b) ==
  LET left == block[b].refs - 1
  IN  IF no_refs(left)
        THEN /\ free(b)
             /\ block' = [block EXCEPT ![b] = NoBlock]
        ELSE /\ block' = [block EXCEPT ![b].refs = left]
             /\ UNCHANGED vars

\* free takes the pointer out of the map, or else looks through the vector.
block_free(r) ==
  /\ fatal = NoFatal
  /\ deleting' = deleting \ {r}
  /\ UNCHANGED owned
  /\ IF ~buffer_in_block(r[1])
       THEN /\ fatal' = BadFree
            /\ UNCHANGED <<allocations, held, block, allocation_map, block_vec>>
     ELSE IF map_find(r[1]) # {}
       THEN \E b \in map_find(r[1]) :
              /\ allocation_map' = [allocation_map EXCEPT ![<<r[1], b>>] = @ - 1]
              /\ drop_ref(b)
              /\ UNCHANGED block_vec
       ELSE \E k \in vec_find(r[1]) :
              /\ drop_ref(block_vec[k])
              /\ block_vec' = IF no_refs(block[block_vec[k]].refs - 1)
                                THEN erase(block_vec, k) ELSE block_vec
              /\ UNCHANGED allocation_map

----------------------------------------------------------------------------
BlockInit ==
  /\ Init
  /\ block = [b \in Buffers |-> NoBlock]
  /\ allocation_map = [e \in Pointers \X Buffers |-> 0]
  /\ block_vec = <<>>
  /\ owned = {} /\ deleting = {}

BlockNext ==
  \/ \E b \in Buffers :
       \/ \E via \in {"map", "vec"}, shape \in Shapes : block_buffer(b, via, shape)
       \/ record_block(b)
  \/ \E r \in owned :
       \/ delete_buffer(r)
       \/ \E N \in (SUBSET unused(r[2])) \ {{}} : add_refs(r, N)
  \/ \E r \in deleting : block_free(r)

BlockSpec == BlockInit /\ [][BlockNext]_<<vars, blockVars>>

----------------------------------------------------------------------------
(* Properties *)

\* The memory behind every pointer that a caller holds belongs to the block it
\* was handed out with: whatever the other elements of the block, and the other
\* blocks, went through, free never gives back a block that is in use
\* (together with BuffersDisjoint, no element is overwritten by another one).
OwnedIsAllocated ==
  fatal = NoFatal =>
    \A r \in AllRefs :
      /\ held[r[2]] # NoBuffer
      /\ held[r[2]].offset <= r[1] /\ r[1] < End(held[r[2]])

\* A block is given back with its last reference: one that nobody refers to
\* does not stay in the pool, and the map has as many entries for a pointer as
\* there are references with it.
NothingLeaked ==
  fatal = NoFatal =>
    \A b \in Buffers :
      /\ held[b] # NoBuffer => ~block[b].recorded \/ RefsTo(AllRefs, b) # {}
      /\ \A ptr \in Pointers :
           allocation_map[<<ptr, b>>] =
             IF block[b].via = "map" THEN Cardinality(RefsAt(AllRefs, ptr, b)) ELSE 0

=============================================================================
