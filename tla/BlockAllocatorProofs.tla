------------------------ MODULE BlockAllocatorProofs ------------------------
(***************************************************************************)
(* Proofs about BlockAllocator, for any pool, shapes and number of         *)
(* references: the block allocator uses the pool as PoolAllocator          *)
(* specifies, no block is given back while it is in use, and none stays    *)
(* without a reference.                                                    *)
(*                                                                         *)
(* Neither property is inductive.  BInv adds that the counter of a block   *)
(* is the number of references to it (BlockOK), that the map and the       *)
(* vector have the entries these need (MapOK, VecOK), and that a reference *)
(* points into its block (Points): blocks are disjoint by the invariant of *)
(* the pool, so a lookup by pointer finds the block the reference came     *)
(* from, which is what the steps need of map_find and vec_find.            *)
(***************************************************************************)
EXTENDS FiniteSetTheorems, BlockAllocator, PoolAllocatorProofs

----------------------------------------------------------------------------
(* The inductive invariant *)

\* A block has memory of its size from the call that allocates it, and from
\* when it is recorded as many references as its counter says.
BlockOK(b) ==
  /\ block[b] = NoBlock <=> held[b] = NoBuffer
  /\ held[b] # NoBuffer => held[b].length = Size(b)
  /\ block[b].refs = Cardinality(RefsTo(AllRefs, b))
  /\ block[b].recorded <=> RefsTo(AllRefs, b) # {}

\* The map has an entry for each reference to a block of allocate_sizes.
MapOK(b) ==
  \A ptr \in Pointers :
    allocation_map[<<ptr, b>>] =
      IF block[b].via = "map" THEN Cardinality(RefsAt(AllRefs, ptr, b)) ELSE 0

\* A reference points into its block.
Points(r) ==
  /\ held[r[2]] # NoBuffer
  /\ held[r[2]].offset <= r[1] /\ r[1] < End(held[r[2]])

\* The vector has each recorded block of allocate once.
VecOK ==
  /\ \A j, k \in 1 .. Len(block_vec) : block_vec[j] = block_vec[k] => j = k
  /\ \A k \in 1 .. Len(block_vec) :
       block[block_vec[k]].via = "vec" /\ block[block_vec[k]].recorded
  /\ \A b \in Buffers : block[b].via = "vec" /\ block[b].recorded =>
                          \E k \in 1 .. Len(block_vec) : block_vec[k] = b

Consistent ==
  /\ owned \cap deleting = {}
  /\ \A b \in Buffers : BlockOK(b)
  /\ \A b \in Buffers : MapOK(b)
  /\ \A r \in AllRefs : Points(r)
  /\ VecOK

BInv == IInv /\ BlockTypeOK /\ (fatal = NoFatal => Consistent)

----------------------------------------------------------------------------
(* What a step does to references and to the map *)

\* Nothing, for the blocks other than b
OthersKept(b) ==
  \A c \in Buffers : c # b =>
    /\ RefsTo(AllRefs', c) = RefsTo(AllRefs, c)
    /\ \A ptr \in Pointers : allocation_map'[<<ptr, c>>] = allocation_map[<<ptr, c>>]

\* The map then has the entries of block b.
MapCounts(b) ==
  /\ allocation_map' \in [Pointers \X Buffers -> Nat]
  /\ \A ptr \in Pointers :
       allocation_map'[<<ptr, b>>] =
         IF block[b].via = "map" THEN Cardinality(RefsAt(AllRefs', ptr, b)) ELSE 0

\* The map has n more entries for the pointer and the block of r.
MapAdds(r, n) ==
  allocation_map' = IF block[r[2]].via = "map"
                      THEN [allocation_map EXCEPT ![<<r[1], r[2]>>] = @ + n]
                      ELSE allocation_map

\* There are n more references with the pointer and the block of r.
RefsAdded(r, n) ==
  /\ AllRefs' \subseteq Refs
  /\ Cardinality(RefsTo(AllRefs', r[2])) = Cardinality(RefsTo(AllRefs, r[2])) + n
  /\ Cardinality(RefsAt(AllRefs', r[1], r[2])) = Cardinality(RefsAt(AllRefs, r[1], r[2])) + n
  /\ \A ptr : ptr # r[1] => RefsAt(AllRefs', ptr, r[2]) = RefsAt(AllRefs, ptr, r[2])
  /\ \A c : c # r[2] => RefsTo(AllRefs', c) = RefsTo(AllRefs, c)

----------------------------------------------------------------------------
(* Shapes, and sets of references *)

\* Every element starts inside its block, which is not empty.
LEMMA ShapeFacts ==
  ASSUME NEW s \in Shapes
  PROVE  /\ Len(s) \in Nat /\ Len(s) >= 2
         /\ Total(s) \in Sizes /\ Total(s) \in Nat /\ Total(s) > 0
         /\ \A i \in Elements(s) :
              i \in 1 .. MaxRefs /\ s[i] \in Nat /\ s[i] < Total(s)
<1>1. /\ s \in Seq(Nat) /\ Len(s) \in 2 .. MaxRefs + 1 /\ MaxRefs \in Nat
      /\ \A i, j \in DOMAIN s : i <= j => s[i] <= s[j]
      /\ s[Len(s) - 1] # Total(s)
      /\ Total(s) \in Sizes
  BY ShapeAssumption
<1>. DEFINE n == Len(s)
<1>2. n \in Nat /\ n >= 2 /\ n <= MaxRefs + 1 /\ DOMAIN s = 1 .. n
  BY <1>1
<1>3. \A i \in 1 .. n : s[i] \in Nat
  BY <1>1, <1>2
<1>4. Total(s) = s[n] /\ s[n] \in Nat /\ s[n - 1] \in Nat /\ s[n - 1] <= s[n]
  BY <1>1, <1>2, <1>3 DEF Total
<1>5. s[n - 1] < Total(s) /\ Total(s) > 0
  BY <1>1, <1>4
<1>6. ASSUME NEW i \in Elements(s)
      PROVE  i \in 1 .. MaxRefs /\ s[i] \in Nat /\ s[i] < Total(s)
  <2>1. i \in 1 .. n - 1
    BY DEF Elements
  <2>2. i \in 1 .. n /\ n - 1 \in 1 .. n /\ i <= n - 1 /\ i \in 1 .. MaxRefs
    BY <2>1, <1>2, <1>1
  <2>3. s[i] <= s[n - 1] /\ s[i] \in Nat
    BY <2>2, <1>1, <1>2, <1>3, Zenon
  <2>. QED
    BY <2>2, <2>3, <1>4, <1>5
<1>. QED
  BY <1>1, <1>2, <1>4, <1>5, <1>6

\* A reference is a triple.
LEMMA RefParts ==
  ASSUME NEW r \in Refs
  PROVE  /\ r = <<r[1], r[2], r[3]>>
         /\ r[1] \in Pointers /\ r[2] \in Buffers /\ r[3] \in 1 .. MaxRefs
BY DEF Refs

\* The references to one block are finitely many.
LEMMA RefsFinite ==
  ASSUME NEW R \in SUBSET Refs, NEW b
  PROVE  /\ IsFiniteSet(RefsTo(R, b)) /\ Cardinality(RefsTo(R, b)) \in Nat
         /\ Cardinality(RefsTo(R, b)) = 0 <=> RefsTo(R, b) = {}
         /\ \A ptr : /\ IsFiniteSet(RefsAt(R, ptr, b))
                     /\ Cardinality(RefsAt(R, ptr, b)) \in Nat
                     /\ Cardinality(RefsAt(R, ptr, b)) = 0 <=> RefsAt(R, ptr, b) = {}
<1>. DEFINE S == RefsTo(R, b)
            T == Pointers \X (1 .. MaxRefs)
            f == [r \in S |-> <<r[1], r[3]>>]
<1>1. IsFiniteSet(T)
  <2>1. IsFiniteSet(Pointers)
    BY FS_Interval, PoolAssumption DEF Pointers
  <2>2. IsFiniteSet(1 .. MaxRefs)
    BY FS_Interval, ShapeAssumption
  <2>. QED
    BY <2>1, <2>2, FS_Product, Zenon
<1>2. f \in Injection(S, T)
  <2>1. f \in [S -> T]
    BY RefParts DEF RefsTo
  <2>2. ASSUME NEW r \in S, NEW q \in S, f[r] = f[q]
        PROVE  r = q
    <3>1. r[1] = q[1] /\ r[3] = q[3]
      BY <2>2
    <3>2. r[2] = b /\ q[2] = b /\ r \in Refs /\ q \in Refs
      BY DEF RefsTo
    <3>. QED
      BY <3>1, <3>2, RefParts, Zenon
  <2>. QED
    BY <2>1, <2>2 DEF Injection, IsInjective
<1>3. IsFiniteSet(S)
  BY <1>1, <1>2, FS_Injection
<1>4. ASSUME NEW ptr
      PROVE  IsFiniteSet(RefsAt(R, ptr, b))
  <2>1. RefsAt(R, ptr, b) \in SUBSET S
    BY DEF RefsAt, RefsTo
  <2>. QED
    BY <2>1, <1>3, FS_Subset
<1>5. \A U : IsFiniteSet(U) => /\ Cardinality(U) \in Nat
                               /\ Cardinality(U) = 0 <=> U = {}
  BY FS_CardinalityType, FS_EmptySet
<1>. QED
  BY <1>3, <1>4, <1>5

\* As many references as numbers
LEMMA NumberedRefs ==
  ASSUME NEW r, NEW N \in SUBSET (1 .. MaxRefs)
  PROVE  /\ IsFiniteSet(new_refs(r, N))
         /\ Cardinality(new_refs(r, N)) = Cardinality(N)
         /\ Cardinality(N) \in Nat
<1>. DEFINE T == new_refs(r, N)
            f == [k \in N |-> <<r[1], r[2], k>>]
<1>1. IsFiniteSet(N)
  <2>1. IsFiniteSet(1 .. MaxRefs)
    BY FS_Interval, ShapeAssumption
  <2>. QED
    BY <2>1, FS_Subset, Zenon
<1>2. f \in Bijection(N, T)
  <2>1. f \in [N -> T]
    BY DEF new_refs
  <2>2. \A j, k \in N : f[j] = f[k] => j = k
    OBVIOUS
  <2>3. \A t \in T : \E k \in N : f[k] = t
    BY Zenon DEF new_refs
  <2>. QED
    BY <2>1, <2>2, <2>3 DEF Bijection, Injection, Surjection, IsInjective
<1>3. ExistsBijection(N, T)
  BY <1>2 DEF ExistsBijection
<1>. QED
  BY <1>1, <1>3, FS_Bijection, FS_CardinalityType

----------------------------------------------------------------------------
(* Looking a pointer up *)

\* What the types and the invariant say of a block with memory
LEMMA BlockFacts ==
  ASSUME BInv, fatal = NoFatal, NEW b \in Buffers, held[b] # NoBuffer
  PROVE  /\ block[b] \in [via : {"map", "vec"}, shape : Shapes,
                          recorded : BOOLEAN, refs : Nat]
         /\ block[b].shape \in Shapes /\ block[b].via \in {"map", "vec"}
         /\ held[b] \in Allocation /\ held[b].offset \in Nat
         /\ held[b].length = Size(b) /\ Size(b) \in Nat /\ Size(b) > 0
         /\ End(held[b]) = held[b].offset + Size(b)
         /\ End(held[b]) < PoolSize
<1>1. block[b] # NoBlock /\ held[b].length = Size(b)
  BY DEF BInv, Consistent, BlockOK
<1>2. block[b] \in [via : {"map", "vec"}, shape : Shapes, recorded : BOOLEAN, refs : Nat]
  BY <1>1 DEF BInv, BlockTypeOK
<1>3. block[b].shape \in Shapes /\ block[b].via \in {"map", "vec"}
  BY <1>2
<1>4. Size(b) \in Nat /\ Size(b) > 0
  BY <1>3, ShapeFacts DEF Size
<1>5. held[b] \in Allocation
  BY DEF BInv, IInv, TypeOK
<1>6. held[b].offset \in Nat
  BY <1>5 DEF Allocation
<1>7. End(held[b]) < PoolSize
  BY DEF BInv, IInv, Inside
<1>. QED
  BY <1>1, <1>2, <1>3, <1>4, <1>5, <1>6, <1>7 DEF End

\* A pointer lies in one block only.
LEMMA OneBlock ==
  ASSUME BInv, fatal = NoFatal, NEW b \in Buffers, NEW c \in Buffers,
         held[b] # NoBuffer, held[c] # NoBuffer, NEW ptr \in Nat,
         held[b].offset <= ptr, ptr < End(held[b]),
         held[c].offset <= ptr, ptr < End(held[c])
  PROVE  b = c
<1>. SUFFICES ASSUME b # c
              PROVE  FALSE
  OBVIOUS
<1>1. /\ held[b].offset \in Nat /\ held[c].offset \in Nat
      /\ held[b].length \in Nat /\ held[c].length \in Nat
      /\ held[b].length # 0 /\ held[c].length # 0
      /\ End(held[b]) = held[b].offset + held[b].length
      /\ End(held[c]) = held[c].offset + held[c].length
  BY BlockFacts
<1>2. \/ held[b].length = 0 \/ held[c].length = 0
      \/ End(held[b]) <= held[c].offset
      \/ End(held[c]) <= held[b].offset
  <2>1. BuffersDisjoint
    BY IInvDisjoint DEF BInv
  <2>. QED
    BY <2>1, Zenon DEF BuffersDisjoint
<1>. QED
  BY <1>1, <1>2

\* A reference belongs to a recorded block around its pointer.
LEMMA RefFacts ==
  ASSUME BInv, fatal = NoFatal, NEW r \in AllRefs
  PROVE  /\ r \in Refs /\ r[1] \in Pointers /\ r[1] \in Nat /\ r[2] \in Buffers
         /\ held[r[2]] # NoBuffer /\ block[r[2]].recorded
         /\ held[r[2]].offset <= r[1] /\ r[1] < End(held[r[2]])
         /\ r \in RefsTo(AllRefs, r[2]) /\ r \in RefsAt(AllRefs, r[1], r[2])
         /\ block[r[2]].refs \in Nat \ {0}
<1>1. r \in Refs
  BY DEF BInv, BlockTypeOK, AllRefs
<1>2. r[1] \in Pointers /\ r[2] \in Buffers
  BY <1>1, RefParts
<1>3. r[1] \in Nat
  BY <1>2 DEF Pointers
<1>4. r \in RefsTo(AllRefs, r[2]) /\ r \in RefsAt(AllRefs, r[1], r[2])
  BY DEF RefsTo, RefsAt
<1>5. Points(r) /\ BlockOK(r[2])
  BY <1>2 DEF BInv, Consistent
<1>6. AllRefs \in SUBSET Refs
  BY DEF BInv, BlockTypeOK, AllRefs
<1>7. block[r[2]].refs \in Nat \ {0}
  BY <1>4, <1>5, <1>6, RefsFinite DEF BlockOK
<1>. QED
  BY <1>1, <1>2, <1>3, <1>4, <1>5, <1>7 DEF Points, BlockOK

\* The map finds the pointer of a reference only in the block of it.
LEMMA MapFindIn ==
  ASSUME BInv, fatal = NoFatal, NEW r \in AllRefs
  PROVE  map_find(r[1]) = IF block[r[2]].via = "map" THEN {r[2]} ELSE {}
<1>. DEFINE b == r[2]
            ptr == r[1]
<1>1. /\ ptr \in Pointers /\ ptr \in Nat /\ b \in Buffers /\ held[b] # NoBuffer
      /\ held[b].offset <= ptr /\ ptr < End(held[b])
      /\ r \in RefsAt(AllRefs, ptr, b)
  BY RefFacts
<1>2. AllRefs \in SUBSET Refs
  BY DEF BInv, BlockTypeOK, AllRefs
<1>3. ASSUME NEW c \in Buffers, allocation_map[<<ptr, c>>] > 0
      PROVE  c = b /\ block[b].via = "map"
  <2>1. MapOK(c)
    BY DEF BInv, Consistent
  <2>2. /\ block[c].via = "map"
        /\ allocation_map[<<ptr, c>>] = Cardinality(RefsAt(AllRefs, ptr, c))
    BY <2>1, <1>1, <1>3 DEF MapOK
  <2>3. RefsAt(AllRefs, ptr, c) # {}
    BY <2>2, <1>2, <1>3, RefsFinite
  <2>4. PICK q \in AllRefs : q[1] = ptr /\ q[2] = c
    BY <2>3 DEF RefsAt
  <2>5. held[c] # NoBuffer /\ held[c].offset <= ptr /\ ptr < End(held[c])
    BY <2>4, RefFacts
  <2>6. c = b
    BY <2>5, <1>1, OneBlock
  <2>. QED
    BY <2>2, <2>6
<1>4. ASSUME block[b].via = "map"
      PROVE  allocation_map[<<ptr, b>>] > 0
  <2>1. MapOK(b)
    BY <1>1 DEF BInv, Consistent
  <2>2. allocation_map[<<ptr, b>>] = Cardinality(RefsAt(AllRefs, ptr, b))
    BY <2>1, <1>1, <1>4 DEF MapOK
  <2>. QED
    BY <2>2, <1>1, <1>2, RefsFinite
<1>. QED
  BY <1>1, <1>3, <1>4 DEF map_find

\* The vector finds the pointer of a reference to one of its blocks there.
LEMMA VecFindIn ==
  ASSUME BInv, fatal = NoFatal, NEW r \in AllRefs, block[r[2]].via = "vec"
  PROVE  \E k \in 1 .. Len(block_vec) :
           block_vec[k] = r[2] /\ blocks_around(r[1]) = {k} /\ vec_find(r[1]) = {k}
<1>. DEFINE b == r[2]
            ptr == r[1]
<1>1. /\ ptr \in Nat /\ b \in Buffers /\ held[b] # NoBuffer
      /\ held[b].offset <= ptr /\ ptr < End(held[b]) /\ block[b].recorded
  BY RefFacts
<1>2. VecOK /\ block_vec \in Seq(Buffers)
  BY DEF BInv, Consistent, BlockTypeOK
<1>3. PICK k \in 1 .. Len(block_vec) : block_vec[k] = b
  BY <1>1, <1>2 DEF VecOK
<1>4. DOMAIN block_vec = 1 .. Len(block_vec)
  BY <1>2
<1>5. k \in blocks_around(ptr)
  <2>1. End(held[b]) = held[b].offset + Size(b)
    BY <1>1, BlockFacts
  <2>. QED
    BY <2>1, <1>1, <1>3, <1>4 DEF blocks_around
<1>6. ASSUME NEW j \in blocks_around(ptr)
      PROVE  j = k
  <2>. DEFINE c == block_vec[j]
  <2>1. /\ j \in 1 .. Len(block_vec)
        /\ ptr >= held[c].offset /\ ptr < held[c].offset + Size(c)
    BY <1>4 DEF blocks_around
  <2>2. c \in Buffers /\ block[c].recorded
    BY <2>1, <1>2 DEF VecOK
  <2>3. BlockOK(c)
    BY <2>2 DEF BInv, Consistent
  <2>4. held[c] # NoBuffer
    BY <2>2, <2>3 DEF BlockOK, NoBlock
  <2>5. End(held[c]) = held[c].offset + Size(c) /\ held[c].offset \in Nat
    BY <2>2, <2>4, BlockFacts
  <2>6. c = b
    BY <2>1, <2>2, <2>4, <2>5, <1>1, OneBlock
  <2>. QED
    BY <2>1, <2>6, <1>2, <1>3 DEF VecOK
<1>7. blocks_around(ptr) = {k}
  BY <1>5, <1>6, Zenon
<1>8. vec_find(ptr) = {k}
  <2>1. k <= k
    OBVIOUS
  <2>. QED
    BY <1>7, <2>1, Zenon DEF vec_find
<1>. QED
  BY <1>3, <1>7, <1>8

\* delete_buffer, add_refs and free find the block of a reference.
LEMMA RefInBlock ==
  ASSUME BInv, fatal = NoFatal, NEW r \in AllRefs
  PROVE  buffer_in_block(r[1])
<1>1. block[r[2]].via \in {"map", "vec"}
  BY RefFacts, BlockFacts
<1>2. CASE block[r[2]].via = "map"
  BY <1>2, MapFindIn, Zenon DEF buffer_in_block
<1>3. CASE block[r[2]].via = "vec"
  BY <1>3, VecFindIn DEF buffer_in_block
<1>. QED
  BY <1>1, <1>2, <1>3

----------------------------------------------------------------------------
(* What a step leaves alone *)

\* A step that changes neither blocks nor references
LEMMA SameRefs ==
  ASSUME Consistent, UNCHANGED <<held, block, allocation_map, block_vec>>,
         AllRefs' = AllRefs, owned' \cap deleting' = {}
  PROVE  Consistent'
<1>1. \A b \in Buffers : BlockOK(b)' /\ MapOK(b)'
  BY DEF Consistent, BlockOK, MapOK, Size
<1>2. \A r \in AllRefs' : Points(r)'
  BY DEF Consistent, Points, End
<1>3. VecOK'
  BY DEF Consistent, VecOK
<1>. QED
  BY <1>1, <1>2, <1>3 DEF Consistent

\* A block that a step does not touch
LEMMA OtherBlock ==
  ASSUME NEW c \in Buffers, BlockOK(c), MapOK(c),
         block'[c] = block[c], held'[c] = held[c],
         RefsTo(AllRefs', c) = RefsTo(AllRefs, c),
         \A ptr \in Pointers : allocation_map'[<<ptr, c>>] = allocation_map[<<ptr, c>>]
  PROVE  BlockOK(c)' /\ MapOK(c)'
<1>1. BlockOK(c)'
  BY DEF BlockOK, Size
<1>2. ASSUME NEW ptr
      PROVE  RefsAt(AllRefs', ptr, c) = RefsAt(AllRefs, ptr, c)
  <2>1. \A R : RefsAt(R, ptr, c) = {r \in RefsTo(R, c) : r[1] = ptr}
    BY DEF RefsAt, RefsTo
  <2>. QED
    BY <2>1, Zenon
<1>3. MapOK(c)'
  BY <1>2 DEF MapOK
<1>. QED
  BY <1>1, <1>3

\* A step that touches one block
LEMMA OneBlockStep ==
  ASSUME Consistent, NEW b \in Buffers, AllRefs' \subseteq Refs, OthersKept(b),
         \A c \in Buffers : c # b => block'[c] = block[c] /\ held'[c] = held[c],
         owned' \cap deleting' = {}, BlockOK(b)', MapOK(b)',
         \A r \in RefsTo(AllRefs', b) : Points(r)', VecOK'
  PROVE  Consistent'
<1>1. ASSUME NEW c \in Buffers
      PROVE  BlockOK(c)' /\ MapOK(c)'
  <2>1. BlockOK(c) /\ MapOK(c)
    BY DEF Consistent
  <2>. QED
    BY <2>1, OtherBlock, Zenon DEF OthersKept
<1>2. ASSUME NEW r \in AllRefs'
      PROVE  Points(r)'
  <2>1. CASE r[2] = b
    BY <2>1 DEF RefsTo
  <2>2. CASE r[2] # b
    <3>1. r[2] \in Buffers
      BY RefParts
    <3>2. r \in AllRefs
      BY <2>2, <3>1 DEF RefsTo, OthersKept
    <3>. QED
      BY <2>2, <3>1, <3>2 DEF Consistent, Points, End
  <2>. QED
    BY <2>1, <2>2
<1>. QED
  BY <1>1, <1>2 DEF Consistent

\* The vector when its blocks are the same
LEMMA SameVector ==
  ASSUME VecOK, block_vec \in Seq(Buffers), block_vec' = block_vec,
         \A c \in Buffers : block[c].via = "vec" \/ block'[c].via = "vec" =>
            /\ block'[c].via = block[c].via
            /\ block'[c].recorded <=> block[c].recorded
  PROVE  VecOK'
<1>1. \A k \in 1 .. Len(block_vec) : block_vec[k] \in Buffers
  OBVIOUS
<1>. QED
  BY <1>1 DEF VecOK

\* The vector with one more block
LEMMA AppendVector ==
  ASSUME VecOK, block_vec \in Seq(Buffers), NEW b \in Buffers,
         block_vec' = Append(block_vec, b), ~block[b].recorded,
         block'[b].via = "vec", block'[b].recorded,
         \A c \in Buffers : c # b => block'[c] = block[c]
  PROVE  VecOK'
<1>. DEFINE n == Len(block_vec)
<1>1. /\ n \in Nat /\ Len(block_vec') = n + 1 /\ block_vec'[n + 1] = b
      /\ \A k \in 1 .. n : block_vec'[k] = block_vec[k]
  OBVIOUS
<1>2. \A k \in 1 .. n : block_vec[k] \in Buffers /\ block_vec[k] # b
  BY DEF VecOK
<1>. HIDE DEF n
<1>3. \A k \in 1 .. n + 1 : k \in 1 .. n \/ k = n + 1
  BY <1>1
<1>4. \A j, k \in 1 .. n + 1 : block_vec'[j] = block_vec'[k] => j = k
  BY <1>1, <1>2, <1>3 DEF VecOK, n
<1>5. \A k \in 1 .. n + 1 : block'[block_vec'[k]].via = "vec" /\ block'[block_vec'[k]].recorded
  BY <1>1, <1>2, <1>3 DEF VecOK, n
<1>6. ASSUME NEW c \in Buffers, block'[c].via = "vec" /\ block'[c].recorded
      PROVE  \E k \in 1 .. n + 1 : block_vec'[k] = c
  <2>1. CASE c = b
    BY <2>1, <1>1
  <2>2. CASE c # b
    <3>1. PICK k \in 1 .. n : block_vec[k] = c
      BY <2>2, <1>6 DEF VecOK, n
    <3>2. k \in 1 .. n + 1 /\ block_vec'[k] = c
      BY <3>1, <1>1
    <3>. QED
      BY <3>2, Zenon
  <2>. QED
    BY <2>1, <2>2, Zenon
<1>. QED
  BY <1>1, <1>4, <1>5, <1>6 DEF VecOK

\* The vector with one block less
LEMMA EraseVector ==
  ASSUME VecOK, block_vec \in Seq(Buffers), NEW k \in 1 .. Len(block_vec),
         block_vec' = erase(block_vec, k), ~block'[block_vec[k]].recorded,
         \A c \in Buffers : c # block_vec[k] => block'[c] = block[c]
  PROVE  block_vec' \in Seq(Buffers) /\ VecOK'
<1>. DEFINE n == Len(block_vec)
            at(j) == IF j < k THEN j ELSE j + 1
<1>1. /\ block_vec' \in Seq(Buffers) /\ Len(block_vec') = n - 1
      /\ \A j \in 1 .. n - 1 :
           block_vec'[j] = IF j < k THEN block_vec[j] ELSE block_vec[j + 1]
  BY EraseFacts, Zenon
<1>2. n \in Nat /\ k \in 1 .. n
  OBVIOUS
<1>3. /\ \A i \in 1 .. n : block_vec[i] \in Buffers
      /\ \A i, j \in 1 .. n : block_vec[i] = block_vec[j] => i = j
      /\ \A i \in 1 .. n : block[block_vec[i]].via = "vec" /\ block[block_vec[i]].recorded
      /\ \A c \in Buffers : block[c].via = "vec" /\ block[c].recorded =>
                              \E i \in 1 .. n : block_vec[i] = c
  BY DEF VecOK
<1>. HIDE DEF n
<1>4. \A j \in 1 .. n - 1 : /\ at(j) \in 1 .. n /\ at(j) # k
                            /\ block_vec'[j] = block_vec[at(j)]
  BY <1>1, <1>2
<1>5. \A i, j \in 1 .. n - 1 : at(i) = at(j) => i = j
  BY <1>2
<1>6. ASSUME NEW i \in 1 .. n, i # k
      PROVE  \E j \in 1 .. n - 1 : at(j) = i
  <2>1. CASE i < k
    <3>1. i \in 1 .. n - 1 /\ at(i) = i
      BY <2>1, <1>2
    <3>. QED
      BY <3>1
  <2>2. CASE i > k
    <3>1. i - 1 \in 1 .. n - 1 /\ at(i - 1) = i
      BY <2>2, <1>2
    <3>. QED
      BY <3>1
  <2>. QED
    BY <2>1, <2>2, <1>2, <1>6
<1>. HIDE DEF at
<1>7. \A i, j \in 1 .. n - 1 : block_vec'[i] = block_vec'[j] => i = j
  BY <1>3, <1>4, <1>5
<1>8. \A j \in 1 .. n - 1 : block_vec'[j] \in Buffers /\ block_vec'[j] # block_vec[k]
  BY <1>2, <1>3, <1>4
<1>9. \A j \in 1 .. n - 1 : block'[block_vec'[j]].via = "vec" /\ block'[block_vec'[j]].recorded
  BY <1>3, <1>4, <1>8
<1>10. ASSUME NEW c \in Buffers, block'[c].via = "vec" /\ block'[c].recorded
       PROVE  \E j \in 1 .. n - 1 : block_vec'[j] = c
  <2>1. PICK i \in 1 .. n : block_vec[i] = c /\ i # k
    BY <1>3, <1>10
  <2>2. PICK j \in 1 .. n - 1 : at(j) = i
    BY <2>1, <1>6
  <2>. QED
    BY <2>1, <2>2, <1>4
<1>. QED
  BY <1>1, <1>7, <1>9, <1>10 DEF VecOK

\* A step that adds entries to the map for a reference
LEMMA MapStep ==
  ASSUME BInv, fatal = NoFatal, NEW r \in AllRefs, NEW n \in Int,
         RefsAdded(r, n), MapAdds(r, n)
  PROVE  OthersKept(r[2]) /\ MapCounts(r[2])
<1>. DEFINE b == r[2]
            ptr == r[1]
            old(p) == Cardinality(RefsAt(AllRefs, p, b))
            new(p) == Cardinality(RefsAt(AllRefs', p, b))
<1>1. /\ allocation_map \in [Pointers \X Buffers -> Nat] /\ <<ptr, b>> \in Pointers \X Buffers
      /\ \A p \in Pointers :
           allocation_map[<<p, b>>] = IF block[b].via = "map" THEN old(p) ELSE 0
  <2>1. ptr \in Pointers /\ b \in Buffers
    BY RefFacts
  <2>. QED
    BY <2>1 DEF BInv, BlockTypeOK, Consistent, MapOK
<1>2. new(ptr) \in Nat /\ new(ptr) = old(ptr) + n /\ \A p : p # ptr => new(p) = old(p)
  BY RefsFinite, Zenon DEF RefsAdded
<1>3. \A c \in Buffers : c # b => RefsTo(AllRefs', c) = RefsTo(AllRefs, c)
  BY Zenon DEF RefsAdded
<1>4. allocation_map' = IF block[b].via = "map"
                          THEN [allocation_map EXCEPT ![<<ptr, b>>] = @ + n]
                          ELSE allocation_map
  BY DEF MapAdds
<1>. HIDE DEF b, ptr, old, new
<1>5. CASE block[b].via = "map"
  <2>1. allocation_map' = [allocation_map EXCEPT ![<<ptr, b>>] = new(ptr)]
    BY <1>1, <1>2, <1>4, <1>5, Zenon
  <2>2. /\ allocation_map' \in [Pointers \X Buffers -> Nat]
        /\ \A e \in Pointers \X Buffers :
             allocation_map'[e] = IF e = <<ptr, b>> THEN new(ptr) ELSE allocation_map[e]
    BY <2>1, <1>1, <1>2
  <2>3. ASSUME NEW p \in Pointers
        PROVE  allocation_map'[<<p, b>>] = IF block[b].via = "map" THEN new(p) ELSE 0
    BY <2>2, <1>1, <1>2, <1>5
  <2>4. ASSUME NEW c \in Buffers, c # b, NEW p \in Pointers
        PROVE  allocation_map'[<<p, c>>] = allocation_map[<<p, c>>]
    BY <2>2, <2>4
  <2>. QED
    BY <2>2, <2>3, <2>4, <1>3, Zenon DEF OthersKept, MapCounts, b, new
<1>6. CASE block[b].via # "map"
  BY <1>1, <1>3, <1>4, <1>6, Zenon DEF OthersKept, MapCounts, b
<1>. QED
  BY <1>5, <1>6, Zenon

\* A step that counts the references to a block anew, and keeps some
LEMMA CountStep ==
  ASSUME BInv, fatal = NoFatal, NEW r \in AllRefs, NEW n \in Int,
         RefsAdded(r, n), MapAdds(r, n), block[r[2]].refs + n # 0,
         block' = [block EXCEPT ![r[2]].refs = block[r[2]].refs + n],
         UNCHANGED vars, block_vec' = block_vec,
         owned' \subseteq Refs, deleting' \subseteq Refs, owned' \cap deleting' = {},
         \A q \in RefsTo(AllRefs', r[2]) : Points(q)
  PROVE  BInv'
<1>. DEFINE b == r[2]
            m == block[b].refs + n
            Rec == [via : {"map", "vec"}, shape : Shapes, recorded : BOOLEAN, refs : Nat]
<1>1. Consistent /\ BlockTypeOK /\ IInv' /\ UNCHANGED <<allocations, held, fatal>>
  BY PoolUnchanged DEF BInv, vars
<1>2. /\ b \in Buffers /\ held[b] # NoBuffer /\ block[b].recorded
      /\ OthersKept(b) /\ MapCounts(b)
  BY RefFacts, MapStep
<1>3. /\ Cardinality(RefsTo(AllRefs', b)) = m /\ m \in Nat
      /\ RefsTo(AllRefs', b) # {} /\ AllRefs' \subseteq Refs
  <2>1. BlockOK(b)
    BY <1>1, <1>2 DEF Consistent
  <2>2. Cardinality(RefsTo(AllRefs', b)) = m /\ AllRefs' \subseteq Refs
    BY <2>1 DEF BlockOK, RefsAdded
  <2>. QED
    BY <2>2, RefsFinite, Zenon
<1>4. block[b] \in Rec /\ block \in [Buffers -> Rec \cup {NoBlock}]
  BY <1>1, <1>2, BlockFacts DEF BlockTypeOK
<1>. HIDE DEF b, m
<1>5. block' = [block EXCEPT ![b] = [block[b] EXCEPT !.refs = m]]
  BY DEF b, m
<1>6. /\ block'[b] = [block[b] EXCEPT !.refs = m]
      /\ \A c \in Buffers : c # b => block'[c] = block[c]
  BY <1>2, <1>4, <1>5
<1>7. /\ block'[b] \in Rec /\ block'[b].recorded /\ block'[b].refs = m
      /\ block'[b].via = block[b].via /\ block'[b].shape = block[b].shape
  BY <1>2, <1>3, <1>4, <1>6
<1>8. BlockTypeOK'
  <2>1. block' \in [Buffers -> Rec \cup {NoBlock}]
    BY <1>4, <1>5, <1>7, Zenon
  <2>. QED
    BY <2>1, <1>1, <1>2, Zenon DEF BlockTypeOK, MapCounts
<1>9. BlockOK(b)'
  <2>1. block'[b] # NoBlock /\ held'[b] # NoBuffer
    BY <1>1, <1>2, <1>7 DEF NoBlock
  <2>2. held'[b].length = Size(b)'
    BY <1>1, <1>2, <1>7 DEF Consistent, BlockOK, Size
  <2>. QED
    BY <2>1, <2>2, <1>3, <1>7, Zenon DEF BlockOK
<1>10. MapOK(b)'
  BY <1>2, <1>7, Zenon DEF MapOK, MapCounts
<1>11. /\ \A q \in RefsTo(AllRefs', b) : Points(q)'
       /\ \A c \in Buffers : c # b => block'[c] = block[c] /\ held'[c] = held[c]
  BY <1>1, <1>6 DEF Points, End, b
<1>12. VecOK'
  BY <1>1, <1>2, <1>6, <1>7, SameVector DEF Consistent, BlockTypeOK
<1>13. Consistent'
  BY <1>1, <1>2, <1>3, <1>9, <1>10, <1>11, <1>12, OneBlockStep, Zenon
<1>. QED
  BY <1>1, <1>8, <1>13 DEF BInv

----------------------------------------------------------------------------
(* The steps *)

\* delete_buffer finds the block of the reference.
LEMMA DeleteStep ==
  ASSUME BInv, NEW r \in owned, delete_buffer(r)
  PROVE  BInv' /\ UNCHANGED vars
<1>1. fatal = NoFatal /\ r \in AllRefs
  BY DEF delete_buffer, AllRefs
<1>2. /\ UNCHANGED <<allocations, held, fatal>>
      /\ UNCHANGED <<block, allocation_map, block_vec>>
      /\ owned' = owned \ {r} /\ deleting' = deleting \cup {r}
  BY <1>1, RefInBlock DEF delete_buffer
<1>3. IInv' /\ UNCHANGED vars
  BY <1>2, PoolUnchanged DEF BInv, vars
<1>4. BlockTypeOK'
  BY <1>2 DEF BInv, BlockTypeOK
<1>5. Consistent
  BY <1>1 DEF BInv
<1>6. AllRefs' = AllRefs /\ owned' \cap deleting' = {}
  BY <1>2, <1>5 DEF Consistent, AllRefs
<1>7. Consistent'
  BY <1>2, <1>5, <1>6, SameRefs
<1>. QED
  BY <1>3, <1>4, <1>7 DEF BInv

\* allocate takes the buffer from the pool.
LEMMA BufferStep ==
  ASSUME BInv, NEW b \in Buffers, NEW via \in {"map", "vec"}, NEW shape \in Shapes,
         block_buffer(b, via, shape)
  PROVE  BInv' /\ Next
<1>. DEFINE size == Total(shape)
            rec == [via |-> via, shape |-> shape, recorded |-> FALSE, refs |-> 0]
<1>1. size \in Sizes /\ size \in Nat /\ size # 0
  BY ShapeFacts
<1>2. /\ allocate(b, size) /\ fatal = NoFatal /\ IInv /\ Consistent /\ BlockTypeOK
      /\ block[b] = NoBlock /\ RefsTo(AllRefs, b) = {}
      /\ block' = [block EXCEPT ![b] = rec]
      /\ UNCHANGED <<allocation_map, block_vec, owned, deleting>>
  BY DEF block_buffer, allocate, BInv
<1>3. IInv' /\ Next
  BY <1>1, <1>2, AllocateStep DEF Next
<1>4. BlockTypeOK'
  BY <1>2 DEF BlockTypeOK
<1>5. ASSUME fatal' = NoFatal
      PROVE  Consistent'
  <2>1. /\ AllRefs' = AllRefs /\ AllRefs' \in SUBSET Refs
        /\ owned' \cap deleting' = {}
    BY <1>2 DEF AllRefs, BlockTypeOK, Consistent
  <2>2. \E alloc : alloc.length = size /\ held' = [held EXCEPT ![b] = alloc]
    <3>1. fatal' # size
      BY <1>5, <1>1 DEF NoFatal
    <3>2. PICK i \in 1 .. Len(allocations) + 1 :
            IF End([offset |-> Base(i), length |-> size]) >= PoolSize
              THEN fatal' = size /\ UNCHANGED held
              ELSE held' = [held EXCEPT ![b] = [offset |-> Base(i), length |-> size]]
      BY <1>2 DEF allocate
    <3>. QED
      BY <3>1, <3>2, Zenon
  <2>3. /\ held'[b].length = size /\ held'[b] # NoBuffer
        /\ \A c \in Buffers : c # b => held'[c] = held[c]
    <3>1. held \in [Buffers -> Allocation \cup {NoBuffer}]
      BY <1>2 DEF IInv, TypeOK
    <3>. QED
      BY <3>1, <2>2, <1>1 DEF NoBuffer
  <2>4. block'[b] = rec /\ \A c \in Buffers : c # b => block'[c] = block[c]
    BY <1>2 DEF BlockTypeOK
  <2>5. BlockOK(b)'
    <3>1. /\ rec # NoBlock /\ rec.refs = 0 /\ ~rec.recorded
          /\ Cardinality({}) = 0 /\ held'[b].length = Size(b)'
      BY <2>3, <2>4, FS_EmptySet DEF NoBlock, Size
    <3>. QED
      BY <3>1, <1>2, <2>1, <2>3, <2>4 DEF BlockOK
  <2>6. MapOK(b)'
    <3>1. \A ptr : RefsAt(AllRefs', ptr, b) = {}
      BY <1>2, <2>1 DEF RefsTo, RefsAt
    <3>2. \A ptr \in Pointers : allocation_map'[<<ptr, b>>] = 0
      BY <1>2 DEF Consistent, MapOK, NoBlock
    <3>. QED
      BY <3>1, <3>2, FS_EmptySet, Zenon DEF MapOK
  <2>7. VecOK'
    <3>1. VecOK /\ block_vec \in Seq(Buffers) /\ block_vec' = block_vec
      BY <1>2 DEF Consistent, BlockTypeOK
    <3>2. \A k \in 1 .. Len(block_vec) : block_vec[k] \in Buffers /\ block_vec[k] # b
      BY <3>1, <1>2 DEF VecOK, NoBlock
    <3>. QED
      BY <3>1, <3>2, <2>4 DEF VecOK
  <2>8. OthersKept(b)
    BY <1>2, <2>1 DEF OthersKept
  <2>. QED
    BY <1>2, <2>1, <2>3, <2>4, <2>5, <2>6, <2>7, <2>8, OneBlockStep, Zenon
<1>. QED
  BY <1>3, <1>4, <1>5 DEF BInv

\* The references to the elements of a block point into it, one per element.
LEMMA ElementRefs ==
  ASSUME BInv, fatal = NoFatal, NEW b \in Buffers, held[b] # NoBuffer
  PROVE  /\ element_refs(b) \in SUBSET Refs
         /\ \A r \in element_refs(b) : r[2] = b /\ Points(r)
         /\ Cardinality(element_refs(b)) = Len(block[b].shape) - 1
         /\ element_refs(b) # {}
<1>. DEFINE s == block[b].shape
            o == held[b].offset
            E == Elements(s)
            T == element_refs(b)
<1>1. /\ s \in Shapes /\ o \in Nat /\ End(held[b]) = o + Total(s)
      /\ o + Total(s) < PoolSize
  BY BlockFacts DEF Size
<1>2. /\ Len(s) \in Nat /\ Len(s) >= 2 /\ E = 1 .. Len(s) - 1 /\ Total(s) \in Nat
      /\ \A i \in E : i \in 1 .. MaxRefs /\ s[i] \in Nat /\ s[i] < Total(s)
  BY <1>1, ShapeFacts DEF Elements
<1>3. T = {<<o + s[i], b, i>> : i \in E}
  BY DEF element_refs
<1>. HIDE DEF s, o, E, T
<1>4. ASSUME NEW i \in E
      PROVE  o + s[i] \in Pointers /\ o <= o + s[i] /\ o + s[i] < o + Total(s)
  <2>1. PoolSize \in Nat
    BY PoolAssumption
  <2>. QED
    BY <2>1, <1>1, <1>2 DEF Pointers
<1>5. ASSUME NEW r \in T
      PROVE  r \in Refs /\ r[2] = b /\ Points(r)
  <2>1. PICK i \in E : r = <<o + s[i], b, i>>
    BY <1>3
  <2>2. r[1] = o + s[i] /\ r[2] = b /\ r \in Refs
    BY <2>1, <1>2, <1>4 DEF Refs
  <2>. QED
    BY <2>2, <1>4, <1>1 DEF Points, o
<1>6. Cardinality(T) = Len(s) - 1
  <2>. DEFINE f == [i \in E |-> <<o + s[i], b, i>>]
  <2>1. f \in [E -> T]
    BY <1>3
  <2>2. \A i, j \in E : f[i] = f[j] => i = j
    OBVIOUS
  <2>3. \A t \in T : \E i \in E : f[i] = t
    BY <1>3
  <2>4. ExistsBijection(E, T)
    BY <2>1, <2>2, <2>3, Zenon
       DEF ExistsBijection, Bijection, Injection, Surjection, IsInjective
  <2>5. Cardinality(T) = Cardinality(E) /\ IsFiniteSet(E)
    BY <2>4, <1>2, FS_Interval, FS_Bijection
  <2>6. Cardinality(1 .. Len(s) - 1) = Len(s) - 1
    BY <1>2, FS_Interval
  <2>. QED
    BY <2>5, <2>6, <1>2
<1>7. T # {}
  <2>1. 1 \in E
    BY <1>2
  <2>. QED
    BY <2>1, <1>3, Zenon
<1>. QED
  BY <1>5, <1>6, <1>7 DEF T, s

\* What record_block does to the references and the map
LEMMA RecordCounts ==
  ASSUME BInv, NEW b \in Buffers, record_block(b)
  PROVE  /\ owned' \subseteq Refs /\ owned' \cap deleting' = {}
         /\ RefsTo(AllRefs', b) = element_refs(b)
         /\ OthersKept(b) /\ MapCounts(b)
<1>. DEFINE E == element_refs(b)
<1>1. /\ fatal = NoFatal /\ held[b] # NoBuffer /\ ~block[b].recorded
      /\ owned' = owned \cup E /\ deleting' = deleting /\ AllRefs' = AllRefs \cup E
      /\ Consistent /\ BlockTypeOK
  BY DEF record_block, AllRefs, BInv
<1>2. E \in SUBSET Refs /\ \A r \in E : r[2] = b
  BY <1>1, ElementRefs
<1>3. RefsTo(AllRefs, b) = {}
  BY <1>1 DEF Consistent, BlockOK
<1>. HIDE DEF E
<1>4. /\ owned' \subseteq Refs /\ owned' \cap deleting' = {}
      /\ RefsTo(AllRefs', b) = E
      /\ \A c \in Buffers : c # b => RefsTo(AllRefs', c) = RefsTo(AllRefs, c)
  <2>1. owned' \subseteq Refs /\ owned' \cap deleting' = {}
    BY <1>1, <1>2, <1>3 DEF Consistent, RefsTo, AllRefs, BlockTypeOK
  <2>. QED
    BY <2>1, <1>1, <1>2, <1>3 DEF RefsTo
<1>5. allocation_map \in [Pointers \X Buffers -> Nat] /\ MapOK(b)
  BY <1>1 DEF BlockTypeOK, Consistent
<1>6. CASE block[b].via # "map"
  <2>1. allocation_map' = allocation_map
    BY <1>6 DEF record_block
  <2>. QED
    BY <2>1, <1>4, <1>5, <1>6, Zenon DEF MapOK, E, OthersKept, MapCounts
<1>7. CASE block[b].via = "map"
  <2>1. allocation_map' = [e \in Pointers \X Buffers |->
                             allocation_map[e] + Cardinality(RefsAt(E, e[1], e[2]))]
    BY <1>7 DEF record_block, map_with_elements, E
  <2>2. ASSUME NEW ptr \in Pointers, NEW c \in Buffers
        PROVE  /\ allocation_map'[<<ptr, c>>] =
                    allocation_map[<<ptr, c>>] + Cardinality(RefsAt(E, ptr, c))
               /\ allocation_map[<<ptr, c>>] \in Nat
               /\ Cardinality(RefsAt(E, ptr, c)) \in Nat
    <3>1. Cardinality(RefsAt(E, ptr, c)) \in Nat
      BY <1>2, RefsFinite, Zenon
    <3>. QED
      BY <3>1, <2>1, <1>5
  <2>3. allocation_map' \in [Pointers \X Buffers -> Nat]
    <3>1. \A e \in Pointers \X Buffers :
            allocation_map[e] + Cardinality(RefsAt(E, e[1], e[2])) \in Nat
      BY <2>2
    <3>. QED
      BY <3>1, <2>1
  <2>4. ASSUME NEW c \in Buffers, c # b, NEW ptr \in Pointers
        PROVE  allocation_map'[<<ptr, c>>] = allocation_map[<<ptr, c>>]
    <3>1. RefsAt(E, ptr, c) = {}
      BY <2>4, <1>2 DEF RefsAt
    <3>2. Cardinality(RefsAt(E, ptr, c)) = 0
      BY <3>1, FS_EmptySet, Zenon
    <3>. QED
      BY <3>2, <2>2
  <2>5. ASSUME NEW ptr \in Pointers
        PROVE  allocation_map'[<<ptr, b>>] = Cardinality(RefsAt(AllRefs', ptr, b))
    <3>1. RefsAt(AllRefs, ptr, b) = {} /\ RefsAt(AllRefs', ptr, b) = RefsAt(E, ptr, b)
      BY <1>1, <1>3 DEF RefsAt, RefsTo
    <3>2. allocation_map[<<ptr, b>>] = 0
      BY <1>5, <1>7, <3>1, FS_EmptySet, Zenon DEF MapOK
    <3>. QED
      BY <3>1, <3>2, <2>2
  <2>. QED
    BY <1>4, <1>7, <2>3, <2>4, <2>5, Zenon DEF E, OthersKept, MapCounts
<1>. QED
  BY <1>6, <1>7

\* allocate and allocate_sizes record the block.
LEMMA RecordStep ==
  ASSUME BInv, NEW b \in Buffers, record_block(b)
  PROVE  BInv' /\ UNCHANGED vars
<1>. DEFINE s == block[b].shape
            Rec == [via : {"map", "vec"}, shape : Shapes, recorded : BOOLEAN, refs : Nat]
<1>1. /\ fatal = NoFatal /\ held[b] # NoBuffer /\ ~block[b].recorded
      /\ block' = [block EXCEPT ![b].recorded = TRUE, ![b].refs = Len(s) - 1]
      /\ UNCHANGED vars /\ deleting' = deleting
      /\ UNCHANGED <<allocations, held, fatal>>
  BY DEF record_block, vars
<1>2. IInv' /\ Consistent /\ BlockTypeOK
  BY <1>1, PoolUnchanged DEF BInv
<1>3. /\ RefsTo(AllRefs', b) # {} /\ Cardinality(RefsTo(AllRefs', b)) = Len(s) - 1
      /\ \A r \in RefsTo(AllRefs', b) : Points(r)
  BY <1>1, ElementRefs, RecordCounts
<1>4. block[b] \in Rec /\ Len(s) - 1 \in Nat /\ block[b].via \in {"map", "vec"}
  <2>1. s \in Shapes /\ block[b] \in Rec /\ block[b].via \in {"map", "vec"}
    BY <1>1, BlockFacts
  <2>. QED
    BY <2>1, ShapeFacts
<1>5. /\ block'[b].recorded /\ block'[b].refs = Len(s) - 1
      /\ block'[b].via = block[b].via /\ block'[b].shape = s
      /\ block'[b] \in Rec
      /\ \A c \in Buffers : c # b => block'[c] = block[c]
      /\ block' \in [Buffers -> Rec \cup {NoBlock}]
  BY <1>1, <1>2, <1>4, Zenon DEF BlockTypeOK
<1>. HIDE DEF s
<1>6. VecOK' /\ block_vec' \in Seq(Buffers)
  <2>1. VecOK /\ block_vec \in Seq(Buffers)
    BY <1>2 DEF Consistent, BlockTypeOK
  <2>2. CASE block[b].via = "map"
    <3>1. block_vec' = block_vec
      BY <2>2 DEF record_block
    <3>. QED
      BY <2>1, <2>2, <3>1, <1>5, SameVector
  <2>3. CASE block[b].via = "vec"
    <3>1. block_vec' = Append(block_vec, b)
      BY <2>3 DEF record_block
    <3>. QED
      BY <2>1, <2>3, <3>1, <1>1, <1>5, AppendVector
  <2>. QED
    BY <2>2, <2>3, <1>4
<1>7. BlockTypeOK'
  BY <1>1, <1>2, <1>5, <1>6, RecordCounts, Zenon DEF BlockTypeOK, MapCounts
<1>8. BlockOK(b)'
  <2>1. /\ block'[b] # NoBlock /\ held'[b] # NoBuffer
    BY <1>1, <1>5 DEF NoBlock
  <2>2. held'[b].length = Size(b)'
    BY <1>1, <1>2, <1>5 DEF Consistent, BlockOK, Size, s
  <2>. QED
    BY <2>1, <2>2, <1>3, <1>5 DEF BlockOK
<1>9. MapOK(b)'
  BY <1>5, RecordCounts, Zenon DEF MapOK, MapCounts
<1>10. /\ \A r \in RefsTo(AllRefs', b) : Points(r)'
       /\ \A c \in Buffers : c # b => block'[c] = block[c] /\ held'[c] = held[c]
  BY <1>1, <1>3, <1>5 DEF Points, End
<1>11. AllRefs' \subseteq Refs
  BY <1>7 DEF BlockTypeOK, AllRefs
<1>12. Consistent'
  BY <1>2, <1>6, <1>8, <1>9, <1>10, <1>11, RecordCounts, OneBlockStep, Zenon
<1>. QED
  BY <1>1, <1>2, <1>7, <1>12 DEF BInv

\* The references that add_refs makes
LEMMA NewRefs ==
  ASSUME BInv, fatal = NoFatal, NEW r \in AllRefs, NEW N \in (SUBSET unused(r[2])) \ {{}}
  PROVE  /\ Cardinality(N) \in Nat \ {0}
         /\ IsFiniteSet(new_refs(r, N)) /\ Cardinality(new_refs(r, N)) = Cardinality(N)
         /\ new_refs(r, N) \in SUBSET Refs /\ new_refs(r, N) \cap AllRefs = {}
         /\ \A q \in new_refs(r, N) : q[1] = r[1] /\ q[2] = r[2]
<1>. DEFINE T == new_refs(r, N)
<1>1. N \in SUBSET (1 .. MaxRefs) /\ N # {}
  BY DEF unused
<1>2. Cardinality(N) \in Nat /\ IsFiniteSet(T) /\ Cardinality(T) = Cardinality(N)
  BY <1>1, NumberedRefs
<1>3. T = {<<r[1], r[2], k>> : k \in N}
  BY DEF new_refs
<1>. HIDE DEF T
<1>4. \A k \in N : <<r[1], r[2], k>> \in Refs
  BY <1>1, RefFacts DEF Refs
<1>5. T \in SUBSET Refs /\ \A q \in T : q[1] = r[1] /\ q[2] = r[2]
  BY <1>3, <1>4
<1>6. ASSUME NEW k \in N, <<r[1], r[2], k>> \in AllRefs
      PROVE  FALSE
  <2>1. <<r[1], r[2], k>> \in RefsTo(AllRefs, r[2]) /\ <<r[1], r[2], k>>[3] = k
    BY <1>6 DEF RefsTo
  <2>. QED
    BY <2>1 DEF unused
<1>7. T # {} /\ T \cap AllRefs = {}
  BY <1>1, <1>3, <1>6, Zenon
<1>8. Cardinality(N) # 0
  BY <1>2, <1>7, FS_EmptySet, Zenon
<1>. QED
  BY <1>2, <1>5, <1>7, <1>8 DEF T

\* What add_refs does to the block of the reference, and to the map
LEMMA AddFinds ==
  ASSUME BInv, NEW r \in owned, NEW N, add_refs(r, N)
  PROVE  /\ UNCHANGED vars /\ MapAdds(r, Cardinality(N))
         /\ block' = [block EXCEPT ![r[2]].refs = @ + Cardinality(N)]
<1>. DEFINE n == Cardinality(N)
<1>1. fatal = NoFatal /\ r \in AllRefs
  BY DEF add_refs, AllRefs
<1>2. UNCHANGED vars
  BY <1>1, RefInBlock DEF add_refs, vars
<1>3. block[r[2]].via \in {"map", "vec"}
  BY <1>1, RefFacts, BlockFacts
<1>4. CASE block[r[2]].via = "map"
  <2>1. map_find(r[1]) = {r[2]}
    BY <1>1, <1>4, MapFindIn, Zenon
  <2>2. /\ block' = [block EXCEPT ![r[2]].refs = @ + n]
        /\ allocation_map' = [allocation_map EXCEPT ![<<r[1], r[2]>>] = @ + n]
    BY <2>1 DEF add_refs, map_with_refs
  <2>. QED
    BY <2>2, <1>2, <1>4, Zenon DEF MapAdds
<1>5. CASE block[r[2]].via = "vec"
  <2>1. map_find(r[1]) = {}
    BY <1>1, <1>5, MapFindIn, Zenon
  <2>2. PICK k : block_vec[k] = r[2] /\ vec_find(r[1]) = {k}
    BY <1>1, <1>5, VecFindIn, Zenon
  <2>3. \A c \in Buffers : (\E j \in vec_find(r[1]) : block_vec[j] = c) <=> c = r[2]
    BY <2>2, Zenon
  <2>4. /\ block' = [c \in Buffers |-> IF \E j \in vec_find(r[1]) : block_vec[j] = c
                                         THEN [block[c] EXCEPT !.refs = @ + n] ELSE block[c]]
        /\ allocation_map' = allocation_map
    BY <2>1 DEF add_refs
  <2>5. block' = [c \in Buffers |-> IF c = r[2] THEN [block[c] EXCEPT !.refs = @ + n]
                                      ELSE block[c]]
    BY <2>3, <2>4
  <2>6. \E R : block \in [Buffers -> R]
    BY Zenon DEF BInv, BlockTypeOK
  <2>7. block' = [block EXCEPT ![r[2]].refs = @ + n]
    BY <2>5, <2>6, Zenon
  <2>. QED
    BY <2>4, <2>7, <1>2, <1>5, Zenon DEF MapAdds
<1>. QED
  BY <1>3, <1>4, <1>5

\* There are as many references more.
LEMMA AddCounts ==
  ASSUME BInv, fatal = NoFatal, NEW r \in AllRefs, NEW N \in (SUBSET unused(r[2])) \ {{}},
         AllRefs' = AllRefs \cup new_refs(r, N)
  PROVE  RefsAdded(r, Cardinality(N))
<1>. DEFINE b == r[2]
            T == new_refs(r, N)
            n == Cardinality(N)
<1>1. /\ n \in Nat /\ IsFiniteSet(T) /\ Cardinality(T) = n
      /\ T \in SUBSET Refs /\ T \cap AllRefs = {}
      /\ \A q \in T : q[1] = r[1] /\ q[2] = b
  BY NewRefs
<1>2. AllRefs \in SUBSET Refs
  BY DEF BInv, BlockTypeOK, AllRefs
<1>. HIDE DEF T
<1>3. AllRefs' = AllRefs \cup T
  BY DEF T
<1>4. /\ AllRefs' \subseteq Refs
      /\ \A c : c # b => RefsTo(AllRefs', c) = RefsTo(AllRefs, c)
      /\ RefsTo(AllRefs', b) = RefsTo(AllRefs, b) \cup T
      /\ RefsAt(AllRefs', r[1], b) = RefsAt(AllRefs, r[1], b) \cup T
      /\ \A p : p # r[1] => RefsAt(AllRefs', p, b) = RefsAt(AllRefs, p, b)
  BY <1>1, <1>2, <1>3 DEF RefsTo, RefsAt
<1>5. ASSUME NEW S \in SUBSET AllRefs, IsFiniteSet(S)
      PROVE  Cardinality(S \cup T) = Cardinality(S) + n
  <2>1. S \cap T = {}
    BY <1>1
  <2>2. Cardinality(S) \in Nat /\ Cardinality(S \cap T) = 0
    BY <2>1, <1>5, FS_CardinalityType, FS_EmptySet, Zenon
  <2>3. Cardinality(S \cup T) = Cardinality(S) + Cardinality(T) - Cardinality(S \cap T)
    BY <1>1, <1>5, FS_Union
  <2>. QED
    BY <2>2, <2>3, <1>1
<1>6. /\ RefsTo(AllRefs, b) \in SUBSET AllRefs /\ RefsAt(AllRefs, r[1], b) \in SUBSET AllRefs
      /\ IsFiniteSet(RefsTo(AllRefs, b)) /\ IsFiniteSet(RefsAt(AllRefs, r[1], b))
  BY <1>2, RefsFinite, Zenon DEF RefsTo, RefsAt
<1>. QED
  BY <1>4, <1>5, <1>6, Zenon DEF RefsAdded

\* add_refs counts the new references in the block of the old one.
LEMMA AddStep ==
  ASSUME BInv, NEW r \in owned, NEW N \in (SUBSET unused(r[2])) \ {{}}, add_refs(r, N)
  PROVE  BInv' /\ UNCHANGED vars
<1>. DEFINE b == r[2]
            n == Cardinality(N)
            T == new_refs(r, N)
<1>1. /\ fatal = NoFatal /\ owned' = owned \cup T /\ UNCHANGED <<block_vec, deleting>>
  BY DEF add_refs
<1>2. /\ r \in AllRefs /\ AllRefs' = AllRefs \cup T
      /\ owned \subseteq Refs /\ deleting \subseteq Refs /\ owned \cap deleting = {}
      /\ \A q \in AllRefs : Points(q)
  BY <1>1 DEF AllRefs, BInv, BlockTypeOK, Consistent
<1>3. /\ n \in Nat \ {0} /\ T \in SUBSET Refs /\ T \cap AllRefs = {}
      /\ \A q \in T : q[1] = r[1] /\ q[2] = b
  BY <1>1, <1>2, NewRefs, Zenon
<1>4. UNCHANGED vars /\ MapAdds(r, n) /\ block' = [block EXCEPT ![b].refs = block[b].refs + n]
  BY AddFinds
<1>5. RefsAdded(r, n)
  BY <1>1, <1>2, AddCounts
<1>6. block[b].refs \in Nat \ {0} /\ Points(r)
  BY <1>1, <1>2, RefFacts
<1>. HIDE DEF n, T
<1>7. n \in Int /\ block[b].refs + n # 0
  BY <1>3, <1>6
<1>8. owned' \subseteq Refs /\ deleting' \subseteq Refs /\ owned' \cap deleting' = {}
  BY <1>1, <1>2, <1>3 DEF AllRefs
<1>9. \A q \in RefsTo(AllRefs', b) : Points(q)
  <2>1. \A q \in T : Points(q)
    BY <1>3, <1>6 DEF Points
  <2>. QED
    BY <2>1, <1>2, Zenon DEF RefsTo
<1>10. fatal = NoFatal /\ r \in AllRefs /\ block_vec' = block_vec
  BY <1>1, <1>2, Zenon
<1>11. BInv'
  BY <1>4, <1>5, <1>7, <1>8, <1>9, <1>10, CountStep, Zenon
<1>. QED
  BY <1>4, <1>11

\* What free does to the map and the vector, and to the block of the reference
LEMMA FreeFinds ==
  ASSUME BInv, NEW r \in deleting, block_free(r)
  PROVE  /\ drop_ref(r[2]) /\ MapAdds(r, -1)
         /\ block[r[2]].via = "map" => block_vec' = block_vec
         /\ block[r[2]].via = "vec" =>
              \E k \in 1 .. Len(block_vec) :
                /\ block_vec[k] = r[2]
                /\ block_vec' = IF no_refs(block[r[2]].refs - 1)
                                  THEN erase(block_vec, k) ELSE block_vec
<1>1. fatal = NoFatal /\ r \in AllRefs
  BY DEF block_free, AllRefs
<1>2. block[r[2]].via \in {"map", "vec"} /\ buffer_in_block(r[1])
  BY <1>1, RefFacts, BlockFacts, RefInBlock
<1>3. CASE block[r[2]].via = "map"
  <2>1. map_find(r[1]) = {r[2]}
    BY <1>1, <1>3, MapFindIn, Zenon
  <2>2. /\ drop_ref(r[2]) /\ block_vec' = block_vec
        /\ allocation_map' = [allocation_map EXCEPT ![<<r[1], r[2]>>] = @ - 1]
    BY <1>2, <2>1 DEF block_free
  <2>3. /\ allocation_map \in [Pointers \X Buffers -> Nat]
        /\ <<r[1], r[2]>> \in Pointers \X Buffers
    BY <1>1, RefFacts DEF BInv, BlockTypeOK
  <2>4. allocation_map[<<r[1], r[2]>>] - 1 = allocation_map[<<r[1], r[2]>>] + (-1)
    BY <2>3
  <2>. QED
    BY <2>2, <2>4, <1>3, Zenon DEF MapAdds
<1>4. CASE block[r[2]].via = "vec"
  <2>1. map_find(r[1]) = {}
    BY <1>1, <1>4, MapFindIn, Zenon
  <2>2. PICK k \in 1 .. Len(block_vec) : block_vec[k] = r[2] /\ vec_find(r[1]) = {k}
    BY <1>1, <1>4, VecFindIn
  <2>3. /\ drop_ref(block_vec[k])
        /\ block_vec' = IF no_refs(block[block_vec[k]].refs - 1)
                          THEN erase(block_vec, k) ELSE block_vec
        /\ allocation_map' = allocation_map
    BY <1>2, <2>1, <2>2 DEF block_free
  <2>. QED
    BY <1>4, <2>2, <2>3, Zenon DEF MapAdds
<1>. QED
  BY <1>2, <1>3, <1>4

\* There is one reference less.
LEMMA FreeCounts ==
  ASSUME BInv, fatal = NoFatal, NEW r \in AllRefs, AllRefs' = AllRefs \ {r}
  PROVE  RefsAdded(r, -1)
<1>. DEFINE To == RefsTo(AllRefs, r[2])
            At == RefsAt(AllRefs, r[1], r[2])
<1>1. AllRefs \in SUBSET Refs /\ r \in To /\ r \in At
  BY RefFacts, Zenon DEF BInv, BlockTypeOK, AllRefs
<1>2. /\ AllRefs' \subseteq Refs
      /\ RefsTo(AllRefs', r[2]) = To \ {r} /\ RefsAt(AllRefs', r[1], r[2]) = At \ {r}
      /\ \A c : c # r[2] => RefsTo(AllRefs', c) = RefsTo(AllRefs, c)
      /\ \A p : p # r[1] => RefsAt(AllRefs', p, r[2]) = RefsAt(AllRefs, p, r[2])
  BY <1>1 DEF RefsTo, RefsAt
<1>3. /\ IsFiniteSet(To) /\ Cardinality(To) \in Nat
      /\ IsFiniteSet(At) /\ Cardinality(At) \in Nat
  BY <1>1, RefsFinite, Zenon
<1>. HIDE DEF To, At
<1>4. /\ Cardinality(To \ {r}) = Cardinality(To) - 1
      /\ Cardinality(At \ {r}) = Cardinality(At) - 1
  BY <1>1, <1>3, FS_RemoveElement, Zenon
<1>5. /\ Cardinality(To) - 1 = Cardinality(To) + (-1)
      /\ Cardinality(At) - 1 = Cardinality(At) + (-1)
  BY <1>3
<1>. QED
  BY <1>2, <1>4, <1>5, Zenon DEF RefsAdded, To, At

\* free gives the memory of a block back with its last reference.
LEMMA BlockFreeStep ==
  ASSUME BInv, NEW r \in deleting, block_free(r)
  PROVE  BInv' /\ [Next]_vars
<1>. DEFINE b == r[2]
            left == block[b].refs - 1
            Rec == [via : {"map", "vec"}, shape : Shapes, recorded : BOOLEAN, refs : Nat]
<1>1. /\ fatal = NoFatal /\ r \in AllRefs /\ Consistent /\ BlockTypeOK /\ IInv
      /\ owned' = owned /\ deleting' = deleting \ {r}
  BY DEF block_free, AllRefs, BInv
<1>2. /\ drop_ref(b) /\ MapAdds(r, -1)
      /\ block[b].via = "map" => block_vec' = block_vec
      /\ block[b].via = "vec" =>
           \E k \in 1 .. Len(block_vec) :
             /\ block_vec[k] = b
             /\ block_vec' = IF no_refs(left) THEN erase(block_vec, k) ELSE block_vec
  BY FreeFinds, Zenon
<1>3. /\ AllRefs' = AllRefs \ {r} /\ owned' \cap deleting' = {}
      /\ owned' \subseteq Refs /\ deleting' \subseteq Refs /\ AllRefs' \subseteq Refs
      /\ \A q \in RefsTo(AllRefs', b) : Points(q)
  BY <1>1 DEF AllRefs, Consistent, BlockTypeOK, RefsTo
<1>4. RefsAdded(r, -1)
  BY <1>1, <1>3, FreeCounts
<1>5. /\ b \in Buffers /\ block[b].via \in {"map", "vec"}
      /\ left \in Nat /\ left = block[b].refs + (-1)
      /\ block \in [Buffers -> Rec \cup {NoBlock}]
  BY <1>1, RefFacts, BlockFacts DEF BlockTypeOK
<1>6. VecOK /\ block_vec \in Seq(Buffers)
  BY <1>1 DEF Consistent, BlockTypeOK
<1>. HIDE DEF b, left
<1>7. CASE left # 0
  <2>1. /\ block' = [block EXCEPT ![b].refs = left] /\ UNCHANGED vars
        /\ block_vec' = block_vec
    BY <1>2, <1>5, <1>7, Zenon DEF drop_ref, no_refs, left
  <2>2. -1 \in Int
    OBVIOUS
  <2>3. BInv'
    BY <2>1, <2>2, <1>1, <1>2, <1>3, <1>4, <1>5, <1>7, CountStep, Zenon DEF b
  <2>. QED
    BY <2>1, <2>3
<1>8. CASE left = 0
  <2>1. free(b) /\ block' = [block EXCEPT ![b] = NoBlock]
    BY <1>2, <1>8 DEF drop_ref, no_refs, left
  <2>2. IInv' /\ Next
    BY <2>1, <1>1, <1>5, FreeStep DEF Next
  <2>3. held'[b] = NoBuffer /\ \A c \in Buffers : c # b => held'[c] = held[c]
    BY <2>1, <1>1, <1>5 DEF free, IInv, TypeOK
  <2>4. /\ block'[b] = NoBlock /\ block' \in [Buffers -> Rec \cup {NoBlock}]
        /\ \A c \in Buffers : c # b => block'[c] = block[c]
    BY <2>1, <1>5, Zenon
  <2>5. RefsTo(AllRefs', b) = {} /\ Cardinality({}) = 0
    <3>1. BlockOK(b)
      BY <1>1, <1>5 DEF Consistent
    <3>2. Cardinality(RefsTo(AllRefs', b)) = 0
      BY <3>1, <1>4, <1>5, <1>8 DEF RefsAdded, BlockOK, b
    <3>. QED
      BY <3>2, <1>3, RefsFinite, FS_EmptySet, Zenon
  <2>6. block_vec' \in Seq(Buffers) /\ VecOK'
    <3>1. ~block'[b].recorded
      BY <2>4 DEF NoBlock
    <3>2. CASE block[b].via = "map"
      <4>1. \A c \in Buffers : block[c].via = "vec" => c # b
        BY <3>2
      <4>2. block_vec' = block_vec /\ block'[b].via # "vec"
        BY <3>2, <2>4, <1>2 DEF NoBlock
      <4>. QED
        BY <4>1, <4>2, <2>4, <1>6, SameVector
    <3>3. CASE block[b].via = "vec"
      <4>1. PICK k \in 1 .. Len(block_vec) :
              block_vec[k] = b /\ block_vec' = erase(block_vec, k)
        BY <3>3, <1>2, <1>8 DEF no_refs
      <4>. QED
        BY <3>1, <4>1, <2>4, <1>6, EraseVector, Zenon
    <3>. QED
      BY <3>2, <3>3, <1>5
  <2>7. OthersKept(b) /\ MapCounts(b)
    <3>1. -1 \in Int
      OBVIOUS
    <3>. QED
      BY <3>1, <1>1, <1>2, <1>4, MapStep, Zenon DEF b
  <2>8. BlockTypeOK'
    BY <2>4, <2>6, <2>7, <1>3, Zenon DEF BlockTypeOK, MapCounts
  <2>9. BlockOK(b)'
    BY <2>3, <2>4, <2>5 DEF BlockOK, NoBlock
  <2>10. MapOK(b)'
    <3>1. \A p : RefsAt(AllRefs', p, b) = {}
      BY <2>5 DEF RefsTo, RefsAt
    <3>2. \A p \in Pointers : allocation_map'[<<p, b>>] = 0
      BY <3>1, <2>5, <2>7, Zenon DEF MapCounts
    <3>3. block'[b].via = "none"
      BY <2>4 DEF NoBlock
    <3>. QED
      BY <3>2, <3>3 DEF MapOK
  <2>11. Consistent'
    <3>1. /\ \A c \in Buffers : c # b => block'[c] = block[c] /\ held'[c] = held[c]
          /\ \A q \in RefsTo(AllRefs', b) : Points(q)'
      BY <2>3, <2>4, <2>5, Zenon
    <3>. QED
      BY <3>1, <2>6, <2>7, <2>9, <2>10, <1>1, <1>3, <1>5, OneBlockStep, Zenon
  <2>. QED
    BY <2>2, <2>8, <2>11 DEF BInv
<1>. QED
  BY <1>7, <1>8

----------------------------------------------------------------------------
(* The theorems *)

LEMMA BlockStep ==
  ASSUME BInv, [BlockNext]_<<vars, blockVars>>
  PROVE  BInv' /\ [Next]_vars
<1>1. ASSUME NEW b \in Buffers, NEW via \in {"map", "vec"}, NEW shape \in Shapes,
             block_buffer(b, via, shape)
      PROVE  BInv' /\ [Next]_vars
  BY <1>1, BufferStep
<1>2. ASSUME NEW b \in Buffers, record_block(b)
      PROVE  BInv' /\ [Next]_vars
  BY <1>2, RecordStep
<1>3. ASSUME NEW r \in owned, delete_buffer(r)
      PROVE  BInv' /\ [Next]_vars
  BY <1>3, DeleteStep
<1>4. ASSUME NEW r \in owned, NEW N \in (SUBSET unused(r[2])) \ {{}}, add_refs(r, N)
      PROVE  BInv' /\ [Next]_vars
  BY <1>4, AddStep
<1>5. ASSUME NEW r \in deleting, block_free(r)
      PROVE  BInv' /\ [Next]_vars
  BY <1>5, BlockFreeStep
<1>6. CASE UNCHANGED <<vars, blockVars>>
  <2>1. UNCHANGED vars /\ UNCHANGED <<block, allocation_map, block_vec, owned, deleting>>
    BY <1>6 DEF blockVars
  <2>2. IInv' /\ UNCHANGED <<allocations, held, fatal>>
    BY <2>1, PoolUnchanged DEF BInv, vars
  <2>3. BlockTypeOK'
    BY <2>1 DEF BInv, BlockTypeOK
  <2>4. AllRefs' = AllRefs
    BY <2>1 DEF AllRefs
  <2>5. ASSUME Consistent
        PROVE  Consistent'
    BY <2>1, <2>2, <2>4, <2>5, SameRefs DEF Consistent
  <2>. QED
    BY <2>1, <2>2, <2>3, <2>5 DEF BInv
<1>. QED
  BY <1>1, <1>2, <1>3, <1>4, <1>5, <1>6 DEF BlockNext

\* The invariant holds of every state of the allocator.
THEOREM BlockInvariance == BlockSpec => []BInv
<1>1. BlockInit => BInv
  <2>. SUFFICES ASSUME BlockInit
                PROVE  BInv
    OBVIOUS
  <2>1. /\ Init /\ block = [b \in Buffers |-> NoBlock] /\ block_vec = <<>>
        /\ allocation_map = [e \in Pointers \X Buffers |-> 0]
        /\ owned = {} /\ deleting = {}
    BY DEF BlockInit
  <2>2. IInv
    BY <2>1, PoolInit
  <2>3. BlockTypeOK
    BY <2>1 DEF BlockTypeOK
  <2>4. /\ AllRefs = {} /\ Cardinality({}) = 0
        /\ \A b : RefsTo(AllRefs, b) = {} /\ \A ptr : RefsAt(AllRefs, ptr, b) = {}
    BY <2>1, FS_EmptySet DEF AllRefs, RefsTo, RefsAt
  <2>5. \A b \in Buffers : /\ held[b] = NoBuffer /\ block[b] = NoBlock
                           /\ block[b].refs = 0 /\ ~block[b].recorded
    BY <2>1 DEF Init, NoBlock
  <2>6. \A b \in Buffers : BlockOK(b)
    BY <2>4, <2>5 DEF BlockOK
  <2>7. \A b \in Buffers : MapOK(b)
    BY <2>1, <2>4, Zenon DEF MapOK
  <2>8. VecOK
    BY <2>1, <2>5 DEF VecOK
  <2>. QED
    BY <2>1, <2>2, <2>3, <2>4, <2>6, <2>7, <2>8 DEF BInv, Consistent
<1>2. BInv /\ [BlockNext]_<<vars, blockVars>> => BInv'
  BY BlockStep
<1>. QED
  BY <1>1, <1>2, PTL DEF BlockSpec

\* The block allocator is a proper client of the pool: every step of it is a
\* step of the pool or leaves the pool alone, so it never frees a buffer that
\* it does not hold.
THEOREM PoolRefinement == BlockSpec => Spec
<1>1. BlockInit => Init
  BY DEF BlockInit
<1>2. BInv /\ [BlockNext]_<<vars, blockVars>> => [Next]_vars
  BY BlockStep
<1>. QED
  BY <1>1, <1>2, BlockInvariance, PTL DEF BlockSpec, Spec

\* With the block allocator as its only client the pool keeps its promises.
THEOREM BlockPoolSafe ==
  BlockSpec => [](BuffersDisjoint /\ HeldCanBeFreed /\ FatalOnlyWhenFull)
BY PoolRefinement, DisjointBuffers, FreeSucceeds, FullWhenFatal, PTL

\* free never gives back a block that a caller or a call of delete_buffer still
\* refers to.
THEOREM OwnedStaysAllocated == BlockSpec => []OwnedIsAllocated
<1>1. BInv => OwnedIsAllocated
  BY Zenon DEF BInv, Consistent, Points, OwnedIsAllocated
<1>. QED
  BY <1>1, BlockInvariance, PTL

\* free gives a block back with its last reference, and its entries of the map.
THEOREM NoBlockLeaks == BlockSpec => []NothingLeaked
<1>1. BInv => NothingLeaked
  BY DEF BInv, Consistent, BlockOK, MapOK, NothingLeaked
<1>. QED
  BY <1>1, BlockInvariance, PTL

=============================================================================
