--------------------------- MODULE PoolAllocator ---------------------------
(***************************************************************************)
(* PoolAllocator (scanner/util/memory.cpp): first-fit allocation of        *)
(* aligned ranges of one large buffer, the pool.                           *)
(*                                                                         *)
(* Addresses are offsets from the start of the pool.  allocate and free    *)
(* run under lock_ and are one step each; LOG_IF(FATAL, ...) ends the      *)
(* process.  The callers are modelled by the buffers they hold.            *)
(***************************************************************************)
EXTENDS Integers, Sequences, FiniteSets

CONSTANTS
  Buffers,      \* handles of the callers, at most one buffer each
  Sizes,        \* the sizes they ask for
  PoolSize,     \* pool_size_
  Alignment,    \* SystemAllocator::alignment()
  SizeT         \* 2^64: size_t arithmetic is modulo SizeT

ASSUME PoolAssumption ==
  /\ Sizes \subseteq Nat
  /\ PoolSize \in Nat \ {0}
  /\ Alignment \in Nat \ {0}
  /\ SizeT \in Nat
  \* no request is so large that the end of its range wraps around
  /\ \A size \in Sizes : PoolSize + Alignment + size < SizeT

VARIABLES
  allocations,  \* allocations_, a vector of [offset, length]
  held,         \* the buffer each caller holds, a record or NoBuffer
  fatal         \* the process ended: the size that failed, or NoFatal

vars == <<allocations, held, fatal>>

NoBuffer == [offset |-> -1, length |-> 0]
NoFatal  == -1
BadFree  == -2

Allocation == [offset : Nat, length : Nat]

\* Allocations and buffers are records of natural numbers.
TypeOK ==
  /\ allocations \in Seq(Allocation)
  /\ held \in [Buffers -> Allocation \cup {NoBuffer}]
  /\ fatal \in Sizes \cup {NoFatal, BadFree}

End(alloc) == alloc.offset + alloc.length

----------------------------------------------------------------------------
(* Faulty variants of definitions below (mutants); no specification uses them *)

Fault_GapNotAligned(i, size) ==
  allocations[i].offset - (IF i = 1 THEN 0 ELSE End(allocations[i - 1])) >= size
Fault_FirstGapSkipped(i, size) ==
  i > 1 /\ allocations[i].offset - End(allocations[i - 1]) >= size + Alignment
Fault_WrongKey(offset) ==
  {i \in DOMAIN allocations : End(allocations[i]) = offset}

----------------------------------------------------------------------------
align(ptr) ==
  LET remainder == ptr % Alignment
  IN  IF remainder # 0 THEN ptr + (Alignment - remainder) ELSE ptr

\* The end of the allocation before slot i, and where one in slot i starts
LowerEnd(i) == IF i = 1 THEN 0 ELSE End(allocations[i - 1])
Base(i)     == align(LowerEnd(i))

\* The gap before allocation i is large enough (unsigned subtraction).
Fits(i, size) == (allocations[i].offset - Base(i)) % SizeT >= size

\* Slot i is the first gap that is large enough, or the end.
FirstFit(i, size) ==
  /\ i <= Len(allocations) => Fits(i, size)
  /\ \A k \in 1 .. i - 1 : ~Fits(k, size)

\* std::vector: e goes before position i, or the element at i goes
insert(s, i, e) == SubSeq(s, 1, i - 1) \o <<e>> \o SubSeq(s, i, Len(s))
erase(s, i)     == SubSeq(s, 1, i - 1) \o SubSeq(s, i + 1, Len(s))

\* allocations_ with alloc put before position i
Inserted(i, alloc) == insert(allocations, i, alloc)

allocate(b, size) ==
  /\ fatal = NoFatal /\ held[b] = NoBuffer
  /\ \E i \in 1 .. Len(allocations) + 1 :
       LET alloc == [offset |-> Base(i), length |-> size]
       IN
       /\ FirstFit(i, size)
       /\ allocations' = Inserted(i, alloc)
       /\ IF End(alloc) >= PoolSize
            THEN fatal' = size /\ UNCHANGED held
            ELSE held' = [held EXCEPT ![b] = alloc] /\ UNCHANGED fatal

\* The indices whose offset is that of the buffer
find_buffer(offset) ==
  {i \in DOMAIN allocations : allocations[i].offset = offset}

\* The first one is erased.
free(b) ==
  LET found == find_buffer(held[b].offset)
  IN
  /\ fatal = NoFatal /\ held[b] # NoBuffer
  /\ held' = [held EXCEPT ![b] = NoBuffer]
  /\ IF found = {} THEN fatal' = BadFree /\ UNCHANGED allocations
       ELSE /\ \E i \in found : /\ \A k \in found : i <= k
                                /\ allocations' = erase(allocations, i)
            /\ UNCHANGED fatal

Init ==
  /\ allocations = <<>>
  /\ held = [b \in Buffers |-> NoBuffer]
  /\ fatal = NoFatal

Next ==
  \E b \in Buffers :
    \/ \E size \in Sizes : allocate(b, size)
    \/ free(b)

Spec == Init /\ [][Next]_vars

----------------------------------------------------------------------------
(* Properties *)

\* Two buffers handed out never share a byte, and each lies inside the pool at
\* an aligned offset: whatever is freed and reallocated in between, and though
\* an empty buffer shares its address with another one.
BuffersDisjoint ==
  \A b \in Buffers :
    held[b] # NoBuffer =>
      /\ held[b].offset % Alignment = 0
      /\ End(held[b]) < PoolSize
      /\ \A c \in Buffers \ {b} :
           held[c] # NoBuffer =>
             \/ held[b].length = 0 \/ held[c].length = 0
             \/ End(held[b]) <= held[c].offset
             \/ End(held[c]) <= held[b].offset

\* The assertion at memory.cpp:191, and what makes the unsigned subtraction
\* after it safe: the aligned end of an allocation is never past the next one.
GapsNotNegative ==
  fatal = NoFatal => \A i \in DOMAIN allocations : Base(i) <= allocations[i].offset

\* A buffer that is held can be freed: the allocation that free erases may
\* belong to an empty buffer at the same offset, never leaving one without.
HeldCanBeFreed == fatal # BadFree

\* "Exceeded pool size" means what it says: every aligned range of that size,
\* up to one byte short of the end of the pool, meets an older allocation (the
\* failed one was added at the end).
FatalOnlyWhenFull ==
  fatal \in Sizes =>
    \A o \in 0 .. PoolSize - 1 :
      o % Alignment = 0 /\ o + fatal < PoolSize =>
        \E i \in 1 .. Len(allocations) - 1 :
          allocations[i].offset < o + fatal /\ o < End(allocations[i])

=============================================================================
