------------------------ MODULE PoolAllocatorProofs ------------------------
(***************************************************************************)
(* PoolAllocator never hands out two buffers that overlap, and can free    *)
(* every buffer that is held, for every pool size, alignment and set of    *)
(* request sizes.                                                          *)
(***************************************************************************)
EXTENDS PoolAllocator, WellFoundedInduction, TLAPS

----------------------------------------------------------------------------
(* Alignment *)

\* A multiple of A between 0 and A - 1 is 0.
LEMMA SmallMultiple ==
  ASSUME NEW A \in Nat \ {0}, NEW d \in Int, A * d \in 0 .. A - 1
  PROVE  A * d = 0
<1>1. CASE d >= 1
  <2>1. A * d >= A
    BY <1>1
  <2>. QED
    BY <2>1
<1>2. CASE d <= -1
  <2>1. A * d <= -A
    BY <1>2
  <2>. QED
    BY <2>1
<1>3. CASE d = 0
  BY <1>3
<1>. QED
  BY <1>1, <1>2, <1>3

\* Quotient and remainder
LEMMA DivMod ==
  ASSUME NEW A \in Nat \ {0}, NEW p \in Nat
  PROVE  /\ p \div A \in Nat /\ p % A \in 0 .. A - 1
         /\ p = A * (p \div A) + (p % A)
  OBVIOUS

\* Multiples are what % tells.
LEMMA Multiple ==
  ASSUME NEW A \in Nat \ {0}, NEW n \in Nat
  PROVE  (A * n) % A = 0
<1>. DEFINE q == A * n
            m == q \div A
<1>1. q \in Nat
  OBVIOUS
<1>2. /\ m \in Nat /\ q % A \in 0 .. A - 1
      /\ q = A * m + (q % A)
  BY <1>1, DivMod, Zenon
<1>3. A * (n - m) = q % A
  <2>. HIDE DEF m
  <2>1. A * (n - m) = A * n - A * m
    BY <1>2
  <2>. QED
    BY <2>1, <1>2
<1>. HIDE DEF m, q
<1>4. A * (n - m) = 0
  BY <1>2, <1>3, SmallMultiple
<1>. QED
  BY <1>3, <1>4 DEF q

\* align(p) is the least multiple of Alignment that is not below p.
LEMMA AlignFacts ==
  ASSUME NEW p \in Nat
  PROVE  /\ align(p) \in Nat
         /\ align(p) >= p /\ align(p) < p + Alignment
         /\ align(p) % Alignment = 0
         /\ \A q \in Nat : q >= p /\ q % Alignment = 0 => q >= align(p)
<1>. DEFINE A == Alignment
            n == p \div A
            r == p % A
<1>a. A \in Nat \ {0}
  BY PoolAssumption
<1>1. /\ n \in Nat /\ r \in 0 .. A - 1 /\ p = A * n + r
  BY <1>a, DivMod, Zenon
<1>2. align(p) = IF r # 0 THEN A * (n + 1) ELSE A * n
  <2>1. A * (n + 1) = A * n + A
    BY <1>1, <1>a
  <2>2. align(p) = IF r # 0 THEN p + (A - r) ELSE p
    BY DEF align
  <2>. HIDE DEF A, n, r
  <2>. QED
    BY <2>1, <2>2, <1>1, <1>a
<1>. HIDE DEF A, n, r
<1>3. (A * n) % A = 0 /\ (A * (n + 1)) % A = 0
  BY <1>1, <1>a, Multiple
<1>4. A * n \in Nat /\ A * (n + 1) = A * n + A
  BY <1>1, <1>a
<1>5. ASSUME NEW q \in Nat, q >= p, q % A = 0
      PROVE  q >= align(p)
  <2>. DEFINE m == q \div A
  <2>1. m \in Nat /\ q = A * m
    BY <1>a, <1>5, DivMod
  <2>. HIDE DEF m
  <2>2. CASE r = 0
    BY <2>2, <1>1, <1>2, <1>4, <1>5
  <2>3. CASE r # 0
    <3>1. A * m > A * n
      BY <2>1, <2>3, <1>1, <1>4, <1>5
    <3>2. m > n
      <4>1. CASE m <= n
        <5>1. A * m <= A * n
          BY <4>1, <1>a, <1>1, <2>1
        <5>. QED
          BY <5>1, <3>1, <1>a, <1>1, <2>1
      <4>. QED
        BY <4>1, <1>1, <2>1
    <3>3. A * m >= A * (n + 1)
      BY <3>2, <1>a, <1>1, <2>1
    <3>. QED
      BY <3>3, <2>1, <2>3, <1>2
  <2>. QED
    BY <2>2, <2>3
<1>6. align(p) \in Nat /\ align(p) >= p /\ align(p) < p + A
  BY <1>1, <1>2, <1>4, <1>a
<1>7. align(p) % A = 0
  BY <1>2, <1>3
<1>. QED
  BY <1>5, <1>6, <1>7 DEF A

----------------------------------------------------------------------------
(* Insertion and removal *)

\* The elements of a concatenation
LEMMA ConcatFacts ==
  ASSUME NEW S, NEW a \in Seq(S), NEW c \in Seq(S)
  PROVE  /\ a \o c \in Seq(S) /\ Len(a \o c) = Len(a) + Len(c)
         /\ \A k \in 1 .. Len(a) + Len(c) :
              (a \o c)[k] = IF k <= Len(a) THEN a[k] ELSE c[k - Len(a)]
OBVIOUS

\* vector::insert (allocate): the new allocation is at i, those after it move
\* up by one, the others stay.
LEMMA InsertFacts ==
  ASSUME NEW S, NEW s \in Seq(S), NEW e \in S, NEW i \in 1 .. Len(s) + 1
  PROVE  /\ insert(s, i, e) \in Seq(S)
         /\ Len(insert(s, i, e)) = Len(s) + 1
         /\ \A k \in 1 .. Len(s) + 1 :
              insert(s, i, e)[k] =
                IF k < i THEN s[k] ELSE IF k = i THEN e ELSE s[k - 1]
<1>. DEFINE a == SubSeq(s, 1, i - 1)
            c == SubSeq(s, i, Len(s))
            t == a \o <<e>>
            u == t \o c
<1>1. /\ a \in Seq(S) /\ Len(a) = i - 1
      /\ \A k \in 1 .. i - 1 : a[k] = s[k]
  OBVIOUS
<1>2. /\ c \in Seq(S) /\ Len(c) = Len(s) - i + 1
      /\ \A k \in 1 .. Len(s) - i + 1 : c[k] = s[i + k - 1]
  OBVIOUS
<1>. HIDE DEF a, c
<1>3. /\ t \in Seq(S) /\ Len(t) = i
      /\ \A k \in 1 .. i - 1 : t[k] = s[k]
      /\ t[i] = e
  BY <1>1
<1>. HIDE DEF t
<1>4. /\ u \in Seq(S) /\ Len(u) = Len(t) + Len(c)
      /\ \A k \in 1 .. Len(t) + Len(c) :
           u[k] = IF k <= Len(t) THEN t[k] ELSE c[k - Len(t)]
  BY <1>2, <1>3
<1>5. insert(s, i, e) = u
  BY DEF insert, a, c, t
<1>. HIDE DEF u
<1>6. Len(s) \in Nat /\ i \in Int
  OBVIOUS
<1>7. ASSUME NEW k \in 1 .. Len(s) + 1
      PROVE  u[k] = IF k < i THEN s[k] ELSE IF k = i THEN e ELSE s[k - 1]
  <2>1. u[k] = IF k <= i THEN t[k] ELSE c[k - i]
    BY <1>2, <1>3, <1>4, <1>6
  <2>2. k > i => c[k - i] = s[k - 1]
    <3>. SUFFICES ASSUME k > i PROVE c[k - i] = s[k - 1]
      OBVIOUS
    <3>1. k - i \in 1 .. Len(s) - i + 1 /\ i + (k - i) - 1 = k - 1
      BY <1>6
    <3>. QED
      BY <3>1, <1>2
  <2>. QED
    BY <2>1, <2>2, <1>3, <1>6
<1>. QED
  BY <1>2, <1>3, <1>4, <1>5, <1>6, <1>7

\* vector::erase (free): those after i move down by one, the others stay.
LEMMA EraseFacts ==
  ASSUME NEW S, NEW s \in Seq(S), NEW i \in 1 .. Len(s)
  PROVE  /\ erase(s, i) \in Seq(S)
         /\ Len(erase(s, i)) = Len(s) - 1
         /\ \A k \in 1 .. Len(s) - 1 :
              erase(s, i)[k] = IF k < i THEN s[k] ELSE s[k + 1]
<1>. DEFINE a == SubSeq(s, 1, i - 1)
            c == SubSeq(s, i + 1, Len(s))
            u == a \o c
<1>1. /\ a \in Seq(S) /\ Len(a) = i - 1
      /\ \A k \in 1 .. i - 1 : a[k] = s[k]
  OBVIOUS
<1>2. /\ c \in Seq(S) /\ Len(c) = Len(s) - i
      /\ \A k \in 1 .. Len(s) - i : c[k] = s[i + k]
  OBVIOUS
<1>. HIDE DEF a, c
<1>3. /\ u \in Seq(S) /\ Len(u) = Len(a) + Len(c)
      /\ \A k \in 1 .. Len(a) + Len(c) :
           u[k] = IF k <= Len(a) THEN a[k] ELSE c[k - Len(a)]
  BY <1>1, <1>2, ConcatFacts, Zenon
<1>4. erase(s, i) = u
  BY DEF erase, a, c
<1>. HIDE DEF u
<1>5. Len(s) \in Nat /\ i \in Int
  OBVIOUS
<1>6. ASSUME NEW k \in 1 .. Len(s) - 1
      PROVE  u[k] = IF k < i THEN s[k] ELSE s[k + 1]
  <2>1. u[k] = IF k < i THEN a[k] ELSE c[k - i + 1]
    <3>1. k - (i - 1) = k - i + 1 /\ (k <= i - 1 <=> k < i)
      BY <1>5
    <3>2. k \in 1 .. Len(a) + Len(c)
      BY <1>1, <1>2, <1>5
    <3>3. u[k] = IF k <= i - 1 THEN a[k] ELSE c[k - (i - 1)]
      BY <3>2, <1>1, <1>3
    <3>. QED
      BY <3>1, <3>3
  <2>2. k >= i => c[k - i + 1] = s[k + 1]
    <3>. SUFFICES ASSUME k >= i PROVE c[k - i + 1] = s[k + 1]
      OBVIOUS
    <3>1. k - i + 1 \in 1 .. Len(s) - i /\ i + (k - i + 1) = k + 1
      BY <1>5
    <3>. QED
      BY <3>1, <1>2
  <2>. QED
    BY <2>1, <2>2, <1>1, <1>5
<1>. QED
  BY <1>1, <1>2, <1>3, <1>4, <1>5, <1>6

----------------------------------------------------------------------------
(* The inductive invariant *)

\* Allocations are aligned and ordered, and do not overlap.
Ordered ==
  /\ \A i \in 1 .. Len(allocations) : allocations[i].offset % Alignment = 0
  /\ \A i, k \in 1 .. Len(allocations) :
       i < k => End(allocations[i]) <= allocations[k].offset

\* All of them end inside the pool, but for the one that exceeded it.
Inside ==
  /\ fatal = NoFatal =>
       \A i \in 1 .. Len(allocations) : End(allocations[i]) < PoolSize
  /\ \A b \in Buffers : held[b] # NoBuffer => End(held[b]) < PoolSize

Held == {b \in Buffers : held[b] # NoBuffer}

\* f gives every buffer that is held (H) an allocation of its own, at its offset
\* and no shorter than it.  Which one changes when free erases the allocation
\* of an empty buffer at the same offset.
Backs(f, H, buffer, A) ==
  /\ f \in [H -> 1 .. Len(A)]
  /\ \A b, c \in H : f[b] = f[c] => b = c
  /\ \A b \in H : /\ A[f[b]].offset = buffer[b].offset
                  /\ A[f[b]].length >= buffer[b].length

Backed == \E f : Backs(f, Held, held, allocations)

IInv ==
  /\ TypeOK /\ Ordered /\ Inside
  /\ Backed
  /\ fatal # BadFree

\* The fields of an allocation of the vector
LEMMA AllocationType ==
  ASSUME NEW s \in Seq(Allocation), NEW i \in 1 .. Len(s)
  PROVE  /\ s[i] \in Allocation /\ s[i].offset \in Nat /\ s[i].length \in Nat
         /\ End(s[i]) \in Nat /\ s[i].offset <= End(s[i])
<1>1. s[i] \in Allocation
  OBVIOUS
<1>2. \A a \in Allocation : a.offset \in Nat /\ a.length \in Nat
  BY DEF Allocation
<1>. QED
  BY <1>1, <1>2 DEF End

\* The gap before an allocation is not negative, so the unsigned subtraction
\* does not wrap around.
LEMMA GapFacts ==
  ASSUME TypeOK, Ordered, fatal = NoFatal, Inside, NEW i \in 1 .. Len(allocations)
  PROVE  /\ LowerEnd(i) \in Nat /\ Base(i) \in Nat
         /\ Base(i) >= LowerEnd(i) /\ Base(i) % Alignment = 0
         /\ Base(i) <= allocations[i].offset
         /\ \A size \in Sizes : Fits(i, size) <=>
                                  Base(i) + size <= allocations[i].offset
<1>t. allocations \in Seq(Allocation)
  BY DEF TypeOK
<1>1. allocations[i] \in Allocation /\ allocations[i].offset \in Nat
  BY <1>t, AllocationType
<1>2. LowerEnd(i) \in Nat /\ LowerEnd(i) <= allocations[i].offset
  <2>1. CASE i = 1
    BY <2>1, <1>1 DEF LowerEnd
  <2>2. CASE i # 1
    <3>1. i - 1 \in 1 .. Len(allocations) /\ i - 1 < i
      BY <2>2, <1>t
    <3>2. End(allocations[i - 1]) \in Nat
      BY <3>1, <1>t, AllocationType
    <3>. QED
      BY <2>2, <3>1, <3>2 DEF LowerEnd, Ordered
  <2>. QED
    BY <2>1, <2>2
<1>3. /\ Base(i) \in Nat /\ Base(i) >= LowerEnd(i) /\ Base(i) % Alignment = 0
      /\ Base(i) <= allocations[i].offset
  BY <1>1, <1>2, AlignFacts DEF Base, Ordered
<1>4. ASSUME NEW size \in Sizes
      PROVE  Fits(i, size) <=> Base(i) + size <= allocations[i].offset
  <2>1. allocations[i].offset < SizeT /\ size \in Nat /\ SizeT \in Nat
    <3>1. End(allocations[i]) < PoolSize /\ allocations[i].length \in Nat
      BY <1>t, AllocationType DEF Inside
    <3>. QED
      BY <3>1, <1>1, PoolAssumption DEF End
  <2>2. allocations[i].offset - Base(i) \in 0 .. SizeT - 1
    BY <2>1, <1>1, <1>3
  <2>3. (allocations[i].offset - Base(i)) % SizeT = allocations[i].offset - Base(i)
    <3>. DEFINE x == allocations[i].offset - Base(i)
    <3>. HIDE DEF x
    <3>1. \A y \in 0 .. SizeT - 1 : y % SizeT = y
      BY <2>1
    <3>. QED
      BY <3>1, <2>2
  <2>4. Fits(i, size) <=> allocations[i].offset - Base(i) >= size
    BY <2>3, Zenon DEF Fits
  <2>5. Base(i) \in Nat
    BY <1>3
  <2>. QED
    BY <2>1, <2>4, <2>5, <1>1
<1>. QED
  BY <1>2, <1>3, <1>4

\* Where a new allocation goes: between the allocation before its slot and the
\* one in it, aligned.
LEMMA SlotFacts ==
  ASSUME TypeOK, Ordered, Inside, fatal = NoFatal, NEW size \in Sizes,
         NEW i \in 1 .. Len(allocations) + 1, FirstFit(i, size)
  PROVE  /\ Base(i) \in Nat /\ Base(i) % Alignment = 0
         /\ Base(i) < LowerEnd(i) + Alignment /\ LowerEnd(i) \in Nat
         /\ \A k \in 1 .. Len(allocations) :
              /\ k < i => End(allocations[k]) <= Base(i)
              /\ k >= i => Base(i) + size <= allocations[k].offset
<1>. DEFINE n == Len(allocations)
<1>t. /\ allocations \in Seq(Allocation) /\ size \in Nat
      /\ n \in Nat /\ i \in 1 .. n + 1
  BY PoolAssumption DEF TypeOK
<1>1. /\ LowerEnd(i) \in Nat
      /\ \A k \in 1 .. n : k < i => End(allocations[k]) <= LowerEnd(i)
  <2>1. CASE i = 1
    BY <2>1, <1>t DEF LowerEnd
  <2>2. CASE i # 1
    <3>1. i - 1 \in 1 .. n /\ LowerEnd(i) = End(allocations[i - 1])
      BY <2>2, <1>t DEF LowerEnd
    <3>2. /\ allocations[i - 1].offset <= End(allocations[i - 1])
          /\ allocations[i - 1].offset \in Nat /\ End(allocations[i - 1]) \in Nat
      BY <3>1, <1>t, AllocationType
    <3>3. ASSUME NEW k \in 1 .. n, k < i
          PROVE  End(allocations[k]) <= LowerEnd(i)
      <4>1. CASE k = i - 1
        BY <4>1, <3>1, <3>2
      <4>2. CASE k < i - 1
        <5>1. End(allocations[k]) <= allocations[i - 1].offset
          BY <4>2, <3>1 DEF Ordered
        <5>2. End(allocations[k]) \in Nat
          BY <1>t, AllocationType
        <5>. QED
          BY <5>1, <5>2, <3>1, <3>2
      <4>. QED
        BY <4>1, <4>2, <3>3, <1>t
    <3>. QED
      BY <3>1, <3>2, <3>3
  <2>. QED
    BY <2>1, <2>2
<1>2. /\ Base(i) \in Nat /\ Base(i) >= LowerEnd(i) /\ Base(i) % Alignment = 0
      /\ Base(i) < LowerEnd(i) + Alignment
  BY <1>1, AlignFacts DEF Base
<1>3. ASSUME NEW k \in 1 .. n, k < i PROVE End(allocations[k]) <= Base(i)
  <2>1. End(allocations[k]) \in Nat /\ End(allocations[k]) <= LowerEnd(i)
    BY <1>1, <1>3, <1>t, AllocationType
  <2>. QED
    BY <2>1, <1>1, <1>2
<1>4. ASSUME NEW k \in 1 .. n, k >= i
      PROVE  Base(i) + size <= allocations[k].offset
  <2>1. i \in 1 .. n /\ Fits(i, size)
    BY <1>4, <1>t DEF FirstFit
  <2>2. Base(i) + size <= allocations[i].offset
    BY <2>1, GapFacts
  <2>3. CASE k = i
    BY <2>2, <2>3
  <2>4. CASE k > i
    <3>1. End(allocations[i]) <= allocations[k].offset
      BY <2>1, <2>4 DEF Ordered
    <3>2. /\ allocations[i].offset <= End(allocations[i])
          /\ allocations[i].offset \in Nat /\ End(allocations[i]) \in Nat
          /\ allocations[k].offset \in Nat
      BY <2>1, <1>t, AllocationType
    <3>3. Base(i) \in Nat /\ size \in Nat
      BY <1>2, <1>t
    <3>. QED
      BY <3>1, <3>2, <3>3, <2>2
  <2>. QED
    BY <2>3, <2>4, <1>4, <1>t
<1>. QED
  BY <1>1, <1>2, <1>3, <1>4

\* allocate keeps the invariant: the buffers after the slot are backed by the
\* next allocation, the new one by the one in the slot.
LEMMA AllocateStep ==
  ASSUME IInv, NEW b \in Buffers, NEW size \in Sizes, allocate(b, size)
  PROVE  IInv'
<1>. DEFINE A == allocations
            n == Len(allocations)
<1>t. /\ A \in Seq(Allocation) /\ size \in Nat /\ n \in Nat
      /\ held \in [Buffers -> Allocation \cup {NoBuffer}]
      /\ fatal = NoFatal /\ held[b] = NoBuffer
  BY PoolAssumption DEF IInv, TypeOK, allocate
<1>1. PICK i \in 1 .. n + 1 :
        /\ FirstFit(i, size)
        /\ allocations' = Inserted(i, [offset |-> Base(i), length |-> size])
        /\ IF End([offset |-> Base(i), length |-> size]) >= PoolSize
             THEN fatal' = size /\ UNCHANGED held
             ELSE /\ held' = [held EXCEPT
                                ![b] = [offset |-> Base(i), length |-> size]]
                  /\ UNCHANGED fatal
  BY DEF allocate
<1>. DEFINE alloc == [offset |-> Base(i), length |-> size]
<1>2. /\ Base(i) \in Nat /\ Base(i) % Alignment = 0
      /\ \A k \in 1 .. n : /\ k < i => End(A[k]) <= Base(i)
                           /\ k >= i => Base(i) + size <= A[k].offset
  BY <1>1, <1>t, SlotFacts DEF IInv
<1>3. /\ alloc \in Allocation /\ alloc.offset = Base(i) /\ alloc.length = size
      /\ End(alloc) = Base(i) + size
  BY <1>2, <1>t DEF Allocation, End
<1>. HIDE DEF alloc
<1>4. /\ allocations' \in Seq(Allocation) /\ Len(allocations') = n + 1
      /\ \A k \in 1 .. n + 1 :
           allocations'[k] = IF k < i THEN A[k] ELSE IF k = i THEN alloc
                                                     ELSE A[k - 1]
  <2>1. allocations' = insert(A, i, alloc)
    BY <1>1 DEF Inserted, alloc
  <2>2. /\ insert(A, i, alloc) \in Seq(Allocation)
        /\ Len(insert(A, i, alloc)) = n + 1
        /\ \A k \in 1 .. n + 1 :
             insert(A, i, alloc)[k] =
               IF k < i THEN A[k] ELSE IF k = i THEN alloc ELSE A[k - 1]
    BY <1>1, <1>3, <1>t, InsertFacts
  <2>. QED
    BY <2>1, <2>2
<1>5. /\ \/ fatal' = size /\ held' = held /\ End(alloc) >= PoolSize
         \/ /\ fatal' = NoFatal /\ held' = [held EXCEPT ![b] = alloc]
            /\ End(alloc) < PoolSize
  BY <1>1, <1>2, <1>3, <1>t, PoolAssumption DEF alloc
<1>6. \A k \in 1 .. n : /\ A[k].offset \in Nat /\ A[k].length \in Nat
                        /\ End(A[k]) \in Nat /\ A[k].offset <= End(A[k])
  BY <1>t, AllocationType
<1>7. TypeOK'
  BY <1>3, <1>4, <1>5, <1>t DEF TypeOK
<1>8. Ordered'
  <2>1. ASSUME NEW k \in 1 .. n + 1
        PROVE  allocations'[k].offset % Alignment = 0
    <3>o. \A x \in 1 .. n : A[x].offset % Alignment = 0
      BY DEF IInv, Ordered
    <3>1. CASE k = i
      BY <3>1, <1>2, <1>3, <1>4
    <3>2. CASE k < i
      <4>1. k \in 1 .. n /\ allocations'[k] = A[k]
        BY <3>2, <1>4, <1>1, <1>t
      <4>. QED
        BY <4>1, <3>o
    <3>3. CASE k > i
      <4>1. k - 1 \in 1 .. n /\ allocations'[k] = A[k - 1]
        BY <3>3, <1>1, <1>4, <1>t
      <4>. QED
        BY <4>1, <3>o
    <3>. QED
      BY <3>1, <3>2, <3>3, <1>t
  <2>2. ASSUME NEW k \in 1 .. n + 1, NEW l \in 1 .. n + 1, k < l
        PROVE  End(allocations'[k]) <= allocations'[l].offset
    <3>o. \A x, y \in 1 .. n : x < y => End(A[x]) <= A[y].offset
      BY DEF IInv, Ordered
    <3>1. CASE l < i
      <4>1. /\ k \in 1 .. n /\ l \in 1 .. n
            /\ allocations'[k] = A[k] /\ allocations'[l] = A[l]
        BY <3>1, <2>2, <1>4, <1>1, <1>t
      <4>. QED
        BY <4>1, <3>o, <2>2
    <3>2. CASE l = i
      <4>1. k \in 1 .. n /\ k < i /\ allocations'[k] = A[k] /\ allocations'[l] = alloc
        BY <3>2, <2>2, <1>4, <1>1, <1>t
      <4>2. End(A[k]) <= Base(i)
        BY <4>1, <1>2, Zenon
      <4>. QED
        BY <4>1, <4>2, <1>3, Zenon
    <3>3. CASE l > i
      <4>1. l - 1 \in 1 .. n /\ allocations'[l] = A[l - 1] /\ l - 1 >= i
        BY <3>3, <1>1, <1>4, <1>t
      <4>2. CASE k < i
        <5>1. k \in 1 .. n /\ k < l - 1 /\ allocations'[k] = A[k]
          BY <4>1, <4>2, <1>4, <1>1, <1>t
        <5>. QED
          BY <4>1, <5>1, <3>o, Zenon
      <4>3. CASE k = i
        BY <4>1, <4>3, <1>2, <1>3, <1>4
      <4>4. CASE k > i
        <5>1. k - 1 \in 1 .. n /\ k - 1 < l - 1
          BY <4>4, <2>2, <1>1, <1>t
        <5>2. allocations'[k] = A[k - 1]
          BY <4>4, <1>1, <1>4, <1>t
        <5>. QED
          BY <5>1, <5>2, <4>1, <3>o
      <4>. QED
        BY <4>2, <4>3, <4>4, <1>t
    <3>. QED
      BY <3>1, <3>2, <3>3, <1>t
  <2>. QED
    BY <2>1, <2>2, <1>4 DEF Ordered
<1>9. Inside'
  <2>1. ASSUME fatal' = NoFatal, NEW k \in 1 .. n + 1
        PROVE  End(allocations'[k]) < PoolSize
    <3>0. \A x \in 1 .. n : End(A[x]) < PoolSize
      BY <1>t DEF IInv, Inside
    <3>1. CASE k = i
      BY <3>1, <2>1, <1>3, <1>4, <1>5, <1>t DEF NoFatal
    <3>2. CASE k < i
      BY <3>0, <3>2, <1>4, <1>1, <1>t
    <3>3. CASE k > i
      <4>1. k - 1 \in 1 .. n
        BY <3>3, <1>1, <1>t
      <4>2. allocations'[k] = A[k - 1]
        BY <3>3, <1>1, <1>4, <1>t
      <4>. QED
        BY <4>1, <4>2, <3>0
    <3>. QED
      BY <3>1, <3>2, <3>3, <1>t
  <2>2. ASSUME NEW x \in Buffers, held'[x] # NoBuffer
        PROVE  End(held'[x]) < PoolSize
    BY <2>2, <1>5, <1>t DEF IInv, Inside
  <2>. QED
    BY <2>1, <2>2, <1>4 DEF Inside
<1>10. Backed'
  <2>1. PICK f : Backs(f, Held, held, allocations)
    BY DEF IInv, Backed
  <2>. DEFINE up(k) == IF k < i THEN k ELSE k + 1
              g == [x \in Held' |-> IF x = b THEN i ELSE up(f[x])]
  <2>2. \A x \in Held' : x # b => x \in Held /\ held'[x] = held[x]
    BY <1>5, <1>t DEF Held
  <2>3. b \in Held' => held'[b] = alloc
    BY <1>5, <1>t DEF Held
  <2>4. \A x \in Held : f[x] \in 1 .. n
    BY <2>1 DEF Backs
  <2>5. \A k \in 1 .. n : up(k) \in 1 .. n + 1 /\ up(k) # i
                          /\ allocations'[up(k)] = A[k]
    <3>. TAKE k \in 1 .. n
    <3>1. CASE k < i
      BY <3>1, <1>1, <1>4, <1>t
    <3>2. CASE k >= i
      <4>1. k + 1 \in 1 .. n + 1 /\ k + 1 > i /\ (k + 1) - 1 = k
        BY <3>2, <1>1, <1>t
      <4>. QED
        BY <4>1, <3>2, <1>4, <1>t
    <3>. QED
      BY <3>1, <3>2, <1>t
  <2>6. \A k, l \in 1 .. n : up(k) = up(l) => k = l
    BY <1>1, <1>t
  <2>. HIDE DEF up
  <2>7. g \in [Held' -> 1 .. Len(allocations')]
    BY <2>2, <2>4, <2>5, <1>1, <1>4
  <2>8. ASSUME NEW x \in Held', NEW y \in Held', g[x] = g[y] PROVE x = y
    <3>1. CASE x = b \/ y = b
      BY <3>1, <2>2, <2>4, <2>5, <2>8
    <3>2. CASE x # b /\ y # b
      <4>1. f[x] = f[y] /\ x \in Held /\ y \in Held
        BY <3>2, <2>2, <2>4, <2>6, <2>8
      <4>. QED
        BY <4>1, <2>1 DEF Backs
    <3>. QED
      BY <3>1, <3>2
  <2>9. ASSUME NEW x \in Held'
        PROVE  /\ allocations'[g[x]].offset = held'[x].offset
               /\ allocations'[g[x]].length >= held'[x].length
    <3>1. CASE x = b
      BY <3>1, <2>3, <1>1, <1>3, <1>4, <1>t
    <3>2. CASE x # b
      <4>1. allocations'[g[x]] = A[f[x]] /\ x \in Held /\ held'[x] = held[x]
        BY <3>2, <2>2, <2>4, <2>5
      <4>. QED
        BY <4>1, <2>1 DEF Backs
    <3>. QED
      BY <3>1, <3>2
  <2>. HIDE DEF g
  <2>10. Backs(g, Held', held', allocations')
    BY <2>7, <2>8, <2>9 DEF Backs
  <2>. QED
    BY <2>10 DEF Backed
<1>11. fatal' # BadFree
  BY <1>5, <1>t DEF NoFatal, BadFree
<1>. QED
  BY <1>7, <1>8, <1>9, <1>10, <1>11 DEF IInv

\* free keeps the invariant.  When it erases the allocation i of another
\* buffer at the same offset, that buffer is empty, and takes over the
\* allocation of the buffer that is freed.
LEMMA FreeStep ==
  ASSUME IInv, NEW b \in Buffers, free(b)
  PROVE  IInv'
<1>. DEFINE A == allocations
            n == Len(allocations)
<1>t. /\ A \in Seq(Allocation) /\ n \in Nat /\ DOMAIN A = 1 .. n
      /\ held \in [Buffers -> Allocation \cup {NoBuffer}]
      /\ fatal = NoFatal /\ b \in Held
      /\ held' = [held EXCEPT ![b] = NoBuffer]
  BY DEF IInv, TypeOK, free, Held
<1>f. PICK f : Backs(f, Held, held, allocations)
  BY DEF IInv, Backed
<1>. DEFINE j == f[b]
<1>j. /\ j \in 1 .. n /\ A[j].offset = held[b].offset
      /\ A[j].length >= held[b].length
  BY <1>f, <1>t DEF Backs
<1>1. j \in find_buffer(held[b].offset)
  BY <1>j, <1>t DEF find_buffer
<1>2. PICK i \in find_buffer(held[b].offset) :
        /\ \A k \in find_buffer(held[b].offset) : i <= k
        /\ allocations' = erase(allocations, i)
        /\ UNCHANGED fatal
  BY <1>1 DEF free
<1>. HIDE DEF j
<1>3. i \in 1 .. n /\ i <= j /\ A[i].offset = A[j].offset
  <2>1. i \in DOMAIN A /\ A[i].offset = held[b].offset /\ i <= j
    BY <1>1, <1>2, Zenon DEF find_buffer
  <2>. QED
    BY <2>1, <1>j, <1>t, Zenon
<1>4. /\ allocations' \in Seq(Allocation) /\ Len(allocations') = n - 1
      /\ \A k \in 1 .. n - 1 :
           allocations'[k] = IF k < i THEN A[k] ELSE A[k + 1]
  BY <1>2, <1>3, <1>t, EraseFacts, Zenon
<1>6. \A k \in 1 .. n : /\ A[k].offset \in Nat /\ A[k].length \in Nat
                        /\ End(A[k]) \in Nat
  BY <1>t, AllocationType
<1>. DEFINE from(k) == IF k < i THEN k ELSE k + 1
<1>5. \A k \in 1 .. n - 1 : from(k) \in 1 .. n /\ allocations'[k] = A[from(k)]
  BY <1>3, <1>4, <1>t
<1>7. TypeOK'
  BY <1>2, <1>4, <1>t DEF IInv, TypeOK
<1>8. Ordered'
  <2>1. \A k, l \in 1 .. n - 1 : k < l => from(k) < from(l)
    BY <1>3, <1>t
  <2>. HIDE DEF from
  <2>2. /\ \A k \in 1 .. n - 1 : allocations'[k].offset % Alignment = 0
        /\ \A k, l \in 1 .. n - 1 :
             k < l => End(allocations'[k]) <= allocations'[l].offset
    BY <2>1, <1>5, Zenon DEF IInv, Ordered
  <2>3. Len(allocations') = n - 1
    BY <1>4
  <2>. QED
    BY <2>2, <2>3 DEF Ordered
<1>9. Inside'
  <2>. HIDE DEF from
  <2>1. \A k \in 1 .. n - 1 : End(allocations'[k]) < PoolSize
    BY <1>5, <1>t DEF IInv, Inside
  <2>2. \A x \in Buffers : held'[x] # NoBuffer => End(held'[x]) < PoolSize
    BY <1>t DEF IInv, Inside
  <2>. QED
    BY <2>1, <2>2, <1>4 DEF Inside
<1>10. Backed'
  <2>. DEFINE at(x) == IF f[x] = i THEN j ELSE f[x]
              down(k) == IF k < i THEN k ELSE k - 1
              g == [x \in Held' |-> down(at(x))]
  <2>1. \A x \in Held' : x \in Held /\ x # b /\ held'[x] = held[x]
    BY <1>t DEF Held
  <2>2. \A x \in Held : f[x] \in 1 .. n
    BY <1>f DEF Backs
  <2>3. \A x \in Held' : f[x] # j
    BY <2>1, <1>f, <1>t DEF Backs, j
  <2>4. \A x \in Held' : at(x) \in 1 .. n /\ at(x) # i
    BY <2>1, <2>2, <2>3, <1>j
  <2>5. \A x, y \in Held' : at(x) = at(y) => x = y
    <3>1. \A x, y \in Held' : f[x] = f[y] => x = y
      BY <2>1, <1>f DEF Backs
    <3>. QED
      BY <3>1, <2>3
  <2>6. ASSUME NEW x \in Held'
        PROVE  /\ A[at(x)].offset = held'[x].offset
               /\ A[at(x)].length >= held'[x].length
    <3>1. /\ A[f[x]].offset = held'[x].offset
          /\ A[f[x]].length >= held'[x].length
          /\ held'[x].length \in Nat /\ f[x] \in 1 .. n
      <4>1. x \in Held /\ held'[x] = held[x] /\ held[x] \in Allocation
        BY <2>1, <1>t DEF Held
      <4>. QED
        BY <4>1, <1>f DEF Backs, Allocation
    <3>2. CASE f[x] # i
      BY <3>1, <3>2
    <3>3. CASE f[x] = i
      <4>1. i < j
        BY <3>3, <2>3, <1>3, <1>j
      <4>2. End(A[i]) <= A[j].offset
        BY <4>1, <1>3, <1>j DEF IInv, Ordered
      <4>3. A[i].length = 0
        BY <4>2, <1>3, <1>6, <1>j DEF End
      <4>. QED
        BY <4>3, <3>1, <3>3, <1>3, <1>6, <1>j
    <3>. QED
      BY <3>2, <3>3
  <2>. HIDE DEF at
  <2>7. /\ \A k \in 1 .. n : k # i => down(k) \in 1 .. n - 1
        /\ \A k, l \in 1 .. n : k # i /\ l # i /\ down(k) = down(l) => k = l
        /\ \A k \in 1 .. n : k # i => from(down(k)) = k
    BY <1>3, <1>t
  <2>. HIDE DEF down, from
  <2>8. g \in [Held' -> 1 .. Len(allocations')]
    BY <2>4, <2>7, <1>4
  <2>9. \A x, y \in Held' : g[x] = g[y] => x = y
    BY <2>4, <2>5, <2>7
  <2>10. \A x \in Held' : /\ allocations'[g[x]].offset = held'[x].offset
                          /\ allocations'[g[x]].length >= held'[x].length
    <3>1. \A x \in Held' : allocations'[g[x]] = A[at(x)]
      BY <2>4, <2>7, <1>5
    <3>. QED
      BY <3>1, <2>6
  <2>. HIDE DEF g
  <2>11. Backs(g, Held', held', allocations')
    BY <2>8, <2>9, <2>10 DEF Backs
  <2>. QED
    BY <2>11 DEF Backed
<1>. QED
  BY <1>2, <1>7, <1>8, <1>9, <1>10 DEF IInv

\* The invariant says what the properties promise of the buffers.
LEMMA IInvDisjoint == IInv => BuffersDisjoint
<1>. SUFFICES ASSUME IInv, NEW b \in Buffers, held[b] # NoBuffer
              PROVE  /\ held[b].offset % Alignment = 0
                     /\ End(held[b]) < PoolSize
                     /\ \A c \in Buffers \ {b} :
                          held[c] # NoBuffer =>
                            \/ held[b].length = 0 \/ held[c].length = 0
                            \/ End(held[b]) <= held[c].offset
                            \/ End(held[c]) <= held[b].offset
  BY DEF BuffersDisjoint
<1>f. PICK f : Backs(f, Held, held, allocations)
  BY DEF IInv, Backed
<1>t. /\ allocations \in Seq(Allocation)
      /\ \A c \in Held : /\ held[c] \in Allocation /\ f[c] \in 1 .. Len(allocations)
                         /\ allocations[f[c]].offset = held[c].offset
                         /\ allocations[f[c]].length >= held[c].length
  BY <1>f DEF IInv, TypeOK, Backs, Held
<1>1. b \in Held
  BY DEF Held
<1>2. held[b].offset % Alignment = 0
  BY <1>1, <1>t DEF IInv, Ordered
<1>3. End(held[b]) < PoolSize
  BY DEF IInv, Inside
<1>4. ASSUME NEW c \in Buffers \ {b}, held[c] # NoBuffer
      PROVE  End(held[b]) <= held[c].offset \/ End(held[c]) <= held[b].offset
  <2>1. c \in Held /\ f[b] # f[c]
    BY <1>1, <1>4, <1>f DEF Held, Backs
  <2>2. \A x \in Held : End(held[x]) <= End(allocations[f[x]])
    <3>. TAKE x \in Held
    <3>1. held[x].offset \in Nat /\ held[x].length \in Nat
      BY <1>t DEF Allocation
    <3>2. allocations[f[x]].length \in Nat
      BY <1>t, AllocationType
    <3>. QED
      BY <3>1, <3>2, <1>t DEF End
  <2>3. ASSUME NEW x \in Held, NEW y \in Held, f[x] < f[y]
        PROVE  End(held[x]) <= held[y].offset
    <3>1. End(allocations[f[x]]) <= allocations[f[y]].offset
      BY <2>3, <1>t DEF IInv, Ordered
    <3>2. /\ End(allocations[f[x]]) \in Nat /\ held[y].offset \in Nat
          /\ End(held[x]) \in Nat
      <4>1. End(allocations[f[x]]) \in Nat
        BY <1>t, AllocationType
      <4>2. \A z \in Held : held[z].offset \in Nat /\ held[z].length \in Nat
        BY <1>t DEF Allocation
      <4>. QED
        BY <4>1, <4>2 DEF End
    <3>. QED
      BY <3>1, <3>2, <2>2, <1>t
  <2>4. f[b] \in Nat /\ f[c] \in Nat
    BY <2>1, <1>1, <1>t
  <2>. QED
    BY <2>1, <2>3, <2>4, <1>1
<1>. QED
  BY <1>2, <1>3, <1>4

----------------------------------------------------------------------------
(* The least number principle *)

\* A set of natural numbers that is not empty has a least element.
LEMMA LeastNat ==
  ASSUME NEW T \in SUBSET Nat, T # {}
  PROVE  \E x \in T : \A y \in T : x <= y
<1>. DEFINE R == OpToRel(<, Nat)
<1>1. IsWellFoundedOn(R, Nat)
  BY NatLessThanWellFounded
<1>2. \A x, y \in Nat : <<x, y>> \in R <=> x < y
  BY DEF OpToRel
<1>. HIDE DEF R
<1>3. PICK x \in T : \A y \in T : ~(<<y, x>> \in R)
  BY <1>1, WFMin, Zenon
<1>4. ASSUME NEW y \in T
      PROVE  x <= y
  <2>1. x \in Nat /\ y \in Nat
    OBVIOUS
  <2>2. ~(y < x)
    BY <2>1, <1>2, <1>3, Zenon
  <2>. QED
    BY <2>1, <2>2
<1>. QED
  BY <1>4

----------------------------------------------------------------------------
(* The pool is full when allocate says so *)

\* The failed allocation was added at the end, and a range that meets no older
\* one would lie in a gap: consider the first allocation that ends after o.
LEMMA FullStep ==
  ASSUME IInv, NEW b \in Buffers, NEW size \in Sizes, allocate(b, size),
         fatal' \in Sizes,
         NEW o \in 0 .. PoolSize - 1, o % Alignment = 0, o + fatal' < PoolSize
  PROVE  \E k \in 1 .. Len(allocations') - 1 :
           allocations'[k].offset < o + fatal' /\ o < End(allocations'[k])
<1>. DEFINE A == allocations
            n == Len(allocations)
<1>t. /\ A \in Seq(Allocation) /\ size \in Nat /\ n \in Nat
      /\ fatal = NoFatal /\ fatal \notin Sizes /\ PoolSize \in Nat
      /\ o \in Nat
  BY PoolAssumption DEF IInv, TypeOK, allocate, NoFatal
<1>1. PICK i \in 1 .. n + 1 :
        /\ FirstFit(i, size)
        /\ allocations' = Inserted(i, [offset |-> Base(i), length |-> size])
        /\ IF End([offset |-> Base(i), length |-> size]) >= PoolSize
             THEN fatal' = size ELSE UNCHANGED fatal
  BY DEF allocate
<1>2. fatal' = size /\ Base(i) + size >= PoolSize
  BY <1>1, <1>t DEF End
<1>3. /\ Base(i) \in Nat
      /\ i \in 1 .. n => Base(i) + size <= A[i].offset
  BY <1>1, <1>t, SlotFacts DEF IInv
<1>4. i = n + 1
  <2>. SUFFICES ASSUME i \in 1 .. n
                PROVE  FALSE
    BY <1>1, <1>t
  <2>1. A[i].offset <= End(A[i]) /\ A[i].offset \in Nat /\ End(A[i]) \in Nat
    BY <1>t, AllocationType
  <2>2. End(A[i]) < PoolSize
    BY <1>t DEF IInv, Inside
  <2>. QED
    BY <2>1, <2>2, <1>2, <1>3, <1>t
<1>5. /\ Len(allocations') = n + 1
      /\ \A k \in 1 .. n : allocations'[k] = A[k]
  <2>. DEFINE alloc == [offset |-> Base(i), length |-> size]
  <2>1. alloc \in Allocation
    BY <1>3, <1>t DEF Allocation
  <2>2. allocations' = insert(A, i, alloc)
    BY <1>1 DEF Inserted
  <2>. HIDE DEF alloc
  <2>3. /\ Len(insert(A, i, alloc)) = n + 1
        /\ \A k \in 1 .. n + 1 :
             insert(A, i, alloc)[k] =
               IF k < i THEN A[k] ELSE IF k = i THEN alloc ELSE A[k - 1]
    BY <2>1, <1>1, <1>t, InsertFacts
  <2>. QED
    BY <2>2, <2>3, <1>4, <1>t
<1>. DEFINE T == {k \in 1 .. n : o < End(A[k])}
<1>6. T # {}
  <2>1. o < Base(n + 1)
    BY <1>2, <1>3, <1>4, <1>t
  <2>2. CASE n = 0
    <3>1. LowerEnd(n + 1) = 0
      BY <2>2 DEF LowerEnd
    <3>2. Base(n + 1) <= o
      BY <3>1, <1>t, AlignFacts DEF Base
    <3>. QED
      BY <3>2, <2>1, <1>3, <1>4, <1>t
  <2>3. CASE n # 0
    <3>1. n \in 1 .. n /\ LowerEnd(n + 1) = End(A[n])
      BY <2>3, <1>t DEF LowerEnd
    <3>2. End(A[n]) \in Nat
      BY <3>1, <1>t, AllocationType
    <3>3. o >= End(A[n]) => o >= Base(n + 1)
      BY <3>1, <3>2, <1>t, AlignFacts, Zenon DEF Base
    <3>4. o < End(A[n])
      BY <3>2, <3>3, <2>1, <1>3, <1>4, <1>t
    <3>. QED
      BY <3>1, <3>4
  <2>. QED
    BY <2>2, <2>3
<1>7. PICK k \in T : \A l \in T : k <= l
  <2>1. T \in SUBSET Nat
    BY <1>t
  <2>. HIDE DEF T
  <2>. QED
    BY <2>1, <1>6, LeastNat
<1>8. /\ LowerEnd(k) \in Nat /\ Base(k) \in Nat
      /\ ~(Base(k) + size <= A[k].offset)
  <2>1. ~Fits(k, size)
    BY <1>1, <1>4, <1>t DEF FirstFit
  <2>. QED
    BY <2>1, <1>t, GapFacts DEF IInv
<1>9. LowerEnd(k) <= o
  <2>1. CASE k = 1
    BY <2>1, <1>t DEF LowerEnd
  <2>2. CASE k # 1
    <3>1. k - 1 \in 1 .. n /\ k - 1 \notin T
      BY <2>2, <1>7, <1>t
    <3>2. End(A[k - 1]) \in Nat /\ ~(o < End(A[k - 1]))
      <4>1. End(A[k - 1]) \in Nat
        BY <3>1, <1>t, AllocationType, Zenon
      <4>2. ~(o < End(A[k - 1]))
        BY <3>1, Zenon
      <4>. QED
        BY <4>1, <4>2
    <3>. QED
      BY <3>2, <2>2, <1>t DEF LowerEnd
  <2>. QED
    BY <2>1, <2>2
<1>10. Base(k) <= o
  <2>1. o >= LowerEnd(k)
    BY <1>8, <1>9, <1>t
  <2>2. o >= align(LowerEnd(k))
    BY <2>1, <1>8, <1>t, AlignFacts, Zenon
  <2>. QED
    BY <2>2, <1>8, <1>t DEF Base
<1>11. A[k].offset < o + size
  <2>1. A[k].offset \in Nat
    BY <1>t, AllocationType
  <2>. QED
    BY <2>1, <1>8, <1>10, <1>t
<1>. QED
  BY <1>2, <1>5, <1>11, <1>t

----------------------------------------------------------------------------
(* Theorems *)

\* The pool starts empty.
LEMMA PoolInit == Init => IInv
<1>. SUFFICES ASSUME Init
              PROVE  IInv
  OBVIOUS
<1>1. TypeOK
  BY DEF Init, TypeOK, NoBuffer
<1>2. Ordered /\ Inside
  BY DEF Init, Ordered, Inside
<1>3. Backed
  <2>1. Held = {}
    BY DEF Init, Held
  <2>2. Backs([b \in {} |-> 1], {}, held, allocations)
    BY DEF Backs
  <2>. QED
    BY <2>1, <2>2 DEF Backed
<1>. QED
  BY <1>1, <1>2, <1>3 DEF IInv, Init, NoFatal, BadFree

\* A step that leaves the pool alone
LEMMA PoolUnchanged ==
  ASSUME IInv, UNCHANGED vars
  PROVE  IInv'
BY Zenon DEF IInv, TypeOK, Ordered, Inside, Backed, Backs, Held, vars, End

\* The invariant holds in every reachable state.
THEOREM Invariance == Spec => [](IInv /\ FatalOnlyWhenFull)
<1>1. Init => IInv
  BY PoolInit
<1>2. Init => FatalOnlyWhenFull
  BY PoolAssumption DEF Init, FatalOnlyWhenFull, NoFatal
<1>3. IInv /\ [Next]_vars => IInv'
  <2>. SUFFICES ASSUME IInv, [Next]_vars
                PROVE  IInv'
    OBVIOUS
  <2>1. CASE UNCHANGED vars
    BY <2>1, PoolUnchanged
  <2>. QED
    BY <2>1, AllocateStep, FreeStep DEF Next
<1>4. IInv /\ FatalOnlyWhenFull /\ [Next]_vars => FatalOnlyWhenFull'
  <2>. SUFFICES ASSUME IInv, FatalOnlyWhenFull, [Next]_vars
                PROVE  FatalOnlyWhenFull'
    OBVIOUS
  <2>1. CASE UNCHANGED vars
    BY <2>1 DEF vars, FatalOnlyWhenFull
  <2>2. ASSUME NEW b \in Buffers, free(b)
        PROVE  FatalOnlyWhenFull'
    <3>1. fatal' \notin Sizes
      BY <2>2, PoolAssumption DEF free, NoFatal, BadFree
    <3>. QED
      BY <3>1 DEF FatalOnlyWhenFull
  <2>3. ASSUME NEW b \in Buffers, NEW size \in Sizes, allocate(b, size)
        PROVE  FatalOnlyWhenFull'
    BY <2>3, FullStep DEF FatalOnlyWhenFull
  <2>. QED
    BY <2>1, <2>2, <2>3 DEF Next
<1>. QED
  BY <1>1, <1>2, <1>3, <1>4, PTL DEF Spec

\* Type correctness of the allocator
THEOREM TypeCorrect == Spec => []TypeOK
<1>1. IInv => TypeOK
  BY DEF IInv
<1>. QED
  BY <1>1, Invariance, PTL

\* Two buffers that allocate handed out never overlap.
THEOREM DisjointBuffers == Spec => []BuffersDisjoint
BY IInvDisjoint, Invariance, PTL

\* The unsigned subtraction of allocate never wraps: the aligned end of an
\* allocation is not past the next one.
THEOREM NonNegativeGaps == Spec => []GapsNotNegative
<1>1. IInv => GapsNotNegative
  <2>. SUFFICES ASSUME IInv, fatal = NoFatal, NEW i \in DOMAIN allocations
                PROVE  Base(i) <= allocations[i].offset
    BY DEF GapsNotNegative
  <2>1. i \in 1 .. Len(allocations)
    BY DEF IInv, TypeOK
  <2>. QED
    BY <2>1, GapFacts DEF IInv
<1>. QED
  BY <1>1, Invariance, PTL

\* free finds every buffer that is held.
THEOREM FreeSucceeds == Spec => []HeldCanBeFreed
<1>1. IInv => HeldCanBeFreed
  BY DEF IInv, HeldCanBeFreed
<1>. QED
  BY <1>1, Invariance, PTL

\* allocate ends the process only when no aligned range is left.
THEOREM FullWhenFatal == Spec => []FatalOnlyWhenFull
BY Invariance, PTL

=============================================================================
