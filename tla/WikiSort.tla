----------------------------- MODULE WikiSort -----------------------------
(***************************************************************************)
(* model/bench/embench/libwikisort.c: a bottom-up merge sort that merges   *)
(* in place.  Ranges that fit into a cache of CacheSize items are merged   *)
(* with it; for the others the sort pulls buffers of distinct values out   *)
(* of the data, rolls blocks of A through B and merges locally.            *)
(* An item is a record of its value and of the index it had at first.  The *)
(* array and the cache travel together as s.a and s.c: what a step leaves  *)
(* in the cache is what a later step finds there.                          *)
(***************************************************************************)
EXTENDS Integers, Sequences, FiniteSets
LOCAL INSTANCE SequencesExt
LOCAL INSTANCE FiniteSetsExt

CONSTANT CacheSize      \* CACHE_SIZE

Less(x, y) == x.value < y.value                             \* TestCompare
Differ(x, y) == Less(x, y) \/ Less(y, x)

Span(from, to) == [start |-> from, end |-> to]              \* MakeRange
Length(r) == r.end - r.start                                \* Range_length

Swapped(a, i, j) == [a EXCEPT ![i] = a[j], ![j] = a[i]]

Copied(dst, at, src, from, n) ==                            \* memcpy
  [k \in DOMAIN dst |-> IF k \in at..(at + n - 1) THEN src[from + k - at] ELSE dst[k]]

UpTo(from, to) == [i \in 1..(to - from + 1) |-> from + i - 1]

FloorPowerOfTwo(n) == 2 ^ Max({k \in 0..30 : 2 ^ k <= n})

SquareRoot(n) == Max({k \in 0..n : k * k <= n})             \* external: sqrt()

-----------------------------------------------------------------------------
(* Binary searches: the first place in r that is not before item x, and     *)
(* the place behind the last one that x is not before.                      *)
RECURSIVE Bisect(_, _, _)
Bisect(before, from, to) ==
  IF from >= to THEN from
  ELSE LET mid == from + (to - from) \div 2
       IN  IF before[mid] THEN Bisect(before, mid + 1, to) ELSE Bisect(before, from, mid)

BisectEnd(before, r) ==
  LET at == Bisect(before, r.start, r.end - 1)
  IN  IF at = r.end - 1 /\ before[at] THEN at + 1 ELSE at

BinaryFirst(a, x, r) ==
  BisectEnd([k \in r.start..(r.end - 1) |-> Less(a[k], a[x])], r)

BinaryLast(a, x, r) ==
  BisectEnd([k \in r.start..(r.end - 1) |-> ~Less(a[x], a[k])], r)

(* One turn of the insertion sort: item i moves in front of all items that  *)
(* directly precede it and are greater.                                     *)
(* Mutant: it moves in front of the equal ones too.                         *)
InsertedInFront(a, first, i) ==
  LET j == Min({k \in first..i : \A m \in k..(i - 1) : ~Less(a[m], a[i])})
  IN  [k \in DOMAIN a |-> IF k = j THEN a[i] ELSE IF k \in (j + 1)..i THEN a[k - 1] ELSE a[k]]

Inserted(a, first, i) ==
  LET j == Min({k \in first..i : \A m \in k..(i - 1) : Less(a[i], a[m])})
  IN  [k \in DOMAIN a |-> IF k = j THEN a[i] ELSE IF k \in (j + 1)..i THEN a[k - 1] ELSE a[k]]

InsertionSort(a, r) ==
  FoldLeft(LAMBDA b, i : Inserted(b, r.start, i), a, UpTo(r.start + 1, r.end - 1))

ReverseRange(a, r) ==
  [k \in DOMAIN a |-> IF k \in r.start..(r.end - 1) THEN a[r.start + r.end - 1 - k] ELSE a[k]]

BlockSwap(a, start1, start2, n) ==
  FoldLeft(LAMBDA b, i : Swapped(b, start1 + i, start2 + i), a, UpTo(0, n - 1))

(* Rotates the range r by amount, through the cache if the smaller part     *)
(* fits into its first `size` items, else by three reversals.               *)
Rotate(s, amount, r, size) ==
  LET split == IF amount >= 0 THEN r.start + amount ELSE r.end + amount
      n1 == split - r.start
      n2 == r.end - split
      moved1 == Copied(s.a, r.start, s.a, split, n2)
      moved2 == Copied(s.a, r.end - n1, s.a, r.start, n1)
      cache1 == Copied(s.c, 0, s.a, r.start, n1)
      cache2 == Copied(s.c, 0, s.a, split, n2)
  IN  CASE Length(r) = 0 -> s
        [] Length(r) # 0 /\ n1 <= n2 /\ n1 <= size ->
             [a |-> Copied(moved1, r.start + n2, cache1, 0, n1), c |-> cache1]
        [] Length(r) # 0 /\ n1 > n2 /\ n2 <= size ->
             [a |-> Copied(moved2, r.start, cache2, 0, n2), c |-> cache2]
        [] OTHER ->
             [s EXCEPT !.a = ReverseRange(ReverseRange(ReverseRange(@,
                               Span(r.start, split)), Span(split, r.end)), r)]

-----------------------------------------------------------------------------
(* WikiMerge: merges A, whose items are in the cache or in the buffer, with *)
(* B into the place of A.  i and j count what has been taken from each.     *)
RECURSIVE CacheMerge(_, _, _, _, _)
CacheMerge(s, A, B, i, j) ==
  IF i = Length(A) \/ j = Length(B)
  THEN [s EXCEPT !.a = Copied(@, A.start + i + j, s.c, i, Length(A) - i)]
  ELSE IF ~Less(s.a[B.start + j], s.c[i])
       THEN CacheMerge([s EXCEPT !.a[A.start + i + j] = s.c[i]], A, B, i + 1, j)
       ELSE CacheMerge([s EXCEPT !.a[A.start + i + j] = s.a[B.start + j]], A, B, i, j + 1)

RECURSIVE BufferMerge(_, _, _, _, _, _)
BufferMerge(s, buffer, A, B, i, j) ==
  IF i >= Length(A) \/ j >= Length(B)
  THEN [s EXCEPT !.a = BlockSwap(@, buffer.start + i, A.start + i + j, Length(A) - i)]
  ELSE IF ~Less(s.a[B.start + j], s.a[buffer.start + i])
       THEN BufferMerge([s EXCEPT !.a = Swapped(@, A.start + i + j, buffer.start + i)],
                        buffer, A, B, i + 1, j)
       ELSE BufferMerge([s EXCEPT !.a = Swapped(@, A.start + i + j, B.start + j)],
                        buffer, A, B, i, j + 1)

WikiMerge(s, buffer, A, B) ==
  IF Length(A) <= CacheSize THEN CacheMerge(s, A, B, 0, 0)
                            ELSE BufferMerge(s, buffer, A, B, 0, 0)

-----------------------------------------------------------------------------
(* Buffers.  A scan counts items that differ from their neighbour until it  *)
(* has seen as many as it needs; the range it returns begins where it       *)
(* stopped and is as long as its count.                                     *)
RECURSIVE ScanUp(_, _, _, _, _)
ScanUp(a, k, to, count, need) ==
  IF k >= to THEN Span(k, k + count)
  ELSE LET n == count + (IF Differ(a[k - 1], a[k]) THEN 1 ELSE 0)
       IN  IF n = need /\ n # count THEN Span(k, k + n) ELSE ScanUp(a, k + 1, to, n, need)

RECURSIVE ScanDown(_, _, _, _, _)
ScanDown(a, k, to, count, need) ==
  IF k < to THEN Span(k, k + count)
  ELSE LET n == count + (IF Differ(a[k], a[k + 1]) THEN 1 ELSE 0)
       IN  IF n = need /\ n # count THEN Span(k, k + n) ELSE ScanDown(a, k - 1, to, n, need)

At(i, n) == Span(i, i + n)
Buffers(b1, b2, bA, bB) == [b1 |-> b1, b2 |-> b2, A |-> bA, B |-> bB]
Failure == Buffers(Span(0, 0), Span(0, 0), Span(0, 0), Span(0, 0))

(* The blocks fit into the cache: one buffer, from A or else from B.        *)
OneBuffer(a, A, B, need) ==
  LET inA == ScanUp(a, A.start + 1, A.end, 1, need)
      inB == ScanDown(a, B.end - 2, B.start, 1, need)
      none == At(A.start, 0)
  IN  CASE Length(inA) = need ->
             Buffers(At(A.start, need), none, At(inA.start, need), At(B.end, 0))
        [] Length(inA) # need /\ Length(inB) = need ->
             Buffers(At(B.end - need, need), none, At(inA.start, 0), At(inB.start, need))
        [] OTHER -> Failure

(* Two buffers: both from A, one from each, or both from B.                 *)
TwoBuffers(a, A, B, need) ==
  LET in1 == ScanUp(a, A.start + 1, A.end, 1, need)
      in2 == ScanUp(a, in1.start + 1, A.end, 0, need)
      inB1 == ScanDown(a, B.end - 2, B.start, 1, need)
      inB2 == ScanDown(a, inB1.start - 1, B.start, 0, need)
  IN  CASE Length(in2) = need ->
             Buffers(At(A.start, need), At(A.start + need, need),
                     At(in2.start, 2 * need), At(B.end, 0))
        [] Length(in2) # need /\ Length(in1) = need /\ Length(inB1) = need ->
             Buffers(At(A.start, need), At(B.end - need, need),
                     At(in1.start, need), At(inB1.start, need))
        [] Length(in2) # need /\ Length(in1) # need /\ Length(inB2) = need ->
             Buffers(At(B.end - need, need), At(B.end - 2 * need, need),
                     At(A.start, 0), At(inB2.start, 2 * need))
        [] OTHER -> Failure

(* Distinct values move to the start of A ...                               *)
RECURSIVE PullToFront(_, _, _, _, _, _)
PullToFront(s, A, from, index, count, length) ==
  IF count >= length THEN s
  ELSE IF index = A.start \/ Differ(s.a[index - 1], s.a[index])
       THEN PullToFront(Rotate(s, -count, Span(index + 1, from + 1), CacheSize),
                        A, index + count, index - 1, count + 1, length)
       ELSE PullToFront(s, A, from, index - 1, count, length)

(* ... and to the end of B.                                                 *)
RECURSIVE PullToEnd(_, _, _, _, _, _)
PullToEnd(s, B, from, index, count, length) ==
  IF count >= length THEN s
  ELSE IF index = B.end - 1 \/ Differ(s.a[index], s.a[index + 1])
       THEN PullToEnd(Rotate(s, count, Span(from, index), CacheSize),
                      B, index - count, index + 1, count + 1, length)
       ELSE PullToEnd(s, B, from, index + 1, count, length)

(* Too few distinct values: A is rotated into B, run by run.                *)
RECURSIVE MergeRepeated(_, _, _)
MergeRepeated(s, A, B) ==
  IF Length(A) <= 0 \/ Length(B) <= 0 THEN s
  ELSE LET mid == BinaryFirst(s.a, A.start, B)
           amount == mid - A.end
           t == Rotate(s, -amount, Span(A.start, mid), CacheSize)
       IN  MergeRepeated(t, Span(BinaryLast(t.a, A.start + amount, A), mid),
                         Span(mid, B.end))

-----------------------------------------------------------------------------
(* Rolling the blocks of A through B.  A roll is what the loop keeps: the   *)
(* data, the remaining A blocks, the least of them and its first item, the  *)
(* A block and the B blocks left behind, the next B block, and how many     *)
(* tags have been put back.                                                 *)
RECURSIVE Tagged(_, _, _, _, _)
Tagged(a, tag, second, end, size) ==
  IF second >= end THEN a
  ELSE Tagged(Swapped(a, tag, second), tag + 1, second + size, end, size)

(* The A block with the least tag: the first of the least second items.     *)
LeastBlock(a, blockA, size) ==
  LET seconds == {blockA.start + 1 + k * size : k \in 0..Length(blockA)}
      tags == {k \in seconds : k = blockA.start + 1 \/ k < blockA.end}
      least == {k \in tags : \A m \in tags : ~Less(a[m], a[k])}
  IN  Min(least) - 1

ToBuffer(s, from, buffer2, n) ==
  IF n <= CacheSize THEN [s EXCEPT !.c = Copied(@, 0, s.a, from, n)]
                    ELSE [s EXCEPT !.a = BlockSwap(@, from, buffer2.start, n)]

(* Leaves the least A block behind: it moves to the front, gets its tag     *)
(* back, the block before it is merged with the B items that follow, and    *)
(* the B items that must come after the new block are swapped behind it.    *)
DropBlock(q, b, size) ==
  LET split == BinaryFirst(q.s.a, q.minA, q.lastB)
      rest == q.lastB.end - split
      a1 == BlockSwap(q.s.a, q.blockA.start, q.minA, size)
      a2 == Swapped(a1, q.blockA.start + 1, b.b1.start + q.tag)
      s3 == WikiMerge([q.s EXCEPT !.a = a2], b.b2, q.lastA, Span(q.lastA.end, split))
      s4 == ToBuffer(s3, q.blockA.start, b.b2, size)
      s5 == [s4 EXCEPT !.a = BlockSwap(@, split, q.blockA.start + size - rest, rest)]
      lastA == At(q.blockA.start - rest, size)
      blockA == [q.blockA EXCEPT !.start = @ + size]
      minA == IF Length(blockA) = 0 THEN q.minA ELSE LeastBlock(s5.a, blockA, size)
  IN  [q EXCEPT !.s = s5, !.tag = @ + 1, !.lastA = lastA, !.lastB = At(lastA.end, rest),
                !.blockA = blockA, !.minA = minA, !.min = s5.a[minA]]

(* The last, uneven B block goes before the remaining A blocks.             *)
MoveLastB(q) ==
  LET n == Length(q.blockB)
  IN  [q EXCEPT !.s = Rotate(@, -n, Span(q.blockA.start, q.blockB.end), 0),
                !.lastB = At(q.blockA.start, n),
                !.blockA = Span(@.start + n, @.end + n),
                !.minA = @ + n,
                !.blockB = Span(@.start, @.start)]

(* The leftmost A block swaps places with the next B block.                 *)
RollBlock(q, b, size) ==
  [q EXCEPT !.s.a = BlockSwap(@, q.blockA.start, q.blockB.start, size),
            !.lastB = At(q.blockA.start, size),
            !.minA = IF @ = q.blockA.start THEN q.blockA.end ELSE @,
            !.blockA = Span(@.start + size, @.end + size),
            !.blockB = Span(@.start + size, Min({@.end + size, b.B.start}))]

RECURSIVE Roll(_, _, _)
Roll(q, b, size) ==
  IF \/ Length(q.lastB) > 0 /\ ~Less(q.s.a[q.lastB.end - 1], q.min)
     \/ Length(q.blockB) = 0
  THEN LET dropped == DropBlock(q, b, size)
       IN  IF Length(dropped.blockA) = 0 THEN dropped ELSE Roll(dropped, b, size)
  ELSE IF Length(q.blockB) < size THEN Roll(MoveLastB(q), b, size)
                                  ELSE Roll(RollBlock(q, b, size), b, size)

(* Merges A and B in place with the buffers b.                              *)
MergeInPlace(s, A, B, b, size) ==
  LET blocks == Span(b.A.end, A.end)
      firstA == At(b.A.end, Length(blocks) % size)
      a1 == Tagged(s.a, b.b1.start, firstA.end + 1, blocks.end, size)
      q0 == [s |-> ToBuffer([s EXCEPT !.a = a1], firstA.start, b.b2, Length(firstA)),
             blockA |-> Span(firstA.end, blocks.end),
             minA |-> firstA.end, min |-> a1[firstA.end],
             lastA |-> firstA, lastB |-> Span(0, 0),
             blockB |-> At(B.start, Min({size, Length(B) - Length(b.B)})), tag |-> 0]
      q == Roll(q0, b, size)
  IN  WikiMerge(q.s, b.b2, q.lastA, Span(q.lastA.end, B.end - Length(b.B)))

-----------------------------------------------------------------------------
(* One pair of neighbouring ranges.  A level keeps the data and the buffers *)
(* it has pulled out, to use them for its other pairs.                      *)
MergePair(v, A, B, step) ==
  LET s == v.s
      size == SquareRoot(step)
      need == step \div size + 1
      found == IF need <= CacheSize THEN OneBuffer(s.a, A, B, need)
                                    ELSE TwoBuffers(s.a, A, B, need)
      front == PullToFront(s, A, found.A.start, found.A.start, 0, Length(found.A))
      pulled == PullToEnd(front, B, found.B.start, found.B.start, 0, Length(found.B))
      kept == [found EXCEPT !.A = At(A.start, Length(@)), !.B = Span(B.end - Length(@), B.end)]
      reused == [v.b EXCEPT !.A = At(A.start, 0), !.B = At(B.end, 0)]
  IN  CASE Less(s.a[B.end - 1], s.a[A.start]) ->
             [v EXCEPT !.s = Rotate(s, Length(A), Span(A.start, B.end), CacheSize)]
        [] ~Less(s.a[B.end - 1], s.a[A.start]) /\ ~Less(s.a[B.start], s.a[B.start - 1]) -> v
        [] OTHER ->
             CASE Length(A) <= CacheSize ->
                    [v EXCEPT !.s = WikiMerge([s EXCEPT !.c = Copied(@, 0, s.a, A.start, Length(A))],
                                              Span(0, 0), A, B)]
               [] Length(A) > CacheSize /\ Length(v.b.b1) > 0 ->
                    [v EXCEPT !.s = MergeInPlace(s, A, B, reused, size)]
               [] Length(A) > CacheSize /\ Length(v.b.b1) = 0 /\ Length(found.b1) < need ->
                    [v EXCEPT !.s = MergeRepeated(s, A, B)]
               [] OTHER ->
                    [v EXCEPT !.s = MergeInPlace(pulled, A, B, kept, size), !.b = kept]

(* The buffers go back into the array: each of their items moves to the     *)
(* place where its equals begin, or end.                                    *)
RECURSIVE SpreadFront(_, _, _, _)
SpreadFront(s, A, levelB, index) ==
  IF Length(A) <= 0 THEN s
  ELSE IF index = levelB.start \/ ~Less(s.a[index], s.a[A.start])
       THEN LET amount == index - A.end
            IN  SpreadFront(Rotate(s, -amount, Span(A.start, index), CacheSize),
                            Span(A.start + amount + 1, A.end + amount), levelB, index)
       ELSE SpreadFront(s, A, levelB, index + 1)

RECURSIVE SpreadEnd(_, _, _, _)
SpreadEnd(s, B, first, index) ==
  IF Length(B) <= 0 THEN s
  ELSE IF index = first \/ ~Less(s.a[B.end - 1], s.a[index - 1])
       THEN LET amount == B.start - index
            IN  SpreadEnd(Rotate(s, amount, Span(index, B.end), CacheSize),
                          Span(B.start - amount, B.end - amount - 1), first, index)
       ELSE SpreadEnd(s, B, first, index - 1)

Redistributed(s, b) ==
  LET sorted == [s EXCEPT !.a = InsertionSort(@, b.b2)]
      front == SpreadFront(sorted, b.A, b.B, b.A.end)
  IN  SpreadEnd(front, b.B, b.A.start, b.B.start)

-----------------------------------------------------------------------------
(* Positions are fixed-point: a step of size / base is added with a carry.  *)
Advanced(p, step, base) ==
  IF p.frac + step.frac >= base
  THEN [dec |-> p.dec + step.dec + 1, frac |-> p.frac + step.frac - base]
  ELSE [dec |-> p.dec + step.dec, frac |-> p.frac + step.frac]

Zero == [dec |-> 0, frac |-> 0]

RECURSIVE SortRuns(_, _, _, _, _)
SortRuns(a, p, step, base, size) ==
  IF p.dec >= size THEN a
  ELSE LET next == Advanced(p, step, base)
       IN  SortRuns(InsertionSort(a, Span(p.dec, next.dec)), next, step, base, size)

RECURSIVE MergePairs(_, _, _, _, _)
MergePairs(v, p, step, base, size) ==
  IF p.dec >= size THEN v
  ELSE LET mid == Advanced(p, step, base)
           end == Advanced(mid, step, base)
       IN  MergePairs(MergePair(v, Span(p.dec, mid.dec), Span(mid.dec, end.dec), step.dec),
                      end, step, base, size)

RECURSIVE MergeLevels(_, _, _, _, _, _)
MergeLevels(s, mergeSize, step, base, size, power) ==
  IF mergeSize >= power THEN s
  ELSE LET v == MergePairs([s |-> s, b |-> Failure], Zero, step, base, size)
           t == IF Length(v.b.b1) > 0 THEN Redistributed(v.s, v.b) ELSE v.s
       IN  MergeLevels(t, 2 * mergeSize, Advanced(step, step, base), base, size, power)

(* The whole sort, of size items; an unset item of the cache is any.        *)
Sort(a, size) ==
  LET power == FloorPowerOfTwo(size)
      base == power \div 16
      step == [dec |-> size \div base, frac |-> size % base]
      s == [a |-> SortRuns(a, Zero, step, base, size), c |-> [k \in 0..(CacheSize - 1) |-> a[0]]]
  IN  IF size <= 32 THEN InsertionSort(a, Span(0, size))
                    ELSE MergeLevels(s, 16, step, base, size, power).a

(* What it promises: the same items, ordered by value and, where values are *)
(* equal, by where they stood.                                              *)
StablySorted(a, b) ==
  /\ {b[k] : k \in DOMAIN b} = {a[k] : k \in DOMAIN a}
  /\ \A k \in DOMAIN b : k # 0 =>
       \/ Less(b[k - 1], b[k])
       \/ b[k - 1].value = b[k].value /\ b[k - 1].index < b[k].index

-----------------------------------------------------------------------------
(* Inputs of the benchmark: those of its test cases that draw no numbers.   *)
TestingPathological(i, total) ==
  IF i \in {0, total - 1} THEN 10 ELSE IF i < total \div 2 THEN 11 ELSE 9
TestingAscending(i, total) == i
TestingDescending(i, total) == total - i
TestingEqual(i, total) == 1000

Numbered(values, total) ==                       \* benchmark_body: item.index
  [i \in 0..(total - 1) |-> [value |-> values[i], index |-> i]]

TestArrays(total) ==
  {Numbered([i \in 0..(total - 1) |-> TestingPathological(i, total)], total),
   Numbered([i \in 0..(total - 1) |-> TestingAscending(i, total)], total),
   Numbered([i \in 0..(total - 1) |-> TestingDescending(i, total)], total),
   Numbered([i \in 0..(total - 1) |-> TestingEqual(i, total)], total)}
=============================================================================
