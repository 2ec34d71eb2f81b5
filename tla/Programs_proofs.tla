-------------------------- MODULE Programs_proofs --------------------------
(***************************************************************************)
(* Proofs about programs that MCPrograms checks.  The allocator of the     *)
(* benchmarks: its blocks and its final check, for every array, alignment  *)
(* and set of sizes.  The acceleration flow: what stands behind its        *)
(* verdict, for every set of flows at once.  The buffering of the hash:    *)
(* its digest, for every way a message is cut into pieces.  The Petri net: *)
(* what a pass fires, whatever members its places hold.  The list: that it *)
(* stays linked both ways, whatever its elements.                          *)
(***************************************************************************)
EXTENDS Heap, MdBuffer, Flow, Nsichneu, DlList, FiniteSetTheorems, SequenceTheorems,
        WellFoundedInduction, TLAPS

-----------------------------------------------------------------------------
(* The allocator. *)

(* While nothing was refused the count is the way the pointer has gone; a   *)
(* refusal takes it past the end, and it never comes back.                  *)
Counted ==
  IF refused THEN heap + heap_requested > heap_end ELSE heap_requested = heap_ptr - heap

IInv == HeapTypeOK /\ InHeap /\ Apart /\ Kept /\ Counted

(* The padding in front of a block is a length.                             *)
LEMMA PaddingType == ASSUME NEW address \in Nat PROVE Padding(address) \in Nat
  BY HeapAssumption DEF Padding

(* A number below the modulus is its own remainder.                         *)
LEMMA SmallMod == ASSUME NEW k \in Nat, NEW d \in Nat, k < d PROVE k % d = k
  OBVIOUS

(* A remainder is below its modulus.                                        *)
LEMMA ModRange == ASSUME NEW k \in Nat, NEW d \in Nat \ {0} PROVE k % d \in 0..(d - 1)
  OBVIOUS

(* What a request does to the pointer and to the count.                     *)
LEMMA TakenCounts ==
  ASSUME HeapTypeOK, Counted, NEW size \in Sizes, Taken(size), UNCHANGED heap
  PROVE  /\ heap_ptr' \in heap..heap_end /\ heap_ptr <= heap_ptr'
         /\ Granted(size) => size \in Nat \ {0} /\ heap_ptr + size <= heap_ptr'
         /\ heap_requested' \in Nat /\ refused' \in BOOLEAN
         /\ Counted'
  <1>1. /\ size \in Nat /\ heap \in Nat /\ heap_ptr \in Nat /\ heap_end \in Nat
        /\ heap_requested \in Nat /\ heap <= heap_ptr /\ heap_ptr <= heap_end
    BY HeapAssumption DEF HeapTypeOK, heap_end
  <1>2. Padding(heap_ptr + size) \in Nat
    BY <1>1, PaddingType
  <1>3. heap_end' = heap_end
    BY DEF heap_end
  <1>4. CASE Granted(size)
    BY SMTT(30), <1>1, <1>2, <1>3, <1>4 DEF Taken, Granted, Next_heap_ptr, Counted, HeapTypeOK
  <1>5. CASE ~Granted(size)
    <2>1. heap_ptr' = heap_ptr /\ refused' \in BOOLEAN /\ heap_requested' \in Nat
      BY <1>1, <1>2, <1>5 DEF Taken, HeapTypeOK
    <2>2. CASE size = 0
      <3>1. heap_requested' = heap_requested /\ refused' = refused
        BY <2>2 DEF Taken, HeapTypeOK
      <3> QED BY <1>1, <1>3, <1>5, <2>1, <3>1 DEF Counted
    <2>3. CASE size # 0
      <3>1. refused' /\ heap_requested' = heap_requested + size + Padding(heap_ptr + size)
        BY <1>5, <2>3 DEF Taken
      <3>2. heap_ptr + size + Padding(heap_ptr + size) > heap_end
        BY <1>1, <1>2, <1>5, <2>3 DEF Granted, Next_heap_ptr
      <3>3. heap + heap_requested >= heap_ptr
        BY <1>1 DEF Counted
      <3>4. heap + heap_requested' > heap_end
        BY <1>1, <1>2, <3>1, <3>2, <3>3
      <3> QED BY <1>1, <1>3, <1>5, <2>1, <3>1, <3>4 DEF Counted
    <2> QED BY <2>2, <2>3
  <1> QED BY <1>4, <1>5

(* A block at the pointer is apart from all blocks below it.                *)
LEMMA NewBlock ==
  ASSUME IInv, NEW size \in Sizes, Taken(size), Granted(size), UNCHANGED heap,
         NEW data \in [0..(size - 1) -> Byte \cup {Unset}],
         NEW old, old \subseteq blocks, blocks' = old \cup {Block(size, data)}
  PROVE  /\ InHeap' /\ Apart'
         /\ \A b \in blocks' : /\ b.at \in Nat /\ b.size \in Nat \ {0}
                               /\ b = [at |-> b.at, size |-> b.size, data |-> b.data]
                               /\ b.data \in [0..(b.size - 1) -> Byte \cup {Unset}]
  <1> DEFINE new == Block(size, data)
  <1>1. /\ heap_ptr' \in heap..heap_end /\ heap_ptr <= heap_ptr'
        /\ size \in Nat \ {0} /\ heap_ptr + size <= heap_ptr'
    BY TakenCounts DEF IInv
  <1>2. heap \in Nat /\ heap_end \in Nat /\ heap_ptr \in Nat /\ heap <= heap_ptr
    BY HeapAssumption DEF IInv, HeapTypeOK, heap_end
  <1>3. new.at = heap_ptr /\ new.size = size /\ new.data = data
        /\ new = [at |-> new.at, size |-> new.size, data |-> new.data]
    BY DEF Block
  <1>4. \A b \in old : /\ b.at \in Nat /\ b.size \in Nat \ {0}
                       /\ heap <= b.at /\ b.at + b.size <= heap_ptr
    BY DEF IInv, HeapTypeOK, InHeap
  <1>5. InHeap'
    BY <1>1, <1>2, <1>3, <1>4 DEF InHeap
  <1>6. Apart'
    <2> SUFFICES ASSUME NEW b \in blocks', NEW c \in blocks', b # c
                 PROVE  b.at + b.size <= c.at \/ c.at + c.size <= b.at
      BY DEF Apart
    <2>1. CASE b \in old /\ c \in old
      BY <2>1 DEF IInv, Apart
    <2>2. CASE b = new \/ c = new
      BY <1>3, <1>4, <2>2
    <2> QED BY <2>1, <2>2
  <1>7. \A b \in blocks' : /\ b.at \in Nat /\ b.size \in Nat \ {0}
                           /\ b = [at |-> b.at, size |-> b.size, data |-> b.data]
                           /\ b.data \in [0..(b.size - 1) -> Byte \cup {Unset}]
    <2> SUFFICES ASSUME NEW b \in blocks'
                 PROVE  /\ b.at \in Nat /\ b.size \in Nat \ {0}
                        /\ b = [at |-> b.at, size |-> b.size, data |-> b.data]
                        /\ b.data \in [0..(b.size - 1) -> Byte \cup {Unset}]
      OBVIOUS
    <2>1. CASE b \in old
      BY <2>1 DEF IInv, HeapTypeOK
    <2>2. CASE b = new
      BY <1>1, <1>2, <1>3, <2>2
    <2> QED BY <2>1, <2>2
  <1> QED BY <1>5, <1>6, <1>7

(* Bytes at and behind the pointer belong to no block.                      *)
LEMMA BelowPointer ==
  ASSUME IInv, NEW b \in blocks, NEW k \in 0..(b.size - 1)
  PROVE  /\ b.at + k \in heap..(heap_end - 1) /\ b.at + k < heap_ptr /\ b.at + k \in Nat
         /\ b.at \in Nat /\ b.size \in Nat \ {0}
  BY HeapAssumption DEF IInv, HeapTypeOK, InHeap, heap_end

(* The empty heap of init_heap_beebs satisfies the invariant.               *)
LEMMA Initially == HeapInit => IInv
  <1> SUFFICES ASSUME HeapInit PROVE IInv
    OBVIOUS
  <1>1. heap \in Nat /\ HeapSize \in Nat
    BY HeapAssumption DEF HeapInit
  <1>2. HeapTypeOK
    <2>1. memory \in [heap..(heap_end - 1) -> Byte]
      BY HeapAssumption DEF HeapInit, heap_end
    <2>2. heap_ptr \in heap..heap_end /\ heap_requested \in Nat
      BY <1>1 DEF HeapInit, heap_end
    <2> QED BY <2>1, <2>2 DEF HeapInit, HeapTypeOK
  <1> QED BY <1>1, <1>2 DEF HeapInit, IInv, InHeap, Apart, Kept, Counted

(* A block of malloc_beebs lies behind the others or is refused.            *)
LEMMA MallocKeeps == IInv /\ malloc_beebs => IInv'
  <1> SUFFICES ASSUME IInv, malloc_beebs PROVE IInv'
    OBVIOUS
  <1>1. PICK size \in Sizes :
          /\ Taken(size)
          /\ blocks' = IF Granted(size)
                       THEN blocks \cup {Block(size, [k \in 0..(size - 1) |-> Unset])} ELSE blocks
          /\ UNCHANGED <<heap, memory>>
    BY DEF malloc_beebs
  <1>2. /\ heap_ptr' \in heap..heap_end /\ heap_ptr <= heap_ptr'
        /\ heap_requested' \in Nat /\ refused' \in BOOLEAN /\ Counted'
    BY <1>1, TakenCounts DEF IInv
  <1>3. heap \in Nat /\ heap_end \in Nat /\ heap_ptr \in Nat /\ heap_end' = heap_end
    BY <1>1, HeapAssumption DEF IInv, HeapTypeOK, heap_end
  <1>4. CASE Granted(size)
    <2> DEFINE data == [k \in 0..(size - 1) |-> Unset]
    <2>1. data \in [0..(size - 1) -> Byte \cup {Unset}]
      OBVIOUS
    <2>2. InHeap' /\ Apart' /\ HeapTypeOK'
      BY <1>1, <1>2, <1>3, <1>4, <2>1, NewBlock DEF IInv, HeapTypeOK
    <2>3. Kept'
      <3> SUFFICES ASSUME NEW b \in blocks', NEW k \in 0..(b.size - 1), b.data[k] # Unset
                   PROVE  memory'[b.at + k] = b.data[k]
        BY DEF Kept
      <3>1. b # Block(size, data)
        <4> SUFFICES ASSUME b = Block(size, data) PROVE FALSE
          OBVIOUS
        <4>1. b.size = size /\ b.data = data
          BY DEF Block
        <4> QED BY <4>1
      <3>2. b \in blocks
        BY <1>1, <1>4, <3>1
      <3> QED BY <1>1, <3>2 DEF IInv, Kept
    <2> QED BY <1>2, <2>2, <2>3 DEF IInv
  <1>5. CASE ~Granted(size)
    <2>1. HeapTypeOK'
      BY <1>1, <1>2, <1>3, <1>5 DEF IInv, HeapTypeOK
    <2>2. UNCHANGED <<heap, memory, blocks>>
      BY <1>1, <1>5
    <2>3. InHeap'
      BY <1>2, <1>3, <2>2 DEF IInv, HeapTypeOK, InHeap
    <2>4. Apart' /\ Kept'
      BY <2>2 DEF IInv, Apart, Kept
    <2> QED BY <1>2, <2>1, <2>3, <2>4 DEF IInv
  <1> QED BY <1>4, <1>5

(* The same for calloc_beebs, which also clears its block.                  *)
LEMMA CallocKeeps == IInv /\ calloc_beebs => IInv'
  <1> SUFFICES ASSUME IInv, calloc_beebs PROVE IInv'
    OBVIOUS
  <1> DEFINE B(size) == Block(size, [k \in 0..(size - 1) |-> 0])
  <1>1. PICK size \in Sizes :
          /\ Taken(size)
          /\ IF Granted(size)
             THEN /\ blocks' = blocks \cup {B(size)}
                  /\ memory' = [x \in DOMAIN memory |-> IF x \in Span(B(size)) THEN 0 ELSE memory[x]]
             ELSE UNCHANGED <<blocks, memory>>
          /\ UNCHANGED heap
    BY DEF calloc_beebs
  <1>2. /\ heap_ptr' \in heap..heap_end /\ heap_ptr <= heap_ptr'
        /\ Granted(size) => size \in Nat \ {0} /\ heap_ptr + size <= heap_ptr'
        /\ heap_requested' \in Nat /\ refused' \in BOOLEAN /\ Counted'
    BY <1>1, TakenCounts DEF IInv
  <1>3. heap \in Nat /\ heap_end \in Nat /\ heap_ptr \in Nat /\ heap_end' = heap_end
        /\ heap <= heap_ptr /\ DOMAIN memory = heap..(heap_end - 1)
    BY <1>1, HeapAssumption DEF IInv, HeapTypeOK, heap_end
  <1>4. CASE Granted(size)
    <2> DEFINE data == [k \in 0..(size - 1) |-> 0]
    <2>1. data \in [0..(size - 1) -> Byte \cup {Unset}]
      BY HeapAssumption
    <2>2. memory' \in [heap'..(heap_end' - 1) -> Byte]
      BY <1>1, <1>3, <1>4, HeapAssumption DEF IInv, HeapTypeOK
    <2>3. InHeap' /\ Apart' /\ HeapTypeOK'
      BY <1>1, <1>2, <1>3, <1>4, <2>1, <2>2, NewBlock DEF IInv, HeapTypeOK
    <2>4. Kept'
      <3> SUFFICES ASSUME NEW b \in blocks', NEW k \in 0..(b.size - 1), b.data[k] # Unset
                   PROVE  memory'[b.at + k] = b.data[k]
        BY DEF Kept
      <3>1. CASE b \in blocks
        <4>1. /\ b.at + k \in DOMAIN memory /\ b.at + k < heap_ptr /\ b.at + k \in Nat
          BY <3>1, <1>3, BelowPointer
        <4>2. b.at + k \notin Span(B(size))
          BY <4>1, <1>2, <1>3, <1>4 DEF Span, Block
        <4>3. memory'[b.at + k] = memory[b.at + k]
          BY <1>1, <1>4, <4>1, <4>2
        <4> QED BY <3>1, <4>3 DEF IInv, Kept
      <3>2. CASE b = B(size)
        <4>1. b.at = heap_ptr /\ b.size = size /\ b.data = data
          BY <3>2 DEF Block
        <4>2. b.at + k \in Span(B(size)) /\ b.at + k \in DOMAIN memory
          BY <3>2, <4>1, <1>2, <1>3, <1>4 DEF Span
        <4> QED BY <1>1, <1>4, <4>1, <4>2
      <3> QED BY <1>1, <1>4, <3>1, <3>2
    <2> QED BY <1>2, <2>3, <2>4 DEF IInv
  <1>5. CASE ~Granted(size)
    <2>1. HeapTypeOK'
      BY <1>1, <1>2, <1>3, <1>5 DEF IInv, HeapTypeOK
    <2>2. UNCHANGED <<heap, memory, blocks>>
      BY <1>1, <1>5
    <2>3. InHeap'
      BY <1>2, <1>3, <2>2 DEF IInv, HeapTypeOK, InHeap
    <2>4. Apart' /\ Kept'
      BY <2>2 DEF IInv, Apart, Kept
    <2> QED BY <1>2, <2>1, <2>3, <2>4 DEF IInv
  <1> QED BY <1>4, <1>5

(* realloc_beebs copies into a block behind the others.                     *)
LEMMA ReallocKeeps == IInv /\ realloc_beebs => IInv'
  <1> SUFFICES ASSUME IInv, realloc_beebs PROVE IInv'
    OBVIOUS
  <1> DEFINE D(b, size) == [k \in 0..(size - 1) |-> IF k < b.size THEN b.data[k] ELSE Unset]
             B(b, size) == Block(size, D(b, size))
             Copy(b, new) == [x \in DOMAIN memory |->
                                IF x \in Span(new)
                                THEN memory[b.at + ((x - new.at) % (new.at - b.at))]
                                ELSE memory[x]]
  <1>1. PICK b \in blocks, size \in Sizes :
          /\ Taken(size)
          /\ IF Granted(size)
             THEN /\ blocks' = (blocks \ {b}) \cup {B(b, size)}
                  /\ memory' = Copy(b, B(b, size))
             ELSE UNCHANGED <<blocks, memory>>
          /\ UNCHANGED heap
    BY DEF realloc_beebs
  <1>2. /\ heap_ptr' \in heap..heap_end /\ heap_ptr <= heap_ptr'
        /\ Granted(size) => size \in Nat \ {0} /\ heap_ptr + size <= heap_ptr'
        /\ heap_requested' \in Nat /\ refused' \in BOOLEAN /\ Counted'
    BY <1>1, TakenCounts DEF IInv
  <1>3. heap \in Nat /\ heap_end \in Nat /\ heap_ptr \in Nat /\ heap_end' = heap_end
        /\ heap <= heap_ptr /\ DOMAIN memory = heap..(heap_end - 1)
    BY <1>1, HeapAssumption DEF IInv, HeapTypeOK, heap_end
  <1>4. CASE Granted(size)
    <2> DEFINE new == B(b, size)
               d == heap_ptr - b.at
    <2>1. /\ b.at \in Nat /\ b.size \in Nat \ {0} /\ heap <= b.at /\ b.at + b.size <= heap_ptr
          /\ b.data \in [0..(b.size - 1) -> Byte \cup {Unset}]
      BY DEF IInv, HeapTypeOK, InHeap
    <2>2. d \in Nat \ {0} /\ b.size <= d
      BY <1>3, <2>1
    <2>3. D(b, size) \in [0..(size - 1) -> Byte \cup {Unset}]
      BY <1>2, <1>4, <2>1
    <2>4. new.at = heap_ptr /\ new.size = size /\ new.data = D(b, size)
      BY DEF Block
    <2>5. \A x \in Span(new) :
             /\ x - heap_ptr \in Nat
             /\ b.at + ((x - heap_ptr) % d) \in heap..(heap_end - 1)
             /\ x \in DOMAIN memory
      <3> SUFFICES ASSUME NEW x \in Span(new)
                   PROVE  /\ x - heap_ptr \in Nat
                          /\ b.at + ((x - heap_ptr) % d) \in heap..(heap_end - 1)
                          /\ x \in DOMAIN memory
        OBVIOUS
      <3>1. x \in heap_ptr..(heap_ptr + size - 1)
        BY <2>4 DEF Span
      <3>2. x - heap_ptr \in Nat /\ x \in DOMAIN memory
        BY <3>1, <1>2, <1>3, <1>4
      <3>3. (x - heap_ptr) % d \in 0..(d - 1)
        BY <3>2, <2>2, ModRange
      <3>4. heap_ptr <= heap_end /\ b.at + d = heap_ptr
        BY <1>3, <2>1 DEF IInv, HeapTypeOK
      <3>5. PICK r \in 0..(d - 1) : r = (x - heap_ptr) % d
        BY <3>3
      <3>6. b.at + r \in heap..(heap_end - 1)
        BY SMTT(30), <3>4, <2>1, <2>2, <1>3
      <3> QED BY <3>2, <3>5, <3>6
    <2>9. \A x \in DOMAIN memory :
             x \in Span(new) => memory'[x] = memory[b.at + ((x - heap_ptr) % d)]
      <3> SUFFICES ASSUME NEW x \in DOMAIN memory, x \in Span(new)
                   PROVE  memory'[x] = memory[b.at + ((x - heap_ptr) % d)]
        OBVIOUS
      <3> QED BY <1>1, <1>4, <2>4
    <2>6. memory' \in [heap'..(heap_end' - 1) -> Byte]
      <3>1. \A x \in DOMAIN memory : memory'[x] \in Byte
        <4> SUFFICES ASSUME NEW x \in DOMAIN memory PROVE memory'[x] \in Byte
          OBVIOUS
        <4>1. memory \in [heap..(heap_end - 1) -> Byte]
          BY DEF IInv, HeapTypeOK
        <4>2. CASE x \in Span(new)
          BY <2>5, <2>9, <4>1, <4>2
        <4>3. CASE x \notin Span(new)
          BY <1>1, <1>3, <1>4, <4>1, <4>3
        <4> QED BY <4>2, <4>3
      <3>2. DOMAIN memory' = heap'..(heap_end' - 1) /\ memory' = [x \in DOMAIN memory' |-> memory'[x]]
        BY <1>1, <1>3, <1>4
      <3> QED BY <3>1, <3>2, <1>1, <1>3
    <2>7. InHeap' /\ Apart' /\ HeapTypeOK'
      <3>0. /\ blocks \ {b} \subseteq blocks
            /\ blocks' = (blocks \ {b}) \cup {Block(size, D(b, size))}
        BY <1>1, <1>4
      <3> HIDE DEF D
      <3>1. /\ InHeap' /\ Apart'
            /\ \A c \in blocks' : /\ c.at \in Nat /\ c.size \in Nat \ {0}
                                 /\ c = [at |-> c.at, size |-> c.size, data |-> c.data]
                                 /\ c.data \in [0..(c.size - 1) -> Byte \cup {Unset}]
        BY <1>1, <1>4, <2>3, <3>0, NewBlock
      <3> QED BY <1>1, <1>2, <1>3, <2>6, <3>1 DEF IInv, HeapTypeOK
    <2>8. Kept'
      <3> SUFFICES ASSUME NEW c \in blocks', NEW k \in 0..(c.size - 1), c.data[k] # Unset
                   PROVE  memory'[c.at + k] = c.data[k]
        BY DEF Kept
      <3>1. CASE c \in blocks
        <4>1. c.at + k \in DOMAIN memory /\ c.at + k < heap_ptr /\ c.at + k \in Nat
          BY <3>1, <1>3, BelowPointer
        <4>2. c.at + k \notin Span(new)
          BY <4>1, <1>2, <1>3, <1>4, <2>4 DEF Span
        <4>3. memory'[c.at + k] = memory[c.at + k]
          BY <1>1, <1>4, <4>1, <4>2
        <4> QED BY <3>1, <4>3 DEF IInv, Kept
      <3>2. CASE c = new
        <4>1. /\ k \in 0..(size - 1) /\ k \in Nat /\ c.at + k = heap_ptr + k
              /\ c.data[k] = IF k < b.size THEN b.data[k] ELSE Unset
          BY <3>2, <2>4, <1>2, <1>4
        <4>2. k < b.size /\ c.data[k] = b.data[k] /\ b.data[k] # Unset
          BY <4>1
        <4>8. k \in 0..(b.size - 1)
          BY <4>1, <4>2, <2>1
        <4>3. memory[b.at + k] = b.data[k]
          BY <4>2, <4>8 DEF IInv, Kept
        <4>4. k % d = k
          BY <4>1, <4>2, <2>1, <2>2, SmallMod
        <4>5. heap_ptr + k \in Span(new) /\ heap_ptr + k \in DOMAIN memory
          BY <4>1, <2>4, <1>2, <1>3, <1>4 DEF Span
        <4>6. PICK x \in DOMAIN memory : x = heap_ptr + k /\ x \in Span(new)
          BY <4>5
        <4>7. memory'[x] = memory[b.at + ((x - heap_ptr) % d)]
          BY <2>9, <4>6
        <4>9. x - heap_ptr = k
          BY <4>1, <4>6, <1>3
        <4> QED BY <4>1, <4>2, <4>3, <4>4, <4>6, <4>7, <4>9
      <3> QED BY <1>1, <1>4, <3>1, <3>2
    <2> QED BY <1>2, <2>7, <2>8 DEF IInv
  <1>5. CASE ~Granted(size)
    <2>1. HeapTypeOK'
      BY <1>1, <1>2, <1>3, <1>5 DEF IInv, HeapTypeOK
    <2>2. UNCHANGED <<heap, memory, blocks>>
      BY <1>1, <1>5
    <2>3. InHeap'
      BY <1>2, <1>3, <2>2 DEF IInv, HeapTypeOK, InHeap
    <2>4. Apart' /\ Kept'
      BY <2>2 DEF IInv, Apart, Kept
    <2> QED BY <1>2, <2>1, <2>3, <2>4 DEF IInv
  <1> QED BY <1>4, <1>5

(* A write of the program stays inside its own block.                       *)
LEMMA WriteKeeps == IInv /\ Write => IInv'
  <1> SUFFICES ASSUME IInv, Write PROVE IInv'
    OBVIOUS
  <1>1. PICK b \in blocks : \E k \in 0..(b.size - 1), v \in Byte :
          /\ memory' = [memory EXCEPT ![b.at + k] = v]
          /\ blocks' = (blocks \ {b}) \cup {[b EXCEPT !.data = [@ EXCEPT ![k] = v]]}
          /\ UNCHANGED <<heap, heap_ptr, heap_requested, refused>>
    BY DEF Write
  <1>2. PICK k \in 0..(b.size - 1), v \in Byte :
          /\ memory' = [memory EXCEPT ![b.at + k] = v]
          /\ blocks' = (blocks \ {b}) \cup {[b EXCEPT !.data = [@ EXCEPT ![k] = v]]}
          /\ UNCHANGED <<heap, heap_ptr, heap_requested, refused>>
    BY <1>1
  <1> DEFINE new == [b EXCEPT !.data = [@ EXCEPT ![k] = v]]
  <1>3. /\ b.at \in Nat /\ b.size \in Nat \ {0}
        /\ b = [at |-> b.at, size |-> b.size, data |-> b.data]
        /\ b.data \in [0..(b.size - 1) -> Byte \cup {Unset}]
    BY DEF IInv, HeapTypeOK
  <1>4. new = [at |-> b.at, size |-> b.size, data |-> [b.data EXCEPT ![k] = v]]
    BY SMTT(30), <1>3
  <1>5. new.at = b.at /\ new.size = b.size /\ new.data = [b.data EXCEPT ![k] = v]
    BY <1>4
  <1>6. heap_end' = heap_end /\ b.at + k \in heap..(heap_end - 1) /\ heap \in Nat /\ heap_end \in Nat
    BY SMTT(30), <1>2, BelowPointer, HeapAssumption DEF heap_end, IInv, HeapTypeOK
  <1>7. HeapTypeOK'
    <2>1. memory' \in [heap'..(heap_end' - 1) -> Byte]
      BY <1>2, <1>6 DEF IInv, HeapTypeOK
    <2>2. /\ new.at \in Nat /\ new.size \in Nat \ {0}
          /\ new = [at |-> new.at, size |-> new.size, data |-> new.data]
          /\ new.data \in [0..(new.size - 1) -> Byte \cup {Unset}]
      BY <1>3, <1>4, <1>5
    <2> QED BY <1>2, <1>6, <2>1, <2>2 DEF IInv, HeapTypeOK
  <1>8. InHeap'
    BY <1>2, <1>5 DEF IInv, InHeap
  <1>9. Apart'
    BY <1>2, <1>5 DEF IInv, Apart
  <1>10. Kept'
    <2> SUFFICES ASSUME NEW c \in blocks', NEW i \in 0..(c.size - 1), c.data[i] # Unset
                 PROVE  memory'[c.at + i] = c.data[i]
      BY DEF Kept
    <2>1. CASE c = new
      <3>1. i \in 0..(b.size - 1) /\ c.at + i = b.at + i /\ i \in Int /\ k \in Int
        BY <2>1, <1>3, <1>5
      <3>2. b.at + i \in heap..(heap_end - 1)
        BY <3>1, BelowPointer
      <3>3. CASE i = k
        BY <3>1, <3>2, <3>3, <2>1, <1>2, <1>3, <1>5, <1>6 DEF IInv, HeapTypeOK
      <3>4. CASE i # k
        <4>1. b.at + i # b.at + k
          BY <3>1, <3>4, <1>3
        <4>2. c.data[i] = b.data[i]
          BY <2>1, <3>1, <3>4, <1>3, <1>5
        <4> QED BY <3>1, <3>2, <4>1, <4>2, <1>2 DEF IInv, Kept, HeapTypeOK
      <3> QED BY <3>3, <3>4
    <2>2. CASE c \in blocks /\ c # b
      <3>1. /\ c.at + i \in heap..(heap_end - 1) /\ c.at \in Nat /\ c.size \in Nat \ {0}
            /\ i \in Int /\ k \in Int
        BY <2>2, <1>3, BelowPointer
      <3>2. c.at + c.size <= b.at \/ b.at + b.size <= c.at
        BY <2>2 DEF IInv, Apart
      <3>3. c.at + i # b.at + k
        BY <3>1, <3>2, <1>3
      <3> QED BY <2>2, <3>1, <3>3, <1>2 DEF IInv, Kept, HeapTypeOK
    <2> QED BY <1>2, <2>1, <2>2
  <1> QED BY <1>2, <1>6, <1>7, <1>8, <1>9, <1>10 DEF IInv, Counted

(* free_beebs takes a block out and leaves the others alone.                *)
LEMMA FreeKeeps == IInv /\ free_beebs => IInv'
  BY DEF IInv, free_beebs, HeapTypeOK, InHeap, Apart, Kept, Counted, heap_end

(* A new init_heap_beebs forgets every block.                               *)
LEMMA InitKeeps == IInv /\ init_heap_beebs => IInv'
  <1> SUFFICES ASSUME IInv, init_heap_beebs PROVE IInv'
    OBVIOUS
  <1>1. heap \in Nat /\ heap_end \in Nat /\ heap_end' = heap_end /\ heap <= heap_end
    BY HeapAssumption DEF IInv, HeapTypeOK, init_heap_beebs, heap_end
  <1>2. HeapTypeOK'
    <2>1. heap' = heap /\ memory' \in [heap'..(heap_end' - 1) -> Byte]
      BY <1>1 DEF IInv, init_heap_beebs, HeapTypeOK
    <2>2. heap_ptr' \in heap'..heap_end'
      BY <1>1, <2>1 DEF init_heap_beebs
    <2> QED BY <2>1, <2>2 DEF IInv, init_heap_beebs, HeapTypeOK
  <1>3. InHeap' /\ Apart' /\ Kept'
    BY DEF init_heap_beebs, InHeap, Apart, Kept
  <1>4. Counted'
    BY <1>1 DEF init_heap_beebs, Counted
  <1> QED BY <1>2, <1>3, <1>4 DEF IInv

(* Every call and every write keeps the invariant.                          *)
LEMMA Inductive == IInv /\ [HeapNext]_heapVars => IInv'
  <1> SUFFICES ASSUME IInv, [HeapNext]_heapVars PROVE IInv'
    OBVIOUS
  <1>1. CASE UNCHANGED heapVars
    BY <1>1 DEF IInv, heapVars, HeapTypeOK, InHeap, Apart, Kept, Counted, heap_end
  <1> QED BY <1>1, MallocKeeps, CallocKeeps, ReallocKeeps, FreeKeeps, WriteKeeps, InitKeeps DEF HeapNext

(* The blocks in use never share a byte, stay in the array and keep what    *)
(* their owners wrote (malloc_beebs, calloc_beebs, realloc_beebs).          *)
THEOREM BlocksAreKept == HeapSpec => []BlocksKept
  <1>1. IInv => BlocksKept
    BY DEF IInv, BlocksKept
  <1> QED BY Initially, Inductive, <1>1, PTL DEF HeapSpec

(* check_heap_beebs() tells whether a request was refused.                  *)
THEOREM CheckIsExact == HeapSpec => []CheckTellsRefusal
  <1>1. IInv => CheckTellsRefusal
    <2> SUFFICES ASSUME IInv PROVE CheckTellsRefusal
      OBVIOUS
    <2>1. /\ heap \in Nat /\ heap_requested \in Nat /\ heap_end \in Nat /\ heap_ptr \in Nat
          /\ heap_ptr <= heap_end
      BY HeapAssumption DEF IInv, HeapTypeOK, heap_end
    <2>2. CASE refused
      BY <2>1, <2>2 DEF IInv, Counted, CheckTellsRefusal, check_heap_beebs
    <2>3. CASE ~refused
      BY <2>1, <2>3 DEF IInv, Counted, CheckTellsRefusal, check_heap_beebs
    <2> QED BY <2>2, <2>3
  <1> QED BY Initially, Inductive, <1>1, PTL DEF HeapSpec

-----------------------------------------------------------------------------
(* The flow. *)

(* The stages by how far a flow is.                                         *)
FromAccelRun == {"start accel", "simulate accel", "read accel", "report"}
FromRuns == {"start baseline", "simulate baseline", "read baseline"} \cup FromAccelRun
FromBuildAccel == {"build accel"} \cup FromRuns
FromBuilds == {"build baseline"} \cup FromBuildAccel
Stages == {"detect", "rewrite"} \cup FromBuilds \cup Ended

(* Every flow is in one of its stages, and the files are under their names. *)
FlowTypeOK ==
  /\ stage \in [Runs -> Stages]
  /\ DOMAIN accelFile = {Stem[r] : r \in Runs}
  /\ DOMAIN image = {Stem[r] : r \in Runs} \X Tags
  /\ DOMAIN log = {SimDir[r] : r \in Runs}
  /\ DOMAIN running = Runs
  /\ DOMAIN got = Runs /\ \A r \in Runs : DOMAIN got[r] = Tags

(* Flows that are active on the same files are told.                        *)
Told == \A r \in Runs : Meets(r) => crossed[r]

(* The rewritten source and the images are the flow's own from their        *)
(* building on, until it ends.                                              *)
OwnBuilds(r) ==
  /\ stage[r] \in FromBuilds => accelFile[Stem[r]] = r
  /\ stage[r] \in FromBuildAccel => image[<<Stem[r], "baseline">>] = <<r, "baseline">>
  /\ stage[r] \in FromRuns => image[<<Stem[r], "accel">>] = <<r, "accel">>

(* While a simulation runs its log is empty and its program is the flow's;  *)
(* when it is read it holds what that program printed, once.                *)
OwnSimulation(r) ==
  \A tag \in Tags :
    /\ stage[r] = Simulating[tag] => running[r] = <<r, tag>> /\ log[SimDir[r]] = << <<>> >>
    /\ stage[r] = Reading[tag] =>
         running[r] = <<r, tag>> /\ \E p \in Printed(r) : log[SimDir[r]] = << <<p>> >>

(* A result that was printed is that of the flow's own program, and one     *)
(* that was a success was printed.                                          *)
Backed(r, tag) ==
  /\ got[r][tag].cycles => got[r][tag].result = Result[<<r, tag>>]
  /\ got[r][tag].success => got[r][tag].cycles
OwnResults(r) ==
  /\ stage[r] \in FromAccelRun \cup {"done"} => Backed(r, "baseline")
  /\ stage[r] \in {"report", "done"} => Backed(r, "accel")

Own(r) == OwnBuilds(r) /\ OwnSimulation(r) /\ OwnResults(r)
FlowInv == FlowTypeOK /\ Told /\ \A r \in Runs : ~crossed[r] => Own(r)
-----------------------------------------------------------------------------
(* The names of the stages that come twice.                                 *)
LEMMA TagStages ==
  /\ Building["baseline"] = "build baseline" /\ Building["accel"] = "build accel"
  /\ Starting["baseline"] = "start baseline" /\ Starting["accel"] = "start accel"
  /\ Simulating["baseline"] = "simulate baseline" /\ Simulating["accel"] = "simulate accel"
  /\ Reading["baseline"] = "read baseline" /\ Reading["accel"] = "read accel"
  BY DEF Building, Starting, Simulating, Reading

(* What stage a flow is in once it has taken a step, and that the files     *)
(* stay under the names they have.                                          *)
LEMMA StepType ==
  ASSUME FlowTypeOK, NEW r \in Runs, Step(r)
  PROVE  FlowTypeOK'
<1> USE DEF At, Stages, FromBuilds, FromBuildAccel, FromRuns, FromAccelRun, Ended, Tags
<1>1. CASE Detect(r) \/ Rewrite(r) \/ Report(r) \/ Interrupt(r)
  BY <1>1 DEF FlowTypeOK, Detect, Rewrite, Report, Interrupt
<1>2. CASE BuildBaseline(r) \/ BuildAccel(r)
  BY <1>2 DEF FlowTypeOK, BuildBaseline, BuildAccel, Build
<1>3. CASE Simulation(r)
  <2>1. PICK tag \in Tags : Start(r, tag) \/ Simulate(r, tag) \/ TimeOut(r, tag)
    BY <1>3 DEF Simulation
  <2>2. Simulating[tag] \in Stages /\ Reading[tag] \in Stages
    BY <2>1, TagStages
  <2>3. QED
    BY ZenonT(30), <2>1, <2>2 DEF FlowTypeOK, Start, Simulate, TimeOut
<1>4. CASE Read(r, "baseline", "start accel") \/ Read(r, "accel", "report")
  BY <1>4 DEF FlowTypeOK, Read
<1>5. QED
  BY <1>1, <1>2, <1>3, <1>4 DEF Step

(* A step tells the flows that are active on the same files afterwards.     *)
LEMMA StepTold ==
  ASSUME NEW r \in Runs, Step(r)
  PROVE  Told' /\ \A q \in Runs : crossed[q] => crossed'[q]
<1>1. \E where, following : At(r, where, following)
  <2>1. CASE Simulation(r)
    BY <2>1 DEF Simulation, Start, Simulate, TimeOut
  <2>2. CASE ~Simulation(r)
    BY <2>2 DEF Step, Detect, Rewrite, BuildBaseline, BuildAccel, Build, Read, Report, Interrupt
  <2>3. QED
    BY <2>1, <2>2
<1>2. crossed' = [q \in Runs |-> crossed[q] \/ Meets(q)']
  BY <1>1 DEF At
<1>3. ASSUME NEW q \in Runs
      PROVE  crossed'[q] = (crossed[q] \/ Meets(q)')
  BY <1>2
<1>4. QED
  BY <1>3 DEF Told

(* A step of one flow leaves the stage and the results of another as they   *)
(* are.                                                                     *)
LEMMA OthersStay ==
  ASSUME FlowTypeOK, NEW r \in Runs, NEW q \in Runs, q # r, Step(r)
  PROVE  stage'[q] = stage[q] /\ running'[q] = running[q] /\ got'[q] = got[q]
<1> USE DEF At
<1>1. CASE Detect(r) \/ Rewrite(r) \/ Report(r) \/ Interrupt(r)
  BY <1>1 DEF FlowTypeOK, Detect, Rewrite, Report, Interrupt
<1>2. CASE BuildBaseline(r) \/ BuildAccel(r)
  BY <1>2 DEF FlowTypeOK, BuildBaseline, BuildAccel, Build
<1>3. CASE Simulation(r)
  <2>1. PICK tag \in Tags : Start(r, tag) \/ Simulate(r, tag) \/ TimeOut(r, tag)
    BY <1>3 DEF Simulation
  <2>2. QED
    BY <2>1 DEF FlowTypeOK, Start, Simulate, TimeOut
<1>4. CASE Read(r, "baseline", "start accel") \/ Read(r, "accel", "report")
  BY <1>4 DEF FlowTypeOK, Read
<1>5. QED
  BY <1>1, <1>2, <1>3, <1>4 DEF Step

(* Only its detection is a step of a flow that is not active.               *)
LEMMA InactiveDetects ==
  ASSUME NEW r \in Runs, Step(r), ~Active(r)
  PROVE  Detect(r)
<1>1. stage[r] \in {"detect", "no idiom", "failed", "done"}
  BY DEF Active, Ended
<1>2. ~Simulation(r)
  BY ZenonT(30), <1>1, TagStages DEF Simulation, Start, Simulate, TimeOut, At, Tags
<1>3. ~BuildBaseline(r) /\ ~BuildAccel(r)
  BY <1>1, TagStages DEF BuildBaseline, BuildAccel, Build, At
<1>4. ~Read(r, "baseline", "start accel") /\ ~Read(r, "accel", "report")
  BY <1>1, TagStages DEF Read, At
<1>5. ~Rewrite(r) /\ ~Report(r) /\ ~Interrupt(r)
  BY <1>1 DEF Rewrite, Report, Interrupt, At
<1>6. QED
  BY <1>2, <1>3, <1>4, <1>5 DEF Step

(* A step of one flow leaves the files of another as they are that is       *)
(* active and has met no other on them.                                     *)
LEMMA OthersKept ==
  ASSUME FlowTypeOK, Told, NEW r \in Runs, NEW q \in Runs, q # r, Step(r),
         Active(q), ~crossed[q]
  PROVE  /\ accelFile'[Stem[q]] = accelFile[Stem[q]]
         /\ \A tag \in Tags : image'[<<Stem[q], tag>>] = image[<<Stem[q], tag>>]
         /\ log'[SimDir[q]] = log[SimDir[q]]
<1>1. CASE Shares(q, r)
  <2>1. ~Active(r)
    BY <1>1 DEF Told, Meets
  <2>2. Detect(r)
    BY <2>1, InactiveDetects
  <2>3. QED
    BY <2>2 DEF Detect
<1>2. CASE ~Shares(q, r)
  <2>1. Stem[q] # Stem[r] /\ SimDir[q] # SimDir[r]
    BY <1>2 DEF Shares
  <2>2. CASE Detect(r) \/ Report(r) \/ Interrupt(r)
    BY <2>2 DEF Detect, Report, Interrupt
  <2>3. CASE Rewrite(r)
    <3>1. accelFile'[Stem[q]] = accelFile[Stem[q]]
      BY <2>1, <2>3 DEF FlowTypeOK, Rewrite
    <3>2. UNCHANGED <<image, log>>
      BY <2>3 DEF Rewrite
    <3>3. QED
      BY <3>1, <3>2
  <2>4. ASSUME NEW p, NEW following, Build(r, p, following)
        PROVE  /\ UNCHANGED <<accelFile, log>>
               /\ \A tag \in Tags : image'[<<Stem[q], tag>>] = image[<<Stem[q], tag>>]
    <3>1. UNCHANGED <<accelFile, log>>
      BY <2>4 DEF Build
    <3>2. CASE image' = image
      BY <3>1, <3>2
    <3>3. CASE image' = [image EXCEPT ![Image(r, p[2])] = p]
      <4>1. ASSUME NEW tag \in Tags
            PROVE  /\ <<Stem[q], tag>> \in DOMAIN image
                   /\ <<Stem[q], tag>> # Image(r, p[2])
        BY <2>1 DEF FlowTypeOK, Image
      <4>2. QED
        BY <3>1, <3>3, <4>1
    <3>4. QED
      BY <2>4, <3>2, <3>3 DEF Build
  <2>5. CASE Simulation(r)
    <3>1. PICK tag \in Tags : Start(r, tag) \/ Simulate(r, tag) \/ TimeOut(r, tag)
      BY <2>5 DEF Simulation
    <3>2. UNCHANGED <<accelFile, image>>
      BY <3>1 DEF Start, Simulate, TimeOut
    <3>3. Log(r) = SimDir[r] /\ Log(r) # SimDir[q]
      BY <2>1 DEF Log
    <3>4. log'[SimDir[q]] = log[SimDir[q]]
      <4>1. CASE Start(r, tag) \/ TimeOut(r, tag)
        BY <3>3, <4>1 DEF FlowTypeOK, Start, TimeOut
      <4>2. CASE Simulate(r, tag)
        BY <3>3, <4>2 DEF FlowTypeOK, Simulate
      <4>3. QED
        BY <3>1, <4>1, <4>2
    <3>5. QED
      BY <3>2, <3>4
  <2>6. ASSUME NEW tag, NEW following, Read(r, tag, following)
        PROVE  log'[SimDir[q]] = log[SimDir[q]] /\ UNCHANGED <<accelFile, image>>
    BY <2>1, <2>6 DEF FlowTypeOK, Read, Log
  <2>7. QED
    BY <2>2, <2>3, <2>4, <2>5, <2>6 DEF Step, BuildBaseline, BuildAccel
<1>3. QED
  BY <1>1, <1>2

(* So it keeps what the invariant says of a flow that has met no other.     *)
LEMMA OthersInv ==
  ASSUME FlowTypeOK, Told, NEW r \in Runs, NEW q \in Runs, q # r, Step(r),
         ~crossed[q], Own(q)
  PROVE  Own(q)'
<1>1. stage'[q] = stage[q] /\ running'[q] = running[q] /\ got'[q] = got[q]
  BY OthersStay
<1>2. OwnResults(q)'
  BY <1>1 DEF Own, OwnResults, Backed
<1>3. CASE Active(q)
  <2>1. /\ accelFile'[Stem[q]] = accelFile[Stem[q]]
        /\ \A tag \in Tags : image'[<<Stem[q], tag>>] = image[<<Stem[q], tag>>]
        /\ log'[SimDir[q]] = log[SimDir[q]]
    BY <1>3, OthersKept
  <2>2. OwnBuilds(q)'
    BY <1>1, <2>1 DEF Own, OwnBuilds, Tags
  <2>3. OwnSimulation(q)'
    BY <1>1, <2>1, TagStages DEF Own, OwnSimulation, Printed
  <2>4. QED
    BY <1>2, <2>2, <2>3 DEF Own
<1>4. CASE ~Active(q)
  <2>1. stage'[q] \in {"detect", "no idiom", "failed", "done"}
    BY <1>1, <1>4 DEF Active, Ended
  <2>2. OwnBuilds(q)'
    BY <2>1 DEF OwnBuilds, FromBuilds, FromBuildAccel, FromRuns, FromAccelRun
  <2>3. OwnSimulation(q)'
    BY ZenonT(30), <2>1, TagStages DEF OwnSimulation, Tags
  <2>4. QED
    BY <1>2, <2>2, <2>3 DEF Own
<1>5. QED
  BY <1>3, <1>4

-----------------------------------------------------------------------------
(* A log of one program's output is parsed to what the program printed.     *)
LEMMA ParsedOne ==
  ASSUME NEW r \in Runs, NEW p \in Printed(r)
  PROVE  /\ Parsed(<<p>>).cycles => Parsed(<<p>>).result = Result[running[r]]
         /\ Parsed(<<p>>).success => Parsed(<<p>>).cycles
<1> DEFINE raw == <<p>>
<1>1. DOMAIN raw = {1} /\ raw[1] = p
  OBVIOUS
<1>2. CASE p = Nothing
  <2>1. {i \in DOMAIN raw : raw[i].cycles} = {}
    BY <1>1, <1>2 DEF Nothing
  <2>2. QED
    BY <2>1 DEF Parsed, Nothing
<1>3. CASE p # Nothing
  <2>1. /\ p.cycles /\ p.result = Result[running[r]]
        /\ p = [cycles |-> p.cycles, result |-> p.result, success |-> p.success]
    BY <1>3 DEF Printed
  <2>2. {i \in DOMAIN raw : raw[i].cycles} = {1}
    BY <1>1, <2>1
  <2>3. Min({1}) = 1
    BY DEF Min
  <2>4. Parsed(raw) = [p EXCEPT !.success = \E i \in DOMAIN raw : raw[i].success]
    BY <1>1, <2>2, <2>3 DEF Parsed
  <2>5. QED
    BY <2>1, <2>4
<1>4. QED
  BY <1>2, <1>3

(* The builds of a flow and the rewritten source stay its own.              *)
LEMMA StepBuilds ==
  ASSUME FlowTypeOK, NEW r \in Runs, Step(r), OwnBuilds(r)
  PROVE  OwnBuilds(r)'
<1> USE DEF At, FromBuilds, FromBuildAccel, FromRuns, FromAccelRun, Tags
<1>1. CASE Detect(r) \/ Rewrite(r) \/ Report(r) \/ Interrupt(r)
  BY <1>1 DEF FlowTypeOK, OwnBuilds, Detect, Rewrite, Report, Interrupt
<1>2. CASE BuildBaseline(r)
  BY <1>2, TagStages DEF FlowTypeOK, OwnBuilds, BuildBaseline, Build, Image
<1>3. CASE BuildAccel(r)
  BY <1>3, TagStages DEF FlowTypeOK, OwnBuilds, BuildAccel, Build, Image
<1>4. CASE Simulation(r)
  <2>1. PICK tag \in Tags : Start(r, tag) \/ Simulate(r, tag) \/ TimeOut(r, tag)
    BY <1>4 DEF Simulation
  <2>2. /\ stage'[r] \in {Simulating[tag], Reading[tag], "failed"}
        /\ stage[r] \in {Starting[tag], Simulating[tag]}
        /\ UNCHANGED <<accelFile, image>>
    BY <2>1 DEF FlowTypeOK, Start, Simulate, TimeOut
  <2>3. stage[r] \in FromRuns
    BY ZenonT(30), <2>2, TagStages
  <2>4. QED
    BY <2>2, <2>3 DEF OwnBuilds
<1>5. CASE Read(r, "baseline", "start accel") \/ Read(r, "accel", "report")
  BY <1>5, TagStages DEF FlowTypeOK, OwnBuilds, Read
<1>6. QED
  BY <1>1, <1>2, <1>3, <1>4, <1>5 DEF Step

(* A simulation runs the image of its own flow, and only its own output is  *)
(* in the log when that is read.                                            *)
LEMMA StepSimulation ==
  ASSUME FlowTypeOK, NEW r \in Runs, Step(r), OwnBuilds(r), OwnSimulation(r)
  PROVE  OwnSimulation(r)'
<1> USE DEF At, Tags
<1>1. CASE Detect(r) \/ Rewrite(r) \/ Report(r) \/ Interrupt(r)
  BY ZenonT(30), <1>1, TagStages DEF FlowTypeOK, OwnSimulation, Detect, Rewrite, Report, Interrupt
<1>2. CASE BuildBaseline(r) \/ BuildAccel(r)
  BY ZenonT(30), <1>2, TagStages DEF FlowTypeOK, OwnSimulation, BuildBaseline, BuildAccel, Build
<1>3. ASSUME NEW tag \in Tags, Start(r, tag)
      PROVE  OwnSimulation(r)'
  <2>1. stage[r] \in FromRuns
    BY <1>3, TagStages DEF Start, FromRuns, FromAccelRun
  <2>2. image[<<Stem[r], tag>>] = <<r, tag>>
    BY <2>1 DEF OwnBuilds, FromRuns, FromBuildAccel
  <2>3. /\ stage'[r] = Simulating[tag] /\ running'[r] = <<r, tag>>
        /\ log'[SimDir[r]] = << <<>> >>
    BY <1>3, <2>2 DEF FlowTypeOK, Start, Image, Log
  <2>4. QED
    BY <2>3, TagStages DEF OwnSimulation
<1>4. ASSUME NEW tag \in Tags, Simulate(r, tag)
      PROVE  OwnSimulation(r)'
  <2>1. running[r] = <<r, tag>> /\ log[SimDir[r]] = << <<>> >>
    BY <1>4, TagStages DEF Simulate, OwnSimulation
  <2>2. PICK p \in Printed(r) :
          log' = [log EXCEPT ![Log(r)] = IF @ = <<>> THEN @ ELSE <<Append(@[1], p)>>]
    BY <1>4 DEF Simulate
  <2>3. log[SimDir[r]] # <<>> /\ log[SimDir[r]][1] = <<>>
    BY <2>1
  <2>4. Append(<<>>, p) = <<p>>
    <3>1. ASSUME NEW e PROVE Append(<<>>, e) = <<e>>
      OBVIOUS
    <3>2. QED
      BY <3>1
  <2>5. log'[SimDir[r]] = << <<p>> >>
    BY <2>2, <2>3, <2>4 DEF FlowTypeOK, Log
  <2>6. stage'[r] = Reading[tag] /\ running' = running
    BY <1>4 DEF FlowTypeOK, Simulate
  <2>7. p \in Printed(r)'
    BY <2>6 DEF Printed
  <2>8. QED
    BY <2>1, <2>5, <2>6, <2>7, TagStages DEF OwnSimulation
<1>5. ASSUME NEW tag \in Tags, TimeOut(r, tag)
      PROVE  OwnSimulation(r)'
  BY <1>5, TagStages DEF FlowTypeOK, OwnSimulation, TimeOut
<1>6. CASE Read(r, "baseline", "start accel") \/ Read(r, "accel", "report")
  <2>1. stage'[r] \in {"start accel", "report"}
    BY <1>6 DEF FlowTypeOK, Read
  <2>2. ASSUME NEW tag \in Tags
        PROVE  stage'[r] # Simulating[tag] /\ stage'[r] # Reading[tag]
    BY <2>1, TagStages
  <2>3. QED
    BY <2>2 DEF OwnSimulation
<1>7. QED
  BY <1>1, <1>2, <1>3, <1>4, <1>5, <1>6 DEF Step, Simulation

(* A result that is read back as a success is that of the flow's own        *)
(* program.                                                                 *)
LEMMA StepResults ==
  ASSUME FlowTypeOK, NEW r \in Runs, Step(r), OwnSimulation(r), OwnResults(r)
  PROVE  OwnResults(r)'
<1> USE DEF At, FromAccelRun
<1>1. CASE Detect(r) \/ Rewrite(r) \/ Report(r) \/ Interrupt(r)
  BY <1>1 DEF FlowTypeOK, OwnResults, Backed, Detect, Rewrite, Report, Interrupt
<1>2. CASE BuildBaseline(r) \/ BuildAccel(r)
  BY <1>2 DEF FlowTypeOK, OwnResults, Backed, BuildBaseline, BuildAccel, Build
<1>3. CASE Simulation(r)
  <2>1. PICK tag \in Tags : Start(r, tag) \/ Simulate(r, tag) \/ TimeOut(r, tag)
    BY <1>3 DEF Simulation
  <2>2. /\ stage'[r] \in {Simulating[tag], Reading[tag], "failed"}
        /\ stage[r] \in {Starting[tag], Simulating[tag]}
        /\ UNCHANGED got
    BY <2>1 DEF FlowTypeOK, Start, Simulate, TimeOut
  <2>3. /\ stage'[r] \in FromAccelRun => stage[r] \in FromAccelRun
        /\ stage'[r] \notin {"report", "done"}
    BY <2>2, TagStages DEF Tags
  <2>4. QED
    BY <2>2, <2>3 DEF OwnResults, Backed
<1>4. ASSUME NEW tag \in Tags, NEW following, Read(r, tag, following)
      PROVE  /\ stage'[r] = following /\ Backed(r, tag)'
             /\ \A t \in Tags : t # tag /\ Backed(r, t) => Backed(r, t)'
  <2>1. running[r] = <<r, tag>> /\ \E p \in Printed(r) : log[SimDir[r]] = << <<p>> >>
    BY <1>4, TagStages DEF Read, OwnSimulation
  <2>2. PICK p \in Printed(r) : log[SimDir[r]] = << <<p>> >>
    BY <2>1
  <2>3. log[SimDir[r]] # <<>> /\ log[SimDir[r]][1] = <<p>>
    BY <2>2
  <2>4. got'[r][tag] = Parsed(<<p>>)
    BY <1>4, <2>3 DEF FlowTypeOK, Read, Log
  <2>5. Backed(r, tag)'
    BY <2>1, <2>2, <2>4, ParsedOne DEF Backed
  <2>6. stage'[r] = following
    BY <1>4 DEF FlowTypeOK, Read
  <2>7. \A t \in Tags : t # tag => got'[r][t] = got[r][t]
    BY <1>4 DEF FlowTypeOK, Read
  <2>8. QED
    BY <2>5, <2>6, <2>7 DEF Backed
<1>5. CASE Read(r, "baseline", "start accel")
  BY <1>4, <1>5 DEF Tags, OwnResults
<1>6. CASE Read(r, "accel", "report")
  <2>1. Backed(r, "baseline")
    BY <1>6, TagStages DEF Read, OwnResults
  <2>2. QED
    BY <1>4, <1>6, <2>1 DEF Tags, OwnResults
<1>7. QED
  BY <1>1, <1>2, <1>3, <1>5, <1>6 DEF Step

-----------------------------------------------------------------------------
(* No file is anybody's at the start.                                       *)
LEMMA FlowInitInv == FlowInit => FlowInv
<1> SUFFICES ASSUME FlowInit PROVE FlowInv
  OBVIOUS
<1>1. FlowTypeOK
  BY DEF FlowInit, FlowTypeOK, Stages
<1>2. ASSUME NEW r \in Runs
      PROVE  stage[r] = "detect"
  BY <1>2 DEF FlowInit
<1>3. Told
  BY <1>2 DEF Told, Meets, Active
<1>4. QED
  BY <1>1, <1>2, <1>3, TagStages DEF FlowInv, Own, OwnBuilds, OwnSimulation, OwnResults, Tags,
     FromBuilds, FromBuildAccel, FromRuns, FromAccelRun

(* Every step keeps the invariant.                                          *)
LEMMA FlowStepInv ==
  ASSUME FlowInv, [FlowNext]_flowVars
  PROVE  FlowInv'
<1>1. CASE FlowNext
  <2>1. PICK r \in Runs : Step(r)
    BY <1>1 DEF FlowNext
  <2>2. FlowTypeOK /\ Told
    BY DEF FlowInv
  <2>3. FlowTypeOK'
    BY <2>1, <2>2, StepType
  <2>4. Told' /\ \A q \in Runs : crossed[q] => crossed'[q]
    BY <2>1, StepTold
  <2>5. ASSUME NEW q \in Runs, ~crossed'[q]
        PROVE  Own(q)'
    <3>1. ~crossed[q] /\ Own(q)
      BY <2>4, <2>5 DEF FlowInv
    <3>2. CASE q = r
      <4>1. OwnBuilds(q)' /\ OwnSimulation(q)' /\ OwnResults(q)'
        BY <2>1, <2>2, <3>1, <3>2, StepBuilds, StepSimulation, StepResults DEF Own
      <4>2. QED
        BY <4>1 DEF Own
    <3>3. CASE q # r
      BY <2>1, <2>2, <3>1, <3>3, OthersInv
    <3>4. QED
      BY <3>2, <3>3
  <2>6. QED
    BY <2>3, <2>4, <2>5 DEF FlowInv
<1>2. CASE UNCHANGED flowVars
  BY <1>2, TagStages DEF flowVars, FlowInv, FlowTypeOK, Told, Meets, Active, Own, OwnBuilds,
     OwnSimulation, OwnResults, Backed, Printed
<1>3. QED
  BY <1>1, <1>2

(* A flow that meets no other one on its files builds, runs and reads back  *)
(* only what is its own, whatever earlier flows left there (run_flow).      *)
THEOREM FlowInvariance == FlowSpec => []FlowInv
<1>1. FlowInv /\ [FlowNext]_flowVars => FlowInv'
  BY FlowStepInv
<1>2. QED
  BY FlowInitInv, <1>1, PTL DEF FlowSpec

(* A flow that reports equal results without having met another one on its  *)
(* files has run its own two programs, and they compute the same; or a      *)
(* simulation printed no result, and the report tells that not both were a  *)
(* success (_print_report of pariscv_flow.py).  The flows may share the     *)
(* directory and the source file, and be interrupted anywhere.              *)
THEOREM VerdictBacked == FlowSpec => []VerdictIsBacked
<1>1. ASSUME FlowInv, NEW r \in Runs, stage[r] = "done", ~crossed[r], checksum_ok(r)
      PROVE  \/ /\ got[r]["baseline"].result = Result[<<r, "baseline">>]
                /\ Result[<<r, "baseline">>] = Result[<<r, "accel">>]
             \/ ~BothPrinted(r) /\ ~(base_ok(r) /\ accel_ok(r))
  <2>1. Backed(r, "baseline") /\ Backed(r, "accel")
    BY <1>1 DEF FlowInv, Own, OwnResults
  <2>2. CASE BothPrinted(r)
    <3>1. got[r]["baseline"].cycles /\ got[r]["accel"].cycles
      BY <2>2 DEF BothPrinted, Tags
    <3>2. /\ got[r]["baseline"].result = Result[<<r, "baseline">>]
          /\ got[r]["accel"].result = Result[<<r, "accel">>]
      BY <2>1, <3>1 DEF Backed
    <3>3. QED
      BY <1>1, <3>2 DEF checksum_ok
  <2>3. CASE ~BothPrinted(r)
    BY <2>1, <2>3 DEF Backed, BothPrinted, Tags, base_ok, accel_ok
  <2>4. QED
    BY <2>2, <2>3
<1>2. FlowInv => VerdictIsBacked
  BY <1>1 DEF VerdictIsBacked
<1>3. QED
  BY <1>2, FlowInvariance, PTL

-----------------------------------------------------------------------------
(* The hash. *)

(* A set of naturals with 0 and every successor has them all.               *)
LEMMA AllNaturals ==
  ASSUME NEW T \in SUBSET Nat, 0 \in T, \A m \in T : m + 1 \in T
  PROVE  T = Nat
<1> SUFFICES ASSUME Nat \ T # {} PROVE FALSE
  OBVIOUS
<1> DEFINE R == OpToRel(<, Nat)
<1>1. R = {ss \in Nat \X Nat : ss[1] < ss[2]}
  BY DEF OpToRel
<1>2. IsWellFoundedOn(R, Nat)
  BY NatLessThanWellFounded
<1> HIDE DEF R
<1>3. PICK x \in Nat \ T : \A y \in Nat \ T : ~(<<y, x>> \in R)
  BY <1>2, WFMin
<1>4. x - 1 \in Nat /\ x - 1 < x
  OBVIOUS
<1>5. <<x - 1, x>> \in Nat \X Nat /\ <<x - 1, x>>[1] < <<x - 1, x>>[2]
  BY <1>4
<1>6. <<x - 1, x>> \in R
  BY <1>1, <1>5
<1>7. x - 1 \in T
  BY <1>3, <1>4, <1>6
<1>8. x - 1 + 1 = x
  OBVIOUS
<1>9. QED
  BY <1>3, <1>7, <1>8

(* A chain over the first n blocks of data.                                 *)
IsChain(f, s, data, n) ==
  f = [k \in 0..n |-> IF k = 0 THEN s ELSE Compress(f[k - 1], Piece(data, k))]

(* There is one over any number of blocks,                                  *)
LEMMA ChainExists ==
  ASSUME NEW s, NEW data, NEW n \in Nat
  PROVE  \E f : IsChain(f, s, data, n)
<1> DEFINE T == {m \in Nat : \E f : IsChain(f, s, data, m)}
<1>1. 0 \in T
  <2> DEFINE g == [k \in 0..0 |-> s]
  <2>1. g = [k \in 0..0 |-> IF k = 0 THEN s ELSE Compress(g[k - 1], Piece(data, k))]
    OBVIOUS
  <2>2. IsChain(g, s, data, 0)
    BY <2>1 DEF IsChain
  <2>3. QED
    BY <2>2
<1>2. ASSUME NEW m \in T
      PROVE  m + 1 \in T
  <2>1. PICK f : IsChain(f, s, data, m)
    OBVIOUS
  <2>2. m \in Nat
    OBVIOUS
  <2> HIDE DEF T
  <2> DEFINE g == [k \in 0..(m + 1) |->
                     IF k = 0 THEN s ELSE Compress(f[k - 1], Piece(data, k))]
  <2>3. ASSUME NEW k \in 0..(m + 1), k # 0
        PROVE  g[k - 1] = f[k - 1]
    <3>1. k - 1 \in 0..m /\ k - 1 \in 0..(m + 1)
      BY <2>2, <2>3
    <3>2. f[k - 1] = IF k - 1 = 0 THEN s ELSE Compress(f[k - 1 - 1], Piece(data, k - 1))
      BY <2>1, <3>1 DEF IsChain
    <3>3. QED
      BY <3>1, <3>2
  <2>4. g = [k \in 0..(m + 1) |->
               IF k = 0 THEN s ELSE Compress(g[k - 1], Piece(data, k))]
    BY <2>3
  <2>5. IsChain(g, s, data, m + 1)
    BY <2>4 DEF IsChain
  <2>6. QED
    BY <2>2, <2>5 DEF T
<1>3. T = Nat
  <2> HIDE DEF T
  <2>1. T \in SUBSET Nat
    BY DEF T
  <2>2. QED
    BY <1>1, <1>2, <2>1, AllNaturals
<1>4. QED
  BY <1>3

(* and two of them agree as far as both go.                                 *)
LEMMA ChainsAgree ==
  ASSUME NEW s, NEW data, NEW n \in Nat, NEW m \in Nat, n <= m, NEW f, NEW g,
         IsChain(f, s, data, n), IsChain(g, s, data, m)
  PROVE  \A k \in 0..n : f[k] = g[k]
<1> DEFINE T == {k \in Nat : k <= n => f[k] = g[k]}
<1>1. 0 \in T
  BY DEF IsChain
<1>2. ASSUME NEW k \in T
      PROVE  k + 1 \in T
  <2>1. k \in Nat
    OBVIOUS
  <2>2. ASSUME k + 1 <= n
        PROVE  f[k + 1] = g[k + 1]
    <3>1. f[k] = g[k]
      BY <2>1, <2>2
    <3>2. k + 1 \in 0..n /\ k + 1 \in 0..m /\ k + 1 # 0 /\ k + 1 - 1 = k
      BY <2>1, <2>2
    <3>3. f[k + 1] = Compress(f[k + 1 - 1], Piece(data, k + 1))
      BY <3>2 DEF IsChain
    <3>4. g[k + 1] = Compress(g[k + 1 - 1], Piece(data, k + 1))
      BY <3>2 DEF IsChain
    <3>5. QED
      BY <3>1, <3>2, <3>3, <3>4
  <2>3. QED
    BY <2>1, <2>2
<1>3. T = Nat
  <2> HIDE DEF T
  <2>1. T \in SUBSET Nat
    BY DEF T
  <2>2. QED
    BY <1>1, <1>2, <2>1, AllNaturals
<1>4. QED
  BY <1>3

(* So the operator Chain compresses one block after the other.              *)
LEMMA ChainIs ==
  ASSUME NEW s, NEW data, NEW n \in Nat
  PROVE  \E f : IsChain(f, s, data, n) /\ Chain(s, data, n) = f[n]
<1> DEFINE f == CHOOSE g : IsChain(g, s, data, n)
<1>1. IsChain(f, s, data, n)
  BY ChainExists
<1>2. Chain(s, data, n) = f[n]
  BY DEF Chain, IsChain
<1>3. QED
  BY <1>1, <1>2

(* One block more is compressed on top.                                     *)
LEMMA ChainSteps ==
  ASSUME NEW s, NEW data, NEW n \in Nat
  PROVE  /\ Chain(s, data, 0) = s
         /\ Chain(s, data, n + 1) = Compress(Chain(s, data, n), Piece(data, n + 1))
<1>1. PICK z : IsChain(z, s, data, 0) /\ Chain(s, data, 0) = z[0]
  BY ChainIs
<1>2. PICK f : IsChain(f, s, data, n) /\ Chain(s, data, n) = f[n]
  BY ChainIs
<1>3. PICK g : IsChain(g, s, data, n + 1) /\ Chain(s, data, n + 1) = g[n + 1]
  BY ChainIs
<1>4. Chain(s, data, 0) = s
  BY <1>1 DEF IsChain
<1>5. f[n] = g[n]
  BY <1>2, <1>3, ChainsAgree, n \in 0..n, n + 1 \in Nat, n <= n + 1
<1>6. n + 1 \in 0..(n + 1) /\ n + 1 # 0 /\ n + 1 - 1 = n
  OBVIOUS
<1>7. g[n + 1] = Compress(g[n + 1 - 1], Piece(data, n + 1))
  BY <1>3, <1>6 DEF IsChain
<1>8. QED
  BY <1>2, <1>3, <1>4, <1>5, <1>6, <1>7

(* A chain sees no more than the blocks it goes over,                       *)
LEMMA ChainOfSame ==
  ASSUME NEW s, NEW d, NEW e, NEW n \in Nat, \A k \in 1..n : Piece(d, k) = Piece(e, k)
  PROVE  Chain(s, d, n) = Chain(s, e, n)
<1> DEFINE T == {k \in Nat : k <= n => Chain(s, d, k) = Chain(s, e, k)}
<1>1. 0 \in T
  BY ChainSteps
<1>2. ASSUME NEW k \in T
      PROVE  k + 1 \in T
  <2>1. k \in Nat
    OBVIOUS
  <2>2. ASSUME k + 1 <= n
        PROVE  Chain(s, d, k + 1) = Chain(s, e, k + 1)
    <3>1. Chain(s, d, k) = Chain(s, e, k)
      BY <2>1, <2>2
    <3>2. Piece(d, k + 1) = Piece(e, k + 1)
      BY <2>1, <2>2
    <3>3. QED
      BY <2>1, <3>1, <3>2, ChainSteps
  <2>3. QED
    BY <2>1, <2>2
<1>3. T = Nat
  <2> HIDE DEF T
  <2>1. T \in SUBSET Nat
    BY DEF T
  <2>2. QED
    BY <1>1, <1>2, <2>1, AllNaturals
<1>4. QED
  BY <1>3

(* and goes on where another has ended.                                     *)
LEMMA ChainGoesOn ==
  ASSUME NEW s, NEW d, NEW e, NEW m \in Nat, NEW n \in Nat,
         \A k \in 1..n : Piece(d, m + k) = Piece(e, k)
  PROVE  Chain(s, d, m + n) = Chain(Chain(s, d, m), e, n)
<1> DEFINE T == {k \in Nat : k <= n => Chain(s, d, m + k) = Chain(Chain(s, d, m), e, k)}
<1>1. 0 \in T
  <2>1. Chain(Chain(s, d, m), e, 0) = Chain(s, d, m)
    BY ChainSteps
  <2>2. m + 0 = m
    OBVIOUS
  <2>3. QED
    BY <2>1, <2>2
<1>2. ASSUME NEW k \in T
      PROVE  k + 1 \in T
  <2>1. k \in Nat
    OBVIOUS
  <2>2. ASSUME k + 1 <= n
        PROVE  Chain(s, d, m + (k + 1)) = Chain(Chain(s, d, m), e, k + 1)
    <3>1. Chain(s, d, m + k) = Chain(Chain(s, d, m), e, k)
      BY <2>1, <2>2
    <3>2. Piece(d, m + (k + 1)) = Piece(e, k + 1)
      BY <2>1, <2>2
    <3>3. m + k \in Nat /\ m + k + 1 = m + (k + 1)
      BY <2>1
    <3>4. Chain(s, d, m + k + 1) = Compress(Chain(s, d, m + k), Piece(d, m + k + 1))
      BY <3>3, ChainSteps
    <3>5. Chain(Chain(s, d, m), e, k + 1)
            = Compress(Chain(Chain(s, d, m), e, k), Piece(e, k + 1))
      BY <2>1, ChainSteps
    <3>6. QED
      BY <3>1, <3>2, <3>3, <3>4, <3>5
  <2>3. QED
    BY <2>1, <2>2
<1>3. T = Nat
  <2> HIDE DEF T
  <2>1. T \in SUBSET Nat
    BY DEF T
  <2>2. QED
    BY <1>1, <1>2, <2>1, AllNaturals
<1>4. QED
  BY <1>3

-----------------------------------------------------------------------------
(* The sizes are numbers.                                                   *)
LEMMA HashSizes ==
  /\ BlockSize \in Nat /\ BlockSize > 0 /\ SizeField \in Nat /\ SizeField <= BlockSize
  /\ MaxLen \in Nat
  BY HashAssumption

(* So many blocks are so long.                                              *)
Upto(n) == n * BlockSize

(* Quotient and remainder.                                                  *)
LEMMA DivisionIs ==
  ASSUME NEW n \in Nat, NEW d \in Nat, d > 0
  PROVE  n \div d \in Nat /\ n % d \in 0..(d - 1) /\ n = (n \div d) * d + (n % d)
  OBVIOUS

(* A length is that of its whole blocks and what remains.                   *)
LEMMA Division ==
  ASSUME NEW n \in Nat
  PROVE  /\ n \div BlockSize \in Nat /\ n % BlockSize \in 0..(BlockSize - 1)
         /\ n = Upto(n \div BlockSize) + (n % BlockSize)
  BY HashSizes, DivisionIs DEF Upto

(* Each block adds its size.                                                *)
LEMMA UptoIs ==
  ASSUME NEW n \in Nat
  PROVE  /\ Upto(n) \in Nat /\ Upto(0) = 0
         /\ Upto(n + 1) = Upto(n) + BlockSize
         /\ Upto(n) % BlockSize = 0 /\ Upto(n) \div BlockSize = n
  BY HashSizes DEF Upto

(* More blocks are longer, and lengths add up.                              *)
LEMMA UptoRises ==
  ASSUME NEW k \in Nat, NEW n \in Nat
  PROVE  /\ k <= n => Upto(k) <= Upto(n)
         /\ Upto(k + n) = Upto(k) + Upto(n)
  BY HashSizes DEF Upto

-----------------------------------------------------------------------------
(* What a byte of a block may hold.                                         *)
Bytes ==
  Data \cup {0, 128} \cup {WriteSize(8 * n)[k] : n \in 0..MaxLen, k \in 1..SizeField}

Full == [1..BlockSize -> Bytes]

(* Blocks with the same bytes are the same.                                 *)
LEMMA SameBlock ==
  ASSUME NEW a \in Full, NEW b \in Full, \A j \in 1..BlockSize : a[j] = b[j]
  PROVE  a = b
<1>1. a = [j \in 1..BlockSize |-> a[j]] /\ b = [j \in 1..BlockSize |-> b[j]]
  BY DEF Full
<1>2. [j \in 1..BlockSize |-> a[j]] = [j \in 1..BlockSize |-> b[j]]
  OBVIOUS
<1>3. QED
  BY <1>1, <1>2

(* A sequence as long as a block is one.                                    *)
LEMMA FullIs ==
  ASSUME NEW d \in Seq(Bytes), Len(d) = BlockSize
  PROVE  d \in Full
  BY DEF Full

(* A block of a sequence, byte by byte.                                     *)
LEMMA PieceBytes ==
  ASSUME NEW d \in Seq(Bytes), NEW k \in Nat, Upto(k + 1) <= Len(d)
  PROVE  /\ Piece(d, k + 1) \in Full
         /\ \A j \in 1..BlockSize : Piece(d, k + 1)[j] = d[Upto(k) + j]
<1>1. Upto(k) \in Nat /\ BlockSize \in Nat /\ Upto(k + 1) = Upto(k) + BlockSize
  BY UptoIs, HashSizes
<1>2. Piece(d, k + 1) = SubSeq(d, Upto((k + 1) - 1) + 1, Upto(k + 1))
  BY Zenon DEF Piece, Upto
<1>3. Piece(d, k + 1) = SubSeq(d, Upto(k) + 1, Upto(k) + BlockSize)
  BY <1>1, <1>2, (k + 1) - 1 = k
<1>4. /\ SubSeq(d, Upto(k) + 1, Upto(k) + BlockSize) \in Seq(Bytes)
      /\ Len(SubSeq(d, Upto(k) + 1, Upto(k) + BlockSize)) = BlockSize
      /\ \A j \in 1..BlockSize : SubSeq(d, Upto(k) + 1, Upto(k) + BlockSize)[j] = d[Upto(k) + j]
  BY <1>1
<1>5. QED
  BY <1>3, <1>4, FullIs

(* A sequence whose next block holds the bytes of b.                        *)
LEMMA PieceIs ==
  ASSUME NEW p \in Seq(Bytes), NEW k \in Nat, Upto(k + 1) <= Len(p), NEW b \in Full,
         \A j \in 1..BlockSize : b[j] = p[Upto(k) + j]
  PROVE  Piece(p, k + 1) = b
  BY PieceBytes, SameBlock

(* Sequences that begin alike have the same chain over their beginning.     *)
LEMMA SameStart ==
  ASSUME NEW m \in Seq(Bytes), NEW p \in Seq(Bytes), NEW n \in Nat,
         Upto(n) <= Len(m), Upto(n) <= Len(p), \A j \in 1..Upto(n) : p[j] = m[j]
  PROVE  Chain(StartState, p, n) = Chain(StartState, m, n)
<1>1. ASSUME NEW k \in 1..n
      PROVE  Piece(p, k) = Piece(m, k)
  <2>1. PICK j \in Nat : k = j + 1 /\ j + 1 <= n
    <3>1. k - 1 \in Nat /\ k = k - 1 + 1 /\ k - 1 + 1 <= n
      OBVIOUS
    <3>2. QED
      BY <3>1
  <2>2. /\ Upto(j) \in Nat /\ Upto(j + 1) = Upto(j) + BlockSize /\ Upto(n) \in Nat
    BY UptoIs
  <2>3. Upto(j + 1) <= Upto(n)
    <3>1. j + 1 \in Nat
      OBVIOUS
    <3>2. QED
      BY <2>1, <3>1, UptoRises
  <2>4. Len(m) \in Nat /\ Len(p) \in Nat /\ BlockSize \in Nat
    BY HashSizes
  <2>5. Upto(j + 1) <= Len(m) /\ Upto(j + 1) <= Len(p)
    BY <2>2, <2>3, <2>4
  <2>6. /\ Piece(m, j + 1) \in Full
        /\ \A i \in 1..BlockSize : Piece(m, j + 1)[i] = m[Upto(j) + i]
    BY <2>5, PieceBytes
  <2>7. ASSUME NEW i \in 1..BlockSize
        PROVE  Piece(m, j + 1)[i] = p[Upto(j) + i]
    <3>1. Upto(j) + i \in 1..Upto(n)
      BY <2>2, <2>3, <2>4
    <3>2. QED
      BY <2>6, <3>1
  <2>8. Piece(p, j + 1) = Piece(m, j + 1)
    BY <2>5, <2>6, <2>7, PieceIs
  <2>9. QED
    BY <2>1, <2>8
<1>2. QED
  BY <1>1, ChainOfSame

(* What is behind a message does not change the chain over its blocks.      *)
LEMMA ChainOfPrefix ==
  ASSUME NEW m \in Seq(Bytes), NEW e \in Seq(Bytes), NEW n \in Nat, Upto(n) <= Len(m)
  PROVE  Chain(StartState, m \o e, n) = Chain(StartState, m, n)
<1> DEFINE p == m \o e
<1>1. /\ p \in Seq(Bytes) /\ Len(p) >= Len(m) /\ \A i \in 1..Len(m) : p[i] = m[i]
      /\ Len(m) \in Nat /\ Len(p) \in Nat
  OBVIOUS
<1>2. Upto(n) \in Nat
  BY UptoIs
<1> HIDE DEF p
<1>3. Upto(n) <= Len(p) /\ \A i \in 1..Upto(n) : p[i] = m[i]
  BY <1>1, <1>2
<1>4. Chain(StartState, p, n) = Chain(StartState, m, n)
  BY <1>1, <1>3, SameStart
<1>5. QED
  BY <1>4 DEF p

(* The blocks of a sequence that is behind others.                          *)
LEMMA PiecesBehind ==
  ASSUME NEW m \in Seq(Bytes), NEW e \in Seq(Bytes), NEW c \in Nat, NEW n \in Nat,
         Len(m) = Upto(c), Upto(n) <= Len(e), NEW k \in 1..n
  PROVE  Piece(m \o e, c + k) = Piece(e, k)
<1> DEFINE d == m \o e
<1>1. PICK j \in Nat : k = j + 1 /\ j + 1 <= n
  <2>1. k - 1 \in Nat /\ k = k - 1 + 1 /\ k - 1 + 1 <= n
    OBVIOUS
  <2>2. QED
    BY <2>1
<1>2. /\ d \in Seq(Bytes) /\ Len(d) = Len(m) + Len(e)
      /\ \A i \in 1..Len(e) : d[Len(m) + i] = e[i]
      /\ Len(m) \in Nat /\ Len(e) \in Nat
  OBVIOUS
<1>3. /\ Upto(j) \in Nat /\ Upto(j + 1) = Upto(j) + BlockSize /\ Upto(n) \in Nat
      /\ Upto(c) \in Nat
  BY UptoIs
<1>4. Upto(j + 1) <= Upto(n) /\ Upto(c + j) = Upto(c) + Upto(j)
  <2>1. j + 1 \in Nat
    OBVIOUS
  <2>2. Upto(j + 1) <= Upto(n)
    BY <1>1, <2>1, UptoRises
  <2>3. Upto(c + j) = Upto(c) + Upto(j)
    BY UptoRises
  <2>4. QED
    BY <2>2, <2>3
<1>5. c + j \in Nat /\ c + k = c + j + 1
  BY <1>1
<1>6. Upto(c + j + 1) = Upto(c + j) + BlockSize
  BY <1>5, UptoIs
<1> HIDE DEF d
<1>7. Upto(j + 1) <= Len(e) /\ Upto(c + j + 1) <= Len(d) /\ BlockSize \in Nat
  BY SMTT(30), <1>2, <1>3, <1>4, <1>6, HashSizes
<1>8. /\ Piece(d, c + j + 1) \in Full
      /\ \A i \in 1..BlockSize : Piece(d, c + j + 1)[i] = d[Upto(c + j) + i]
  BY <1>2, <1>5, <1>7, PieceBytes
<1>9. /\ Piece(e, j + 1) \in Full
      /\ \A i \in 1..BlockSize : Piece(e, j + 1)[i] = e[Upto(j) + i]
  BY <1>7, PieceBytes
<1>10. ASSUME NEW i \in 1..BlockSize
       PROVE  Piece(d, c + j + 1)[i] = Piece(e, j + 1)[i]
  <2>1. Upto(j) + i \in 1..Len(e)
    BY <1>2, <1>3, <1>7
  <2>2. Upto(c + j) + i = Len(m) + (Upto(j) + i)
    BY <1>3, <1>4
  <2>3. d[Upto(c + j) + i] = e[Upto(j) + i]
    BY <1>2, <2>1, <2>2
  <2>4. QED
    BY <1>8, <1>9, <2>3
<1>11. Piece(d, c + j + 1) = Piece(e, j + 1)
  BY <1>8, <1>9, <1>10, SameBlock
<1>12. QED
  BY <1>1, <1>5, <1>11 DEF d

(* What follows the first n bytes.                                          *)
LEMMA RestBytes ==
  ASSUME NEW d \in Seq(Bytes), NEW n \in Nat, n <= Len(d)
  PROVE  /\ Rest(d, n) \in Seq(Bytes) /\ Len(Rest(d, n)) = Len(d) - n
         /\ \A k \in 1..(Len(d) - n) : Rest(d, n)[k] = d[n + k]
<1>1. Len(d) \in Nat
  OBVIOUS
<1>2. \A k \in 1..(Len(d) - n) : SubSeq(d, n + 1, Len(d))[k] = d[n + k]
  BY <1>1
<1>3. SubSeq(d, n + 1, Len(d)) \in Seq(Bytes)
  BY <1>1
<1>4. Len(SubSeq(d, n + 1, Len(d))) = Len(d) - n
  BY <1>1
<1>5. QED
  BY <1>2, <1>3, <1>4 DEF Rest

(* A sequence cut in two and joined again.                                  *)
LEMMA CutAndJoined ==
  ASSUME NEW d \in Seq(Bytes), NEW n \in Nat, n <= Len(d)
  PROVE  SubSeq(d, 1, n) \o Rest(d, n) = d
<1>1. /\ 1 \in 1..(Len(d) + 1) /\ n \in (1 - 1)..Len(d) /\ Len(d) \in n..Len(d)
  OBVIOUS
<1>2. SubSeq(d, 1, n) \o SubSeq(d, n + 1, Len(d)) = SubSeq(d, 1, Len(d))
  BY <1>1, ConcatAdjacentSubSeq
<1>3. SubSeq(d, 1, Len(d)) = d
  BY SubSeqFull
<1>4. QED
  BY Zenon, <1>2, <1>3 DEF Rest

(* memcpy() to a block, byte by byte.                                       *)
LEMMA FilledBytes ==
  ASSUME NEW b \in Full, NEW at \in Nat, NEW data \in Seq(Bytes)
  PROVE  /\ Filled(b, at, data) \in Full
         /\ \A j \in 1..BlockSize :
              Filled(b, at, data)[j] = IF j - at \in 1..Len(data) THEN data[j - at] ELSE b[j]
<1>1. DOMAIN data = 1..Len(data) /\ \A i \in 1..Len(data) : data[i] \in Bytes
  OBVIOUS
<1>2. QED
  BY <1>1 DEF Filled, Full

(* Zeros are bytes,                                                         *)
LEMMA ZerosBytes ==
  ASSUME NEW n \in Nat
  PROVE  /\ Zeros(n) \in Seq(Bytes) /\ Len(Zeros(n)) = n
         /\ \A k \in 1..n : Zeros(n)[k] = 0
  BY DEF Zeros, Bytes

(* and so is what the length is written as.                                 *)
LEMMA SizeBytes ==
  ASSUME NEW n \in 0..MaxLen
  PROVE  /\ WriteSize(8 * n) \in Seq(Bytes) /\ Len(WriteSize(8 * n)) = SizeField
<1>1. WriteSize(8 * n) = [k \in 1..SizeField |-> WriteSize(8 * n)[k]]
  BY HashAssumption
<1>2. \A k \in 1..SizeField : WriteSize(8 * n)[k] \in Bytes
  BY DEF Bytes
<1>3. SizeField \in Nat
  BY HashAssumption
<1> DEFINE w == WriteSize(8 * n)
<1> HIDE DEF w
<1>4. w = [k \in 1..SizeField |-> w[k]] /\ \A k \in 1..SizeField : w[k] \in Bytes
  BY <1>1, <1>2 DEF w
<1>5. w \in [1..SizeField -> Bytes]
  BY <1>4
<1>6. w \in Seq(Bytes) /\ Len(w) = SizeField
  BY <1>3, <1>5
<1>7. QED
  BY <1>6 DEF w

-----------------------------------------------------------------------------
(* The context stands for the bytes m taken so far: the chain over their    *)
(* whole blocks, and the rest of them at the front of the block; what an    *)
(* earlier message left behind that does not matter.                        *)
ContextType(c) ==
  /\ c = [state |-> c.state, count |-> c.count, index |-> c.index, block |-> c.block]
  /\ c.count \in Nat /\ c.index \in Nat /\ c.block \in Full

Represents(c, m) ==
  /\ ContextType(c) /\ c.index < BlockSize
  /\ Len(m) = Upto(c.count) + c.index
  /\ c.state = Chain(StartState, m, c.count)
  /\ \A k \in 1..c.index : c.block[k] = m[Upto(c.count) + k]

(* The same for whole blocks, whatever index and block hold.                *)
Whole(c, m) ==
  /\ ContextType(c) /\ Len(m) = Upto(c.count) /\ c.state = Chain(StartState, m, c.count)

(* The loop of MD_UPDATE over whole blocks, and what remains.               *)
LEMMA WholeBlocksTake ==
  ASSUME NEW c, NEW m \in Seq(Bytes), NEW data \in Seq(Bytes), Whole(c, m)
  PROVE  Represents(WholeBlocks(c, data), m \o data)
<1> DEFINE n == Len(data) \div BlockSize
           r == Len(data) % BlockSize
           rest == Rest(data, n * BlockSize)
           d == m \o data
           after == WholeBlocks(c, data)
<1>1. /\ n \in Nat /\ r \in Nat /\ r < BlockSize /\ Len(data) = Upto(n) + r
      /\ Upto(n) \in Nat /\ Upto(c.count) \in Nat /\ c.count \in Nat
      /\ Upto(c.count + n) = Upto(c.count) + Upto(n) /\ BlockSize \in Nat
  <2>1. Len(data) \in Nat
    OBVIOUS
  <2>2. n \in Nat /\ r \in 0..(BlockSize - 1) /\ Len(data) = Upto(n) + r
    BY <2>1, Division
  <2>3. c.count \in Nat
    BY DEF Whole, ContextType
  <2> HIDE DEF n, r
  <2>4. Upto(n) \in Nat /\ Upto(c.count) \in Nat
    BY <2>2, <2>3, UptoIs
  <2>5. Upto(c.count + n) = Upto(c.count) + Upto(n)
    BY <2>2, <2>3, UptoRises
  <2>6. QED
    BY <2>2, <2>3, <2>4, <2>5, HashSizes
<1>2. rest = Rest(data, Upto(n))
  BY Zenon DEF Upto
<1>3. after = [c EXCEPT !.state = Chain(@, data, n), !.count = @ + n,
                        !.block = Filled(@, 0, rest), !.index = Len(rest)]
  BY Zenon DEF WholeBlocks
<1>4. /\ d \in Seq(Bytes) /\ Len(d) = Len(m) + Len(data) /\ Len(m) \in Nat
      /\ \A i \in 1..Len(data) : d[Len(m) + i] = data[i]
  OBVIOUS
<1> HIDE DEF n, r, rest, d, after
<1>5. /\ rest \in Seq(Bytes) /\ Len(rest) = r
      /\ \A k \in 1..r : rest[k] = data[Upto(n) + k]
  <2>1. Upto(n) <= Len(data) /\ Len(data) - Upto(n) = r
    BY <1>1
  <2>2. QED
    BY <1>1, <1>2, <2>1, RestBytes
<1>6. Filled(c.block, 0, rest) \in Full
      /\ \A k \in 1..r : Filled(c.block, 0, rest)[k] = rest[k]
  <2>1. c.block \in Full
    BY DEF Whole, ContextType
  <2>2. /\ Filled(c.block, 0, rest) \in Full
        /\ \A j \in 1..BlockSize :
             Filled(c.block, 0, rest)[j] = IF j - 0 \in 1..Len(rest) THEN rest[j - 0] ELSE c.block[j]
    BY <1>5, <2>1, FilledBytes, 0 \in Nat
  <2>3. ASSUME NEW k \in 1..r
        PROVE  Filled(c.block, 0, rest)[k] = rest[k]
    <3>1. k \in 1..BlockSize /\ k - 0 \in 1..Len(rest) /\ k - 0 = k
      BY <1>1, <1>5
    <3>2. QED
      BY <2>2, <3>1
  <2>4. QED
    BY <2>2, <2>3
<1>7. /\ after.state = Chain(c.state, data, n) /\ after.count = c.count + n
      /\ after.index = r /\ after.block = Filled(c.block, 0, rest)
      /\ after = [state |-> after.state, count |-> after.count,
                  index |-> after.index, block |-> after.block]
  <2>1. c = [state |-> c.state, count |-> c.count, index |-> c.index, block |-> c.block]
    BY DEF Whole, ContextType
  <2>2. QED
    BY <1>3, <1>5, <2>1
<1>8. ContextType(after)
  BY <1>1, <1>6, <1>7 DEF ContextType
<1>9. Chain(StartState, d, c.count + n) = Chain(c.state, data, n)
  <2>2. Chain(StartState, d, c.count) = Chain(StartState, m, c.count)
    <3> DEFINE j == c.count
    <3>1. j \in Nat /\ Upto(j) <= Len(m)
      BY <1>1, <1>4 DEF Whole
    <3> HIDE DEF j
    <3>2. Chain(StartState, m \o data, j) = Chain(StartState, m, j)
      BY <3>1, ChainOfPrefix
    <3>3. QED
      BY <3>2 DEF d, j
  <2>3. ASSUME NEW k \in 1..n
        PROVE  Piece(d, c.count + k) = Piece(data, k)
    <3> DEFINE j == c.count
    <3>1. Len(m) = Upto(j) /\ Upto(n) <= Len(data) /\ j \in Nat /\ n \in Nat
      BY <1>1, <1>4 DEF Whole
    <3> HIDE DEF j
    <3>2. Piece(m \o data, j + k) = Piece(data, k)
      BY <3>1, PiecesBehind
    <3>3. QED
      BY <3>2 DEF d, j
  <2>4. Chain(StartState, d, c.count + n) = Chain(Chain(StartState, d, c.count), data, n)
    BY <1>1, <2>3, ChainGoesOn
  <2>5. QED
    BY <2>2, <2>4 DEF Whole
<1>10. Len(d) = Upto(after.count) + after.index
  BY <1>1, <1>4, <1>7 DEF Whole
<1>11. ASSUME NEW k \in 1..after.index
       PROVE  after.block[k] = d[Upto(after.count) + k]
  <2>1. k \in 1..r /\ Upto(n) + k \in 1..Len(data)
    BY <1>1, <1>7
  <2>2. Upto(after.count) + k = Len(m) + (Upto(n) + k)
    BY <1>1, <1>7, <2>1 DEF Whole
  <2>3. d[Len(m) + (Upto(n) + k)] = data[Upto(n) + k]
    BY <1>4, <2>1
  <2>4. QED
    BY <1>5, <1>6, <1>7, <2>1, <2>2, <2>3
<1>12. Represents(after, d)
  BY <1>1, <1>7, <1>8, <1>9, <1>10, <1>11 DEF Represents
<1>13. QED
  BY <1>12 DEF after, d

(* Bytes that do not fill the block are put behind those in it.             *)
LEMMA ShortUpdate ==
  ASSUME NEW c, NEW m \in Seq(Bytes), NEW data \in Seq(Bytes), Represents(c, m),
         c.index + Len(data) < BlockSize
  PROVE  Represents([c EXCEPT !.block = Filled(@, c.index, data),
                              !.index = @ + Len(data)], m \o data)
<1> DEFINE d == m \o data
           b == Filled(c.block, c.index, data)
           after == [c EXCEPT !.block = Filled(@, c.index, data), !.index = @ + Len(data)]
<1>1. /\ c = [state |-> c.state, count |-> c.count, index |-> c.index, block |-> c.block]
      /\ c.count \in Nat /\ c.index \in Nat /\ c.block \in Full
      /\ Len(m) = Upto(c.count) + c.index /\ Len(m) \in Nat /\ Len(data) \in Nat
      /\ c.state = Chain(StartState, m, c.count)
      /\ \A k \in 1..c.index : c.block[k] = m[Upto(c.count) + k]
  BY DEF Represents, ContextType
<1>2. /\ d \in Seq(Bytes) /\ Len(d) = Len(m) + Len(data)
      /\ \A i \in 1..Len(m) : d[i] = m[i]
      /\ \A i \in 1..Len(data) : d[Len(m) + i] = data[i]
  OBVIOUS
<1>3. /\ b \in Full
      /\ \A j \in 1..BlockSize :
           b[j] = IF j - c.index \in 1..Len(data) THEN data[j - c.index] ELSE c.block[j]
  <2>1. c.block \in Full /\ c.index \in Nat
    BY <1>1
  <2>2. QED
    BY Zenon, <2>1, FilledBytes
<1>4. /\ after.state = c.state /\ after.count = c.count
      /\ after.index = c.index + Len(data) /\ after.block = b
      /\ after = [state |-> after.state, count |-> after.count,
                  index |-> after.index, block |-> after.block]
  <2>1. c = [state |-> c.state, count |-> c.count, index |-> c.index, block |-> c.block]
    BY <1>1
  <2>2. after = [c EXCEPT !.block = b, !.index = c.index + Len(data)]
    OBVIOUS
  <2> HIDE DEF b, after
  <2>3. QED
    BY <2>1, <2>2
<1>5. Upto(c.count) \in Nat /\ BlockSize \in Nat
  BY <1>1, UptoIs, HashSizes
<1>6. Chain(StartState, d, c.count) = Chain(StartState, m, c.count)
  <2> DEFINE j == c.count
  <2>1. j \in Nat /\ Upto(j) <= Len(m)
    BY <1>1, <1>5
  <2> HIDE DEF j
  <2>2. Chain(StartState, m \o data, j) = Chain(StartState, m, j)
    BY <2>1, ChainOfPrefix
  <2>3. QED
    BY <2>2 DEF j
<1> HIDE DEF d, b, after
<1>7. ContextType(after) /\ after.index < BlockSize /\ Len(d) = Upto(after.count) + after.index
  BY <1>1, <1>2, <1>3, <1>4, <1>5 DEF ContextType
<1>8. ASSUME NEW k \in 1..after.index
      PROVE  after.block[k] = d[Upto(after.count) + k]
  <2>1. k \in 1..BlockSize /\ k \in Nat /\ k > 0
    BY <1>1, <1>4, <1>5
  <2>2. CASE k <= c.index
    <3>1. b[k] = c.block[k]
      BY <1>1, <1>3, <2>1, <2>2
    <3>2. c.block[k] = m[Upto(c.count) + k] /\ Upto(c.count) + k \in 1..Len(m)
      BY <1>1, <1>5, <2>1, <2>2
    <3>3. QED
      BY <1>2, <1>4, <3>1, <3>2
  <2>3. CASE k > c.index
    <3>1. k - c.index \in 1..Len(data)
      BY <1>1, <1>4, <2>1, <2>3
    <3>2. b[k] = data[k - c.index]
      BY <1>3, <2>1, <3>1
    <3>3. Upto(c.count) + k = Len(m) + (k - c.index)
      BY <1>1, <1>5, <2>1
    <3>4. d[Len(m) + (k - c.index)] = data[k - c.index]
      BY <1>2, <3>1
    <3>5. QED
      BY <1>4, <3>2, <3>3, <3>4
  <2>4. QED
    BY <1>1, <2>1, <2>2, <2>3
<1>9. Represents(after, d)
  BY <1>1, <1>4, <1>6, <1>7, <1>8 DEF Represents
<1>10. QED
  BY <1>9 DEF after, d

(* Bytes that fill the block make a whole one, which is compressed.         *)
LEMMA FillingUpdate ==
  ASSUME NEW c, NEW m \in Seq(Bytes), NEW data \in Seq(Bytes), Represents(c, m),
         c.index + Len(data) = BlockSize,
         NEW b, b = Filled(c.block, c.index, data)
  PROVE  Whole([Compressed(c, b) EXCEPT !.block = b], m \o data)
<1> DEFINE d == m \o data
           after == [Compressed(c, b) EXCEPT !.block = b]
<1>1. /\ c = [state |-> c.state, count |-> c.count, index |-> c.index, block |-> c.block]
      /\ c.count \in Nat /\ c.index \in Nat /\ c.block \in Full
      /\ Len(m) = Upto(c.count) + c.index /\ Len(m) \in Nat /\ Len(data) \in Nat
      /\ c.state = Chain(StartState, m, c.count)
      /\ \A k \in 1..c.index : c.block[k] = m[Upto(c.count) + k]
  BY DEF Represents, ContextType
<1>2. /\ d \in Seq(Bytes) /\ Len(d) = Len(m) + Len(data)
      /\ \A i \in 1..Len(m) : d[i] = m[i]
      /\ \A i \in 1..Len(data) : d[Len(m) + i] = data[i]
  OBVIOUS
<1>3. /\ b \in Full
      /\ \A j \in 1..BlockSize :
           b[j] = IF j - c.index \in 1..Len(data) THEN data[j - c.index] ELSE c.block[j]
  <2>1. c.block \in Full /\ c.index \in Nat /\ data \in Seq(Bytes)
    BY <1>1
  <2>2. /\ Filled(c.block, c.index, data) \in Full
        /\ \A j \in 1..BlockSize :
             Filled(c.block, c.index, data)[j] =
               IF j - c.index \in 1..Len(data) THEN data[j - c.index] ELSE c.block[j]
    BY <2>1, FilledBytes
  <2>3. b = Filled(c.block, c.index, data)
    OBVIOUS
  <2>4. QED
    BY Zenon, <2>2, <2>3
<1>4. /\ after.state = Compress(c.state, b) /\ after.count = c.count + 1
      /\ after.index = c.index /\ after.block = b
      /\ after = [state |-> after.state, count |-> after.count,
                  index |-> after.index, block |-> after.block]
  <2>1. c = [state |-> c.state, count |-> c.count, index |-> c.index, block |-> c.block]
    BY <1>1
  <2>2. after = [c EXCEPT !.state = Compress(c.state, b), !.count = c.count + 1, !.block = b]
    BY <2>1 DEF Compressed
  <2> HIDE DEF after
  <2>3. QED
    BY <2>1, <2>2
<1>5. /\ Upto(c.count) \in Nat /\ BlockSize \in Nat
      /\ Upto(c.count + 1) = Upto(c.count) + BlockSize
  BY <1>1, UptoIs, HashSizes
<1> DEFINE j == c.count
<1>6. j \in Nat /\ Upto(j) <= Len(m) /\ Upto(j + 1) <= Len(d)
  BY <1>1, <1>2, <1>5
<1> HIDE DEF j
<1>7. Chain(StartState, d, j) = Chain(StartState, m, j)
  BY <1>6, ChainOfPrefix
<1> HIDE DEF d, after
<1>8. Chain(StartState, d, j + 1) = Compress(Chain(StartState, d, j), Piece(d, j + 1))
  BY <1>6, ChainSteps
<1>9. /\ Piece(d, j + 1) \in Full
      /\ \A k \in 1..BlockSize : Piece(d, j + 1)[k] = d[Upto(j) + k]
  BY <1>2, <1>6, PieceBytes
<1>10. ASSUME NEW k \in 1..BlockSize
       PROVE  b[k] = d[Upto(j) + k]
  <2>1. k \in Nat /\ k > 0
    BY <1>5
  <2>2. CASE k <= c.index
    <3>1. b[k] = c.block[k]
      BY <1>1, <1>3, <2>1, <2>2
    <3>2. c.block[k] = m[Upto(c.count) + k] /\ Upto(c.count) + k \in 1..Len(m)
      BY <1>1, <1>5, <2>1, <2>2
    <3>3. QED
      BY <1>2, <3>1, <3>2 DEF j
  <2>3. CASE k > c.index
    <3>1. k - c.index \in 1..Len(data)
      BY <1>1, <1>5, <2>1, <2>3
    <3>2. b[k] = data[k - c.index]
      BY <1>3, <3>1
    <3>3. Upto(j) + k = Len(m) + (k - c.index)
      BY <1>1, <1>5, <2>1 DEF j
    <3>4. d[Len(m) + (k - c.index)] = data[k - c.index]
      BY <1>2, <3>1
    <3>5. QED
      BY <3>2, <3>3, <3>4
  <2>4. QED
    BY <1>1, <2>1, <2>2, <2>3
<1>11. Piece(d, j + 1) = b
  BY <1>3, <1>9, <1>10, SameBlock
<1>12. after.state = Chain(StartState, d, after.count)
  BY <1>1, <1>4, <1>7, <1>8, <1>11 DEF j
<1>13. ContextType(after) /\ Len(d) = Upto(after.count)
  BY <1>1, <1>2, <1>3, <1>4, <1>5 DEF ContextType
<1>14. Whole(after, d)
  BY <1>12, <1>13 DEF Whole
<1>15. QED
  BY <1>14 DEF after, d

(* Whatever the pieces, the context stands for all the bytes taken.         *)
LEMMA UpdateTakes ==
  ASSUME NEW c, NEW m \in Seq(Bytes), NEW data \in Seq(Bytes), Represents(c, m)
  PROVE  Represents(MD_UPDATE(c, data), m \o data)
<1> DEFINE left == BlockSize - c.index
           first == SubSeq(data, 1, left)
           b == Filled(c.block, c.index, first)
           rest == Rest(data, left)
<1>1. /\ c.index \in Nat /\ c.index < BlockSize /\ BlockSize \in Nat /\ Len(data) \in Nat
      /\ left \in Nat
  BY HashSizes DEF Represents, ContextType
<1>2. CASE c.index # 0 /\ Len(data) < left
  <2>1. MD_UPDATE(c, data) = [c EXCEPT !.block = Filled(@, c.index, data),
                                       !.index = @ + Len(data)]
    BY <1>2 DEF MD_UPDATE
  <2>2. c.index + Len(data) < BlockSize
    BY <1>1, <1>2
  <2>3. QED
    BY ZenonT(30), <2>1, <2>2, ShortUpdate
<1>3. CASE c.index # 0 /\ ~(Len(data) < left)
  <2>1. MD_UPDATE(c, data) = WholeBlocks([Compressed(c, b) EXCEPT !.block = b], rest)
    BY <1>3 DEF MD_UPDATE
  <2>2. left <= Len(data) /\ c.index + left = BlockSize
    BY <1>1, <1>3
  <2> HIDE DEF left
  <2>3. first \in Seq(Bytes) /\ Len(first) = left
    BY <1>1, <2>2
  <2>4. rest \in Seq(Bytes)
    BY <1>1, <2>2, RestBytes
  <2>5. Whole([Compressed(c, b) EXCEPT !.block = b], m \o first)
    BY <2>2, <2>3, FillingUpdate
  <2>6. m \o first \in Seq(Bytes)
    BY <2>3
  <2>7. Represents(MD_UPDATE(c, data), (m \o first) \o rest)
    BY <2>1, <2>4, <2>5, <2>6, WholeBlocksTake
  <2>8. (m \o first) \o rest = m \o data
    <3>1. first \o rest = data
      BY <1>1, <2>2, CutAndJoined
    <3>2. (m \o first) \o rest = m \o (first \o rest)
      <4>1. first \in Seq(Bytes)
        BY <2>3
      <4> HIDE DEF first, rest
      <4>2. QED
        BY <2>4, <4>1, ConcatAssociative
    <3>3. QED
      BY <3>1, <3>2
  <2>9. QED
    BY <2>7, <2>8
<1>4. CASE c.index = 0
  <2>1. MD_UPDATE(c, data) = WholeBlocks(c, data)
    BY <1>4 DEF MD_UPDATE
  <2>2. Len(m) = Upto(c.count) + c.index /\ c.count \in Nat /\ Len(m) \in Nat
    BY DEF Represents, ContextType
  <2>3. Len(m) = Upto(c.count)
    <3>1. Upto(c.count) \in Nat
      BY <2>2, UptoIs
    <3>2. QED
      BY <1>4, <2>2, <3>1
  <2>4. Whole(c, m)
    BY <2>3 DEF Represents, Whole
  <2>5. QED
    BY <2>1, <2>4, WholeBlocksTake
<1>5. QED
  BY <1>2, <1>3, <1>4

(* The padded message ends with the only block there is within reach.       *)
LEMMA PaddedLenIs ==
  ASSUME NEW n \in Nat, NEW j \in Nat,
         Upto(j) >= n + 1 + SizeField, Upto(j) <= n + SizeField + BlockSize
  PROVE  PaddedLen(n) = Upto(j)
<1> DEFINE Fits(q) == q \in (n + 1 + SizeField)..(n + SizeField + BlockSize) /\ q % BlockSize = 0
<1>1. Upto(j) \in Nat /\ Upto(j) % BlockSize = 0
  BY UptoIs
<1>2. Fits(Upto(j))
  BY <1>1, HashSizes
<1>3. ASSUME NEW q, Fits(q)
      PROVE  q = Upto(j)
  <2> DEFINE k == q \div BlockSize
  <2>1. /\ q \in Nat /\ q % BlockSize = 0
        /\ q >= n + 1 + SizeField /\ q <= n + SizeField + BlockSize
    BY <1>3, HashSizes
  <2>2. k \in Nat /\ q = Upto(k) + (q % BlockSize)
    BY <2>1, Division
  <2> HIDE DEF k
  <2>3. q = Upto(k) /\ Upto(k) \in Nat
    BY <2>1, <2>2, UptoIs
  <2>4. CASE k < j
    <3>1. k + 1 <= j /\ k + 1 \in Nat
      BY <2>2, <2>4
    <3>2. Upto(k + 1) <= Upto(j) /\ Upto(k + 1) = Upto(k) + BlockSize
      BY <2>2, <3>1, UptoRises, UptoIs
    <3>3. QED
      BY <1>1, <2>1, <2>3, <3>2, HashSizes
  <2>5. CASE k > j
    <3>1. j + 1 <= k /\ j + 1 \in Nat
      BY <2>2, <2>5
    <3>2. Upto(j + 1) <= Upto(k) /\ Upto(j + 1) = Upto(j) + BlockSize
      BY <2>2, <3>1, UptoRises, UptoIs
    <3>3. QED
      BY <1>1, <2>1, <2>3, <3>2, HashSizes
  <2>6. QED
    BY <2>2, <2>3, <2>4, <2>5
<1>4. PaddedLen(n) = CHOOSE q \in (n + 1 + SizeField)..(n + SizeField + BlockSize) :
                       q % BlockSize = 0
  BY DEF PaddedLen
<1>5. QED
  BY <1>2, <1>3, <1>4

(* The padded message, byte by byte.                                        *)
PaddedByte(m, q, k) ==
  IF k <= Len(m) THEN m[k]
  ELSE IF k = Len(m) + 1 THEN 128
  ELSE IF k <= q - SizeField THEN 0
  ELSE WriteSize(8 * Len(m))[k - (q - SizeField)]

(* Two sequences joined, byte by byte.                                      *)
LEMMA Joined ==
  ASSUME NEW a \in Seq(Bytes), NEW b \in Seq(Bytes)
  PROVE  /\ a \o b \in Seq(Bytes) /\ Len(a \o b) = Len(a) + Len(b)
         /\ \A k \in 1..Len(a) : (a \o b)[k] = a[k]
         /\ \A k \in 1..Len(b) : (a \o b)[Len(a) + k] = b[k]
  OBVIOUS

(* How far a place is into the last f ones.                                 *)
LEMMA Behind ==
  ASSUME NEW q \in Nat, NEW f \in Nat, NEW k \in 1..q, q - f \in Nat, k > q - f
  PROVE  k - (q - f) \in 1..f /\ k = (q - f) + (k - (q - f))
  OBVIOUS

(* The padded message has these bytes.                                      *)
LEMMA PaddedBytes ==
  ASSUME NEW m \in Seq(Bytes), Len(m) <= MaxLen, NEW q \in Nat,
         q = PaddedLen(Len(m)), q >= Len(m) + 1 + SizeField
  PROVE  /\ Padded(m) \in Seq(Bytes) /\ Len(Padded(m)) = q
         /\ \A k \in 1..q : Padded(m)[k] = PaddedByte(m, q, k)
<1> DEFINE l == Len(m)
           y == q - l - 1 - SizeField
           z == Zeros(y)
           w == WriteSize(8 * l)
           u == m \o <<128>>
           v == u \o z
<1>1. l \in Nat /\ l \in 0..MaxLen /\ SizeField \in Nat /\ y \in Nat
  BY HashSizes
<1>2. Padded(m) = v \o w
  BY Zenon DEF Padded
<1>3. l + 1 + y = q - SizeField /\ q - SizeField + SizeField = q /\ q - SizeField \in Nat
  BY <1>1
<1> HIDE DEF y
<1>4. z \in Seq(Bytes) /\ Len(z) = y /\ \A k \in 1..y : z[k] = 0
  BY <1>1, ZerosBytes
<1>5. w \in Seq(Bytes) /\ Len(w) = SizeField
  BY <1>1, SizeBytes
<1>6. <<128>> \in Seq(Bytes) /\ Len(<<128>>) = 1 /\ <<128>>[1] = 128
  BY DEF Bytes
<1>7. /\ u \in Seq(Bytes) /\ Len(u) = l + 1 /\ u[l + 1] = 128
      /\ \A k \in 1..l : u[k] = m[k]
  BY <1>6, Joined
<1> HIDE DEF z, w, u
<1>8. /\ v \in Seq(Bytes) /\ Len(v) = l + 1 + y
      /\ \A k \in 1..(l + 1) : v[k] = u[k]
      /\ \A k \in 1..y : v[l + 1 + k] = z[k]
  <2>1. /\ v \in Seq(Bytes) /\ Len(v) = Len(u) + Len(z)
        /\ \A k \in 1..Len(u) : v[k] = u[k]
        /\ \A k \in 1..Len(z) : v[Len(u) + k] = z[k]
    <3>1. u \in Seq(Bytes) /\ z \in Seq(Bytes)
      BY <1>4, <1>7
    <3>2. QED
      BY <3>1, Joined
  <2> HIDE DEF v, l
  <2>2. QED
    BY <1>4, <1>7, <2>1
<1> HIDE DEF v
<1>9. /\ v \o w \in Seq(Bytes) /\ Len(v \o w) = q
      /\ \A k \in 1..(q - SizeField) : (v \o w)[k] = v[k]
      /\ \A k \in 1..SizeField : (v \o w)[(q - SizeField) + k] = w[k]
  <2>1. Len(v) = q - SizeField
    BY <1>3, <1>8
  <2>2. /\ v \o w \in Seq(Bytes) /\ Len(v \o w) = Len(v) + Len(w)
        /\ \A k \in 1..Len(v) : (v \o w)[k] = v[k]
        /\ \A k \in 1..Len(w) : (v \o w)[Len(v) + k] = w[k]
    BY <1>5, <1>8, Joined
  <2>3. QED
    BY <1>3, <1>5, <2>1, <2>2
<1> DEFINE p == v \o w
<1> HIDE DEF p
<1>10. ASSUME NEW k \in 1..q
       PROVE  p[k] = PaddedByte(m, q, k)
  <2>0. l = Len(m) /\ l \in Nat /\ y \in Nat /\ SizeField \in Nat /\ k \in 1..q
    BY <1>1
  <2> HIDE DEF l
  <2>1. CASE k <= l
    <3>1. k \in 1..l /\ k \in 1..(l + 1) /\ k \in 1..(q - SizeField)
      BY <1>3, <2>0, <2>1
    <3>2. p[k] = m[k]
      BY <1>7, <1>8, <1>9, <3>1 DEF p
    <3>3. QED
      BY <2>0, <2>1, <3>2 DEF PaddedByte
  <2>2. CASE k = l + 1
    <3>1. k \in 1..(l + 1) /\ k \in 1..(q - SizeField)
      BY <1>3, <2>0, <2>2
    <3>2. p[k] = 128
      BY <1>7, <1>8, <1>9, <2>2, <3>1 DEF p
    <3>3. ~(k <= l)
      BY <2>0, <2>2
    <3>4. QED
      BY <2>0, <2>2, <3>2, <3>3 DEF PaddedByte
  <2>3. CASE k > l + 1 /\ k <= q - SizeField
    <3>1. k - (l + 1) \in 1..y /\ k = l + 1 + (k - (l + 1)) /\ k \in 1..(q - SizeField)
      BY <1>3, <2>0, <2>3
    <3>2. v[k] = 0
      BY <1>4, <1>8, <3>1
    <3>3. p[k] = 0
      BY <1>9, <3>1, <3>2 DEF p
    <3>4. ~(k <= l) /\ k # l + 1
      BY <2>0, <2>3
    <3>5. QED
      BY <2>0, <2>3, <3>3, <3>4 DEF PaddedByte
  <2>4. CASE k > q - SizeField
    <3>1. k - (q - SizeField) \in 1..SizeField /\ k = (q - SizeField) + (k - (q - SizeField))
      BY <1>3, <2>0, <2>4, Behind
    <3>2. p[k] = w[k - (q - SizeField)]
      BY <1>9, <3>1 DEF p
    <3>3. ~(k <= l) /\ k # l + 1 /\ ~(k <= q - SizeField)
      BY <1>3, <2>0, <2>4
    <3>4. QED
      BY <2>0, <3>2, <3>3 DEF PaddedByte, w
  <2>5. QED
    BY <1>3, <2>0, <2>1, <2>2, <2>3, <2>4
<1>11. QED
  BY <1>2, <1>9, <1>10 DEF p

(* MD_PAD() marks the end, and fills the block with zeros when the length   *)
(* has no room in it.                                                       *)
Marked(c) == Filled(c.block, c.index, <<128>>)
Closed(c) == Filled(Marked(c), c.index + 1, Zeros(BlockSize - (c.index + 1)))

(* What MD_PAD() leaves in the state and in the block.                      *)
LEMMA PadIs ==
  ASSUME NEW c, ContextType(c)
  PROVE  /\ ~NoRoom(c.index + 1) =>
              /\ MD_PAD(c).state = c.state
              /\ MD_PAD(c).block = Filled(Marked(c), c.index + 1,
                                          Zeros(BlockSize - SizeField - (c.index + 1)))
         /\ NoRoom(c.index + 1) =>
              /\ MD_PAD(c).state = Compress(c.state, Closed(c))
              /\ MD_PAD(c).block = Filled(Closed(c), 0, Zeros(BlockSize - SizeField - 0))
<1>1. c = [state |-> c.state, count |-> c.count, index |-> c.index, block |-> c.block]
  BY DEF ContextType
<1>2. \A s, b : /\ [c EXCEPT !.state = s, !.block = b].state = s
                /\ [c EXCEPT !.state = s, !.block = b].block = b
  BY <1>1
<1>3. CASE NoRoom(c.index + 1)
  <2>1. MD_PAD(c) = [c EXCEPT !.state = Compress(c.state, Closed(c)),
                              !.block = Filled(Closed(c), 0, Zeros(BlockSize - SizeField - 0))]
    BY <1>3 DEF MD_PAD, Closed, Marked
  <2>2. QED
    BY <1>2, <1>3, <2>1
<1>4. CASE ~NoRoom(c.index + 1)
  <2>1. MD_PAD(c) = [c EXCEPT !.state = c.state,
                              !.block = Filled(Marked(c), c.index + 1,
                                               Zeros(BlockSize - SizeField - (c.index + 1)))]
    BY <1>4 DEF MD_PAD, Marked
  <2>2. QED
    BY <1>2, <1>4, <2>1
<1>5. QED
  BY <1>3, <1>4

(* What is marked and closed holds the rest of the message, the mark, and   *)
(* zeros.                                                                   *)
LEMMA MarkedBytes ==
  ASSUME NEW c, NEW m \in Seq(Bytes), Represents(c, m)
  PROVE  /\ Marked(c) \in Full
         /\ \A j \in 1..c.index : Marked(c)[j] = m[Upto(c.count) + j]
         /\ Marked(c)[c.index + 1] = 128
<1>1. /\ c.index \in Nat /\ c.index < BlockSize /\ BlockSize \in Nat /\ c.block \in Full
      /\ \A k \in 1..c.index : c.block[k] = m[Upto(c.count) + k]
  BY HashSizes DEF Represents, ContextType
<1>2. <<128>> \in Seq(Bytes) /\ Len(<<128>>) = 1 /\ <<128>>[1] = 128
  BY DEF Bytes
<1> DEFINE i == c.index
           one == <<128>>
<1> HIDE DEF one
<1>3. /\ Marked(c) \in Full
      /\ \A j \in 1..BlockSize :
           Marked(c)[j] = IF j - i \in 1..Len(one) THEN one[j - i] ELSE c.block[j]
  <2>1. Marked(c) = Filled(c.block, i, one)
    BY DEF Marked, one
  <2>2. c.block \in Full /\ i \in Nat /\ one \in Seq(Bytes)
    BY <1>1, <1>2 DEF one
  <2> HIDE DEF i
  <2>3. /\ Filled(c.block, i, one) \in Full
        /\ \A j \in 1..BlockSize : Filled(c.block, i, one)[j]
                                   = IF j - i \in 1..Len(one) THEN one[j - i] ELSE c.block[j]
    BY <2>2, FilledBytes
  <2>4. QED
    BY <2>1, <2>3
<1>4. ASSUME NEW j \in 1..i
      PROVE  Marked(c)[j] = m[Upto(c.count) + j]
  <2>1. j \in 1..BlockSize /\ ~(j - i \in 1..Len(one))
    BY <1>1
  <2>2. QED
    BY <1>1, <1>3, <2>1
<1>5. Marked(c)[i + 1] = 128
  <2>1. i + 1 \in 1..BlockSize /\ (i + 1) - i = 1 /\ 1 \in 1..Len(one) /\ one[1] = 128
    BY <1>1, <1>2 DEF one
  <2>2. QED
    BY <1>3, <2>1
<1>6. QED
  BY <1>3, <1>4, <1>5

(* The same for the block that is filled with zeros.                        *)
LEMMA ClosedBytes ==
  ASSUME NEW c, NEW m \in Seq(Bytes), Represents(c, m)
  PROVE  /\ Closed(c) \in Full
         /\ \A j \in 1..c.index : Closed(c)[j] = m[Upto(c.count) + j]
         /\ Closed(c)[c.index + 1] = 128
         /\ \A j \in 1..BlockSize : j > c.index + 1 => Closed(c)[j] = 0
<1> DEFINE i == c.index + 1
           z == Zeros(BlockSize - i)
<1>1. /\ c.index \in Nat /\ c.index < BlockSize /\ BlockSize \in Nat
  BY HashSizes DEF Represents, ContextType
<1>2. i \in Nat /\ BlockSize - i \in Nat /\ i <= BlockSize
  BY <1>1
<1>3. /\ Marked(c) \in Full /\ Marked(c)[c.index + 1] = 128
      /\ \A j \in 1..c.index : Marked(c)[j] = m[Upto(c.count) + j]
  BY MarkedBytes
<1>4. z \in Seq(Bytes) /\ Len(z) = BlockSize - i /\ \A k \in 1..(BlockSize - i) : z[k] = 0
  BY <1>2, ZerosBytes
<1> HIDE DEF z
<1>5. /\ Closed(c) \in Full
      /\ \A j \in 1..BlockSize :
           Closed(c)[j] = IF j - i \in 1..Len(z) THEN z[j - i] ELSE Marked(c)[j]
  <2>1. Closed(c) = Filled(Marked(c), i, z)
    BY DEF Closed, z
  <2> HIDE DEF i
  <2>2. /\ Filled(Marked(c), i, z) \in Full
        /\ \A j \in 1..BlockSize : Filled(Marked(c), i, z)[j]
                                   = IF j - i \in 1..Len(z) THEN z[j - i] ELSE Marked(c)[j]
    <3>1. Marked(c) \in Full /\ i \in Nat /\ z \in Seq(Bytes)
      BY <1>2, <1>3, <1>4
    <3>2. QED
      BY <3>1, FilledBytes
  <2>3. QED
    BY <2>1, <2>2
<1>6. ASSUME NEW j \in 1..c.index
      PROVE  Closed(c)[j] = m[Upto(c.count) + j]
  <2>1. j \in 1..BlockSize /\ ~(j - i \in 1..Len(z))
    BY <1>1, <1>4
  <2>2. QED
    BY <1>3, <1>5, <2>1
<1>7. Closed(c)[i] = 128
  <2>1. i \in 1..BlockSize /\ ~(i - i \in 1..Len(z))
    BY <1>1, <1>4
  <2>2. QED
    BY <1>3, <1>5, <2>1
<1>8. ASSUME NEW j \in 1..BlockSize, j > i
      PROVE  Closed(c)[j] = 0
  <2>1. j - i \in 1..(BlockSize - i)
    BY <1>1, <1>8
  <2>2. QED
    BY <1>4, <1>5, <2>1
<1>9. QED
  BY <1>5, <1>6, <1>7, <1>8

(* The length at the end of the last block.                                 *)
LEMMA SizeIs ==
  ASSUME NEW c, NEW m \in Seq(Bytes), Represents(c, m), Len(m) <= MaxLen,
         MD_PAD(c).block \in Full
  PROVE  /\ LastBlock(c) \in Full
         /\ \A j \in 1..BlockSize :
              LastBlock(c)[j] = IF j <= BlockSize - SizeField THEN MD_PAD(c).block[j]
                                ELSE WriteSize(8 * Len(m))[j - (BlockSize - SizeField)]
<1> DEFINE w == WriteSize(8 * Len(m))
           at == BlockSize - SizeField
           b == MD_PAD(c).block
<1>1. Len(m) = c.count * BlockSize + c.index
  BY DEF Represents, Upto
<1>2. LastBlock(c) = Filled(b, at, w)
  BY <1>1 DEF LastBlock
<1>3. at \in Nat /\ BlockSize - at = SizeField /\ BlockSize \in Nat /\ SizeField \in Nat
  BY HashSizes
<1>4. w \in Seq(Bytes) /\ Len(w) = SizeField
  <2>1. Len(m) \in 0..MaxLen
    BY HashSizes
  <2>2. QED
    BY <2>1, SizeBytes
<1> HIDE DEF w, at, b
<1>5. /\ LastBlock(c) \in Full
      /\ \A j \in 1..BlockSize :
           LastBlock(c)[j] = IF j - at \in 1..Len(w) THEN w[j - at] ELSE b[j]
  <2>1. b \in Full
    BY DEF b
  <2>2. /\ Filled(b, at, w) \in Full
        /\ \A j \in 1..BlockSize : Filled(b, at, w)[j]
                                   = IF j - at \in 1..Len(w) THEN w[j - at] ELSE b[j]
    BY <1>3, <1>4, <2>1, FilledBytes
  <2>3. QED
    BY <1>2, <2>2
<1>6. ASSUME NEW j \in 1..BlockSize
      PROVE  LastBlock(c)[j] = IF j <= at THEN b[j] ELSE w[j - at]
  <2>1. (j - at \in 1..Len(w)) <=> ~(j <= at)
    BY <1>3, <1>4
  <2>2. QED
    BY <1>5, <2>1
<1>7. QED
  BY <1>5, <1>6 DEF w, at, b

(* The padded message begins with the message.                              *)
LEMMA PaddedStart ==
  ASSUME NEW m \in Seq(Bytes), NEW p \in Seq(Bytes), NEW q \in Nat, Len(p) = q,
         \A k \in 1..q : p[k] = PaddedByte(m, q, k),
         NEW n \in Nat, Upto(n) <= Len(m), Len(m) <= q
  PROVE  Chain(StartState, p, n) = Chain(StartState, m, n)
<1>1. Upto(n) \in Nat /\ Len(m) \in Nat
  BY UptoIs
<1>2. Upto(n) <= Len(p)
  BY <1>1
<1>3. ASSUME NEW j \in 1..Upto(n)
      PROVE  p[j] = m[j]
  <2>1. j \in 1..q /\ j <= Len(m)
    BY <1>1
  <2>2. QED
    BY <2>1 DEF PaddedByte
<1>4. QED
  BY <1>2, <1>3, SameStart

(* With room for the length the last block follows the whole ones,          *)
LEMMA RoomPads ==
  ASSUME NEW c, NEW m \in Seq(Bytes), Represents(c, m), Len(m) <= MaxLen,
         ~NoRoom(c.index + 1)
  PROVE  Digest(c) = HashOf(m)
<1> DEFINE n == c.count
           x == c.index
           i == x + 1
           y == BlockSize - SizeField - i
           z == Zeros(y)
           b == MD_PAD(c).block
           q == Upto(n + 1)
           p == Padded(m)
<1>1. /\ x \in Nat /\ x < BlockSize /\ BlockSize \in Nat /\ BlockSize > 0
      /\ SizeField \in Nat /\ SizeField <= BlockSize /\ n \in Nat
      /\ Len(m) = Upto(n) + x /\ Len(m) \in Nat
      /\ i <= BlockSize - SizeField /\ i = x + 1
  BY HashSizes DEF Represents, ContextType, NoRoom
<1>2. /\ y \in Nat /\ i \in Nat /\ i + y = BlockSize - SizeField
  BY <1>1
<1> HIDE DEF n, x, i, y
<1>3. Upto(n) \in Nat /\ q \in Nat /\ q = Upto(n) + BlockSize
  BY <1>1, UptoIs
<1> HIDE DEF q
<1>4. q = PaddedLen(Len(m))
  <2>1. q >= Len(m) + 1 + SizeField /\ q <= Len(m) + SizeField + BlockSize
    BY <1>1, <1>3
  <2>2. n + 1 \in Nat
    BY <1>1
  <2>3. q = Upto(n + 1)
    BY DEF q
  <2>4. QED
    BY <1>1, <2>1, <2>2, <2>3, PaddedLenIs
<1>5. /\ p \in Seq(Bytes) /\ Len(p) = q /\ \A k \in 1..q : p[k] = PaddedByte(m, q, k)
  <2>1. q >= Len(m) + 1 + SizeField
    BY <1>1, <1>3
  <2>2. QED
    BY <1>3, <1>4, <2>1, PaddedBytes
<1>6. MD_PAD(c).state = Chain(StartState, m, n) /\ b = Filled(Marked(c), i, z)
  <2>1. ContextType(c)
    BY DEF Represents
  <2>2. c.state = Chain(StartState, m, n) /\ ~NoRoom(i)
    BY DEF Represents, n, i, x
  <2>3. QED
    BY <2>1, <2>2, PadIs DEF i, x, y, z, b
<1>7. /\ Marked(c) \in Full /\ Marked(c)[i] = 128
      /\ \A j \in 1..x : Marked(c)[j] = m[Upto(n) + j]
  BY MarkedBytes DEF n, i, x
<1>8. z \in Seq(Bytes) /\ Len(z) = y /\ \A k \in 1..y : z[k] = 0
  BY <1>2, ZerosBytes
<1> HIDE DEF y, z, b, p
<1>9. /\ b \in Full
      /\ \A j \in 1..BlockSize : b[j] = IF j - i \in 1..Len(z) THEN z[j - i] ELSE Marked(c)[j]
  <2>1. Marked(c) \in Full /\ i \in Nat /\ z \in Seq(Bytes)
    BY <1>2, <1>7, <1>8
  <2>2. /\ Filled(Marked(c), i, z) \in Full
        /\ \A j \in 1..BlockSize : Filled(Marked(c), i, z)[j]
                                   = IF j - i \in 1..Len(z) THEN z[j - i] ELSE Marked(c)[j]
    BY <2>1, FilledBytes
  <2>3. QED
    BY <1>6, <2>2
<1>10. /\ LastBlock(c) \in Full
       /\ \A j \in 1..BlockSize :
            LastBlock(c)[j] = IF j <= BlockSize - SizeField THEN b[j]
                              ELSE WriteSize(8 * Len(m))[j - (BlockSize - SizeField)]
  BY <1>9, SizeIs DEF b
<1>11. ASSUME NEW j \in 1..BlockSize
       PROVE  LastBlock(c)[j] = p[Upto(n) + j]
  <2>1. Upto(n) + j \in 1..q /\ p[Upto(n) + j] = PaddedByte(m, q, Upto(n) + j)
    <3>1. Upto(n) + j \in 1..q
      BY <1>1, <1>3
    <3>2. QED
      BY <1>5, <3>1
  <2>2. CASE j <= x
    <3>1. LastBlock(c)[j] = Marked(c)[j] /\ j \in 1..x
      BY <1>1, <1>2, <1>8, <1>9, <1>10, <2>2
    <3>2. Upto(n) + j <= Len(m)
      BY <1>1, <1>3, <2>2
    <3>3. QED
      BY <1>7, <2>1, <3>1, <3>2 DEF PaddedByte
  <2>3. CASE j = i
    <3>1. LastBlock(c)[j] = 128
      <4>1. j <= BlockSize - SizeField /\ ~(j - i \in 1..Len(z))
        BY <1>1, <1>2, <1>8, <2>3
      <4>2. QED
        BY <1>7, <1>9, <1>10, <2>3, <4>1
    <3>2. Upto(n) + j = Len(m) + 1 /\ ~(Upto(n) + j <= Len(m))
      BY <1>1, <1>3, <2>3
    <3>3. QED
      BY <2>1, <3>1, <3>2 DEF PaddedByte
  <2>4. CASE j > i /\ j <= BlockSize - SizeField
    <3>1. j - i \in 1..y
      BY <1>1, <1>2, <2>4
    <3>2. LastBlock(c)[j] = 0
      BY <1>8, <1>9, <1>10, <2>4, <3>1
    <3>3. ~(Upto(n) + j <= Len(m)) /\ Upto(n) + j # Len(m) + 1
      BY <1>1, <1>3, <2>4
    <3>4. Upto(n) + j <= q - SizeField
      BY <1>1, <1>3, <2>4
    <3>5. QED
      BY <2>1, <3>2, <3>3, <3>4 DEF PaddedByte
  <2>5. CASE j > BlockSize - SizeField
    <3>1. LastBlock(c)[j] = WriteSize(8 * Len(m))[j - (BlockSize - SizeField)]
      BY <1>1, <1>10, <2>5
    <3>2. /\ ~(Upto(n) + j <= Len(m)) /\ Upto(n) + j # Len(m) + 1
          /\ ~(Upto(n) + j <= q - SizeField)
          /\ (Upto(n) + j) - (q - SizeField) = j - (BlockSize - SizeField)
      <4>1. j \in Nat /\ j > i
        BY <1>1, <2>5
      <4>2. ~(Upto(n) + j <= Len(m)) /\ Upto(n) + j # Len(m) + 1
        BY <1>1, <1>3, <4>1
      <4>3. ~(Upto(n) + j <= q - SizeField)
        BY <1>1, <1>3, <2>5, <4>1
      <4>4. (Upto(n) + j) - (q - SizeField) = j - (BlockSize - SizeField)
        BY <1>1, <1>3, <4>1
      <4>5. QED
        BY <4>2, <4>3, <4>4
    <3>3. QED
      BY <2>1, <3>1, <3>2 DEF PaddedByte
  <2>6. QED
    BY <1>1, <1>2, <2>2, <2>3, <2>4, <2>5
<1>12. Piece(p, n + 1) = LastBlock(c)
  <2>1. Upto(n + 1) <= Len(p) /\ n \in Nat
    BY <1>1, <1>3, <1>5 DEF q
  <2>2. QED
    BY <1>5, <1>10, <1>11, <2>1, PieceIs
<1>13. Chain(StartState, p, n) = Chain(StartState, m, n)
  <2>1. Upto(n) <= Len(m) /\ Len(m) <= q /\ n \in Nat
    BY <1>1, <1>3
  <2>2. QED
    BY <1>3, <1>5, <2>1, PaddedStart
<1>14. Chain(StartState, p, n + 1) = Compress(Chain(StartState, p, n), Piece(p, n + 1))
  BY <1>1, ChainSteps
<1>15. HashOf(m) = Chain(StartState, p, n + 1)
  <2>1. n + 1 \in Nat
    BY <1>1
  <2>2. q \div BlockSize = n + 1
    BY <2>1, UptoIs DEF q
  <2>3. QED
    BY <1>5, <2>2 DEF HashOf, p
<1>16. QED
  BY <1>6, <1>12, <1>13, <1>14, <1>15 DEF Digest

(* When the length has no room, one block more is the least that has it.    *)
LEMMA TwoBlocks ==
  ASSUME NEW u \in Nat, NEW x \in Nat, NEW size \in Nat, NEW f \in Nat,
         x < size, f <= size, x + 1 > size - f
  PROVE  /\ u + size + size >= u + x + 1 + f
         /\ u + size + size <= u + x + f + size
  OBVIOUS

(* and without room a block of zeros and the length comes after the one     *)
(* with the mark.                                                           *)
LEMMA NoRoomPads ==
  ASSUME NEW c, NEW m \in Seq(Bytes), Represents(c, m), Len(m) <= MaxLen,
         NoRoom(c.index + 1)
  PROVE  Digest(c) = HashOf(m)
<1> DEFINE n == c.count
           x == c.index
           i == x + 1
           y == BlockSize - SizeField - 0
           z == Zeros(y)
           b == MD_PAD(c).block
           q == Upto((n + 1) + 1)
           p == Padded(m)
<1>1. /\ x \in Nat /\ x < BlockSize /\ BlockSize \in Nat /\ BlockSize > 0
      /\ SizeField \in Nat /\ SizeField <= BlockSize /\ n \in Nat
      /\ Len(m) = Upto(n) + x /\ Len(m) \in Nat
      /\ i > BlockSize - SizeField /\ i \in Nat /\ i = x + 1
  BY HashSizes DEF Represents, ContextType, NoRoom
<1>2. y \in Nat /\ y = BlockSize - SizeField
  BY <1>1
<1> HIDE DEF n, x, i, y
<1>3. /\ Upto(n) \in Nat /\ q \in Nat /\ Upto(n + 1) = Upto(n) + BlockSize
      /\ q = Upto(n + 1) + BlockSize /\ q = Upto(n) + BlockSize + BlockSize
  <2>1. n \in Nat /\ n + 1 \in Nat /\ (n + 1) + 1 \in Nat
    BY <1>1
  <2>2. /\ Upto(n) \in Nat /\ q \in Nat /\ Upto(n + 1) = Upto(n) + BlockSize
        /\ q = Upto(n + 1) + BlockSize
    BY <2>1, UptoIs
  <2>3. QED
    BY <1>1, <2>2
<1> HIDE DEF q
<1>4. q = PaddedLen(Len(m))
  <2>1. q >= Len(m) + 1 + SizeField /\ q <= Len(m) + SizeField + BlockSize
    <3>1. x + 1 > BlockSize - SizeField
      BY <1>1
    <3>2. /\ Upto(n) + BlockSize + BlockSize >= Upto(n) + x + 1 + SizeField
          /\ Upto(n) + BlockSize + BlockSize <= Upto(n) + x + SizeField + BlockSize
      BY <1>1, <1>3, <3>1, TwoBlocks
    <3>3. QED
      BY <1>1, <1>3, <3>2
  <2>2. (n + 1) + 1 \in Nat
    BY <1>1
  <2>3. q = Upto((n + 1) + 1)
    BY DEF q
  <2>4. QED
    BY <1>1, <2>1, <2>2, <2>3, PaddedLenIs
<1>5. /\ p \in Seq(Bytes) /\ Len(p) = q /\ \A k \in 1..q : p[k] = PaddedByte(m, q, k)
  <2>1. q >= Len(m) + 1 + SizeField
    BY <1>1, <1>3
  <2>2. QED
    BY <1>3, <1>4, <2>1, PaddedBytes
<1>6. MD_PAD(c).state = Compress(Chain(StartState, m, n), Closed(c)) /\ b = Filled(Closed(c), 0, z)
  <2>1. ContextType(c)
    BY DEF Represents
  <2>2. c.state = Chain(StartState, m, n) /\ NoRoom(i)
    BY DEF Represents, n, i, x
  <2>3. QED
    BY <2>1, <2>2, PadIs DEF i, x, y, z, b
<1>7. /\ Closed(c) \in Full /\ Closed(c)[i] = 128
      /\ \A j \in 1..x : Closed(c)[j] = m[Upto(n) + j]
      /\ \A j \in 1..BlockSize : j > i => Closed(c)[j] = 0
  BY ClosedBytes DEF n, i, x
<1>8. z \in Seq(Bytes) /\ Len(z) = y /\ \A k \in 1..y : z[k] = 0
  BY <1>2, ZerosBytes
<1> HIDE DEF y, z, b, p
<1>9. b \in Full /\ \A j \in 1..y : b[j] = 0
  <2>1. Closed(c) \in Full /\ 0 \in Nat /\ z \in Seq(Bytes)
    BY <1>7, <1>8
  <2>2. /\ Filled(Closed(c), 0, z) \in Full
        /\ \A j \in 1..BlockSize : Filled(Closed(c), 0, z)[j]
                                   = IF j - 0 \in 1..Len(z) THEN z[j - 0] ELSE Closed(c)[j]
    BY <2>1, FilledBytes
  <2>3. ASSUME NEW j \in 1..y
        PROVE  b[j] = 0
    <3>1. j - 0 \in 1..Len(z) /\ j - 0 = j /\ j \in 1..BlockSize
      BY <1>1, <1>2, <1>8
    <3>2. QED
      BY <1>6, <1>8, <2>2, <3>1
  <2>4. QED
    BY <1>6, <2>2, <2>3
<1>10. /\ LastBlock(c) \in Full
       /\ \A j \in 1..BlockSize :
            LastBlock(c)[j] = IF j <= BlockSize - SizeField THEN b[j]
                              ELSE WriteSize(8 * Len(m))[j - (BlockSize - SizeField)]
  BY <1>9, SizeIs DEF b
<1>11. ASSUME NEW j \in 1..BlockSize
       PROVE  Closed(c)[j] = p[Upto(n) + j]
  <2>1. Upto(n) + j \in 1..q
    BY <1>1, <1>3
  <2>2. p[Upto(n) + j] = PaddedByte(m, q, Upto(n) + j)
    BY <1>5, <2>1
  <2>3. CASE j <= x
    <3>1. j \in 1..x
      BY <1>1, <2>3
    <3>2. Upto(n) + j <= Len(m)
      BY <1>1, <1>3, <2>3
    <3>3. QED
      BY <1>7, <2>2, <3>1, <3>2 DEF PaddedByte
  <2>4. CASE j = i
    <3>1. Upto(n) + j = Len(m) + 1 /\ ~(Upto(n) + j <= Len(m))
      BY <1>1, <1>3, <2>4
    <3>2. QED
      BY <1>7, <2>2, <2>4, <3>1 DEF PaddedByte
  <2>5. CASE j > i
    <3>1. ~(Upto(n) + j <= Len(m)) /\ Upto(n) + j # Len(m) + 1
      BY <1>1, <1>3, <2>5
    <3>2. Upto(n) + j <= q - SizeField
      BY <1>1, <1>3
    <3>3. QED
      BY <1>7, <2>2, <2>5, <3>1, <3>2 DEF PaddedByte
  <2>6. QED
    BY <1>1, <2>3, <2>4, <2>5
<1>12. ASSUME NEW j \in 1..BlockSize
       PROVE  LastBlock(c)[j] = p[Upto(n + 1) + j]
  <2>1. /\ Upto(n + 1) + j \in 1..q
        /\ p[Upto(n + 1) + j] = PaddedByte(m, q, Upto(n + 1) + j)
    <3>1. Upto(n + 1) + j \in 1..q
      BY <1>1, <1>3
    <3>2. QED
      BY <1>5, <3>1
  <2>2. ~(Upto(n + 1) + j <= Len(m)) /\ Upto(n + 1) + j # Len(m) + 1
    BY <1>1, <1>3
  <2>3. CASE j <= BlockSize - SizeField
    <3>1. LastBlock(c)[j] = 0
      <4>1. j \in 1..y
        BY <1>1, <1>2, <2>3
      <4>2. QED
        BY <1>9, <1>10, <2>3, <4>1
    <3>2. Upto(n + 1) + j <= q - SizeField
      BY <1>1, <1>3, <2>3
    <3>3. QED
      BY <2>1, <2>2, <3>1, <3>2 DEF PaddedByte
  <2>4. CASE j > BlockSize - SizeField
    <3>1. LastBlock(c)[j] = WriteSize(8 * Len(m))[j - (BlockSize - SizeField)]
      BY <1>1, <1>10, <2>4
    <3>2. /\ ~(Upto(n + 1) + j <= q - SizeField)
          /\ (Upto(n + 1) + j) - (q - SizeField) = j - (BlockSize - SizeField)
      <4>1. j \in Nat /\ Upto(n + 1) \in Nat /\ q = Upto(n + 1) + BlockSize
        BY <1>1, <1>3
      <4>2. ~(Upto(n + 1) + j <= q - SizeField)
        BY <1>1, <2>4, <4>1
      <4>3. (Upto(n + 1) + j) - (q - SizeField) = j - (BlockSize - SizeField)
        BY <1>1, <4>1
      <4>4. QED
        BY <4>2, <4>3
    <3>3. QED
      BY <2>1, <2>2, <3>1, <3>2 DEF PaddedByte
  <2>5. QED
    BY <1>1, <2>3, <2>4
<1>13. Piece(p, n + 1) = Closed(c) /\ Piece(p, (n + 1) + 1) = LastBlock(c)
  <2>1. /\ Upto(n + 1) <= Len(p) /\ Upto((n + 1) + 1) <= Len(p)
        /\ n \in Nat /\ n + 1 \in Nat
    <3>1. Upto(n + 1) <= q /\ q = Upto((n + 1) + 1)
      BY <1>1, <1>3 DEF q
    <3>2. QED
      BY <1>1, <1>3, <1>5, <3>1
  <2>2. Piece(p, n + 1) = Closed(c)
    BY ZenonT(30), <1>5, <1>7, <1>11, <2>1, PieceIs
  <2>3. Piece(p, (n + 1) + 1) = LastBlock(c)
    BY <1>5, <1>10, <1>12, <2>1, PieceIs
  <2>4. QED
    BY <2>2, <2>3
<1>14. Chain(StartState, p, n) = Chain(StartState, m, n)
  <2>1. Upto(n) <= Len(m) /\ Len(m) <= q /\ n \in Nat
    BY <1>1, <1>3
  <2>2. QED
    BY <1>3, <1>5, <2>1, PaddedStart
<1>15. /\ Chain(StartState, p, n + 1) = Compress(Chain(StartState, p, n), Piece(p, n + 1))
       /\ Chain(StartState, p, (n + 1) + 1) = Compress(Chain(StartState, p, n + 1), Piece(p, (n + 1) + 1))
  <2>1. n \in Nat /\ n + 1 \in Nat
    BY <1>1
  <2>2. QED
    BY <2>1, ChainSteps
<1>16. HashOf(m) = Chain(StartState, p, (n + 1) + 1)
  <2>1. (n + 1) + 1 \in Nat
    BY <1>1
  <2>2. q \div BlockSize = (n + 1) + 1
    BY <2>1, UptoIs DEF q
  <2>3. QED
    BY <1>5, <2>2 DEF HashOf, p
<1>17. QED
  BY <1>6, <1>13, <1>14, <1>15, <1>16 DEF Digest

(* Either way the digest is the hash of the message.                        *)
LEMMA DigestIs ==
  ASSUME NEW c, NEW m \in Seq(Bytes), Represents(c, m), Len(m) <= MaxLen
  PROVE  Digest(c) = HashOf(m) /\ LastBlock(c) \in Full
<1>1. Digest(c) = HashOf(m)
  BY RoomPads, NoRoomPads
<1>2. MD_PAD(c).block \in Full
  <2>1. /\ ContextType(c) /\ c.index \in Nat /\ c.index < BlockSize
        /\ BlockSize \in Nat /\ SizeField \in Nat /\ SizeField <= BlockSize
    BY HashSizes DEF Represents, ContextType
  <2>2. CASE NoRoom(c.index + 1)
    <3>1. Closed(c) \in Full /\ BlockSize - SizeField - 0 \in Nat
      BY <2>1, ClosedBytes
    <3>2. Zeros(BlockSize - SizeField - 0) \in Seq(Bytes)
      BY <3>1, ZerosBytes
    <3>3. Filled(Closed(c), 0, Zeros(BlockSize - SizeField - 0)) \in Full
      BY <3>1, <3>2, FilledBytes, 0 \in Nat
    <3>4. QED
      BY <2>1, <2>2, <3>3, PadIs
  <2>3. CASE ~NoRoom(c.index + 1)
    <3>1. /\ Marked(c) \in Full /\ BlockSize - SizeField - (c.index + 1) \in Nat
          /\ c.index + 1 \in Nat
      BY <2>1, <2>3, MarkedBytes DEF NoRoom
    <3>2. Zeros(BlockSize - SizeField - (c.index + 1)) \in Seq(Bytes)
      BY <3>1, ZerosBytes
    <3>3. Filled(Marked(c), c.index + 1, Zeros(BlockSize - SizeField - (c.index + 1))) \in Full
      BY <3>1, <3>2, FilledBytes
    <3>4. QED
      BY <2>1, <2>3, <3>3, PadIs
  <2>4. QED
    BY <2>2, <2>3
<1>3. QED
  BY <1>1, <1>2, SizeIs

-----------------------------------------------------------------------------
(* The context always stands for the message so far.                        *)
HashInv ==
  /\ message \in Seq(Data) /\ Len(message) <= MaxLen
  /\ Represents(ctx, message)
  /\ DigestOfMessage

(* The context after an initialisation stands for the empty message.        *)
LEMMA FreshRepresents ==
  ASSUME NEW b \in Full, NEW f, f = [state |-> StartState, count |-> 0, index |-> 0, block |-> b]
  PROVE  Represents(f, << >>)
<1>1. /\ f.state = StartState /\ f.count = 0 /\ f.index = 0 /\ f.block = b
      /\ f = [state |-> f.state, count |-> f.count, index |-> f.index, block |-> f.block]
  OBVIOUS
<1>2. Upto(0) = 0 /\ Chain(StartState, << >>, 0) = StartState /\ BlockSize > 0
  BY UptoIs, ChainSteps, HashSizes, 0 \in Nat
<1>3. ContextType(f)
  BY <1>1 DEF ContextType
<1>4. Len(<< >>) = Upto(f.count) + f.index
  BY <1>1, <1>2
<1>5. \A k \in 1..f.index : f.block[k] = << >>[Upto(f.count) + k]
  BY <1>1
<1>6. QED
  BY <1>1, <1>2, <1>3, <1>4, <1>5 DEF Represents

(* The bytes of messages are bytes of blocks.                               *)
LEMMA DataBytes == \A m : m \in Seq(Data) => m \in Seq(Bytes)
<1>1. Data \subseteq Bytes
  BY DEF Bytes
<1>2. QED
  BY <1>1

(* However a message is cut into updates and whatever an earlier one left   *)
(* in the block, its digest is the hash of the padded message (MD_UPDATE,   *)
(* MD_PAD and sha256_write_digest of nettle-sha256.c), for every size of    *)
(* block and length field and every function that compresses.               *)
THEOREM DigestIsHash == HashSpec => []DigestOfMessage
<1>1. HashInit => HashInv
  <2> SUFFICES ASSUME HashInit PROVE HashInv
    OBVIOUS
  <2> DEFINE b == [k \in 1..BlockSize |-> 0]
  <2>1. b \in Full
    BY DEF Full, Bytes
  <2>2. ctx = [state |-> StartState, count |-> 0, index |-> 0, block |-> b] /\ message = << >>
    BY DEF HashInit, Fresh
  <2> HIDE DEF b
  <2>3. Represents(ctx, message)
    BY <2>1, <2>2, FreshRepresents
  <2>4. message \in Seq(Data) /\ Len(message) <= MaxLen
    BY HashSizes DEF HashInit
  <2>5. DigestOfMessage
    BY DEF HashInit, DigestOfMessage
  <2>6. QED
    BY <2>3, <2>4, <2>5 DEF HashInv
<1>2. HashInv /\ [HashNext]_hashVars => HashInv'
  <2> SUFFICES ASSUME HashInv, [HashNext]_hashVars PROVE HashInv'
    OBVIOUS
  <2>1. CASE Update
    <3>1. PICK n \in 0..(MaxLen - Len(message)) : \E data \in [1..n -> Data] :
            /\ ctx' = MD_UPDATE(ctx, data)
            /\ message' = message \o data
            /\ UNCHANGED <<digest, hashed>>
      BY <2>1 DEF Update
    <3>2. PICK data \in [1..n -> Data] :
            /\ ctx' = MD_UPDATE(ctx, data)
            /\ message' = message \o data
            /\ UNCHANGED <<digest, hashed>>
      BY <3>1
    <3>3. message \in Seq(Data) /\ Len(message) \in Nat /\ n \in Nat
      BY HashSizes DEF HashInv
    <3>4. data \in Seq(Data) /\ Len(data) = n
      BY <3>3
    <3>5. message' \in Seq(Data) /\ Len(message') <= MaxLen
      BY <3>2, <3>3, <3>4, HashSizes
    <3>6. Represents(ctx', message')
      <4>1. message \in Seq(Bytes) /\ data \in Seq(Bytes)
        BY <3>3, <3>4, DataBytes
      <4>2. Represents(MD_UPDATE(ctx, data), message \o data)
        BY <4>1, UpdateTakes DEF HashInv
      <4>3. QED
        BY <3>2, <4>2
    <3>7. DigestOfMessage'
      BY <3>2 DEF HashInv, DigestOfMessage
    <3>8. QED
      BY <3>5, <3>6, <3>7 DEF HashInv, Represents, ContextType
  <2>2. CASE sha256_digest
    <3>1. message \in Seq(Bytes)
      BY DataBytes DEF HashInv
    <3>2. Digest(ctx) = HashOf(message) /\ LastBlock(ctx) \in Full
      BY <3>1, DigestIs DEF HashInv
    <3>3. Represents(ctx', message')
      <4>1. /\ ctx' = [state |-> StartState, count |-> 0, index |-> 0, block |-> LastBlock(ctx)]
            /\ message' = << >>
        BY <2>2 DEF sha256_digest, Fresh
      <4>2. QED
        BY <3>2, <4>1, FreshRepresents
    <3>4. DigestOfMessage'
      BY <2>2, <3>2 DEF sha256_digest, DigestOfMessage
    <3>5. message' \in Seq(Data) /\ Len(message') <= MaxLen
      BY <2>2, HashSizes DEF sha256_digest
    <3>6. QED
      BY <3>3, <3>4, <3>5 DEF HashInv, Represents, ContextType
  <2>3. CASE UNCHANGED hashVars
    BY <2>3 DEF HashInv, Represents, ContextType, DigestOfMessage, hashVars
  <2>4. QED
    BY <2>1, <2>2, <2>3 DEF HashNext
<1>3. HashInv => DigestOfMessage
  BY DEF HashInv
<1>4. QED
  BY <1>1, <1>2, <1>3, PTL DEF HashSpec

-----------------------------------------------------------------------------
(* The net. *)

One(v, w) == IF v = w THEN 1 ELSE 0

(* How many of the slots in S hold v.                                       *)
Holding(f, v, S) == Cardinality({i \in S : f[i] = v})

(* The members in one slot more.                                            *)
LEMMA HoldingAdd ==
  ASSUME NEW S, NEW x, NEW f, NEW v, IsFiniteSet(S), x \notin S
  PROVE  /\ IsFiniteSet(S \cup {x})
         /\ Holding(f, v, S \cup {x}) = Holding(f, v, S) + One(f[x], v)
<1> DEFINE A == {i \in S : f[i] = v}
<1>1. IsFiniteSet(S \cup {x})
  BY FS_AddElement
<1>2. IsFiniteSet(A)
  BY FS_Subset, A \subseteq S
<1>3. Cardinality(A) \in Nat
  BY <1>2, FS_CardinalityType
<1>4. CASE f[x] = v
  <2>1. {i \in S \cup {x} : f[i] = v} = A \cup {x} /\ x \notin A
    BY <1>4
  <2>2. Cardinality(A \cup {x}) = Cardinality(A) + 1
    BY <1>2, <2>1, FS_AddElement
  <2>3. QED
    BY <1>1, <1>4, <2>1, <2>2 DEF One, Holding
<1>5. CASE f[x] # v
  <2>1. {i \in S \cup {x} : f[i] = v} = A
    BY <1>5
  <2>2. Holding(f, v, S \cup {x}) = Cardinality(A) /\ Holding(f, v, S) = Cardinality(A)
    BY <2>1 DEF Holding
  <2>3. One(f[x], v) = 0
    BY <1>5 DEF One
  <2> HIDE DEF A
  <2>4. QED
    BY <1>1, <1>3, <2>2, <2>3
<1>6. QED
  BY <1>4, <1>5

(* One slot, and one more than those that are counted.                      *)
LEMMA HoldingOne ==
  ASSUME NEW f, NEW v, NEW a
  PROVE  IsFiniteSet({a}) /\ Holding(f, v, {a}) = One(f[a], v)
<1>1. PICK E : E = {}
  OBVIOUS
<1>2. IsFiniteSet(E) /\ a \notin E /\ Holding(f, v, E) = 0
  BY <1>1, FS_EmptySet DEF Holding
<1>3. IsFiniteSet(E \cup {a}) /\ Holding(f, v, E \cup {a}) = Holding(f, v, E) + One(f[a], v)
  BY <1>2, HoldingAdd
<1>4. E \cup {a} = {a} /\ One(f[a], v) \in Nat
  BY <1>1 DEF One
<1>5. QED
  BY <1>2, <1>3, <1>4

(* How many of three slots, and of five, hold a value.                      *)
LEMMA HoldingThree ==
  ASSUME NEW f, NEW v, NEW a, NEW b, NEW c, a # b, a # c, b # c
  PROVE  /\ IsFiniteSet({a, b, c})
         /\ Holding(f, v, {a, b, c}) = One(f[a], v) + One(f[b], v) + One(f[c], v)
<1>1. PICK A, B : A = {a} /\ B = A \cup {b}
  OBVIOUS
<1>2. b \notin A /\ c \notin B /\ B \cup {c} = {a, b, c}
  BY <1>1
<1>3. IsFiniteSet(A) /\ Holding(f, v, A) = One(f[a], v)
  BY <1>1, HoldingOne
<1>4. IsFiniteSet(B) /\ Holding(f, v, B) = Holding(f, v, A) + One(f[b], v)
  <2>1. IsFiniteSet(A \cup {b}) /\ Holding(f, v, A \cup {b}) = Holding(f, v, A) + One(f[b], v)
    BY <1>2, <1>3, HoldingAdd
  <2>2. QED
    BY <1>1, <2>1
<1>5. IsFiniteSet(B \cup {c}) /\ Holding(f, v, B \cup {c}) = Holding(f, v, B) + One(f[c], v)
  <2>1. IsFiniteSet(B) /\ c \notin B
    BY <1>2, <1>4
  <2>2. IsFiniteSet(B \cup {c})
    BY <2>1, FS_AddElement
  <2>3. Holding(f, v, B \cup {c}) = Holding(f, v, B) + One(f[c], v)
    BY <2>1, HoldingAdd
  <2>4. QED
    BY <2>2, <2>3
<1>6. QED
  BY <1>2, <1>3, <1>4, <1>5

(* The same, of five.                                                       *)
LEMMA HoldingFive ==
  ASSUME NEW f, NEW v, NEW a, NEW b, NEW c, NEW d, NEW e,
         a # b, a # c, a # d, a # e, b # c, b # d, b # e, c # d, c # e, d # e
  PROVE  Holding(f, v, {a, b, c, d, e}) =
           One(f[a], v) + One(f[b], v) + One(f[c], v) + One(f[d], v) + One(f[e], v)
<1>1. PICK C, D : C = {a, b, c} /\ D = C \cup {d}
  OBVIOUS
<1>2. d \notin C /\ e \notin D /\ D \cup {e} = {a, b, c, d, e}
  BY <1>1
<1>3. IsFiniteSet(C) /\ Holding(f, v, C) = One(f[a], v) + One(f[b], v) + One(f[c], v)
  BY <1>1, HoldingThree
<1>4. IsFiniteSet(D) /\ Holding(f, v, D) = Holding(f, v, C) + One(f[d], v)
  <2>1. IsFiniteSet(C) /\ d \notin C
    BY <1>2, <1>3
  <2>2. IsFiniteSet(C \cup {d})
    BY <2>1, FS_AddElement
  <2>3. Holding(f, v, C \cup {d}) = Holding(f, v, C) + One(f[d], v)
    BY <2>1, HoldingAdd
  <2>4. QED
    BY <1>1, <2>2, <2>3
<1>5. Holding(f, v, D \cup {e}) = Holding(f, v, D) + One(f[e], v)
  <2>1. IsFiniteSet(D) /\ e \notin D
    BY <1>2, <1>4
  <2>2. QED
    BY <2>1, HoldingAdd
<1>6. QED
  BY <1>2, <1>3, <1>4, <1>5

(* How many of the slots of P1, and of P2, hold a value.                    *)
LEMMA CountOfThree ==
  ASSUME NEW f, NEW v, NEW a \in 0..2, NEW b \in 0..2, NEW c \in 0..2,
         DOMAIN f = 0..2, a # b, a # c, b # c
  PROVE  Count(f, v) = One(f[a], v) + One(f[b], v) + One(f[c], v)
<1>1. PICK S : S = {a, b, c}
  OBVIOUS
<1>2. S = DOMAIN f
  BY <1>1
<1>3. Count(f, v) = Holding(f, v, S)
  BY <1>2 DEF Count, Holding
<1>4. QED
  BY <1>1, <1>3, HoldingThree

(* All five slots of P2.                                                    *)
LEMMA CountOfFive ==
  ASSUME NEW f, NEW v,
         NEW a \in 0..4, NEW b \in 0..4, NEW c \in 0..4, NEW d \in 0..4, NEW e \in 0..4,
         DOMAIN f = 0..4, a # b, a # c, a # d, a # e, b # c, b # d, b # e, c # d, c # e, d # e
  PROVE  Count(f, v) = One(f[a], v) + One(f[b], v) + One(f[c], v) + One(f[d], v) + One(f[e], v)
<1>1. PICK S : S = {a, b, c, d, e}
  OBVIOUS
<1>2. \A k \in 0..4 : k \in S
  BY <1>1
<1>3. S = DOMAIN f
  BY <1>1, <1>2
<1>4. Count(f, v) = Holding(f, v, S)
  BY <1>3 DEF Count, Holding
<1>5. QED
  BY <1>1, <1>4, HoldingFive

(* A function on 1..n is a sequence of n.                                   *)
LEMMA Tuple ==
  ASSUME NEW n \in Nat, NEW S, NEW p \in [1..n -> S]
  PROVE  p \in Seq(S) /\ Len(p) = n
<1>1. p \in Seq(S)
  BY SeqDef
<1>2. Len(p) \in Nat /\ DOMAIN p = 1..Len(p) /\ DOMAIN p = 1..n
  BY <1>1, LenProperties
<1>3. \A k \in Nat : k \in 1..Len(p) <=> k \in 1..n
  BY <1>2
<1>4. QED
  BY <1>1, <1>2, <1>3

(* The blocks a transition has: those of three slots are T1's.              *)
LEMMA T1Orders ==
  ASSUME NEW p \in Order(3, 0..2)
  PROVE  /\ Len(p) = 3 /\ p[1] \in 0..2 /\ p[2] \in 0..2 /\ p[3] \in 0..2
         /\ p[1] # p[2] /\ p[1] # p[3] /\ p[2] # p[3]
<1>1. p \in [1..3 -> 0..2] /\ \A i, j \in 1..3 : p[i] = p[j] => i = j
  BY DEF Order
<1>2. Len(p) = 3
  BY <1>1, Tuple, 3 \in Nat
<1>3. QED
  BY <1>1, <1>2

(* And those of an order of four slots of P2.                               *)
LEMMA T2Orders ==
  ASSUME NEW p \in Order(4, 0..4)
  PROVE  /\ Len(p) = 4 /\ DOMAIN p = 1..4
         /\ p[1] \in 0..4 /\ p[2] \in 0..4 /\ p[3] \in 0..4 /\ p[4] \in 0..4
         /\ p[1] # p[2] /\ p[1] # p[3] /\ p[1] # p[4]
         /\ p[2] # p[3] /\ p[2] # p[4] /\ p[3] # p[4]
<1>1. p \in [1..4 -> 0..4] /\ \A i, j \in 1..4 : p[i] = p[j] => i = j
  BY DEF Order
<1>2. Len(p) = 4
  BY <1>1, Tuple, 4 \in Nat
<1>3. QED
  BY <1>1, <1>2

(* What a block asks of the members it looks at.                            *)
Takes1(m, p) == m[p[2]] = m[p[3]] /\ m[p[1]] < m[p[2]]
Takes2(m, p) == m[p[2]] = m[p[3]] /\ m[p[2]] = m[p[4]] /\ m[p[1]] < m[p[2]]

(* The blocks of the pass so far have fired a transition if one of them     *)
(* could, and the members of P2 are those the pass began with until then.   *)
NetTypeOK ==
  /\ P1_member \in [0..2 -> Values] /\ P2_member \in [0..4 -> Values]
  /\ marking \in [0..4 -> Values] /\ P3_member \in [0..5 -> Int]
  /\ block \in 1..(Len(Unrolled) + 1)
  /\ P1_is_marked \in {0, 3} /\ P2_is_marked \in {1, 5}
T1Fired ==
  P1_is_marked = 0 <=>
    \E k \in 1..(block - 1) : Len(Unrolled[k]) = 3 /\ Takes1(P1_member, Unrolled[k])
T2Fired ==
  /\ P2_is_marked = 1 <=>
       \E k \in 1..(block - 1) : Len(Unrolled[k]) # 3 /\ Takes2(marking, Unrolled[k])
  /\ P2_is_marked = 5 => P2_member = marking
Triples ==
  P3_is_marked = (IF P1_is_marked = 0 THEN 3 ELSE 0) + (IF P2_is_marked = 1 THEN 3 ELSE 0)
NetInv == NetTypeOK /\ T1Fired /\ T2Fired /\ Triples

(* The block that is next.                                                  *)
LEMMA NextBlock ==
  ASSUME NetTypeOK, ~AtEnd
  PROVE  /\ block \in Nat /\ block \in DOMAIN Unrolled
         /\ Unrolled[block] \in Order(3, 0..2) \cup Order(4, 0..4)
         /\ (Len(Unrolled[block]) = 3 => Unrolled[block] \in Order(3, 0..2))
         /\ (Len(Unrolled[block]) # 3 => Unrolled[block] \in Order(4, 0..4))
<1>1. /\ Len(Unrolled) \in Nat /\ DOMAIN Unrolled = 1..Len(Unrolled)
      /\ \A k \in DOMAIN Unrolled : Unrolled[k] \in Order(3, 0..2) \cup Order(4, 0..4)
  BY NetAssumption
<1>2. block \in DOMAIN Unrolled /\ block \in Nat
  BY <1>1 DEF NetTypeOK, AtEnd
<1>3. QED
  BY <1>1, <1>2, T1Orders, T2Orders

(* The slot a block of T2 does not look at, and what is left behind.        *)
LEMMA OtherSlot ==
  ASSUME NEW p \in Order(4, 0..4)
  PROVE  /\ Slots(p) = {p[1], p[2], p[3], p[4]}
         /\ \E u \in 0..4 : u \notin Slots(p) /\ 0..4 = {p[1], p[2], p[3], p[4], u}
         /\ \A u, w \in 0..4 : u \notin Slots(p) /\ w \notin Slots(p) => u = w
<1>1. Slots(p) = {p[1], p[2], p[3], p[4]}
  BY T2Orders DEF Slots
<1>2. 0..4 = {0, 1, 2, 3, 4}
  OBVIOUS
<1>3. QED
  BY <1>1, <1>2, T2Orders

(* What a firing of T2 leaves in P2 are members.                            *)
LEMMA Remains ==
  ASSUME P2_member \in [0..4 -> Values], NEW p \in Order(4, 0..4)
  PROVE  Remaining(p) \in [0..4 -> Values]
<1>1. PICK u \in 0..4 : u = CHOOSE s \in 0..4 : s \notin Slots(p)
  BY OtherSlot
<1>2. QED
  BY <1>1 DEF Remaining

(* A transition that has not fired has room for its triple.                 *)
LEMMA RoomLeft ==
  ASSUME NetInv
  PROVE  /\ P1_is_marked = 3 => P3_is_marked \in {0, 3} /\ Room
         /\ P2_is_marked = 5 => P3_is_marked \in {0, 3} /\ Room
  BY DEF NetInv, Triples, NetTypeOK, Room

(* T1 fires in the next block if it has not fired and its members allow it. *)
LEMMA T1EnabledIs ==
  ASSUME NetInv, NEW p
  PROVE  T1Enabled(p) <=> P1_is_marked = 3 /\ Takes1(P1_member, p)
<1>1. P1_is_marked \in {0, 3} /\ (P1_is_marked >= 3 <=> P1_is_marked = 3)
  BY DEF NetInv, NetTypeOK
<1>2. QED
  BY <1>1, RoomLeft DEF T1Enabled, Takes1

(* T2 likewise, whether or not the block looks at the last slot.            *)
LEMMA T2EnabledIs ==
  ASSUME NetInv, NEW p \in Order(4, 0..4)
  PROVE  T2Enabled(p) <=> P2_is_marked = 5 /\ Takes2(P2_member, p)
<1>1. /\ P2_is_marked \in {1, 5} /\ (P2_is_marked >= 4 <=> P2_is_marked = 5)
      /\ (P2_is_marked >= 5 <=> P2_is_marked = 5)
  BY DEF NetInv, NetTypeOK
<1>2. P2_member[p[2]] \in Int /\ P2_member[p[1]] \in Int
  BY NetAssumption, T2Orders DEF NetInv, NetTypeOK
<1>3. P2_member[p[2]] > P2_member[p[1]] <=> P2_member[p[1]] < P2_member[p[2]]
  BY <1>2
<1>4. QED
  BY <1>1, <1>3, RoomLeft DEF T2Enabled, Takes2

(* The blocks behind the next one.                                          *)
LEMMA BlocksSoFar ==
  ASSUME NetTypeOK, ~AtEnd, block' = block + 1
  PROVE  /\ \A k : k \in 1..(block' - 1) <=> k \in 1..(block - 1) \/ k = block
         /\ block' \in 1..(Len(Unrolled) + 1)
<1>1. block \in Nat \ {0} /\ Len(Unrolled) \in Nat /\ block # Len(Unrolled) + 1
  BY NetAssumption DEF NetTypeOK, AtEnd
<1>2. block' - 1 = block
  BY <1>1
<1>3. QED
  BY <1>1, <1>2 DEF NetTypeOK

(* The triple goes to slots that P3 has.                                    *)
LEMMA OutputType ==
  ASSUME NetTypeOK, P3_is_marked \in {0, 3}, NEW x \in Int, NEW y \in Int, NEW z \in Int,
         Output(x, y, z)
  PROVE  /\ P3_member' \in [0..5 -> Int] /\ P3_is_marked' = P3_is_marked + 3
         /\ P3_member'[P3_is_marked] = x /\ P3_member'[P3_is_marked + 1] = y
         /\ P3_member'[P3_is_marked + 2] = z
<1>1. /\ P3_is_marked \in 0..5 /\ P3_is_marked + 1 \in 0..5 /\ P3_is_marked + 2 \in 0..5
      /\ P3_is_marked # P3_is_marked + 1 /\ P3_is_marked # P3_is_marked + 2
      /\ P3_is_marked + 1 # P3_is_marked + 2
  OBVIOUS
<1>2. QED
  BY <1>1 DEF NetTypeOK, Output

(* A block that fires T1.                                                   *)
LEMMA T1Step ==
  ASSUME NetInv, ~AtEnd, block' = block + 1, UNCHANGED <<pass, marking>>,
         Len(Unrolled[block]) = 3, T1(Unrolled[block])
  PROVE  NetInv'
<1> DEFINE p == Unrolled[block]
<1>1. /\ NetTypeOK /\ T1Fired /\ T2Fired /\ Triples /\ p \in Order(3, 0..2)
      /\ block \in Nat /\ block \in DOMAIN Unrolled
  BY NextBlock DEF NetInv
<1>2. P1_is_marked = 3 /\ Takes1(P1_member, p) /\ P3_is_marked \in {0, 3}
  BY <1>1, T1EnabledIs, RoomLeft DEF T1
<1>3. P1_is_marked' = 0 /\ UNCHANGED <<P1_member, P2_member, P2_is_marked>>
  BY <1>2 DEF T1
<1>4. P3_member' \in [0..5 -> Int] /\ P3_is_marked' = P3_is_marked + 3
  <2>1. P1_member[p[1]] \in Int /\ P1_member[p[2]] \in Int
    BY <1>1, T1Orders, NetAssumption DEF NetTypeOK
  <2>2. PICK x \in Int, y \in Int : Output(x, y, x - y)
    BY <2>1 DEF T1
  <2>3. x - y \in Int
    OBVIOUS
  <2>4. QED
    BY <1>1, <1>2, <2>2, <2>3, OutputType
<1>5. NetTypeOK'
  BY <1>1, <1>3, <1>4, BlocksSoFar DEF NetTypeOK
<1>6. \A k : k \in 1..(block' - 1) <=> k \in 1..(block - 1) \/ k = block
  BY <1>1, BlocksSoFar
<1>7. T1Fired'
  BY <1>2, <1>3, <1>6 DEF T1Fired
<1>8. T2Fired'
  BY <1>1, <1>3, <1>6 DEF T2Fired
<1>9. Triples'
  BY <1>1, <1>2, <1>3, <1>4 DEF Triples, NetTypeOK
<1>10. QED
  BY <1>5, <1>7, <1>8, <1>9 DEF NetInv

(* A block that fires T2.                                                   *)
LEMMA T2Step ==
  ASSUME NetInv, ~AtEnd, block' = block + 1, UNCHANGED <<pass, marking>>,
         Len(Unrolled[block]) # 3, T2(Unrolled[block])
  PROVE  NetInv'
<1> DEFINE p == Unrolled[block]
<1>1. /\ NetTypeOK /\ T1Fired /\ T2Fired /\ Triples /\ p \in Order(4, 0..4)
      /\ block \in Nat /\ block \in DOMAIN Unrolled
  BY NextBlock DEF NetInv
<1>2. P2_is_marked = 5 /\ Takes2(P2_member, p) /\ P3_is_marked \in {0, 3}
  BY <1>1, T2EnabledIs, RoomLeft DEF T2
<1>3. P2_is_marked' = 1 /\ P2_member' = Remaining(p) /\ UNCHANGED <<P1_member, P1_is_marked>>
  BY <1>2 DEF T2
<1>4. P3_member' \in [0..5 -> Int] /\ P3_is_marked' = P3_is_marked + 3
  <2>1. P2_member[p[1]] \in Int /\ P2_member[p[2]] \in Int
    BY <1>1, T2Orders, NetAssumption DEF NetTypeOK
  <2>2. PICK a \in Int, b \in Int : Output(a, b, a + b)
    BY <2>1 DEF T2
  <2>3. a + b \in Int
    OBVIOUS
  <2>4. QED
    BY <1>1, <1>2, <2>2, <2>3, OutputType
<1>5. Remaining(p) \in [0..4 -> Values]
  BY <1>1, Remains DEF NetTypeOK
<1>6. NetTypeOK'
  BY <1>1, <1>3, <1>4, <1>5, BlocksSoFar DEF NetTypeOK
<1>7. \A k : k \in 1..(block' - 1) <=> k \in 1..(block - 1) \/ k = block
  BY <1>1, BlocksSoFar
<1>8. T1Fired'
  BY <1>1, <1>3, <1>7 DEF T1Fired
<1>9. T2Fired'
  <2>1. P2_member = marking
    BY <1>1, <1>2 DEF T2Fired
  <2>2. QED
    BY <1>2, <1>3, <1>7, <2>1 DEF T2Fired
<1>10. Triples'
  BY <1>1, <1>2, <1>3, <1>4 DEF Triples, NetTypeOK
<1>11. QED
  BY <1>6, <1>8, <1>9, <1>10 DEF NetInv

(* A block that fires nothing.                                              *)
LEMMA SkipStep ==
  ASSUME NetInv, Skip
  PROVE  NetInv'
<1> DEFINE p == Unrolled[block]
<1>1. /\ NetTypeOK /\ T1Fired /\ T2Fired /\ Triples /\ ~AtEnd /\ block' = block + 1
      /\ UNCHANGED <<P1_member, P2_member, P3_member, P1_is_marked, P2_is_marked,
                     P3_is_marked, marking>>
  BY DEF NetInv, Skip
<1>2. block \in DOMAIN Unrolled /\ (Len(p) # 3 => p \in Order(4, 0..4))
  BY <1>1, NextBlock
<1>3. \A k : k \in 1..(block' - 1) <=> k \in 1..(block - 1) \/ k = block
  BY <1>1, BlocksSoFar
<1>4. NetTypeOK'
  BY <1>1, BlocksSoFar DEF NetTypeOK
<1>5. T1Fired'
  <2>1. Len(p) = 3 /\ P1_is_marked = 3 => ~Takes1(P1_member, p)
    BY T1EnabledIs DEF Skip
  <2>2. QED
    BY <1>1, <1>3, <2>1 DEF T1Fired, NetTypeOK
<1>6. T2Fired'
  <2>1. Len(p) # 3 /\ P2_is_marked = 5 => ~Takes2(marking, p)
    BY <1>1, <1>2, T2EnabledIs DEF Skip, T2Fired
  <2>2. QED
    BY <1>1, <1>3, <2>1 DEF T2Fired, NetTypeOK
<1>7. Triples'
  BY <1>1 DEF Triples
<1>8. QED
  BY <1>4, <1>5, <1>6, <1>7 DEF NetInv

(* The passes keep the invariant.                                           *)
LEMMA NetInvariance == NetSpec => []NetInv
<1>1. ASSUME NetInit PROVE NetInv
  <2>1. Len(Unrolled) \in Nat /\ 1..(block - 1) = {}
    BY <1>1, NetAssumption DEF NetInit
  <2>2. NetTypeOK
    BY <1>1, <2>1 DEF NetInit, NetTypeOK
  <2>3. QED
    BY <1>1, <2>1, <2>2 DEF NetInit, NetInv, T1Fired, T2Fired, Triples
<1>2. ASSUME NetInv, [NetNext]_netVars PROVE NetInv'
  <2>1. CASE Fire
    BY <1>2, <2>1, T1Step, T2Step DEF Fire
  <2>2. CASE Skip
    BY <1>2, <2>2, SkipStep
  <2>3. CASE NextPass
    <3>1. /\ block' = 1 /\ P1_is_marked' = 3 /\ P2_is_marked' = 5 /\ P3_is_marked' = 0
          /\ marking' = P2_member /\ UNCHANGED <<P1_member, P2_member, P3_member>>
      BY <2>3 DEF NextPass
    <3>2. Len(Unrolled) \in Nat /\ 1..(block' - 1) = {}
      BY <3>1, NetAssumption
    <3>3. NetTypeOK'
      BY <1>2, <3>1, <3>2 DEF NetInv, NetTypeOK
    <3>4. QED
      BY <3>1, <3>2, <3>3 DEF NetInv, T1Fired, T2Fired, Triples
  <2>4. CASE UNCHANGED netVars
    BY <1>2, <2>4 DEF netVars, NetInv, NetTypeOK, T1Fired, T2Fired, Triples, Takes1, Takes2
  <2>5. QED
    BY <1>2, <2>1, <2>2, <2>3, <2>4 DEF NetNext
<1>3. QED
  BY <1>1, <1>2, PTL DEF NetSpec
(* Any three slots of P1 are an order.                                      *)
LEMMA ThreeSlots ==
  ASSUME NEW a \in 0..2, NEW b \in 0..2, NEW c \in 0..2, a # b, a # c, b # c
  PROVE  \E p \in Order(3, 0..2) : p[1] = a /\ p[2] = b /\ p[3] = c
<1> DEFINE p == [i \in 1..3 |-> IF i = 1 THEN a ELSE IF i = 2 THEN b ELSE c]
<1>1. p \in [1..3 -> 0..2] /\ p[1] = a /\ p[2] = b /\ p[3] = c
  OBVIOUS
<1> HIDE DEF p
<1>2. \A i, j \in 1..3 : p[i] = p[j] => i = j
  <2>1. \A i \in 1..3 : i = 1 \/ i = 2 \/ i = 3
    OBVIOUS
  <2>2. QED
    BY <1>1, <2>1
<1>3. p \in Order(3, 0..2)
  BY <1>1, <1>2 DEF Order
<1>4. QED
  BY <1>1, <1>3

(* The blocks of a pass are all orders.                                     *)
LEMMA AllOrders ==
  ASSUME AtEnd
  PROVE  /\ \A p : p \in Order(3, 0..2) <=>
                     \E k \in 1..(block - 1) : Len(Unrolled[k]) = 3 /\ Unrolled[k] = p
         /\ \A p : p \in Order(4, 0..4) <=>
                     \E k \in 1..(block - 1) : Len(Unrolled[k]) # 3 /\ Unrolled[k] = p
<1>1. /\ Len(Unrolled) \in Nat /\ DOMAIN Unrolled = 1..Len(Unrolled)
      /\ \A k \in DOMAIN Unrolled : Unrolled[k] \in Order(3, 0..2) \cup Order(4, 0..4)
      /\ \A p \in Order(3, 0..2) \cup Order(4, 0..4) : \E k \in DOMAIN Unrolled : Unrolled[k] = p
  BY NetAssumption
<1>2. 1..(block - 1) = DOMAIN Unrolled
  BY <1>1 DEF AtEnd
<1>3. (\A p \in Order(3, 0..2) : Len(p) = 3) /\ (\A p \in Order(4, 0..4) : Len(p) = 4)
  BY T1Orders, T2Orders
<1>4. ASSUME NEW p
      PROVE  p \in Order(3, 0..2) <=>
               \E k \in 1..(block - 1) : Len(Unrolled[k]) = 3 /\ Unrolled[k] = p
  <2>1. ASSUME p \in Order(3, 0..2)
        PROVE  \E k \in 1..(block - 1) : Len(Unrolled[k]) = 3 /\ Unrolled[k] = p
    <3>1. PICK k \in DOMAIN Unrolled : Unrolled[k] = p
      BY <1>1, <2>1
    <3>2. Len(p) = 3
      BY <1>3, <2>1
    <3>3. k \in 1..(block - 1)
      BY <1>2, <3>1
    <3>4. QED
      BY <3>1, <3>2, <3>3
  <2>2. ASSUME NEW k \in 1..(block - 1), Len(Unrolled[k]) = 3, Unrolled[k] = p
        PROVE  p \in Order(3, 0..2)
    <3>1. k \in DOMAIN Unrolled
      BY <1>2, <2>2
    <3>2. p \in Order(3, 0..2) \/ p \in Order(4, 0..4)
      BY <1>1, <2>2, <3>1
    <3>3. Len(p) = 3
      BY <2>2
    <3>4. QED
      BY <1>3, <3>2, <3>3
  <2>3. QED
    BY <2>1, <2>2
<1>5. ASSUME NEW p
      PROVE  p \in Order(4, 0..4) <=>
               \E k \in 1..(block - 1) : Len(Unrolled[k]) # 3 /\ Unrolled[k] = p
  <2>1. ASSUME p \in Order(4, 0..4)
        PROVE  \E k \in 1..(block - 1) : Len(Unrolled[k]) # 3 /\ Unrolled[k] = p
    <3>1. PICK k \in DOMAIN Unrolled : Unrolled[k] = p
      BY <1>1, <2>1
    <3>2. Len(p) = 4
      BY <1>3, <2>1
    <3>3. k \in 1..(block - 1)
      BY <1>2, <3>1
    <3>4. QED
      BY <3>1, <3>2, <3>3
  <2>2. ASSUME NEW k \in 1..(block - 1), Len(Unrolled[k]) # 3, Unrolled[k] = p
        PROVE  p \in Order(4, 0..4)
    <3>1. k \in DOMAIN Unrolled
      BY <1>2, <2>2
    <3>2. p \in Order(3, 0..2) \/ p \in Order(4, 0..4)
      BY <1>1, <2>2, <3>1
    <3>3. Len(p) # 3
      BY <2>2
    <3>4. QED
      BY <1>3, <3>2, <3>3
  <2>3. QED
    BY <2>1, <2>2
<1>6. QED
  BY <1>4, <1>5

(* T1 can take two members that are equal and one that is less.             *)
LEMMA T1Takes ==
  ASSUME NEW m \in [0..2 -> Values]
  PROVE  (\E p \in Order(3, 0..2) : Takes1(m, p)) <=>
           \E x, y \in Values : x < y /\ Count(m, x) = 1 /\ Count(m, y) = 2
<1>1. ASSUME NEW p \in Order(3, 0..2), Takes1(m, p)
      PROVE  \E x, y \in Values : x < y /\ Count(m, x) = 1 /\ Count(m, y) = 2
  <2>1. /\ p[1] \in 0..2 /\ p[2] \in 0..2 /\ p[3] \in 0..2
        /\ p[1] # p[2] /\ p[1] # p[3] /\ p[2] # p[3]
    BY T1Orders
  <2>2. DOMAIN m = 0..2
    OBVIOUS
  <2>3. \A v : Count(m, v) = One(m[p[1]], v) + One(m[p[2]], v) + One(m[p[3]], v)
    BY <2>1, <2>2, CountOfThree
  <2>4. /\ m[p[1]] \in Values /\ m[p[2]] \in Values /\ m[p[1]] < m[p[2]]
        /\ m[p[3]] = m[p[2]] /\ m[p[1]] \in Int /\ m[p[2]] \in Int
    BY <1>1, <2>1, NetAssumption DEF Takes1
  <2>5. m[p[1]] # m[p[2]]
    BY <2>4
  <2>6. Count(m, m[p[1]]) = 1 /\ Count(m, m[p[2]]) = 2
    BY <2>3, <2>4, <2>5 DEF One
  <2>7. QED
    BY <2>4, <2>6
<1>2. ASSUME NEW x \in Values, NEW y \in Values, x < y, Count(m, x) = 1, Count(m, y) = 2
      PROVE  \E p \in Order(3, 0..2) : Takes1(m, p)
  <2>1. x \in Int /\ y \in Int /\ x # y
    BY <1>2, NetAssumption
  <2>2. \A v : Count(m, v) = One(m[0], v) + One(m[1], v) + One(m[2], v)
    <3>1. DOMAIN m = 0..2 /\ 0 \in 0..2 /\ 1 \in 0..2 /\ 2 \in 0..2 /\ 0 # 1 /\ 0 # 2 /\ 1 # 2
      OBVIOUS
    <3>2. QED
      BY <3>1, CountOfThree
  <2>3. One(m[0], x) + One(m[1], x) + One(m[2], x) = 1 /\ One(m[0], y) + One(m[1], y) + One(m[2], y) = 2
    BY <1>2, <2>2
  <2>4. \/ m[0] = x /\ m[1] = y /\ m[2] = y
        \/ m[1] = x /\ m[0] = y /\ m[2] = y
        \/ m[2] = x /\ m[0] = y /\ m[1] = y
    BY <2>1, <2>3 DEF One
  <2>5. \E a, b, c \in 0..2 : a # b /\ a # c /\ b # c /\ m[a] = x /\ m[b] = y /\ m[c] = y
    <3>1. CASE m[0] = x /\ m[1] = y /\ m[2] = y
      BY <3>1
    <3>2. CASE m[1] = x /\ m[0] = y /\ m[2] = y
      BY <3>2
    <3>3. CASE m[2] = x /\ m[0] = y /\ m[1] = y
      BY <3>3
    <3>4. QED
      BY <2>4, <3>1, <3>2, <3>3
  <2>6. PICK a, b, c \in 0..2 : a # b /\ a # c /\ b # c /\ m[a] = x /\ m[b] = y /\ m[c] = y
    BY <2>5
  <2>7. PICK p \in Order(3, 0..2) : p[1] = a /\ p[2] = b /\ p[3] = c
    BY <2>6, ThreeSlots
  <2>8. Takes1(m, p)
    BY <1>2, <2>6, <2>7 DEF Takes1
  <2>9. QED
    BY <2>8
<1>3. QED
  BY <1>1, <1>2

(* The slots beside one of P2.                                              *)
LEMMA OtherFour ==
  ASSUME NEW i \in 0..4
  PROVE  \E a, b, c, d \in 0..4 :
           /\ i # a /\ i # b /\ i # c /\ i # d /\ a # b /\ a # c /\ a # d /\ b # c /\ b # d /\ c # d
           /\ 0..4 = {i, a, b, c, d}
<1> DEFINE Beside(a, b, c, d) ==
             /\ i # a /\ i # b /\ i # c /\ i # d
             /\ a # b /\ a # c /\ a # d /\ b # c /\ b # d /\ c # d
             /\ 0..4 = {i, a, b, c, d}
<1>1. i = 0 \/ i = 1 \/ i = 2 \/ i = 3 \/ i = 4
  OBVIOUS
<1>2. i = 0 => Beside(1, 2, 3, 4)
  OBVIOUS
<1>3. i = 1 => Beside(0, 2, 3, 4)
  OBVIOUS
<1>4. i = 2 => Beside(0, 1, 3, 4)
  OBVIOUS
<1>5. i = 3 => Beside(0, 1, 2, 4)
  OBVIOUS
<1>6. i = 4 => Beside(0, 1, 2, 3)
  OBVIOUS
<1> HIDE DEF Beside
<1>7. \E a, b, c, d \in 0..4 : Beside(a, b, c, d)
  <2>1. 0 \in 0..4 /\ 1 \in 0..4 /\ 2 \in 0..4 /\ 3 \in 0..4 /\ 4 \in 0..4
    OBVIOUS
  <2>2. QED
    BY <1>1, <1>2, <1>3, <1>4, <1>5, <1>6, <2>1
<1>8. QED
  BY <1>7 DEF Beside

(* T2 can take three members that are equal and one that is less.           *)
LEMMA T2Takes ==
  ASSUME NEW m \in [0..4 -> Values]
  PROVE  (\E p \in Order(4, 0..4) : Takes2(m, p)) <=>
           \E i, j \in 0..4 : m[i] < m[j] /\ Count(m, m[j]) >= 3
<1>1. ASSUME NEW p \in Order(4, 0..4), Takes2(m, p)
      PROVE  \E i, j \in 0..4 : m[i] < m[j] /\ Count(m, m[j]) >= 3
  <2>1. /\ p[1] \in 0..4 /\ p[2] \in 0..4 /\ p[3] \in 0..4 /\ p[4] \in 0..4
        /\ p[1] # p[2] /\ p[1] # p[3] /\ p[1] # p[4]
        /\ p[2] # p[3] /\ p[2] # p[4] /\ p[3] # p[4]
    BY T2Orders
  <2>2. PICK u \in 0..4 : u \notin Slots(p) /\ 0..4 = {p[1], p[2], p[3], p[4], u}
    BY OtherSlot
  <2>3. u # p[1] /\ u # p[2] /\ u # p[3] /\ u # p[4]
    BY <2>2, OtherSlot
  <2>4. DOMAIN m = 0..4
    OBVIOUS
  <2>5. Count(m, m[p[2]]) = One(m[p[1]], m[p[2]]) + One(m[p[2]], m[p[2]])
                              + One(m[p[3]], m[p[2]]) + One(m[p[4]], m[p[2]]) + One(m[u], m[p[2]])
    BY <2>1, <2>3, <2>4, CountOfFive
  <2>6. m[p[1]] < m[p[2]] /\ m[p[3]] = m[p[2]] /\ m[p[4]] = m[p[2]]
    BY <1>1 DEF Takes2
  <2>7. Count(m, m[p[2]]) >= 3
    BY <2>5, <2>6 DEF One
  <2>8. QED
    BY <2>1, <2>6, <2>7
<1>2. ASSUME NEW i \in 0..4, NEW j \in 0..4, m[i] < m[j], Count(m, m[j]) >= 3
      PROVE  \E p \in Order(4, 0..4) : Takes2(m, p)
  <2> DEFINE v == m[j]
  <2>1. PICK a, b, c, d \in 0..4 :
          /\ i # a /\ i # b /\ i # c /\ i # d /\ a # b /\ a # c /\ a # d /\ b # c /\ b # d /\ c # d
          /\ 0..4 = {i, a, b, c, d}
    BY OtherFour
  <2>2. DOMAIN m = 0..4
    OBVIOUS
  <2>3. Count(m, v) = One(m[i], v) + One(m[a], v) + One(m[b], v) + One(m[c], v) + One(m[d], v)
    BY <2>1, <2>2, CountOfFive
  <2>4. m[i] \in Int /\ v \in Int /\ m[i] < v /\ Count(m, v) >= 3
    BY <1>2, NetAssumption
  <2> HIDE DEF v
  <2>5. One(m[i], v) = 0
    BY <2>4 DEF One
  <2>6. One(m[a], v) + One(m[b], v) + One(m[c], v) + One(m[d], v) >= 3
    <3>1. /\ One(m[a], v) \in Nat /\ One(m[b], v) \in Nat
          /\ One(m[c], v) \in Nat /\ One(m[d], v) \in Nat
      BY DEF One
    <3>2. QED
      BY <2>3, <2>4, <2>5, <3>1
  <2>7. \/ m[a] = v /\ m[b] = v /\ m[c] = v
        \/ m[a] = v /\ m[b] = v /\ m[d] = v
        \/ m[a] = v /\ m[c] = v /\ m[d] = v
        \/ m[b] = v /\ m[c] = v /\ m[d] = v
    BY <2>6 DEF One
  <2>8. PICK x, y, z \in 0..4 :
          i # x /\ i # y /\ i # z /\ x # y /\ x # z /\ y # z /\ m[x] = v /\ m[y] = v /\ m[z] = v
    BY <2>1, <2>7
  <2>9. PICK p \in Order(4, 0..4) : p[1] = i /\ p[2] = x /\ p[3] = y /\ p[4] = z
    <3> DEFINE q == [k \in 1..4 |-> IF k = 1 THEN i ELSE IF k = 2 THEN x ELSE IF k = 3 THEN y ELSE z]
    <3>1. q \in [1..4 -> 0..4] /\ q[1] = i /\ q[2] = x /\ q[3] = y /\ q[4] = z
      OBVIOUS
    <3> HIDE DEF q
    <3>2. \A k, l \in 1..4 : q[k] = q[l] => k = l
      <4>1. \A k \in 1..4 : k = 1 \/ k = 2 \/ k = 3 \/ k = 4
        OBVIOUS
      <4>2. QED
        BY <2>8, <3>1, <4>1
    <3>3. q \in Order(4, 0..4)
      BY <3>1, <3>2 DEF Order
    <3>4. QED
      BY <3>1, <3>3
  <2>10. Takes2(m, p)
    BY <2>4, <2>8, <2>9 DEF Takes2
  <2>11. QED
    BY <2>10
<1>3. QED
  BY <1>1, <1>2

(* So at the end of a pass the transitions have fired that could.           *)
LEMMA PassComplete ==
  ASSUME NetInv
  PROVE  PassFiresWhatItCan
<1> SUFFICES ASSUME AtEnd
             PROVE  /\ P1_is_marked = 0 <=>
                         \E x, y \in Values : x < y /\ Count(P1_member, x) = 1 /\ Count(P1_member, y) = 2
                    /\ P2_is_marked = 1 <=>
                         \E i, j \in 0..4 : marking[i] < marking[j] /\ Count(marking, marking[j]) >= 3
                    /\ P3_is_marked = (3 - P1_is_marked) + 3 * ((5 - P2_is_marked) \div 4)
  BY DEF PassFiresWhatItCan
<1>1. /\ P1_member \in [0..2 -> Values] /\ marking \in [0..4 -> Values]
      /\ P1_is_marked \in {0, 3} /\ P2_is_marked \in {1, 5}
  BY DEF NetInv, NetTypeOK
<1>2. P1_is_marked = 0 <=> \E p \in Order(3, 0..2) : Takes1(P1_member, p)
  BY AllOrders DEF NetInv, T1Fired
<1>3. P2_is_marked = 1 <=> \E p \in Order(4, 0..4) : Takes2(marking, p)
  BY AllOrders DEF NetInv, T2Fired
<1>4. P3_is_marked = (3 - P1_is_marked) + 3 * ((5 - P2_is_marked) \div 4)
  <2>1. (5 - 1) \div 4 = 1 /\ (5 - 5) \div 4 = 0
    OBVIOUS
  <2>2. QED
    BY <1>1, <2>1 DEF NetInv, Triples
<1>5. QED
  BY <1>1, <1>2, <1>3, <1>4, T1Takes, T2Takes

(* What a firing of T2 takes, and what is behind it in the slot that is     *)
(* looked at no more, are the members that were there.                      *)
LEMMA T2Balances ==
  ASSUME NetInv, NEW p \in Order(4, 0..4), T2(p)
  PROVE  LET a == P3_member'[P3_is_marked]
             b == P3_member'[P3_is_marked + 1]
             kept == IF 4 \in Slots(p) THEN P2_member'[0] ELSE P2_member'[4]
             Is(v, w) == IF v = w THEN 1 ELSE 0
         IN  /\ a < b
             /\ P3_member'[P3_is_marked + 2] = a + b
             /\ \A v \in {P2_member[i] : i \in 0..4} \cup {a, b, kept} :
                  Count(P2_member, v) = Is(v, a) + 3 * Is(v, b) + Is(v, kept)
<1> DEFINE m == P2_member
           a == m[p[1]]
           b == m[p[2]]
<1>1. /\ m \in [0..4 -> Values] /\ P2_is_marked = 5 /\ Takes2(m, p) /\ P3_is_marked \in {0, 3}
      /\ P2_member' = Remaining(p) /\ Output(a, b, a + b)
  BY T2EnabledIs, RoomLeft DEF T2, NetInv, NetTypeOK
<1>2. /\ p[1] \in 0..4 /\ p[2] \in 0..4 /\ p[3] \in 0..4 /\ p[4] \in 0..4
      /\ p[1] # p[2] /\ p[1] # p[3] /\ p[1] # p[4] /\ p[2] # p[3] /\ p[2] # p[4] /\ p[3] # p[4]
  BY T2Orders
<1>3. a \in Int /\ b \in Int /\ a + b \in Int /\ a < b /\ m[p[3]] = b /\ m[p[4]] = b
  <2>1. a \in Int /\ b \in Int
    BY <1>1, <1>2, NetAssumption
  <2>2. a < b /\ m[p[3]] = b /\ m[p[4]] = b
    BY <1>1 DEF Takes2
  <2> HIDE DEF a, b, m
  <2>3. a + b \in Int
    BY <2>1
  <2>4. QED
    BY <2>1, <2>2, <2>3
<1> HIDE DEF a, b
<1>4. /\ P3_member'[P3_is_marked] = a /\ P3_member'[P3_is_marked + 1] = b
      /\ P3_member'[P3_is_marked + 2] = a + b
  BY <1>1, <1>3, OutputType DEF NetInv
<1>5. PICK u \in 0..4 : u \notin Slots(p) /\ 0..4 = {p[1], p[2], p[3], p[4], u}
  BY OtherSlot
<1>6. u # p[1] /\ u # p[2] /\ u # p[3] /\ u # p[4] /\ DOMAIN m = 0..4
  BY <1>1, <1>5, OtherSlot
<1>7. (IF 4 \in Slots(p) THEN P2_member'[0] ELSE P2_member'[4]) = m[u]
  <2>1. CASE 4 \in Slots(p)
    <3>1. (CHOOSE s \in 0..4 : s \notin Slots(p)) = u
      BY <1>5, OtherSlot
    <3>2. P2_member' = [P2_member EXCEPT ![0] = P2_member[u]]
      BY <1>1, <2>1, <3>1 DEF Remaining
    <3>3. QED
      BY <1>1, <2>1, <3>2
  <2>2. CASE 4 \notin Slots(p)
    <3>1. u = 4
      BY <1>5, <2>2, OtherSlot
    <3>2. QED
      BY <1>1, <2>2, <3>1 DEF Remaining
  <2>3. QED
    BY <2>1, <2>2
<1>8. ASSUME NEW v
      PROVE  Count(m, v) = One(v, a) + 3 * One(v, b) + One(v, m[u])
  <2>1. Count(m, v) = One(m[p[1]], v) + One(m[p[2]], v) + One(m[p[3]], v)
                        + One(m[p[4]], v) + One(m[u], v)
    BY <1>2, <1>6, CountOfFive
  <2>2. /\ One(m[p[1]], v) = One(v, a) /\ One(m[p[2]], v) = One(v, b)
        /\ One(m[p[3]], v) = One(v, b) /\ One(m[p[4]], v) = One(v, b)
        /\ One(m[u], v) = One(v, m[u])
    BY <1>3 DEF One, a, b
  <2>3. One(v, a) \in Nat /\ One(v, b) \in Nat /\ One(v, m[u]) \in Nat
    BY DEF One
  <2>4. QED
    BY <2>1, <2>2, <2>3
<1>9. QED
  BY <1>3, <1>4, <1>7, <1>8 DEF One

(* A pass of the net leaves nothing undone that its marking allows, and no  *)
(* firing loses or invents a member (benchmark_body of libnsichneu.c),      *)
(* whatever the members are.                                                *)
THEOREM NetIsFired == NetSpec => NetFiresWhatItCan
<1>1. NetInv /\ [NetNext]_netVars => [FiringBalances]_netVars
  <2> SUFFICES ASSUME NetInv, NetNext, P2_is_marked' < P2_is_marked PROVE FiringBalances
    BY DEF FiringBalances
  <2>1. P2_is_marked \in {1, 5} /\ P2_is_marked' # P2_is_marked
    BY DEF NetInv, NetTypeOK
  <2>2. Fire
    BY <2>1 DEF NetNext, Skip, NextPass
  <2>3. Len(Unrolled[block]) # 3 /\ T2(Unrolled[block])
    BY <2>1, <2>2 DEF Fire, T1
  <2>4. Unrolled[block] \in Order(4, 0..4)
    BY <2>2, <2>3, NextBlock DEF Fire, NetInv
  <2>5. QED
    BY <2>3, <2>4, T2Balances DEF FiringBalances
<1>2. QED
  BY <1>1, PassComplete, NetInvariance, PTL DEF NetSpec, NetFiresWhatItCan
-----------------------------------------------------------------------------
(* The doubly linked list. *)

(* The element at a place of s, and none beyond its ends.                   *)
PlaceOf(n, s, i) == IF i \in 1..n THEN s[i] ELSE NULL

(* The members of the list in order are s, and both pointers of each follow *)
(* it.                                                                      *)
Ordered(n, s, nxt, prv, mem) ==
  /\ n \in Nat /\ s \in [1..n -> Elems]
  /\ \A i, j \in 1..n : s[i] = s[j] => i = j
  /\ mem = {s[i] : i \in 1..n}
  /\ \A i \in 1..n : nxt[s[i]] = PlaceOf(n, s, i + 1) /\ prv[s[i]] = PlaceOf(n, s, i - 1)

(* And the_list is the element at place k.                                  *)
Holds(n, s, k, l, mem) ==
  /\ Ordered(n, s, l.next, l.previous, mem)
  /\ k \in 0..n /\ (k = 0 <=> n = 0) /\ l.list = PlaceOf(n, s, k)

Pointers == [Elems -> Elems \cup {NULL}]
Links == [next : Pointers, previous : Pointers, list : Elems \cup {NULL}]

(* The inductive invariant.                                                 *)
Linked(l, mem) == l \in Links /\ \E n, s, k : Holds(n, s, k, l, mem)
ListInv == Linked(links, members)

(* An element is no NULL, and a place beyond the ends holds none.           *)
LEMMA PlaceIs ==
  ASSUME NEW n \in Nat, NEW s \in [1..n -> Elems], NEW i \in Int
  PROVE  /\ PlaceOf(n, s, i) \in Elems \cup {NULL}
         /\ PlaceOf(n, s, i) # NULL <=> i \in 1..n
         /\ i \in 1..n => PlaceOf(n, s, i) = s[i]
  BY ListAssumption DEF PlaceOf

(* A list without repetition is as long as it has members, and no longer    *)
(* than there are elements.                                                 *)
LEMMA ListSize ==
  ASSUME NEW n \in Nat, NEW s \in [1..n -> Elems], \A i, j \in 1..n : s[i] = s[j] => i = j
  PROVE  /\ Cardinality(Elems) \in Nat /\ n <= Cardinality(Elems)
         /\ Cardinality({s[i] : i \in 1..n}) = n
<1> DEFINE M == {s[i] : i \in 1..n}
<1>1. M \in SUBSET Elems /\ IsFiniteSet(Elems)
  BY ListAssumption
<1>2. IsFiniteSet(M) /\ Cardinality(M) <= Cardinality(Elems) /\ Cardinality(Elems) \in Nat
  BY <1>1, FS_Subset, FS_CardinalityType
<1>3. IsFiniteSet(1..n) /\ Cardinality(1..n) = n
  BY FS_Interval
<1>4. s \in [1..n -> M] /\ (\A i, j \in 1..n : s[i] = s[j] => i = j) /\ \A m \in M : \E i \in 1..n : s[i] = m
  OBVIOUS
<1>5. s \in Surjection(1..n, M) /\ s \in Injection(1..n, M)
  BY <1>4 DEF Surjection, Injection, IsInjective
<1>6. Cardinality(M) = Cardinality(1..n)
  BY <1>3, <1>5, FS_Surjection
<1>7. QED
  BY <1>2, <1>3, <1>6

(* Along the pointers of a list its elements are met, from any of them on.  *)
LEMMA AlongIs ==
  ASSUME NEW k \in Nat, NEW s \in [1..k -> Elems], NEW ptr, NEW p,
         k <= Cardinality(Elems), p = PlaceOf(k, s, 1),
         \A i \in 1..k : ptr[s[i]] = PlaceOf(k, s, i + 1)
  PROVE  Along(ptr, p) = s
<1> DEFINE N == Cardinality(Elems)
           Turn(f, n) == IF n = 1 THEN p ELSE IF f[n - 1] = NULL THEN NULL ELSE ptr[f[n - 1]]
           g == [n \in 1..N |-> PlaceOf(k, s, n)]
           at == CHOOSE f : f = [n \in 1..N |-> Turn(f, n)]
<1>1. N \in Nat /\ k <= N
  BY ListAssumption, FS_CardinalityType
<1>2. ASSUME NEW n \in 1..N
      PROVE  g[n] = Turn(g, n)
  <2>1. CASE n = 1
    BY <1>1, <2>1
  <2>2. CASE n # 1
    <3>1. n - 1 \in 1..N /\ n \in Nat /\ (n - 1) + 1 = n
      BY <1>1, <2>2
    <3>2. g[n] = PlaceOf(k, s, n) /\ g[n - 1] = PlaceOf(k, s, n - 1)
      BY <3>1
    <3>3. CASE n - 1 \in 1..k
      <4>1. g[n - 1] = s[n - 1] /\ g[n - 1] # NULL
        <5>1. PlaceOf(k, s, n - 1) = s[n - 1]
          BY <3>3 DEF PlaceOf
        <5>2. s[n - 1] \in Elems /\ s[n - 1] # NULL
          BY <3>3, ListAssumption
        <5>3. QED
          BY <3>2, <5>1, <5>2
      <4>2. ptr[s[n - 1]] = PlaceOf(k, s, n)
        BY <3>1, <3>3
      <4>3. QED
        BY <2>2, <3>2, <4>1, <4>2
    <3>4. CASE n - 1 \notin 1..k
      <4>1. n \notin 1..k
        BY <3>1, <3>4
      <4>2. g[n - 1] = NULL /\ g[n] = NULL
        BY <3>2, <3>4, <4>1 DEF PlaceOf
      <4>3. QED
        BY <2>2, <4>2
    <3>5. QED
      BY <3>3, <3>4
  <2>3. QED
    BY <2>1, <2>2
<1>3. g = [n \in 1..N |-> Turn(g, n)]
  BY <1>2, ZenonT(30)
<1>4. at = [n \in 1..N |-> Turn(at, n)]
  BY <1>3, ZenonT(30)
<1>5. Along(ptr, p) = [n \in 1..Cardinality({m \in DOMAIN at : at[m] # NULL}) |-> at[n]]
  BY DEF Along
<1>6. \A n \in 1..N : g[n] = PlaceOf(k, s, n)
  OBVIOUS
<1>7. DOMAIN at = 1..N /\ \A n \in 1..N : at[n] = Turn(at, n)
  BY <1>4
<1> HIDE DEF at, g, N
<1>8. \A n \in 1..N : at[n] = g[n]
  <2> DEFINE T == {n \in Nat : n \in 1..N => at[n] = g[n]}
  <2>1. 0 \in T
    BY <1>1
  <2>2. ASSUME NEW m \in T
        PROVE  m + 1 \in T
    <3> SUFFICES ASSUME m + 1 \in 1..N PROVE at[m + 1] = g[m + 1]
      OBVIOUS
    <3>1. m \in Nat /\ (m + 1) - 1 = m
      OBVIOUS
    <3>2. at[m + 1] = Turn(at, m + 1) /\ g[m + 1] = Turn(g, m + 1)
      BY <1>2, <1>7
    <3>3. CASE m = 0
      BY <3>2, <3>3
    <3>4. CASE m # 0
      <4>1. at[m] = g[m]
        BY <1>1, <3>1, <3>4
      <4>2. QED
        BY <3>1, <3>2, <4>1
    <3>5. QED
      BY <3>3, <3>4
  <2>3. T \in SUBSET Nat
    OBVIOUS
  <2>4. T = Nat
    <3> HIDE DEF T
    <3>1. QED
      BY <2>1, <2>2, <2>3, AllNaturals
  <2>5. QED
    BY <1>1, <2>4
<1>9. {m \in DOMAIN at : at[m] # NULL} = 1..k
  <2>1. \A m \in 1..N : at[m] # NULL <=> m \in 1..k
    BY <1>1, <1>6, <1>8, PlaceIs
  <2>2. 1..k \subseteq 1..N
    BY <1>1
  <2>3. QED
    BY <1>7, <2>1, <2>2
<1>10. Cardinality(1..k) = k
  BY FS_Interval
<1>11. \A n \in 1..k : at[n] = s[n]
  BY <1>1, <1>6, <1>8, PlaceIs
<1>12. QED
  BY <1>5, <1>9, <1>10, <1>11

(* The list from place k on, and from place k back.                         *)
OnFrom(n, s, k) == [i \in 1..(n + 1 - k) |-> s[k + i - 1]]
BackFrom(s, k) == [i \in 1..k |-> s[k + 1 - i]]

(* They are what is met along the pointers.                                 *)
LEMMA AlongNext ==
  ASSUME NEW n, NEW s, NEW nxt, NEW prv, NEW mem, NEW k \in 1..(n + 1), Ordered(n, s, nxt, prv, mem)
  PROVE  Along(nxt, PlaceOf(n, s, k)) = OnFrom(n, s, k)
<1> DEFINE m == n + 1 - k
           t == OnFrom(n, s, k)
<1>1. n \in Nat /\ s \in [1..n -> Elems] /\ m \in Nat /\ m <= n /\ k \in Nat /\ k >= 1 /\ k + m = n + 1
  BY DEF Ordered
<1>2. Cardinality(Elems) \in Nat /\ n <= Cardinality(Elems)
  BY <1>1, ListSize DEF Ordered
<1>3. t = [i \in 1..m |-> s[k + i - 1]]
  BY DEF OnFrom
<1> HIDE DEF m, t
<1>4. \A i \in 1..m : k + i - 1 \in 1..n /\ t[i] = s[k + i - 1]
  BY <1>1, <1>3
<1>5. t \in [1..m -> Elems]
  BY <1>1, <1>3, <1>4
<1>6. \A i \in Nat \ {0} : PlaceOf(m, t, i) = PlaceOf(n, s, k + i - 1)
  <2> TAKE i \in Nat \ {0}
  <2>1. i \in 1..m <=> k + i - 1 \in 1..n
    BY <1>1
  <2>2. QED
    BY <1>4, <2>1 DEF PlaceOf
<1>7. PlaceOf(n, s, k) = PlaceOf(m, t, 1)
  <2>1. k + 1 - 1 = k
    BY <1>1
  <2>2. QED
    BY <1>6, <2>1
<1>8. ASSUME NEW i \in 1..m
      PROVE  nxt[t[i]] = PlaceOf(m, t, i + 1)
  <2>1. k + i - 1 \in 1..n /\ t[i] = s[k + i - 1]
    BY <1>4
  <2>2. nxt[s[k + i - 1]] = PlaceOf(n, s, (k + i - 1) + 1)
    BY <2>1 DEF Ordered
  <2>3. (k + i - 1) + 1 = k + (i + 1) - 1 /\ i + 1 \in Nat \ {0}
    BY <1>1
  <2>4. QED
    BY <1>6, <2>1, <2>2, <2>3
<1>9. m <= Cardinality(Elems)
  BY <1>1, <1>2
<1>10. QED
  BY <1>1, <1>5, <1>7, <1>8, <1>9, AlongIs DEF t

(* And back.                                                                *)
LEMMA AlongPrevious ==
  ASSUME NEW n, NEW s, NEW nxt, NEW prv, NEW mem, NEW k \in 0..n, Ordered(n, s, nxt, prv, mem)
  PROVE  Along(prv, PlaceOf(n, s, k)) = BackFrom(s, k)
<1> DEFINE t == BackFrom(s, k)
<1>1. n \in Nat /\ s \in [1..n -> Elems] /\ k \in Nat /\ k <= n
  BY DEF Ordered
<1>2. Cardinality(Elems) \in Nat /\ n <= Cardinality(Elems)
  BY <1>1, ListSize DEF Ordered
<1>3. t = [i \in 1..k |-> s[k + 1 - i]]
  BY DEF BackFrom
<1> HIDE DEF t
<1>4. \A i \in 1..k : k + 1 - i \in 1..n /\ t[i] = s[k + 1 - i]
  BY <1>1, <1>3
<1>5. t \in [1..k -> Elems]
  BY <1>1, <1>3, <1>4
<1>6. \A i \in 1..(k + 1) : PlaceOf(k, t, i) = PlaceOf(n, s, k + 1 - i)
  <2> TAKE i \in 1..(k + 1)
  <2>1. i \in 1..k <=> k + 1 - i \in 1..n
    BY <1>1
  <2>2. QED
    BY <1>4, <2>1 DEF PlaceOf
<1>7. PlaceOf(n, s, k) = PlaceOf(k, t, 1)
  <2>1. k + 1 - 1 = k /\ 1 \in 1..(k + 1)
    BY <1>1
  <2>2. QED
    BY <1>6, <2>1
<1>8. ASSUME NEW i \in 1..k
      PROVE  prv[t[i]] = PlaceOf(k, t, i + 1)
  <2>1. k + 1 - i \in 1..n /\ t[i] = s[k + 1 - i]
    BY <1>4
  <2>2. prv[s[k + 1 - i]] = PlaceOf(n, s, (k + 1 - i) - 1)
    BY <2>1 DEF Ordered
  <2>3. (k + 1 - i) - 1 = k + 1 - (i + 1) /\ i + 1 \in 1..(k + 1)
    BY <1>1
  <2>4. QED
    BY <1>6, <2>1, <2>2, <2>3
<1>9. k <= Cardinality(Elems)
  BY <1>1, <1>2
<1>10. QED
  BY <1>1, <1>5, <1>7, <1>8, <1>9, AlongIs DEF t

(* The first and the last element, from wherever the_list points.           *)
LEMMA Ends ==
  ASSUME NEW n, NEW s, NEW k, NEW l, NEW mem, Holds(n, s, k, l, mem)
  PROVE  /\ DL_LIST_GET_FIRST(l) = PlaceOf(n, s, 1)
         /\ DL_LIST_GET_LAST(l) = PlaceOf(n, s, n)
<1>1. /\ Ordered(n, s, l.next, l.previous, mem) /\ n \in Nat /\ s \in [1..n -> Elems]
      /\ k \in 0..n /\ (k = 0 <=> n = 0) /\ l.list = PlaceOf(n, s, k)
  BY DEF Holds, Ordered
<1>2. Along(l.previous, l.list) = BackFrom(s, k)
  BY <1>1, AlongPrevious
<1>3. BackFrom(s, k) \in Seq(Elems) /\ Len(BackFrom(s, k)) = k
  <2>1. k \in Nat /\ \A i \in 1..k : k + 1 - i \in 1..n
    BY <1>1
  <2>2. BackFrom(s, k) \in [1..k -> Elems]
    BY <1>1, <2>1 DEF BackFrom
  <2>3. QED
    BY <2>1, <2>2, Tuple
<1>4. DL_LIST_GET_FIRST(l) = PlaceOf(n, s, 1)
  <2>1. CASE n = 0
    <3>1. BackFrom(s, k) = << >>
      BY <1>1, <1>3, <2>1, EmptySeq
    <3>2. PlaceOf(n, s, 1) = NULL
      BY <2>1 DEF PlaceOf
    <3>3. QED
      BY <1>2, <3>1, <3>2 DEF DL_LIST_GET_FIRST, LastOf
  <2>2. CASE n # 0
    <3>1. k \in 1..k /\ k # 0 /\ k + 1 - k = 1 /\ 1 \in 1..n
      BY <1>1, <2>2
    <3>2. BackFrom(s, k) # << >> /\ BackFrom(s, k)[k] = s[1]
      BY <1>3, <3>1, EmptySeq DEF BackFrom
    <3>3. PlaceOf(n, s, 1) = s[1]
      BY <3>1 DEF PlaceOf
    <3>4. QED
      BY <1>2, <1>3, <3>2, <3>3 DEF DL_LIST_GET_FIRST, LastOf
  <2>3. QED
    BY <2>1, <2>2
<1>5. DL_LIST_GET_LAST(l) = PlaceOf(n, s, n)
  <2>1. CASE n = 0
    <3>1. l.list = PlaceOf(n, s, 1) /\ 1 \in 1..(n + 1)
      BY <1>1, <2>1 DEF PlaceOf
    <3>2. Along(l.next, l.list) = OnFrom(n, s, 1)
      BY <1>1, <3>1, AlongNext
    <3>3. OnFrom(n, s, 1) = << >>
      <4>1. OnFrom(n, s, 1) = [i \in 1..0 |-> s[1 + i - 1]]
        BY <2>1 DEF OnFrom
      <4>2. OnFrom(n, s, 1) \in [1..0 -> Elems]
        <5>1. \A i \in 1..0 : s[1 + i - 1] \in Elems
          OBVIOUS
        <5>2. QED
          BY <4>1, <5>1
      <4>3. OnFrom(n, s, 1) \in Seq(Elems) /\ Len(OnFrom(n, s, 1)) = 0
        BY <4>2, Tuple, 0 \in Nat
      <4>4. QED
        BY <4>3, EmptySeq
    <3>4. PlaceOf(n, s, n) = NULL
      BY <2>1 DEF PlaceOf
    <3>5. QED
      BY <3>2, <3>3, <3>4 DEF DL_LIST_GET_LAST, LastOf
  <2>2. CASE n # 0
    <3> DEFINE m == n + 1 - k
    <3>1. k \in 1..(n + 1) /\ m \in Nat /\ m \in 1..m /\ k + m - 1 = n /\ n \in 1..n
          /\ \A i \in 1..m : k + i - 1 \in 1..n
      BY <1>1, <2>2
    <3>2. Along(l.next, l.list) = OnFrom(n, s, k)
      BY <1>1, <3>1, AlongNext
    <3>3. OnFrom(n, s, k) = [i \in 1..m |-> s[k + i - 1]]
      BY DEF OnFrom
    <3> HIDE DEF m
    <3>4. OnFrom(n, s, k) \in [1..m -> Elems] /\ OnFrom(n, s, k)[m] = s[n]
      BY <1>1, <3>1, <3>3
    <3>5. OnFrom(n, s, k) \in Seq(Elems) /\ Len(OnFrom(n, s, k)) = m
      BY <3>1, <3>4, Tuple
    <3>6. OnFrom(n, s, k) # << >>
      BY <3>1, <3>5, EmptySeq
    <3>7. PlaceOf(n, s, n) = s[n]
      BY <3>1 DEF PlaceOf
    <3>8. QED
      BY <3>2, <3>4, <3>5, <3>6, <3>7 DEF DL_LIST_GET_LAST, LastOf
  <2>3. QED
    BY <2>1, <2>2
<1>6. QED
  BY <1>4, <1>5

(* A search meets every member once: back from the_list, then on behind it. *)
LEMMA SearchedIs ==
  ASSUME NEW n, NEW s, NEW k, NEW l, NEW mem, Holds(n, s, k, l, mem)
  PROVE  /\ Searched(l) = [i \in 1..n |-> IF i <= k THEN s[k + 1 - i] ELSE s[i]]
         /\ DOMAIN Searched(l) = 1..n
         /\ {Searched(l)[i] : i \in 1..n} = mem
         /\ DL_LIST_LEN(l) = n
<1>1. /\ Ordered(n, s, l.next, l.previous, mem) /\ n \in Nat /\ s \in [1..n -> Elems]
      /\ k \in 0..n /\ (k = 0 <=> n = 0) /\ l.list = PlaceOf(n, s, k)
      /\ mem = {s[i] : i \in 1..n}
  BY DEF Holds, Ordered
<1> DEFINE t == [i \in 1..n |-> IF i <= k THEN s[k + 1 - i] ELSE s[i]]
<1>2. Searched(l) = t /\ DL_LIST_LEN(l) = n
  <2>1. CASE n = 0
    <3>1. l.list = NULL
      BY <1>1, <2>1 DEF PlaceOf
    <3>2. t \in [1..0 -> Elems]
      BY <2>1
    <3>3. t \in Seq(Elems) /\ Len(t) = 0
      BY <3>2, Tuple, 0 \in Nat
    <3>4. t = << >>
      BY <3>3, EmptySeq
    <3>5. QED
      BY <2>1, <3>1, <3>4 DEF Searched, DL_LIST_LEN
  <2>2. CASE n # 0
    <3> DEFINE a == BackFrom(s, k)
               b == OnFrom(n, s, k + 1)
               m == n - k
    <3>1. k \in 1..n /\ k \in Nat /\ m \in Nat /\ k + m = n /\ k + 1 \in 1..(n + 1)
          /\ n + 1 - (k + 1) = m
      BY <1>1, <2>2
    <3>2. l.list # NULL /\ l.next[l.list] = PlaceOf(n, s, k + 1)
      <4>1. l.list = s[k] /\ s[k] # NULL
        BY <1>1, <3>1, PlaceIs
      <4>2. l.next[s[k]] = PlaceOf(n, s, k + 1)
        BY <1>1, <3>1 DEF Ordered
      <4>3. QED
        BY <4>1, <4>2
    <3>3. Along(l.previous, l.list) = a
      BY <1>1, AlongPrevious
    <3>4. Along(l.next, l.next[l.list]) = b
      BY <1>1, <3>1, <3>2, AlongNext
    <3>5. a = [i \in 1..k |-> s[k + 1 - i]]
      BY DEF BackFrom
    <3>6. b = [i \in 1..m |-> s[(k + 1) + i - 1]]
      BY <3>1 DEF OnFrom
    <3> HIDE DEF a, b, m
    <3>7. a \in [1..k -> Elems]
      <4>1. \A i \in 1..k : k + 1 - i \in 1..n
        BY <1>1, <3>1
      <4>2. QED
        BY <1>1, <3>5, <4>1
    <3>8. b \in [1..m -> Elems] /\ \A i \in 1..m : b[i] = s[k + i]
      <4>1. \A i \in 1..m : (k + 1) + i - 1 = k + i /\ k + i \in 1..n
        BY <3>1
      <4>2. QED
        BY <1>1, <3>6, <4>1
    <3>9. a \in Seq(Elems) /\ Len(a) = k /\ b \in Seq(Elems) /\ Len(b) = m
      BY <3>1, <3>7, <3>8, Tuple
    <3>10. a \o b \in Seq(Elems) /\ Len(a \o b) = n
           /\ \A i \in 1..n : (a \o b)[i] = IF i <= k THEN a[i] ELSE b[i - k]
      BY <3>1, <3>9, ConcatProperties
    <3>11. \A i \in 1..n : (a \o b)[i] = t[i]
      <4> TAKE i \in 1..n
      <4>1. CASE i <= k
        <5>1. i \in 1..k
          BY <4>1
        <5>2. QED
          BY <3>5, <3>10, <4>1, <5>1
      <4>2. CASE ~(i <= k)
        <5>1. i - k \in 1..m /\ k + (i - k) = i
          BY <3>1, <4>2
        <5>2. b[i - k] = s[i]
          BY <3>8, <5>1
        <5>3. QED
          BY <3>10, <4>2, <5>2
      <4>3. QED
        BY <4>1, <4>2
    <3>12. t \in [1..n -> Elems]
      <4>1. \A i \in 1..n : i <= k => k + 1 - i \in 1..n
        BY <3>1
      <4>2. QED
        BY <1>1, <4>1
    <3>13. a \o b = t
      <4> HIDE DEF t
      <4>1. t \in Seq(Elems) /\ Len(t) = n
        BY <1>1, <3>12, Tuple
      <4>2. QED
        BY <3>10, <3>11, <4>1, SeqEqual
    <3>14. QED
      BY <3>1, <3>2, <3>3, <3>4, <3>9, <3>13 DEF Searched, DL_LIST_LEN
  <2>3. QED
    BY <2>1, <2>2
<1>3. {t[i] : i \in 1..n} = mem
  <2>1. \A i \in 1..n : t[i] \in mem
    <3> TAKE i \in 1..n
    <3>1. i <= k => k + 1 - i \in 1..n
      BY <1>1
    <3>2. QED
      BY <1>1, <3>1
  <2>2. \A i \in 1..n : \E j \in 1..n : t[j] = s[i]
    <3> TAKE i \in 1..n
    <3>1. CASE i <= k
      <4>1. k + 1 - i \in 1..n /\ k + 1 - i <= k /\ k + 1 - (k + 1 - i) = i
        BY <1>1, <3>1
      <4>2. t[k + 1 - i] = s[i]
        BY <4>1
      <4>3. QED
        BY <4>1, <4>2
    <3>2. CASE ~(i <= k)
      BY <3>2
    <3>3. QED
      BY <3>1, <3>2
  <2> HIDE DEF t
  <2>3. ASSUME NEW x \in mem
        PROVE  x \in {t[i] : i \in 1..n}
    <3>1. PICK i \in 1..n : x = s[i]
      BY <1>1
    <3>2. QED
      BY <2>2, <3>1
  <2>4. QED
    BY <2>1, <2>3
<1>4. QED
  BY <1>2, <1>3

(* A function changed at one place, or not at all for NULL.                 *)
LEMMA SetIs ==
  ASSUME NEW f, NEW p, NEW v, NEW g,
         f \in Pointers, p \in Elems \/ p = NULL, v \in Elems \/ v = NULL, g = Set(f, p, v)
  PROVE  /\ g \in Pointers
         /\ \A x \in Elems : g[x] = IF x = p THEN v ELSE f[x]
<1>1. NULL \notin Elems
  BY ListAssumption
<1>2. QED
  BY <1>1 DEF Set, Pointers

(* The pointers g are f, but that e is met behind p, and w behind e.        *)
PutIn(f, g, p, e, w) ==
  /\ f \in Pointers /\ g \in Pointers
  /\ \A x \in Elems : g[x] = IF x = p THEN e ELSE IF x = e THEN w ELSE f[x]

(* The list t is s, but that e is at place k.                               *)
OneMore(n, s, t, k, e) ==
  /\ PlaceOf(n + 1, t, k) = e
  /\ \A i \in 1..n : PlaceOf(n + 1, t, IF i < k THEN i ELSE i + 1) = s[i]

(* An element that is linked in at place k, between the two that were       *)
(* neighbours there, makes a list that is one longer.                       *)
LEMMA LinkedIn ==
  ASSUME NEW n, NEW s, NEW nxt, NEW prv, NEW mem,
         NEW e \in Elems, NEW k \in 1..(n + 1), NEW nxt2, NEW prv2,
         Ordered(n, s, nxt, prv, mem), e \notin mem,
         PutIn(nxt, nxt2, PlaceOf(n, s, k - 1), e, PlaceOf(n, s, k)),
         PutIn(prv, prv2, PlaceOf(n, s, k), e, PlaceOf(n, s, k - 1))
  PROVE  \E t : Ordered(n + 1, t, nxt2, prv2, mem \cup {e}) /\ OneMore(n, s, t, k, e)
<1> DEFINE from == PlaceOf(n, s, k - 1)
           to == PlaceOf(n, s, k)
<1>1. /\ n \in Nat /\ s \in [1..n -> Elems] /\ mem = {s[i] : i \in 1..n}
      /\ \A i, j \in 1..n : s[i] = s[j] => i = j
      /\ \A i \in 1..n : s[i] # e
      /\ k \in Nat /\ k >= 1 /\ k <= n + 1
  BY DEF Ordered
<1> DEFINE t == [i \in 1..(n + 1) |-> IF i < k THEN s[i] ELSE IF i = k THEN e ELSE s[i - 1]]
<1>2. /\ \A x \in Elems : nxt2[x] = IF x = from THEN e ELSE IF x = e THEN to ELSE nxt[x]
      /\ \A x \in Elems : prv2[x] = IF x = to THEN e ELSE IF x = e THEN from ELSE prv[x]
  BY DEF PutIn
<1>5. /\ \A i \in 1..n : i < k => t[i] = s[i]
      /\ t[k] = e
      /\ \A i \in 1..n : i >= k => t[i + 1] = s[i]
  <2>1. \A i \in 1..n : i \in 1..(n + 1) /\ i + 1 \in 1..(n + 1) /\ (i + 1) - 1 = i
    BY <1>1
  <2>2. \A i \in 1..n : i >= k => ~(i + 1 < k) /\ i + 1 # k
    BY <1>1
  <2>3. QED
    BY <1>1, <2>1, <2>2
<1>6. ASSUME NEW i \in 1..(n + 1)
      PROVE  \/ i \in 1..n /\ i < k
             \/ i = k
             \/ i - 1 \in 1..n /\ i - 1 >= k /\ (i - 1) + 1 = i
  BY <1>1
<1>7. t \in [1..(n + 1) -> Elems]
  <2>1. \A i \in 1..(n + 1) : i < k \/ i = k \/ (~(i < k) /\ i # k)
    OBVIOUS
  <2>2. \A i \in 1..(n + 1) : t[i] \in Elems
    <3> TAKE i \in 1..(n + 1)
    <3> HIDE DEF t
    <3>1. CASE i \in 1..n /\ i < k
      BY <1>1, <1>5, <3>1
    <3>2. CASE i = k
      BY <1>5, <3>2
    <3>3. CASE i - 1 \in 1..n /\ i - 1 >= k /\ (i - 1) + 1 = i
      BY <1>1, <1>5, <3>3
    <3>4. QED
      BY <1>6, <3>1, <3>2, <3>3
  <2>3. QED
    BY <2>2
<1> HIDE DEF t
<1>8. \A i \in 1..n : i < k \/ i >= k
  BY <1>1
<1>9. \A i \in 1..n : PlaceOf(n + 1, t, IF i < k THEN i ELSE i + 1) = s[i]
  <2> TAKE i \in 1..n
  <2>1. i \in 1..(n + 1) /\ i + 1 \in 1..(n + 1)
    BY <1>1
  <2>2. CASE i < k
    BY <1>5, <2>1, <2>2 DEF PlaceOf
  <2>3. CASE ~(i < k)
    <3>1. t[i + 1] = s[i]
      BY <1>1, <1>5, <2>3
    <3>2. QED
      BY <2>1, <2>3, <3>1 DEF PlaceOf
  <2>4. QED
    BY <2>2, <2>3
<1>10. PlaceOf(n + 1, t, k) = e
  BY <1>5 DEF PlaceOf
<1>11. \A i, j \in 1..(n + 1) : t[i] = t[j] => i = j
  <2> SUFFICES ASSUME NEW i \in 1..(n + 1), NEW j \in 1..(n + 1), t[i] = t[j] PROVE i = j
    OBVIOUS
  <2> DEFINE u == IF i < k THEN i ELSE i - 1
             v == IF j < k THEN j ELSE j - 1
  <2>1. i # k => u \in 1..n /\ t[i] = s[u] /\ (u < k <=> i < k)
    <3>1. i # k /\ i < k => i \in 1..n
      BY <1>1
    <3>2. i # k /\ ~(i < k) => i - 1 \in 1..n /\ i - 1 >= k /\ (i - 1) + 1 = i /\ ~(i - 1 < k)
      BY <1>1
    <3>3. QED
      BY <1>5, <3>1, <3>2
  <2>2. j # k => v \in 1..n /\ t[j] = s[v] /\ (v < k <=> j < k)
    <3>1. j # k /\ j < k => j \in 1..n
      BY <1>1
    <3>2. j # k /\ ~(j < k) => j - 1 \in 1..n /\ j - 1 >= k /\ (j - 1) + 1 = j /\ ~(j - 1 < k)
      BY <1>1
    <3>3. QED
      BY <1>5, <3>1, <3>2
  <2>3. CASE i = k \/ j = k
    <3>1. i = k => t[i] = e
      BY <1>5
    <3>2. j = k => t[j] = e
      BY <1>5
    <3>3. i # k => t[i] # e
      BY <1>1, <2>1
    <3>4. j # k => t[j] # e
      BY <1>1, <2>2
    <3>5. QED
      BY <2>3, <3>1, <3>2, <3>3, <3>4
  <2>4. CASE i # k /\ j # k
    <3>1. u \in 1..n /\ v \in 1..n /\ s[u] = s[v]
      BY <2>1, <2>2, <2>4
    <3>2. u = v
      <4> HIDE DEF u, v
      <4>1. QED
        BY <1>1, <3>1
    <3>3. i < k <=> j < k
      <4> HIDE DEF u, v
      <4>1. QED
        BY <2>1, <2>2, <2>4, <3>2
    <3>4. QED
      BY <1>1, <3>2, <3>3
  <2>5. QED
    BY <2>3, <2>4
<1>12. mem \cup {e} = {t[i] : i \in 1..(n + 1)}
  <2>1. \A i \in 1..(n + 1) : t[i] \in mem \cup {e}
    <3> TAKE i \in 1..(n + 1)
    <3>1. CASE i \in 1..n /\ i < k
      BY <1>1, <1>5, <3>1
    <3>2. CASE i = k
      BY <1>5, <3>2
    <3>3. CASE i - 1 \in 1..n /\ i - 1 >= k /\ (i - 1) + 1 = i
      BY <1>1, <1>5, <3>3
    <3>4. QED
      BY <1>6, <3>1, <3>2, <3>3
  <2>2. ASSUME NEW x \in mem
        PROVE  \E i \in 1..(n + 1) : t[i] = x
    <3>1. PICK i \in 1..n : x = s[i]
      BY <1>1
    <3>2. i \in 1..(n + 1) /\ i + 1 \in 1..(n + 1) /\ (i < k \/ i >= k)
      BY <1>1
    <3>3. QED
      BY <1>5, <3>1, <3>2
  <2>3. \E i \in 1..(n + 1) : t[i] = e
    BY <1>5
  <2>4. QED
    BY <2>1, <2>2, <2>3
<1>13. ASSUME NEW i \in 1..(n + 1)
       PROVE  nxt2[t[i]] = PlaceOf(n + 1, t, i + 1) /\ prv2[t[i]] = PlaceOf(n + 1, t, i - 1)
  <2>1. from = e <=> FALSE
    BY <1>1, PlaceIs, ListAssumption
  <2>2. to = e <=> FALSE
    BY <1>1, PlaceIs, ListAssumption
  <2>3. CASE i = k
    <3>1. nxt2[e] = to /\ prv2[e] = from
      <4> HIDE DEF from, to
      <4>1. QED
        BY <1>2, <2>1, <2>2
    <3>2. PlaceOf(n + 1, t, k + 1) = PlaceOf(n, s, k)
      <4>1. CASE k = n + 1
        <5>1. k + 1 \notin 1..(n + 1) /\ k \notin 1..n
          BY <1>1, <4>1
        <5>2. QED
          BY <5>1 DEF PlaceOf
      <4>2. CASE k # n + 1
        <5>1. k \in 1..n /\ ~(k < k) /\ k >= k
          BY <1>1, <4>2
        <5>2. PlaceOf(n, s, k) = s[k]
          BY <5>1 DEF PlaceOf
        <5>3. QED
          BY <1>9, <5>1, <5>2
      <4>3. QED
        BY <4>1, <4>2
    <3>3. PlaceOf(n + 1, t, k - 1) = PlaceOf(n, s, k - 1)
      <4>1. CASE k = 1
        <5>1. k - 1 \notin 1..(n + 1) /\ k - 1 \notin 1..n
          BY <1>1, <4>1
        <5>2. QED
          BY <5>1 DEF PlaceOf
      <4>2. CASE k # 1
        <5>1. k - 1 \in 1..n /\ k - 1 < k
          BY <1>1, <4>2
        <5>2. PlaceOf(n, s, k - 1) = s[k - 1]
          BY <5>1 DEF PlaceOf
        <5>3. QED
          BY <1>9, <5>1, <5>2
      <4>3. QED
        BY <4>1, <4>2
    <3>4. t[i] = e
      BY <1>5, <2>3
    <3>5. QED
      BY <2>3, <3>1, <3>2, <3>3, <3>4
  <2>4. CASE i \in 1..n /\ i < k
    <3>1. t[i] = s[i] /\ s[i] \in Elems /\ s[i] # e
      BY <1>1, <1>5, <2>4
    <3>2. to # s[i]
      <4>1. k \in 1..n => s[k] # s[i]
        BY <1>1, <2>4
      <4>2. s[i] # NULL
        BY <3>1, ListAssumption
      <4>3. QED
        BY <4>1, <4>2 DEF PlaceOf
    <3>3. from = s[i] <=> i = k - 1
      <4>1. k - 1 \in 1..n => (s[k - 1] = s[i] <=> i = k - 1)
        BY <1>1, <2>4
      <4>2. s[i] # NULL
        BY <3>1, ListAssumption
      <4>3. i = k - 1 => k - 1 \in 1..n
        BY <2>4
      <4>4. QED
        BY <4>1, <4>2, <4>3 DEF PlaceOf
    <3>4. /\ nxt2[s[i]] = IF i = k - 1 THEN e ELSE nxt[s[i]]
          /\ prv2[s[i]] = prv[s[i]]
      <4> HIDE DEF from, to
      <4>1. QED
        BY <1>2, <3>1, <3>2, <3>3
    <3>5. nxt[s[i]] = PlaceOf(n, s, i + 1) /\ prv[s[i]] = PlaceOf(n, s, i - 1)
      BY <2>4 DEF Ordered
    <3>6. i = k - 1 => PlaceOf(n + 1, t, i + 1) = e
      <4>1. i = k - 1 => i + 1 = k
        BY <1>1
      <4>2. QED
        BY <1>10, <4>1
    <3>7. i # k - 1 => PlaceOf(n + 1, t, i + 1) = PlaceOf(n, s, i + 1)
      <4>1. i # k - 1 => i + 1 \in 1..n /\ i + 1 < k
        BY <1>1, <2>4
      <4>2. QED
        BY <1>9, <4>1 DEF PlaceOf
    <3>8. PlaceOf(n + 1, t, i - 1) = PlaceOf(n, s, i - 1)
      <4>1. CASE i = 1
        <5>1. i - 1 \notin 1..(n + 1) /\ i - 1 \notin 1..n
          BY <4>1
        <5>2. QED
          BY <5>1 DEF PlaceOf
      <4>2. CASE i # 1
        <5>1. i - 1 \in 1..n /\ i - 1 < k
          BY <1>1, <2>4, <4>2
        <5>2. PlaceOf(n, s, i - 1) = s[i - 1]
          BY <5>1 DEF PlaceOf
        <5>3. QED
          BY <1>9, <5>1, <5>2
      <4>3. QED
        BY <4>1, <4>2
    <3>9. QED
      BY <3>1, <3>4, <3>5, <3>6, <3>7, <3>8
  <2>5. CASE i - 1 \in 1..n /\ i - 1 >= k /\ (i - 1) + 1 = i
    <3> DEFINE m == i - 1
    <3>1. m \in 1..n /\ m >= k /\ m + 1 = i /\ m \in Nat
      BY <2>5
    <3> HIDE DEF m
    <3>2. t[i] = s[m] /\ s[m] \in Elems /\ s[m] # e /\ s[m] # NULL
      BY <1>1, <1>5, <3>1, ListAssumption
    <3>3. from # s[m]
      <4>1. k - 1 \in 1..n => s[k - 1] # s[m]
        BY <1>1, <3>1
      <4>2. QED
        BY <3>2, <4>1 DEF PlaceOf
    <3>4. to = s[m] <=> m = k
      <4>1. k \in 1..n /\ (s[k] = s[m] <=> m = k)
        BY <1>1, <3>1
      <4>2. QED
        BY <3>2, <4>1 DEF PlaceOf
    <3>5. /\ nxt2[s[m]] = nxt[s[m]]
          /\ prv2[s[m]] = IF m = k THEN e ELSE prv[s[m]]
      <4> HIDE DEF from, to
      <4>1. QED
        BY <1>2, <3>2, <3>3, <3>4
    <3>6. nxt[s[m]] = PlaceOf(n, s, m + 1) /\ prv[s[m]] = PlaceOf(n, s, m - 1)
      BY <3>1 DEF Ordered
    <3>7. m = k => PlaceOf(n + 1, t, i - 1) = e
      <4>1. i - 1 = m
        BY <3>1
      <4>2. QED
        BY <1>10, <4>1
    <3>8. m # k => PlaceOf(n + 1, t, i - 1) = PlaceOf(n, s, m - 1)
      <4>1. i - 1 = (m - 1) + 1
        BY <3>1
      <4>2. m # k => m - 1 \in 1..n /\ ~(m - 1 < k)
        BY <1>1, <3>1
      <4>3. QED
        BY <1>9, <4>1, <4>2 DEF PlaceOf
    <3>9. PlaceOf(n + 1, t, i + 1) = PlaceOf(n, s, m + 1)
      <4>1. CASE m = n
        <5>1. i + 1 \notin 1..(n + 1) /\ m + 1 \notin 1..n
          BY <3>1, <4>1
        <5>2. QED
          BY <5>1 DEF PlaceOf
      <4>2. CASE m # n
        <5>1. m + 1 \in 1..n /\ ~(m + 1 < k) /\ (m + 1) + 1 = i + 1
          BY <1>1, <3>1, <4>2
        <5>2. PlaceOf(n, s, m + 1) = s[m + 1]
          BY <5>1 DEF PlaceOf
        <5>3. QED
          BY <1>9, <5>1, <5>2
      <4>3. QED
        BY <4>1, <4>2
    <3>10. QED
      BY <3>2, <3>5, <3>6, <3>7, <3>8, <3>9
  <2>6. QED
    BY <1>6, <2>3, <2>4, <2>5
<1>14. Ordered(n + 1, t, nxt2, prv2, mem \cup {e})
  <2>1. n + 1 \in Nat
    BY <1>1
  <2>2. QED
    BY <2>1, <1>7, <1>11, <1>12, <1>13 DEF Ordered
<1>15. QED
  BY <1>9, <1>10, <1>14 DEF OneMore

(* The list t is s without the element at place k.                          *)
OneLess(n, s, t, k) ==
  \A i \in 1..n : i # k => PlaceOf(n - 1, t, IF i < k THEN i ELSE i - 1) = s[i]

(* The list t is s from the last element to the first.                      *)
Mirrored(n, s, t) == \A i \in 0..(n + 1) : PlaceOf(n, t, n + 1 - i) = PlaceOf(n, s, i)

(* An element that is linked out leaves a list that is one shorter.         *)
LEMMA LinkedOut ==
  ASSUME NEW n, NEW s, NEW nxt \in Pointers, NEW prv \in Pointers, NEW mem, NEW k \in 1..n,
         NEW nxt2, NEW prv2, Ordered(n, s, nxt, prv, mem),
         nxt2 = Set(nxt, PlaceOf(n, s, k - 1), PlaceOf(n, s, k + 1)),
         prv2 = Set(prv, PlaceOf(n, s, k + 1), PlaceOf(n, s, k - 1))
  PROVE  /\ nxt2 \in Pointers /\ prv2 \in Pointers
         /\ \E t : Ordered(n - 1, t, nxt2, prv2, mem \ {s[k]}) /\ OneLess(n, s, t, k)
<1> DEFINE t == [i \in 1..(n - 1) |-> IF i < k THEN s[i] ELSE s[i + 1]]
           from == PlaceOf(n, s, k - 1)
           to == PlaceOf(n, s, k + 1)
           Old(i) == IF i < k THEN i ELSE i + 1
<1>1. /\ n \in Nat /\ s \in [1..n -> Elems] /\ mem = {s[i] : i \in 1..n}
      /\ \A i, j \in 1..n : s[i] = s[j] => i = j
      /\ \A i \in 1..n : s[i] # NULL
      /\ k \in Nat /\ k >= 1 /\ k <= n /\ n - 1 \in Nat
  BY ListAssumption DEF Ordered
<1>2. (from \in Elems \/ from = NULL) /\ (to \in Elems \/ to = NULL)
  BY <1>1, PlaceIs
<1>3. nxt2 \in Pointers /\ \A x \in Elems : nxt2[x] = IF x = from THEN to ELSE nxt[x]
  <2> HIDE DEF from, to
  <2>1. nxt2 = Set(nxt, from, to)
    BY DEF from, to
  <2>2. QED
    BY <1>2, <2>1, SetIs
<1>4. prv2 \in Pointers /\ \A x \in Elems : prv2[x] = IF x = to THEN from ELSE prv[x]
  <2> HIDE DEF from, to
  <2>1. prv2 = Set(prv, to, from)
    BY DEF from, to
  <2>2. QED
    BY <1>2, <2>1, SetIs
<1>5. \A i \in 1..(n - 1) : /\ Old(i) \in 1..n /\ Old(i) # k /\ t[i] = s[Old(i)]
                            /\ i = IF Old(i) < k THEN Old(i) ELSE Old(i) - 1
  BY <1>1
<1>6. t \in [1..(n - 1) -> Elems]
  <2>1. \A i \in 1..(n - 1) : (i < k => i \in 1..n) /\ i + 1 \in 1..n
    BY <1>1
  <2>2. QED
    BY <1>1, <2>1
<1> HIDE DEF t
<1>7. \A i \in 1..n : i # k => PlaceOf(n - 1, t, IF i < k THEN i ELSE i - 1) = s[i]
  <2> SUFFICES ASSUME NEW i \in 1..n, i # k
               PROVE  PlaceOf(n - 1, t, IF i < k THEN i ELSE i - 1) = s[i]
    OBVIOUS
  <2> DEFINE m == IF i < k THEN i ELSE i - 1
  <2>1. m \in 1..(n - 1) /\ Old(m) = i
    BY <1>1
  <2> HIDE DEF m
  <2>2. t[m] = s[Old(m)]
    <3> HIDE DEF Old
    <3>1. QED
      BY <1>5, <2>1
  <2>3. PlaceOf(n - 1, t, m) = s[i]
    <3> HIDE DEF Old
    <3>1. QED
      BY <2>1, <2>2 DEF PlaceOf
  <2>4. QED
    BY <2>3 DEF m
<1>8. \A i, j \in 1..(n - 1) : t[i] = t[j] => i = j
  <2> SUFFICES ASSUME NEW i \in 1..(n - 1), NEW j \in 1..(n - 1), t[i] = t[j] PROVE i = j
    OBVIOUS
  <2> HIDE DEF Old
  <2>1. Old(i) = Old(j)
    BY <1>1, <1>5
  <2>2. QED
    BY <1>5, <2>1
<1>9. mem \ {s[k]} = {t[i] : i \in 1..(n - 1)}
  <2>1. \A i \in 1..(n - 1) : t[i] \in mem \ {s[k]}
    <3> HIDE DEF Old
    <3>1. QED
      BY <1>1, <1>5
  <2>2. ASSUME NEW x \in mem \ {s[k]}
        PROVE  \E i \in 1..(n - 1) : t[i] = x
    <3>1. PICK i \in 1..n : x = s[i]
      BY <1>1
    <3> DEFINE m == IF i < k THEN i ELSE i - 1
    <3>2. i # k
      BY <3>1
    <3>3. m \in 1..(n - 1)
      BY <1>1, <3>2
    <3>4. PlaceOf(n - 1, t, m) = s[i]
      BY <1>7, <3>2
    <3> HIDE DEF m
    <3>5. QED
      BY <3>1, <3>3, <3>4 DEF PlaceOf
  <2>3. QED
    BY <2>1, <2>2
<1>10. ASSUME NEW i \in 1..(n - 1)
       PROVE  nxt2[t[i]] = PlaceOf(n - 1, t, i + 1) /\ prv2[t[i]] = PlaceOf(n - 1, t, i - 1)
  <2>1. PICK m \in 1..n : m # k /\ t[i] = s[m] /\ m = IF i < k THEN i ELSE i + 1
    BY <1>5
  <2>2. nxt[s[m]] = PlaceOf(n, s, m + 1) /\ prv[s[m]] = PlaceOf(n, s, m - 1) /\ s[m] \in Elems
        /\ s[m] # NULL /\ m \in Nat
    BY <1>1 DEF Ordered
  <2>3. from = s[m] <=> m = k - 1
    <3>1. k - 1 \in 1..n => (s[k - 1] = s[m] <=> m = k - 1)
      BY <1>1
    <3>2. m = k - 1 => k - 1 \in 1..n
      BY <1>1
    <3>3. QED
      BY <2>2, <3>1, <3>2 DEF PlaceOf
  <2>4. to = s[m] <=> m = k + 1
    <3>1. k + 1 \in 1..n => (s[k + 1] = s[m] <=> m = k + 1)
      BY <1>1
    <3>2. m = k + 1 => k + 1 \in 1..n
      BY <1>1
    <3>3. QED
      BY <2>2, <3>1, <3>2 DEF PlaceOf
  <2>5. nxt2[s[m]] = IF m = k - 1 THEN PlaceOf(n, s, k + 1) ELSE PlaceOf(n, s, m + 1)
    <3>1. nxt2[s[m]] = IF m = k - 1 THEN to ELSE nxt[s[m]]
      <4> HIDE DEF from, to
      <4>1. QED
        BY <1>3, <2>2, <2>3
    <3>2. QED
      BY <2>2, <3>1
  <2>6. prv2[s[m]] = IF m = k + 1 THEN PlaceOf(n, s, k - 1) ELSE PlaceOf(n, s, m - 1)
    <3>1. prv2[s[m]] = IF m = k + 1 THEN from ELSE prv[s[m]]
      <4> HIDE DEF from, to
      <4>1. QED
        BY <1>4, <2>2, <2>4
    <3>2. QED
      BY <2>2, <3>1
  <2> HIDE DEF Old, from, to
  <2>7. \A j \in Int : j \in 1..n /\ j # k => PlaceOf(n - 1, t, IF j < k THEN j ELSE j - 1) = PlaceOf(n, s, j)
    BY <1>7 DEF PlaceOf
  <2>8. \A j \in Int : j \notin 1..n => PlaceOf(n, s, j) = NULL
    BY DEF PlaceOf
  <2>9. \A j \in Int : j \notin 1..(n - 1) => PlaceOf(n - 1, t, j) = NULL
    BY DEF PlaceOf
  <2>10. PlaceOf(n - 1, t, i + 1) = IF m = k - 1 THEN PlaceOf(n, s, k + 1) ELSE PlaceOf(n, s, m + 1)
    <3> DEFINE j == IF m = k - 1 THEN k + 1 ELSE m + 1
    <3>1. j \in Int /\ j # k /\ i + 1 = IF j < k THEN j ELSE j - 1
      BY <1>1, <2>1
    <3>2. j \in 1..n <=> i + 1 \in 1..(n - 1)
      BY <1>1, <2>1
    <3>3. PlaceOf(n - 1, t, i + 1) = PlaceOf(n, s, j)
      <4> HIDE DEF j
      <4>1. CASE j \in 1..n
        BY <2>7, <3>1, <4>1
      <4>2. CASE j \notin 1..n
        BY <2>8, <2>9, <3>1, <3>2, <4>2
      <4>3. QED
        BY <4>1, <4>2
    <3>4. QED
      BY <3>3
  <2>11. PlaceOf(n - 1, t, i - 1) = IF m = k + 1 THEN PlaceOf(n, s, k - 1) ELSE PlaceOf(n, s, m - 1)
    <3> DEFINE j == IF m = k + 1 THEN k - 1 ELSE m - 1
    <3>1. j \in Int /\ j # k /\ i - 1 = IF j < k THEN j ELSE j - 1
      BY <1>1, <2>1
    <3>2. j \in 1..n <=> i - 1 \in 1..(n - 1)
      BY <1>1, <2>1
    <3>3. PlaceOf(n - 1, t, i - 1) = PlaceOf(n, s, j)
      <4> HIDE DEF j
      <4>1. CASE j \in 1..n
        BY <2>7, <3>1, <4>1
      <4>2. CASE j \notin 1..n
        BY <2>8, <2>9, <3>1, <3>2, <4>2
      <4>3. QED
        BY <4>1, <4>2
    <3>4. QED
      BY <3>3
  <2>12. QED
    BY <2>1, <2>5, <2>6, <2>10, <2>11
<1>11. Ordered(n - 1, t, nxt2, prv2, mem \ {s[k]})
  BY <1>1, <1>6, <1>8, <1>9, <1>10 DEF Ordered
<1>12. QED
  BY <1>3, <1>4, <1>7, <1>11 DEF OneLess

(* A list with every pointer the other way round is the reverse.            *)
LEMMA TurnedRound ==
  ASSUME NEW n, NEW s, NEW nxt \in Pointers, NEW prv \in Pointers, NEW mem,
         NEW nxt2, NEW prv2, Ordered(n, s, nxt, prv, mem),
         nxt2 = [x \in Elems |-> IF x \in mem THEN prv[x] ELSE nxt[x]],
         prv2 = [x \in Elems |-> IF x \in mem THEN nxt[x] ELSE prv[x]]
  PROVE  /\ nxt2 \in Pointers /\ prv2 \in Pointers
         /\ \E t : Ordered(n, t, nxt2, prv2, mem) /\ Mirrored(n, s, t)
<1> DEFINE t == [i \in 1..n |-> s[n + 1 - i]]
<1>1. /\ n \in Nat /\ s \in [1..n -> Elems] /\ mem = {s[i] : i \in 1..n}
      /\ \A i, j \in 1..n : s[i] = s[j] => i = j
  BY DEF Ordered
<1>2. nxt2 \in Pointers /\ prv2 \in Pointers
  BY DEF Pointers
<1>3. \A i \in 1..n : n + 1 - i \in 1..n /\ t[i] = s[n + 1 - i]
  BY <1>1
<1>4. t \in [1..n -> Elems]
  BY <1>1, <1>3
<1> HIDE DEF t
<1>5. \A i \in 0..(n + 1) : PlaceOf(n, t, n + 1 - i) = PlaceOf(n, s, i)
  <2> TAKE i \in 0..(n + 1)
  <2>1. n + 1 - i \in 1..n <=> i \in 1..n
    BY <1>1
  <2>2. n + 1 - i \in 1..n => n + 1 - (n + 1 - i) = i
    BY <1>1
  <2>3. QED
    BY <1>3, <2>1, <2>2 DEF PlaceOf
<1>6. \A i, j \in 1..n : t[i] = t[j] => i = j
  <2> SUFFICES ASSUME NEW i \in 1..n, NEW j \in 1..n, t[i] = t[j] PROVE i = j
    OBVIOUS
  <2>1. n + 1 - i = n + 1 - j
    BY <1>1, <1>3
  <2>2. QED
    BY <1>1, <2>1
<1>7. mem = {t[i] : i \in 1..n}
  <2>1. \A i \in 1..n : t[i] \in mem
    BY <1>1, <1>3
  <2>2. ASSUME NEW x \in mem
        PROVE  \E i \in 1..n : t[i] = x
    <3>1. PICK i \in 1..n : x = s[i]
      BY <1>1
    <3>2. n + 1 - i \in 1..n /\ n + 1 - (n + 1 - i) = i
      BY <1>1
    <3>3. QED
      BY <1>3, <3>1, <3>2
  <2>3. QED
    BY <2>1, <2>2
<1>8. ASSUME NEW i \in 1..n
      PROVE  nxt2[t[i]] = PlaceOf(n, t, i + 1) /\ prv2[t[i]] = PlaceOf(n, t, i - 1)
  <2> DEFINE j == n + 1 - i
  <2>1. j \in 1..n /\ t[i] = s[j] /\ j - 1 \in 0..(n + 1) /\ j + 1 \in 0..(n + 1)
        /\ n + 1 - (j - 1) = i + 1 /\ n + 1 - (j + 1) = i - 1
    BY <1>1, <1>3
  <2> HIDE DEF j
  <2>2. s[j] \in mem /\ s[j] \in Elems
    BY <1>1, <2>1
  <2>3. nxt2[s[j]] = prv[s[j]] /\ prv2[s[j]] = nxt[s[j]]
    BY <2>2
  <2>4. nxt[s[j]] = PlaceOf(n, s, j + 1) /\ prv[s[j]] = PlaceOf(n, s, j - 1)
    BY <2>1 DEF Ordered
  <2>5. PlaceOf(n, t, i + 1) = PlaceOf(n, s, j - 1) /\ PlaceOf(n, t, i - 1) = PlaceOf(n, s, j + 1)
    BY <1>5, <2>1
  <2>6. QED
    BY <2>1, <2>3, <2>4, <2>5
<1>9. Ordered(n, t, nxt2, prv2, mem)
  BY <1>1, <1>4, <1>6, <1>7, <1>8 DEF Ordered
<1>10. QED
  BY <1>2, <1>5, <1>9 DEF Mirrored

(* The list pointer is NULL exactly when there is no member.                *)
LEMMA NoneIs ==
  ASSUME NEW n, NEW s, NEW k, NEW l, NEW mem, Holds(n, s, k, l, mem)
  PROVE  /\ l.list = NULL => n = 0 /\ k = 0 /\ mem = {}
         /\ l.list # NULL => n # 0 /\ k \in 1..n /\ l.list = s[k]
         /\ mem \in SUBSET Elems
<1>1. /\ n \in Nat /\ s \in [1..n -> Elems] /\ mem = {s[i] : i \in 1..n}
      /\ k \in 0..n /\ (k = 0 <=> n = 0) /\ l.list = PlaceOf(n, s, k)
  BY DEF Holds, Ordered
<1>2. k \in 1..n <=> n # 0
  BY <1>1
<1>3. l.list # NULL <=> k \in 1..n
  BY <1>1, PlaceIs
<1>4. n = 0 => mem = {}
  BY <1>1
<1>5. k \in 1..n => l.list = s[k]
  BY <1>1 DEF PlaceOf
<1>6. mem \in SUBSET Elems
  BY <1>1
<1>7. QED
  BY <1>1, <1>2, <1>3, <1>4, <1>5, <1>6

(* An element without neighbours is a list of one.                          *)
LEMMA OneLinked ==
  ASSUME NEW l \in Links, NEW e \in Elems,
         l.next[e] = NULL, l.previous[e] = NULL, l.list = e
  PROVE  Linked(l, {e})
<1> DEFINE s == [i \in 1..1 |-> e]
<1>1. s \in [1..1 -> Elems] /\ \A i, j \in 1..1 : s[i] = s[j] => i = j
  OBVIOUS
<1>2. {e} = {s[i] : i \in 1..1}
  OBVIOUS
<1>3. PlaceOf(1, s, 2) = NULL /\ PlaceOf(1, s, 0) = NULL /\ PlaceOf(1, s, 1) = e
  BY DEF PlaceOf
<1> HIDE DEF s
<1>4. \A i \in 1..1 : i = 1 /\ i + 1 = 2 /\ i - 1 = 0
  OBVIOUS
<1>5. s[1] = e
  BY DEF s
<1>6. \A i \in 1..1 : l.next[s[i]] = PlaceOf(1, s, i + 1) /\ l.previous[s[i]] = PlaceOf(1, s, i - 1)
  BY <1>3, <1>4, <1>5
<1>7. 1 \in Nat /\ 1 \in 0..1
  OBVIOUS
<1>8. Ordered(1, s, l.next, l.previous, {e})
  BY <1>1, <1>2, <1>6, <1>7 DEF Ordered
<1>9. Holds(1, s, 1, l, {e})
  BY <1>3, <1>7, <1>8 DEF Holds
<1>10. QED
  BY <1>9 DEF Linked

(* The empty list is one, whatever the pointers of the elements hold.       *)
LEMMA NoneLinked ==
  ASSUME NEW l \in Links, l.list = NULL
  PROVE  Linked(l, {})
<1> DEFINE s == [i \in 1..0 |-> NULL]
<1>1. s \in [1..0 -> Elems] /\ {} = {s[i] : i \in 1..0} /\ 0 \in Nat /\ 0 \in 0..0
  OBVIOUS
<1>2. Ordered(0, s, l.next, l.previous, {})
  BY <1>1 DEF Ordered
<1>3. PlaceOf(0, s, 0) = NULL
  BY DEF PlaceOf
<1>4. Holds(0, s, 0, l, {})
  BY <1>1, <1>2, <1>3 DEF Holds
<1>5. QED
  BY <1>4 DEF Linked

(* What an element of no list holds does not matter.                        *)
LEMMA OthersFree ==
  ASSUME NEW l \in Links, NEW l2 \in Links, NEW n, NEW s, NEW k, NEW mem, Holds(n, s, k, l, mem),
         l2.list = l.list, \A x \in mem : l2.next[x] = l.next[x] /\ l2.previous[x] = l.previous[x]
  PROVE  Holds(n, s, k, l2, mem)
<1>1. Ordered(n, s, l.next, l.previous, mem) /\ mem = {s[i] : i \in 1..n}
  BY DEF Holds, Ordered
<1>2. \A i \in 1..n : l2.next[s[i]] = l.next[s[i]] /\ l2.previous[s[i]] = l.previous[s[i]]
  BY <1>1
<1>3. Ordered(n, s, l2.next, l2.previous, mem)
  BY <1>1, <1>2 DEF Ordered
<1>4. QED
  BY <1>3 DEF Holds

(* SGLIB_DL_LIST_ADD_AFTER_: behind any element of the list.                *)
LEMMA AddedAfter ==
  ASSUME NEW l \in Links, NEW n, NEW s, NEW k, NEW mem, Holds(n, s, k, l, mem),
         NEW e \in Elems, e \notin mem, NEW j \in 1..n
  PROVE  Linked(DL_LIST_ADD_AFTER(l, s[j], e), mem \cup {e})
<1> DEFINE l2 == DL_LIST_ADD_AFTER(l, s[j], e)
           to == PlaceOf(n, s, j + 1)
<1>1. /\ Ordered(n, s, l.next, l.previous, mem) /\ n \in Nat /\ s \in [1..n -> Elems]
      /\ k \in 0..n /\ (k = 0 <=> n = 0) /\ l.list = PlaceOf(n, s, k)
      /\ l.next \in Pointers /\ l.previous \in Pointers /\ l.list \in Elems \cup {NULL}
  BY DEF Holds, Ordered, Links
<1>2. l.next[s[j]] = to /\ s[j] \in Elems /\ s[j] # NULL
  BY <1>1, ListAssumption DEF Ordered
<1> HIDE DEF to
<1>3. /\ l2 = [l EXCEPT !.next = [[l.next EXCEPT ![e] = to] EXCEPT ![s[j]] = e],
                        !.previous = Set([l.previous EXCEPT ![e] = s[j]], to, e)]
  BY <1>1, <1>2 DEF DL_LIST_ADD_AFTER, Links, Pointers
<1> HIDE DEF l2
<1>4. /\ l2.next = Set([l.next EXCEPT ![e] = to], s[j], e)
      /\ l2.previous = Set([l.previous EXCEPT ![e] = s[j]], to, e)
      /\ l2.list = l.list
  BY <1>2, <1>3 DEF Set, Links
<1>5. PutIn(l.next, l2.next, s[j], e, to) /\ PutIn(l.previous, l2.previous, to, e, s[j])
  BY <1>1, <1>2, <1>4, ListAssumption DEF PutIn, Set, Pointers
<1> DEFINE p == j + 1
<1>6. p \in 1..(n + 1) /\ PlaceOf(n, s, p - 1) = s[j] /\ PlaceOf(n, s, p) = to
  BY <1>1 DEF PlaceOf, to
<1> HIDE DEF p
<1>7. /\ PutIn(l.next, l2.next, PlaceOf(n, s, p - 1), e, PlaceOf(n, s, p))
      /\ PutIn(l.previous, l2.previous, PlaceOf(n, s, p), e, PlaceOf(n, s, p - 1))
  BY <1>5, <1>6
<1>8. PICK t : Ordered(n + 1, t, l2.next, l2.previous, mem \cup {e}) /\ OneMore(n, s, t, p, e)
  BY <1>1, <1>6, <1>7, LinkedIn
<1>9. l2 \in Links
  BY <1>1, <1>3, <1>4, <1>5 DEF Links, PutIn
<1> DEFINE k2 == IF k < p THEN k ELSE k + 1
<1>10. k \in 1..n /\ k2 \in 0..(n + 1) /\ k2 # 0 /\ n + 1 # 0
  BY <1>1
<1>11. l2.list = PlaceOf(n + 1, t, k2)
  BY <1>1, <1>4, <1>8, <1>10 DEF PlaceOf, OneMore
<1> HIDE DEF k2
<1>12. Holds(n + 1, t, k2, l2, mem \cup {e})
  BY <1>8, <1>10, <1>11 DEF Holds
<1>13. QED
  BY <1>9, <1>12 DEF Linked, l2

(* SGLIB_DL_LIST_ADD_BEFORE_: before the element of the_list.               *)
LEMMA AddedBefore ==
  ASSUME NEW l \in Links, NEW n, NEW s, NEW k, NEW mem, Holds(n, s, k, l, mem),
         NEW e \in Elems, e \notin mem, NEW j \in 1..n
  PROVE  Linked(DL_LIST_ADD_BEFORE(l, s[j], e), mem \cup {e})
<1> DEFINE l2 == DL_LIST_ADD_BEFORE(l, s[j], e)
           from == PlaceOf(n, s, j - 1)
<1>1. /\ Ordered(n, s, l.next, l.previous, mem) /\ n \in Nat /\ s \in [1..n -> Elems]
      /\ k \in 0..n /\ (k = 0 <=> n = 0) /\ l.list = PlaceOf(n, s, k)
      /\ l.next \in Pointers /\ l.previous \in Pointers /\ l.list \in Elems \cup {NULL}
  BY DEF Holds, Ordered, Links
<1>2. l.previous[s[j]] = from /\ s[j] \in Elems /\ s[j] # NULL
  BY <1>1, ListAssumption DEF Ordered
<1> HIDE DEF from
<1>3. /\ l2 = [l EXCEPT !.previous = [[l.previous EXCEPT ![e] = from] EXCEPT ![s[j]] = e],
                        !.next = Set([l.next EXCEPT ![e] = s[j]], from, e)]
  BY <1>1, <1>2 DEF DL_LIST_ADD_BEFORE, Links, Pointers
<1> HIDE DEF l2
<1>4. /\ l2.previous = Set([l.previous EXCEPT ![e] = from], s[j], e)
      /\ l2.next = Set([l.next EXCEPT ![e] = s[j]], from, e)
      /\ l2.list = l.list
  BY <1>2, <1>3 DEF Set, Links
<1>5. PutIn(l.next, l2.next, from, e, s[j]) /\ PutIn(l.previous, l2.previous, s[j], e, from)
  BY <1>1, <1>2, <1>4, ListAssumption DEF PutIn, Set, Pointers
<1>6. j \in 1..(n + 1) /\ PlaceOf(n, s, j - 1) = from /\ PlaceOf(n, s, j) = s[j]
  BY <1>1 DEF PlaceOf, from
<1>7. /\ PutIn(l.next, l2.next, PlaceOf(n, s, j - 1), e, PlaceOf(n, s, j))
      /\ PutIn(l.previous, l2.previous, PlaceOf(n, s, j), e, PlaceOf(n, s, j - 1))
  BY <1>5, <1>6
<1>8. PICK t : Ordered(n + 1, t, l2.next, l2.previous, mem \cup {e}) /\ OneMore(n, s, t, j, e)
  BY <1>1, <1>6, <1>7, LinkedIn
<1>9. l2 \in Links
  BY <1>1, <1>3, <1>4, <1>5 DEF Links, PutIn
<1> DEFINE k2 == IF k < j THEN k ELSE k + 1
<1>10. k \in 1..n /\ k2 \in 0..(n + 1) /\ k2 # 0 /\ n + 1 # 0
  BY <1>1
<1>11. l2.list = PlaceOf(n + 1, t, k2)
  BY <1>1, <1>4, <1>8, <1>10 DEF PlaceOf, OneMore
<1> HIDE DEF k2
<1>12. Holds(n + 1, t, k2, l2, mem \cup {e})
  BY <1>8, <1>10, <1>11 DEF Holds
<1>13. QED
  BY <1>9, <1>12 DEF Linked, l2

(* From the first element on every element is met, in order, and from the   *)
(* last one back.                                                           *)
LEMMA ForwardIs ==
  ASSUME NEW n, NEW s, NEW k, NEW l, NEW mem, Holds(n, s, k, l, mem)
  PROVE  /\ Along(l.next, DL_LIST_GET_FIRST(l)) = s
         /\ Along(l.previous, DL_LIST_GET_LAST(l)) = BackFrom(s, n)
<1>1. Ordered(n, s, l.next, l.previous, mem) /\ n \in Nat /\ s \in [1..n -> Elems]
  BY DEF Holds, Ordered
<1>2. Along(l.next, DL_LIST_GET_FIRST(l)) = s
  <2>1. 1 \in 1..(n + 1) /\ DL_LIST_GET_FIRST(l) = PlaceOf(n, s, 1)
    BY <1>1, Ends
  <2>2. Along(l.next, DL_LIST_GET_FIRST(l)) = OnFrom(n, s, 1)
    BY <1>1, <2>1, AlongNext
  <2>3. OnFrom(n, s, 1) = [i \in 1..(n + 1 - 1) |-> s[1 + i - 1]]
    BY DEF OnFrom
  <2>4. n + 1 - 1 = n /\ \A i \in 1..n : 1 + i - 1 = i
    BY <1>1
  <2>5. OnFrom(n, s, 1) = s
    BY <1>1, <2>3, <2>4
  <2>6. QED
    BY <2>2, <2>5
<1>3. Along(l.previous, DL_LIST_GET_LAST(l)) = BackFrom(s, n)
  <2>1. n \in 0..n /\ DL_LIST_GET_LAST(l) = PlaceOf(n, s, n)
    BY <1>1, Ends
  <2>2. QED
    BY <1>1, <2>1, AlongPrevious
<1>4. QED
  BY <1>2, <1>3

(* An element added to a list, before or after the list pointer.            *)
LEMMA AddedLinked ==
  ASSUME NEW l \in Links, NEW mem, NEW e \in Elems, NEW before \in BOOLEAN,
         Linked(l, mem), e \notin mem
  PROVE  Linked(Added(l, e, before), mem \cup {e})
<1>1. PICK n, s, k : Holds(n, s, k, l, mem)
  BY DEF Linked
<1>2. CASE l.list = NULL
  <2> DEFINE l2 == CREATE_SINGLETON(l, e)
  <2>1. l2 \in Links /\ l2.next[e] = NULL /\ l2.previous[e] = NULL /\ l2.list = e
    BY DEF CREATE_SINGLETON, Links, Pointers
  <2> HIDE DEF l2
  <2>2. Linked(l2, {e})
    BY <2>1, OneLinked
  <2>3. mem \cup {e} = {e}
    BY <1>1, <1>2, NoneIs
  <2>4. QED
    BY <1>2, <2>2, <2>3 DEF Added, l2
<1>3. CASE l.list # NULL
  <2>1. k \in 1..n /\ l.list = s[k]
    BY <1>1, <1>3, NoneIs
  <2>2. Linked(DL_LIST_ADD_BEFORE(l, l.list, e), mem \cup {e})
    BY <1>1, <2>1, AddedBefore
  <2>3. Linked(DL_LIST_ADD_AFTER(l, l.list, e), mem \cup {e})
    BY <1>1, <2>1, AddedAfter
  <2>4. QED
    BY <1>3, <2>2, <2>3 DEF Added
<1>4. QED
  BY <1>2, <1>3

(* Elements linked one behind the other; the others keep their pointers.    *)
LEMMA ListedHolds ==
  ASSUME NEW l \in Links, NEW n \in Nat \ {0}, NEW t \in [1..n -> Elems],
         \A i, j \in 1..n : t[i] = t[j] => i = j
  PROVE  /\ CREATE_FROM_LIST(l, t) \in Links
         /\ Holds(n, t, 1, CREATE_FROM_LIST(l, t), {t[i] : i \in 1..n})
         /\ \A x \in Elems : x \notin {t[i] : i \in 1..n} =>
              /\ CREATE_FROM_LIST(l, t).next[x] = l.next[x]
              /\ CREATE_FROM_LIST(l, t).previous[x] = l.previous[x]
<1> DEFINE l2 == CREATE_FROM_LIST(l, t)
           mem == {t[i] : i \in 1..n}
           Place(e) == CHOOSE i \in DOMAIN t : t[i] = e
           From(e) == IF Place(e) + 1 \in DOMAIN t THEN t[Place(e) + 1] ELSE NULL
           Back(e) == IF Place(e) - 1 \in DOMAIN t THEN t[Place(e) - 1] ELSE NULL
           listed == {t[i] : i \in DOMAIN t}
<1>1. /\ l2.next = [e \in DOMAIN l.next |-> IF e \in listed THEN From(e) ELSE l.next[e]]
      /\ l2.previous = [e \in DOMAIN l.previous |-> IF e \in listed THEN Back(e) ELSE l.previous[e]]
      /\ l2.list = IF 1 \in DOMAIN t THEN t[1] ELSE NULL
      /\ l2 = [next |-> l2.next, previous |-> l2.previous, list |-> l2.list]
  BY DEF CREATE_FROM_LIST
<1>2. l.next \in Pointers /\ l.previous \in Pointers
  BY DEF Links
<1>3. n \in Nat /\ n # 0 /\ \A i, j \in 1..n : t[i] = t[j] => i = j
  OBVIOUS
<1> HIDE DEF l2
<1>4. DOMAIN t = 1..n /\ DOMAIN l.next = Elems /\ DOMAIN l.previous = Elems
  BY <1>2 DEF Pointers
<1>5. listed = mem
  BY <1>4
<1>6. \A i \in 1..n : t[i] \in Elems /\ t[i] \in mem /\ Place(t[i]) = i
  BY <1>3, <1>4
<1>7. \A i \in 1..n : From(t[i]) = PlaceOf(n, t, i + 1) /\ Back(t[i]) = PlaceOf(n, t, i - 1)
  <2> HIDE DEF Place
  <2>1. QED
    BY <1>4, <1>6 DEF PlaceOf
<1>8. \A x \in mem : \E i \in 1..n : x = t[i]
  OBVIOUS
<1> HIDE DEF From, Back, listed, mem
<1>9. \A i \in 1..n : l2.next[t[i]] = PlaceOf(n, t, i + 1) /\ l2.previous[t[i]] = PlaceOf(n, t, i - 1)
  BY <1>1, <1>4, <1>5, <1>6, <1>7
<1>10. l2.next \in Pointers /\ l2.previous \in Pointers
  <2>1. \A i \in 1..n : From(t[i]) \in Elems \cup {NULL} /\ Back(t[i]) \in Elems \cup {NULL}
    <3> TAKE i \in 1..n
    <3>1. i + 1 \in Int /\ i - 1 \in Int
      OBVIOUS
    <3>2. PlaceOf(n, t, i + 1) \in Elems \cup {NULL} /\ PlaceOf(n, t, i - 1) \in Elems \cup {NULL}
      BY <1>3, <3>1, PlaceIs
    <3>3. QED
      BY <1>7, <3>2
  <2>2. \A x \in mem : From(x) \in Elems \cup {NULL} /\ Back(x) \in Elems \cup {NULL}
    BY <1>8, <2>1
  <2>3. QED
    BY <1>1, <1>2, <1>4, <1>5, <2>2 DEF Pointers
<1>11. Ordered(n, t, l2.next, l2.previous, mem)
  BY <1>3, <1>9 DEF Ordered, mem
<1>12. l2.list = PlaceOf(n, t, 1) /\ 1 \in 0..n /\ l2.list \in Elems \cup {NULL}
  BY <1>1, <1>3, <1>4 DEF PlaceOf
<1>13. Holds(n, t, 1, l2, mem)
  BY <1>3, <1>11, <1>12 DEF Holds
<1>14. l2 \in Links
  BY <1>1, <1>10, <1>12 DEF Links
<1>15. \A x \in Elems : x \notin mem => l2.next[x] = l.next[x] /\ l2.previous[x] = l.previous[x]
  BY <1>1, <1>4, <1>5
<1>16. QED
  BY <1>13, <1>14, <1>15 DEF l2, mem

(* A second list whose elements are in none: it is the list if that was     *)
(* empty, and its element at k goes behind the last one if it was not.      *)
LEMMA ConcatLinked ==
  ASSUME NEW l \in Links, NEW mem, Linked(l, mem),
         NEW n \in Nat \ {0}, NEW s \in [1..n -> Elems], NEW k \in 1..n,
         \A i, j \in 1..n : s[i] = s[j] => i = j,
         \A i \in 1..n : s[i] \notin mem
  PROVE  Linked(DL_LIST_CONCAT([CREATE_FROM_LIST(l, s) EXCEPT !.list = l.list], s[k]),
                mem \cup (IF l.list = NULL THEN {s[i] : i \in 1..n} ELSE {s[k]}))
<1> DEFINE l1 == CREATE_FROM_LIST(l, s)
           l2 == [l1 EXCEPT !.list = l.list]
           e == s[k]
           second == {s[i] : i \in 1..n}
<1>1. PICK n1, s1, k1 : Holds(n1, s1, k1, l, mem)
  BY DEF Linked
<1>2. /\ l1 \in Links /\ Holds(n, s, 1, l1, second)
      /\ \A x \in Elems : x \notin second => l1.next[x] = l.next[x] /\ l1.previous[x] = l.previous[x]
  BY ListedHolds
<1>3. mem \in SUBSET Elems /\ e \in Elems /\ e \notin mem /\ e # NULL
  BY <1>1, NoneIs, ListAssumption
<1>4. \A x \in mem : x \in Elems /\ x \notin second
  BY <1>3
<1> HIDE DEF l1, second
<1>5. l2 \in Links /\ l2.list = l.list /\ l2.next = l1.next /\ l2.previous = l1.previous
  BY <1>2 DEF Links
<1>6. CASE l.list = NULL
  <2> DEFINE l3 == [l2 EXCEPT !.list = e]
  <2>1. l3 \in Links /\ l3.list = e /\ l3.next = l1.next /\ l3.previous = l1.previous
    BY <1>3, <1>5 DEF Links
  <2>2. DL_LIST_CONCAT(l2, e) = l3
    BY <1>5, <1>6 DEF DL_LIST_CONCAT
  <2>3. mem \cup second = second
    BY <1>1, <1>6, NoneIs
  <2>4. k \in 0..n /\ (k = 0 <=> n = 0) /\ e = PlaceOf(n, s, k)
    BY DEF PlaceOf
  <2> HIDE DEF l3, l2, e
  <2>5. Holds(n, s, k, l3, second)
    BY <1>2, <2>1, <2>4 DEF Holds
  <2>6. Linked(l3, second)
    BY <2>1, <2>5 DEF Linked
  <2>7. QED
    BY <1>6, <2>2, <2>3, <2>6 DEF l1, l2, e, second
<1>7. CASE l.list # NULL
  <2> HIDE DEF l2, e
  <2>1. Holds(n1, s1, k1, l2, mem)
    <3>1. \A x \in mem : l2.next[x] = l.next[x] /\ l2.previous[x] = l.previous[x]
      BY <1>2, <1>4, <1>5
    <3>2. QED
      BY <1>1, <1>5, <3>1, OthersFree
  <2>2. n1 # 0 /\ n1 \in Nat
    <3>1. n1 # 0
      BY <1>1, <1>7, NoneIs
    <3>2. QED
      BY <1>1, <3>1 DEF Holds, Ordered
  <2>3. n1 \in 1..n1 /\ DL_LIST_GET_LAST(l2) = PlaceOf(n1, s1, n1)
    BY <1>5, <2>1, <2>2, Ends
  <2>4. DL_LIST_GET_LAST(l2) = s1[n1]
    BY <2>3 DEF PlaceOf
  <2>5. DL_LIST_CONCAT(l2, e) = DL_LIST_ADD_AFTER(l2, s1[n1], e)
    BY <1>3, <1>5, <1>7, <2>4 DEF DL_LIST_CONCAT
  <2>6. Linked(DL_LIST_ADD_AFTER(l2, s1[n1], e), mem \cup {e})
    BY <1>3, <1>5, <2>1, <2>3, AddedAfter
  <2>7. QED
    BY <1>7, <2>5, <2>6 DEF l1, l2, e
<1>8. QED
  BY <1>6, <1>7

(* An element deleted; a list pointer on it moves to a neighbour.           *)
LEMMA DeletedLinked ==
  ASSUME NEW l \in Links, NEW mem, NEW e, Linked(l, mem), e \in mem
  PROVE  Linked(DL_LIST_DELETE(l, e), mem \ {e})
<1> DEFINE l2 == DL_LIST_DELETE(l, e)
<1>1. PICK n, s, k : Holds(n, s, k, l, mem)
  BY DEF Linked
<1>2. /\ Ordered(n, s, l.next, l.previous, mem) /\ n \in Nat /\ s \in [1..n -> Elems]
      /\ mem = {s[i] : i \in 1..n} /\ \A i, j \in 1..n : s[i] = s[j] => i = j
      /\ l.next \in Pointers /\ l.previous \in Pointers /\ l.list \in Elems \cup {NULL}
  BY <1>1 DEF Holds, Ordered, Links
<1>3. PICK j \in 1..n : e = s[j]
  BY <1>2
<1>4. l.previous[e] = PlaceOf(n, s, j - 1) /\ l.next[e] = PlaceOf(n, s, j + 1)
  BY <1>2, <1>3 DEF Ordered
<1>5. /\ l2.next = Set(l.next, PlaceOf(n, s, j - 1), PlaceOf(n, s, j + 1))
      /\ l2.previous = Set(l.previous, PlaceOf(n, s, j + 1), PlaceOf(n, s, j - 1))
      /\ l2.list = IF l.list # e THEN l.list
                   ELSE IF PlaceOf(n, s, j - 1) # NULL THEN PlaceOf(n, s, j - 1) ELSE PlaceOf(n, s, j + 1)
      /\ l2 = [next |-> l2.next, previous |-> l2.previous, list |-> l2.list]
  BY <1>4 DEF DL_LIST_DELETE
<1> HIDE DEF l2
<1>6. l2.next \in Pointers /\ l2.previous \in Pointers
  BY <1>2, <1>5, LinkedOut
<1>7. PICK t : Ordered(n - 1, t, l2.next, l2.previous, mem \ {s[j]}) /\ OneLess(n, s, t, j)
  BY <1>2, <1>5, LinkedOut, ZenonT(30)
<1>8. k \in 1..n /\ l.list = s[k]
  <2>1. n # 0
    BY <1>2, <1>3
  <2>2. l.list # NULL
    BY <1>1, <2>1, NoneIs
  <2>3. QED
    BY <1>1, <2>2, NoneIs
<1>9. PICK k2 \in 0..(n - 1) : (k2 = 0 <=> n - 1 = 0) /\ l2.list = PlaceOf(n - 1, t, k2)
  <2>1. CASE k # j
    <3> DEFINE m == IF k < j THEN k ELSE k - 1
    <3>1. m \in 0..(n - 1) /\ (m = 0 <=> n - 1 = 0)
      BY <1>2, <1>8, <2>1
    <3>2. PlaceOf(n - 1, t, m) = s[k]
      BY <1>7, <1>8, <2>1 DEF OneLess
    <3> HIDE DEF m
    <3>3. l.list # e
      BY <1>2, <1>3, <1>8, <2>1
    <3>4. l2.list = PlaceOf(n - 1, t, m)
      BY <1>5, <1>8, <3>2, <3>3
    <3>5. QED
      BY <3>1, <3>4
  <2>2. CASE k = j /\ j # 1
    <3>1. j - 1 \in 1..n /\ j - 1 # j /\ j - 1 < j /\ j - 1 \in 0..(n - 1) /\ j - 1 # 0 /\ n - 1 # 0
      BY <1>2, <2>2
    <3>2. PlaceOf(n, s, j - 1) = s[j - 1] /\ s[j - 1] # NULL
      BY <1>2, <3>1, ListAssumption DEF PlaceOf
    <3>3. PlaceOf(n - 1, t, j - 1) = s[j - 1]
      BY <1>7, <3>1 DEF OneLess
    <3>4. l2.list = PlaceOf(n - 1, t, j - 1)
      BY <1>3, <1>5, <1>8, <2>2, <3>2, <3>3
    <3>5. QED
      BY <3>1, <3>4
  <2>3. CASE k = j /\ j = 1 /\ n # 1
    <3>1. 2 \in 1..n /\ 2 # j /\ ~(2 < j) /\ 1 \in 0..(n - 1) /\ n - 1 # 0 /\ 0 \notin 1..n
      BY <1>2, <2>3
    <3>2. PlaceOf(n, s, j - 1) = NULL /\ PlaceOf(n, s, j + 1) = s[2]
      BY <2>3, <3>1 DEF PlaceOf
    <3>3. PlaceOf(n - 1, t, 1) = s[2]
      <4>1. PlaceOf(n - 1, t, IF 2 < j THEN 2 ELSE 2 - 1) = s[2]
        BY <1>7, <3>1 DEF OneLess
      <4>2. QED
        BY <3>1, <4>1
    <3>4. l2.list = PlaceOf(n - 1, t, 1)
      BY <1>3, <1>5, <1>8, <2>3, <3>2, <3>3
    <3>5. QED
      BY <3>1, <3>4
  <2>4. CASE k = j /\ j = 1 /\ n = 1
    <3>1. PlaceOf(n, s, j - 1) = NULL /\ PlaceOf(n, s, j + 1) = NULL /\ PlaceOf(n - 1, t, 0) = NULL
      BY <2>4 DEF PlaceOf
    <3>2. l2.list = PlaceOf(n - 1, t, 0)
      BY <1>3, <1>5, <1>8, <2>4, <3>1
    <3>3. 0 \in 0..(n - 1) /\ n - 1 = 0
      BY <2>4
    <3>4. QED
      BY <3>2, <3>3
  <2>5. QED
    BY <2>1, <2>2, <2>3, <2>4
<1>10. Holds(n - 1, t, k2, l2, mem \ {e})
  BY <1>3, <1>7, <1>9 DEF Holds
<1>11. l2 \in Links
  <2>1. PlaceOf(n, s, j - 1) \in Elems \cup {NULL} /\ PlaceOf(n, s, j + 1) \in Elems \cup {NULL}
    BY <1>2, PlaceIs
  <2>2. l2.list \in Elems \cup {NULL}
    BY <1>2, <1>5, <2>1
  <2>3. QED
    BY <1>5, <1>6, <2>2 DEF Links
<1>12. QED
  BY <1>10, <1>11 DEF Linked, l2

(* The list taken apart, its elements ordered and linked again.             *)
LEMMA SortedLinked ==
  ASSUME NEW l \in Links, NEW mem, Linked(l, mem)
  PROVE  Linked(DL_LIST_SORT(l), mem)
<1>1. CASE l.list = NULL
  BY <1>1 DEF DL_LIST_SORT
<1>2. CASE l.list # NULL
  <2>1. PICK n, s, k : Holds(n, s, k, l, mem)
    BY DEF Linked
  <2>2. /\ n \in Nat /\ s \in [1..n -> Elems]
        /\ mem = {s[i] : i \in 1..n} /\ \A i, j \in 1..n : s[i] = s[j] => i = j
    BY <2>1 DEF Holds, Ordered
  <2>3. n # 0
    BY <1>2, <2>1, NoneIs
  <2>4. Along(l.next, DL_LIST_GET_FIRST(l)) = s
    BY <2>1, ForwardIs
  <2> DEFINE t == SortedList(s)
             l2 == CREATE_FROM_LIST(l, t)
  <2>5. DL_LIST_SORT(l) = l2
    BY <1>2, <2>4 DEF DL_LIST_SORT
  <2>6. /\ t \in [1..n -> Elems] /\ \A i, j \in 1..n : t[i] = t[j] => i = j
        /\ {t[i] : i \in 1..n} = mem
    <3>1. Cardinality(Elems) \in Nat /\ n <= Cardinality(Elems)
      BY <2>2, ListSize
    <3>2. n \in 0..Cardinality(Elems)
      BY <2>2, <3>1
    <3>3. QED
      BY <2>2, <3>2, ListAssumption
  <2>7. n \in Nat \ {0}
    BY <2>2, <2>3
  <2> HIDE DEF t
  <2>8. l2 \in Links /\ Holds(n, t, 1, l2, mem)
    BY <2>6, <2>7, ListedHolds
  <2>9. QED
    BY <2>5, <2>8 DEF Linked
<1>3. QED
  BY <1>1, <1>2

(* Both pointers of every element exchanged.                                *)
LEMMA ReversedLinked ==
  ASSUME NEW l \in Links, NEW mem, Linked(l, mem)
  PROVE  Linked(DL_LIST_REVERSE(l), mem)
<1> DEFINE l2 == DL_LIST_REVERSE(l)
<1>1. PICK n, s, k : Holds(n, s, k, l, mem)
  BY DEF Linked
<1>2. /\ Ordered(n, s, l.next, l.previous, mem) /\ n \in Nat /\ s \in [1..n -> Elems]
      /\ l.next \in Pointers /\ l.previous \in Pointers /\ l.list = PlaceOf(n, s, k)
      /\ k \in 0..n /\ (k = 0 <=> n = 0) /\ l.list \in Elems \cup {NULL}
      /\ DOMAIN l.next = Elems /\ DOMAIN l.previous = Elems
  BY <1>1 DEF Holds, Ordered, Links, Pointers
<1>3. {Searched(l)[i] : i \in DOMAIN Searched(l)} = mem
  BY <1>1, SearchedIs
<1> DEFINE swapped == {Searched(l)[i] : i \in DOMAIN Searched(l)}
<1>4. /\ l2.next = [x \in Elems |-> IF x \in mem THEN l.previous[x] ELSE l.next[x]]
      /\ l2.previous = [x \in Elems |-> IF x \in mem THEN l.next[x] ELSE l.previous[x]]
      /\ l2.list = l.list
      /\ l2 = [next |-> l2.next, previous |-> l2.previous, list |-> l2.list]
  <2>1. l2 = [l EXCEPT !.next = [e \in DOMAIN @ |-> IF e \in swapped THEN l.previous[e] ELSE @[e]],
                       !.previous = [e \in DOMAIN @ |-> IF e \in swapped THEN l.next[e] ELSE @[e]]]
    BY DEF DL_LIST_REVERSE
  <2>2. swapped = mem
    BY <1>3
  <2> HIDE DEF l2, swapped
  <2>3. l2 = [l EXCEPT !.next = [e \in Elems |-> IF e \in mem THEN l.previous[e] ELSE l.next[e]],
                       !.previous = [e \in Elems |-> IF e \in mem THEN l.next[e] ELSE l.previous[e]]]
    BY <1>2, <2>1, <2>2
  <2>4. QED
    BY <2>3 DEF Links
<1> HIDE DEF l2, swapped
<1>5. l2.next \in Pointers /\ l2.previous \in Pointers
  BY <1>2, <1>4, TurnedRound
<1>6. PICK t : Ordered(n, t, l2.next, l2.previous, mem) /\ Mirrored(n, s, t)
  BY <1>2, <1>4, TurnedRound
<1> DEFINE k2 == IF n = 0 THEN 0 ELSE n + 1 - k
<1>7. k2 \in 0..n /\ (k2 = 0 <=> n = 0)
  BY <1>2
<1>8. l2.list = PlaceOf(n, t, k2)
  <2>1. CASE n = 0
    BY <1>2, <1>4, <2>1 DEF PlaceOf
  <2>2. CASE n # 0
    <3>1. k \in 0..(n + 1) /\ k2 = n + 1 - k
      BY <1>2, <2>2
    <3>2. QED
      BY <1>2, <1>4, <1>6, <3>1 DEF Mirrored
  <2>3. QED
    BY <2>1, <2>2
<1> HIDE DEF k2
<1>9. Holds(n, t, k2, l2, mem)
  BY <1>6, <1>7, <1>8 DEF Holds
<1>10. l2 \in Links
  BY <1>2, <1>4, <1>5 DEF Links
<1>11. QED
  BY <1>9, <1>10 DEF Linked, l2

(* The empty list is linked. *)
LEMMA ListInitInv == ListInit => ListInv
<1> SUFFICES ASSUME ListInit PROVE ListInv
  OBVIOUS
<1>1. links \in Links /\ links.list = NULL /\ members = {}
  BY DEF ListInit, links, Links, Pointers
<1>2. QED
  BY <1>1, NoneLinked DEF ListInv

(* Every operation of the list keeps it linked.                             *)
LEMMA ListNextInv == ListInv /\ [ListNext]_listVars => ListInv'
<1> SUFFICES ASSUME ListInv, [ListNext]_listVars PROVE ListInv'
  OBVIOUS
<1>1. links \in Links /\ Linked(links, members) /\ members \in SUBSET Elems
  <2>1. links \in Links /\ Linked(links, members)
    BY DEF ListInv, Linked
  <2>2. PICK n, s, k : Holds(n, s, k, links, members)
    BY <2>1 DEF Linked
  <2>3. QED
    BY <2>1, <2>2, NoneIs
<1>2. ASSUME NEW l, Becomes(l), l \in Links
      PROVE  links' = l
  BY <1>2 DEF Becomes, links, Links
<1>3. ASSUME NEW e \in Elems, NEW before \in BOOLEAN, e \notin members,
             Becomes(Added(links, e, before)), members' = members \cup {e}
      PROVE  ListInv'
  <2>1. Linked(Added(links, e, before), members')
    BY <1>1, <1>3, AddedLinked
  <2>2. Added(links, e, before) \in Links
    BY <2>1 DEF Linked
  <2>3. links' = Added(links, e, before)
    BY <1>2, <1>3, <2>2
  <2>4. QED
    BY <2>1, <2>3 DEF ListInv
<1>4. ASSUME NEW e \in Elems, sglib_dllist_add(e)
      PROVE  ListInv'
  BY <1>3, <1>4 DEF sglib_dllist_add, sglib_dllist_add_before
<1>5. ASSUME UNCHANGED listVars
      PROVE  ListInv'
  BY <1>5 DEF listVars, ListInv, links
<1>6. ASSUME NEW n \in Seconds, NEW s \in [1..n -> Elems], NEW k \in 1..n,
             sglib_dllist_concat(s, k)
      PROVE  ListInv'
  <2> DEFINE l == DL_LIST_CONCAT([CREATE_FROM_LIST(links, s) EXCEPT !.list = links.list], s[k])
             second == {s[i] : i \in 1..n}
  <2>1. n \in Nat \ {0} /\ DOMAIN s = 1..n
    BY ListAssumption
  <2>2. /\ \A i, j \in 1..n : s[i] = s[j] => i = j
        /\ \A i \in 1..n : s[i] \notin members
        /\ members' = members \cup (IF links.list = NULL THEN second ELSE {s[k]})
    BY <1>6, <2>1 DEF sglib_dllist_concat, links
  <2>3. Linked(l, members')
    BY <1>1, <2>1, <2>2, ConcatLinked
  <2>4. Becomes(l)
    BY <1>6 DEF sglib_dllist_concat, links
  <2> HIDE DEF l
  <2>5. links' = l
    BY <1>2, <2>3, <2>4 DEF Linked
  <2>6. QED
    BY <2>3, <2>5 DEF ListInv
<1>7. ASSUME NEW e, sglib_dllist_delete(e)
      PROVE  ListInv'
  <2>1. Linked(DL_LIST_DELETE(links, e), members')
    BY <1>1, <1>7, DeletedLinked DEF sglib_dllist_delete
  <2>2. links' = DL_LIST_DELETE(links, e)
    BY <1>2, <1>7, <2>1 DEF sglib_dllist_delete, Linked
  <2>3. QED
    BY <2>1, <2>2 DEF ListInv
<1>8. ASSUME NEW e \in Elems, sglib_dllist_add_after(e)
      PROVE  ListInv'
  BY <1>3, <1>8 DEF sglib_dllist_add_after
<1>9. ASSUME NEW e \in Elems, sglib_dllist_add_if_not_member(e)
      PROVE  ListInv'
  BY <1>4, <1>5, <1>9 DEF sglib_dllist_add_if_not_member
<1>10. ASSUME NEW k, sglib_dllist_delete_if_member(k)
       PROVE  ListInv'
  BY <1>5, <1>7, <1>10 DEF sglib_dllist_delete_if_member
<1>11. CASE sglib_dllist_sort
  <2>1. Linked(DL_LIST_SORT(links), members)
    BY <1>1, SortedLinked
  <2>2. links' = DL_LIST_SORT(links) /\ members' = members
    BY <1>2, <1>11, <2>1 DEF sglib_dllist_sort, Linked
  <2>3. QED
    BY <2>1, <2>2 DEF ListInv
<1>12. CASE sglib_dllist_reverse
  <2>1. Linked(DL_LIST_REVERSE(links), members)
    BY <1>1, ReversedLinked
  <2>2. links' = DL_LIST_REVERSE(links) /\ members' = members
    BY <1>2, <1>12, <2>1 DEF sglib_dllist_reverse, Linked
  <2>3. QED
    BY <2>1, <2>2 DEF ListInv
<1>13. QED
  BY <1>4, <1>5, <1>6, <1>7, <1>8, <1>9, <1>10, <1>11, <1>12 DEF ListNext

(* What the invariant says of the two chains and of every search.           *)
LEMMA ListInvLinked == ListInv => LinkedBothWays
<1> SUFFICES ASSUME ListInv PROVE LinkedBothWays
  OBVIOUS
<1>1. PICK n, s, k : Holds(n, s, k, links, members)
  BY DEF ListInv, Linked
<1>2. /\ n \in Nat /\ s \in [1..n -> Elems] /\ \A i, j \in 1..n : s[i] = s[j] => i = j
      /\ members = {s[i] : i \in 1..n}
  BY <1>1 DEF Holds, Ordered
<1>3. s \in Seq(Elems) /\ Len(s) = n /\ DOMAIN s = 1..n
  BY <1>2, Tuple
<1>4. Forward = s /\ Backward = BackFrom(s, n)
  <2>1. links.next = next /\ links.previous = previous
    BY DEF links
  <2>2. QED
    BY <1>1, <2>1, ForwardIs DEF Forward, Backward
<1>5. Backward = [i \in 1..Len(Forward) |-> Forward[Len(Forward) + 1 - i]]
  BY <1>3, <1>4 DEF BackFrom
<1>6. {Forward[i] : i \in DOMAIN Forward} = members
  BY <1>2, <1>3, <1>4
<1>7. Len(Forward) = Cardinality(members)
  BY <1>2, <1>3, <1>4, ListSize
<1>8. DL_LIST_LEN(links) = Len(Forward)
  BY <1>1, <1>3, <1>4, SearchedIs
<1>9. the_list = NULL <=> members = {}
  <2>1. links.list = the_list
    BY DEF links
  <2>2. n # 0 => 1 \in 1..n
    BY <1>2
  <2>3. n # 0 => members # {}
    BY <1>2, <2>2
  <2>4. QED
    BY <1>1, <2>1, <2>3, NoneIs
<1>10. DOMAIN Searched(links) = 1..n /\ {Searched(links)[i] : i \in 1..n} = members
  BY <1>1, SearchedIs
<1>11. \A e \in Elems : DL_LIST_IS_MEMBER(links, e) <=> e \in members
  BY <1>10 DEF DL_LIST_IS_MEMBER
<1>12. \A q \in {Key[e] : e \in Elems} :
         {Searched(links)[i] : i \in Iterated(links, q)} = {e \in members : Key[e] = q}
  BY <1>10 DEF Iterated
<1>13. QED
  BY <1>5, <1>6, <1>7, <1>8, <1>9, <1>11, <1>12 DEF LinkedBothWays

(* Whatever is added, deleted, sorted, reversed and appended, the list is   *)
(* linked both ways and a search meets every member.                        *)
THEOREM ListIsLinked == ListSpec => []LinkedBothWays
<1>1. ListSpec => []ListInv
  BY ListInitInv, ListNextInv, PTL DEF ListSpec
<1>2. QED
  BY <1>1, ListInvLinked, PTL
=============================================================================
