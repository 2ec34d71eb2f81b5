-------------------------------- MODULE Heap --------------------------------
(***************************************************************************)
(* The benchmarks' allocator (model/bench/embench/beebsc.c): a pointer     *)
(* that moves through a static array and never back, and a count of what   *)
(* was asked for, from which check_heap_beebs() tells afterwards whether   *)
(* everything was granted.                                                 *)
(***************************************************************************)
EXTENDS Integers

CONSTANTS
  Alignment,        \* sizeof(void *)
  Heaps,            \* where the linker may put the array
  HeapSize,         \* its bytes
  Sizes,            \* sizes asked for
  Byte,             \* what a byte holds, 0 among it
  Unset,            \* of a byte its owner has not written
  MaxRequested      \* bound: nothing is asked for beyond this sum

ASSUME HeapAssumption ==
  /\ Alignment \in Nat \ {0} /\ HeapSize \in Nat /\ HeapSize % Alignment = 0
  /\ Heaps \subseteq Nat /\ Sizes \subseteq Nat
  /\ 0 \in Byte /\ Unset \notin Byte /\ MaxRequested \in Nat

VARIABLES
  heap,             \* the address of the array
  heap_ptr,         \* the first byte not given away
  heap_requested,   \* sizes and paddings asked for since init_heap_beebs()
  memory,           \* the bytes of the array
  blocks,           \* history: the blocks in use, with what their owners wrote
  refused           \* history: some request was not granted since then

heapVars == <<heap, heap_ptr, heap_requested, memory, blocks, refused>>

heap_end == heap + HeapSize
(* Mutant: the pointer is compared, which no refused request moves. *)
check_heap_beebsByPointer == heap_ptr <= heap_end
check_heap_beebs == heap + heap_requested <= heap_end

Span(b) == b.at..(b.at + b.size - 1)

-----------------------------------------------------------------------------
(* The end of a block of this size, moved up to the next aligned address.   *)
(* Mutant: it is moved down. *)
PaddingDown(address) == -(address % Alignment)
Padding(address) == (Alignment - (address % Alignment)) % Alignment
Next_heap_ptr(size) == heap_ptr + size + Padding(heap_ptr + size)

Granted(size) == size # 0 /\ Next_heap_ptr(size) <= heap_end

Block(size, contents) == [at |-> heap_ptr, size |-> size, data |-> contents]

(* malloc_beebs() moves the pointer when it grants, counts in either case,  *)
(* and does nothing for a size of 0.                                        *)
Taken(size) ==
  /\ heap_requested + size + Alignment <= MaxRequested
  /\ heap_ptr' = IF Granted(size) THEN Next_heap_ptr(size) ELSE heap_ptr
  /\ heap_requested' = IF size = 0 THEN heap_requested
                       ELSE heap_requested + size + Padding(heap_ptr + size)
  /\ refused' = (refused \/ (size # 0 /\ ~Granted(size)))

malloc_beebs ==
  \E size \in Sizes :
    /\ Taken(size)
    /\ blocks' = IF Granted(size)
                 THEN blocks \cup {Block(size, [k \in 0..(size - 1) |-> Unset])} ELSE blocks
    /\ UNCHANGED <<heap, memory>>

calloc_beebs ==
  \E size \in Sizes :
    /\ Taken(size)
    /\ IF Granted(size)
       THEN LET b == Block(size, [k \in 0..(size - 1) |-> 0])
            IN  /\ blocks' = blocks \cup {b}
                /\ memory' = [x \in DOMAIN memory |-> IF x \in Span(b) THEN 0 ELSE memory[x]]
       ELSE UNCHANGED <<blocks, memory>>
    /\ UNCHANGED heap

(* The copy is as long as the new block: it runs past the end of a shorter  *)
(* old one, at worst into the bytes it has just written.                    *)
realloc_beebs ==
  \E b \in blocks, size \in Sizes :
    /\ Taken(size)
    /\ IF Granted(size)
       THEN LET kept == [k \in 0..(size - 1) |-> IF k < b.size THEN b.data[k] ELSE Unset]
                new == Block(size, kept)
            IN  /\ blocks' = (blocks \ {b}) \cup {new}
                /\ memory' = [x \in DOMAIN memory |->
                                IF x \in Span(new)
                                THEN memory[b.at + ((x - new.at) % (new.at - b.at))]
                                ELSE memory[x]]
       ELSE UNCHANGED <<blocks, memory>>
    /\ UNCHANGED heap

(* Nothing is done; the owner gives the block up.                           *)
free_beebs ==
  \E b \in blocks :
    /\ blocks' = blocks \ {b}
    /\ UNCHANGED <<heap, heap_ptr, heap_requested, memory, refused>>

(* The owner of a block writes a byte of it.                                *)
Write ==
  \E b \in blocks : \E k \in 0..(b.size - 1), v \in Byte :
    /\ memory' = [memory EXCEPT ![b.at + k] = v]
    /\ blocks' = (blocks \ {b}) \cup {[b EXCEPT !.data = [@ EXCEPT ![k] = v]]}
    /\ UNCHANGED <<heap, heap_ptr, heap_requested, refused>>

(* Every repetition of a benchmark starts the heap again.                   *)
init_heap_beebs ==
  /\ heap_ptr' = heap
  /\ heap_requested' = 0
  /\ blocks' = {} /\ refused' = FALSE
  /\ UNCHANGED <<heap, memory>>

HeapInit ==
  /\ heap \in Heaps
  /\ heap_ptr = heap
  /\ heap_requested = 0
  /\ memory = [x \in heap..(heap + HeapSize - 1) |-> 0]
  /\ blocks = {} /\ refused = FALSE

HeapNext ==
  \/ malloc_beebs \/ calloc_beebs \/ realloc_beebs \/ free_beebs
  \/ Write \/ init_heap_beebs

HeapSpec == HeapInit /\ [][HeapNext]_heapVars

-----------------------------------------------------------------------------
HeapTypeOK ==
  /\ heap \in Heaps
  /\ heap_ptr \in heap..heap_end
  /\ heap_requested \in Nat
  /\ memory \in [heap..(heap_end - 1) -> Byte]
  /\ refused \in BOOLEAN
  /\ \A b \in blocks : /\ b.at \in Nat /\ b.size \in Nat \ {0}
                       /\ b = [at |-> b.at, size |-> b.size, data |-> b.data]
                       /\ b.data \in [0..(b.size - 1) -> Byte \cup {Unset}]

(* Blocks lie in the part given away, no two share a byte, and each holds   *)
(* what its owner wrote, zeros (calloc_beebs) or the bytes of the block it  *)
(* replaced (realloc_beebs), whatever happened to the others.               *)
InHeap == \A b \in blocks : heap <= b.at /\ b.at + b.size <= heap_ptr
Apart == \A b, c \in blocks : b = c \/ b.at + b.size <= c.at \/ c.at + c.size <= b.at
Kept ==
  \A b \in blocks : \A k \in 0..(b.size - 1) :
    b.data[k] # Unset => memory[b.at + k] = b.data[k]
BlocksKept == InHeap /\ Apart /\ Kept

(* check_heap_beebs() holds exactly when no request was refused since       *)
(* init_heap_beebs(), also when later, smaller requests were granted.       *)
CheckTellsRefusal == check_heap_beebs <=> ~refused
=============================================================================
