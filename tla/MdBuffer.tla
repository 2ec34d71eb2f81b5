----------------------------- MODULE MdBuffer -----------------------------
(***************************************************************************)
(* How a hash takes a message that arrives in pieces, and how it pads it:  *)
(* MD_UPDATE and MD_PAD of model/bench/embench/nettle-sha256.c and the     *)
(* sha256_init/update/digest built on them.  Compress, the size of a block *)
(* and the size of the length field are parameters; a StartState of << >>  *)
(* and a Compress that appends show the very blocks that are compressed.   *)
(***************************************************************************)
EXTENDS Integers, Sequences

CONSTANTS
  Compress(_, _),     \* COMPRESS(ctx, data)
  StartState,         \* H0
  BlockSize,          \* SHA256_BLOCK_SIZE
  SizeField,          \* bytes of the length at the end of the last block
  WriteSize(_),       \* WRITE_UINT64 of a number of bits
  Data,               \* the bytes of messages,
  MaxLen              \* and the most there are in one

ASSUME HashAssumption ==
  /\ BlockSize \in Nat \ {0} /\ SizeField \in 0..BlockSize /\ MaxLen \in Nat
  /\ \A n \in 0..MaxLen :
       WriteSize(8 * n) = [k \in 1..SizeField |-> WriteSize(8 * n)[k]]

-----------------------------------------------------------------------------
Fresh == [state |-> StartState, count |-> 0, index |-> 0, block |-> [k \in 1..BlockSize |-> 0]]

(* memcpy() of data to the block, from offset `at` on.                      *)
Filled(block, at, data) ==
  [k \in 1..BlockSize |-> IF k - at \in DOMAIN data THEN data[k - at] ELSE block[k]]

Compressed(ctx, block) == [ctx EXCEPT !.state = Compress(@, block), !.count = @ + 1]

Rest(data, n) == SubSeq(data, n + 1, Len(data))

(* The state behind the first n blocks of data.                             *)
Piece(data, k) == SubSeq(data, (k - 1) * BlockSize + 1, k * BlockSize)
Chain(state, data, n) ==
  LET behind[k \in 0..n] ==
        IF k = 0 THEN state ELSE Compress(behind[k - 1], Piece(data, k))
  IN  behind[n]

WholeBlocks(ctx, data) ==
  LET n == Len(data) \div BlockSize
      rest == Rest(data, n * BlockSize)
  IN  [ctx EXCEPT !.state = Chain(@, data, n), !.count = @ + n,
                  !.block = Filled(@, 0, rest), !.index = Len(rest)]

MD_UPDATE(ctx, data) ==
  LET left == BlockSize - ctx.index
      block == Filled(ctx.block, ctx.index, SubSeq(data, 1, left))
  IN  IF ctx.index # 0 /\ Len(data) < left
      THEN [ctx EXCEPT !.block = Filled(@, ctx.index, data), !.index = @ + Len(data)]
      ELSE IF ctx.index # 0
      THEN WholeBlocks([Compressed(ctx, block) EXCEPT !.block = block], Rest(data, left))
      ELSE WholeBlocks(ctx, data)

Zeros(n) == [k \in 1..n |-> 0]

(* Whether the length no longer fits behind the mark.                       *)
(* Mutant: off by one. *)
NoRoomLate(i) == i > BlockSize - SizeField + 1
NoRoom(i) == i > BlockSize - SizeField

MD_PAD(ctx) ==
  LET i == ctx.index + 1
      marked == Filled(ctx.block, ctx.index, <<128>>)
      full == Filled(marked, i, Zeros(BlockSize - i))
      from == IF NoRoom(i) THEN 0 ELSE i
      block == IF NoRoom(i) THEN full ELSE marked
  IN  [ctx EXCEPT !.state = IF NoRoom(i) THEN Compress(@, full) ELSE @,
                  !.block = Filled(block, from, Zeros(BlockSize - SizeField - from))]

(* sha256_write_digest: the last block, and the state behind it.            *)
LastBlock(ctx) ==
  LET bits == 8 * (ctx.count * BlockSize + ctx.index)
  IN  Filled(MD_PAD(ctx).block, BlockSize - SizeField, WriteSize(bits))

Digest(ctx) == Compress(MD_PAD(ctx).state, LastBlock(ctx))

-----------------------------------------------------------------------------
VARIABLES
  ctx,           \* struct sha256_ctx
  digest,        \* what the last digest was, << >> before the first one
  message,       \* history: the bytes since the last initialisation
  hashed         \* history: the message of that digest

hashVars == <<ctx, digest, message, hashed>>

HashInit ==
  /\ ctx = Fresh
  /\ digest = << >> /\ message = << >> /\ hashed = << >>

Update ==
  \E n \in 0..(MaxLen - Len(message)) : \E data \in [1..n -> Data] :
    /\ ctx' = MD_UPDATE(ctx, data)
    /\ message' = message \o data
    /\ UNCHANGED <<digest, hashed>>

sha256_digest ==
  /\ digest' = Digest(ctx)
  /\ ctx' = [Fresh EXCEPT !.block = LastBlock(ctx)]
  /\ hashed' = message
  /\ message' = << >>

HashNext == Update \/ sha256_digest

HashSpec == HashInit /\ [][HashNext]_hashVars

-----------------------------------------------------------------------------
(* The hash of a message in one piece: a mark, zeros up to the length       *)
(* field, the length; then one block after the other.                       *)
PaddedLen(n) ==
  CHOOSE m \in (n + 1 + SizeField)..(n + SizeField + BlockSize) : m % BlockSize = 0

Padded(m) ==
  m \o <<128>> \o Zeros(PaddedLen(Len(m)) - Len(m) - 1 - SizeField) \o WriteSize(8 * Len(m))

HashOf(m) == Chain(StartState, Padded(m), Len(Padded(m)) \div BlockSize)

(* Whatever the pieces and whatever an earlier message left in the block,   *)
(* the digest is the hash of the message (MD_UPDATE, MD_PAD).               *)
DigestOfMessage == digest # << >> => digest = HashOf(hashed)
=============================================================================
