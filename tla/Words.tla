------------------------------- MODULE Words -------------------------------
(***************************************************************************)
(* 32-bit unsigned words as TLC can hold them: <<high half, low half>>.    *)
(* Every operator works modulo 2^32, as uint32_t does.  The last section is *)
(* iteration as a loop runs it.                                            *)
(***************************************************************************)
EXTENDS Integers, Sequences
LOCAL INSTANCE TLC

Half == 0..65535
Word == Half \X Half
Zero == <<0, 0>>

FromNat(n) == <<n \div 65536, n % 65536>>

HexDigits == "0123456789abcdef"
HexDigitOf(c) == (CHOOSE i \in 1..16 : SubSeq(HexDigits, i, i) = c) - 1
HexHalf(s) ==
  HexDigitOf(SubSeq(s, 1, 1)) * 4096 + HexDigitOf(SubSeq(s, 2, 2)) * 256
    + HexDigitOf(SubSeq(s, 3, 3)) * 16 + HexDigitOf(SubSeq(s, 4, 4))
Hex(s) == <<HexHalf(SubSeq(s, 1, 4)), HexHalf(SubSeq(s, 5, 8))>>

(* The n-th word of a string of hexadecimal words, one after the other.     *)
HexAt(s, n) == Hex(SubSeq(s, 8 * n - 7, 8 * n))

Bit(n, i) == (n \div 2 ^ i) % 2

(* Two nibbles, bit by bit: the table the halves are looked up in.          *)
And4 == [x, y \in 0..15 |-> Bit(x, 0) * Bit(y, 0) + 2 * Bit(x, 1) * Bit(y, 1)
                              + 4 * Bit(x, 2) * Bit(y, 2) + 8 * Bit(x, 3) * Bit(y, 3)]
AndHalf(x, y) ==
  And4[x % 16, y % 16] + 16 * And4[(x \div 16) % 16, (y \div 16) % 16]
    + 256 * And4[(x \div 256) % 16, (y \div 256) % 16] + 4096 * And4[x \div 4096, y \div 4096]
OrHalf(x, y) == x + y - AndHalf(x, y)
XorHalf(x, y) == x + y - 2 * AndHalf(x, y)

And(a, b) == <<AndHalf(a[1], b[1]), AndHalf(a[2], b[2])>>
Or(a, b) == <<OrHalf(a[1], b[1]), OrHalf(a[2], b[2])>>
Xor(a, b) == <<XorHalf(a[1], b[1]), XorHalf(a[2], b[2])>>
Not(a) == <<65535 - a[1], 65535 - a[2]>>

Plus(a, b) == <<(a[1] + b[1] + (a[2] + b[2]) \div 65536) % 65536, (a[2] + b[2]) % 65536>>


Shl(a, n) ==
  IF n >= 16 THEN <<(a[2] * 2 ^ (n - 16)) % 65536, 0>>
  ELSE <<((a[1] * 2 ^ n) % 65536) + a[2] \div 2 ^ (16 - n), (a[2] * 2 ^ n) % 65536>>
Shr(a, n) ==
  IF n >= 16 THEN <<0, a[1] \div 2 ^ (n - 16)>>
  ELSE <<a[1] \div 2 ^ n, a[2] \div 2 ^ n + (a[1] % 2 ^ n) * 2 ^ (16 - n)>>

(* The product of two halves, and the low word of a product of words.       *)
TimesHalf(x, y) == Plus(FromNat(x * (y % 256)), Shl(FromNat(x * (y \div 256)), 8))
Times(a, b) ==
  Plus(TimesHalf(a[2], b[2]), Shl(Plus(TimesHalf(a[1], b[2]), TimesHalf(a[2], b[1])), 16))

(* The four bytes, the most significant one first.                          *)
Bytes(a) == <<a[1] \div 256, a[1] % 256, a[2] \div 256, a[2] % 256>>
OfBytes(b1, b2, b3, b4) == <<256 * b1 + b2, 256 * b3 + b4>>
-----------------------------------------------------------------------------
(* The random numbers of model/bench/embench/beebsc.c: the low 31 bits of   *)
(* seed * 1103515245 + 12345 are the next seed, and what stands above its   *)
(* low 16 bits is the number.                                               *)
Mask31 == <<32767, 65535>>
NextSeed(seed) == And(Plus(Times(seed, <<16838, 20077>>), FromNat(12345)), Mask31)
rand_beebs(seed) == NextSeed(seed)[1]
-----------------------------------------------------------------------------
(* The value of one turn is computed before the next turn begins.  A plain  *)
(* recursive definition makes TLC carry the unevaluated turns along, and a  *)
(* long loop exhausts its stack.                                            *)
With(F(_), x) == CHOOSE y \in {F(z) : z \in {x}} : TRUE

(* A function with all its values computed, to be looked up in.            *)
Made(f) == f @@ << >>

(* F(n, ... F(2, F(1, x))), halved so that n may be large.                  *)
Turns(F(_, _), x, n) ==
  LET RECURSIVE Run(_, _, _)
      Run(y, first, last) ==
        LET mid == (first + last) \div 2
        IN  IF first > last THEN y
            ELSE IF first = last THEN F(first, y)
            ELSE With(LAMBDA z : Run(z, mid + 1, last), Run(y, first, mid))
  IN  Run(x, 1, n)
=============================================================================
