------------------------------- MODULE Mont64 -------------------------------
(***************************************************************************)
(* model/bench/embench/mont64.c in words of W bits (the file's is 64): the *)
(* product in two words, the remainder by shifting and subtracting, the    *)
(* Montgomery product, and the extended binary gcd that prepares it.       *)
(***************************************************************************)
EXTENDS Integers
LOCAL Eager == INSTANCE Words

CONSTANT W        \* bits of a word, even

R == 2 ^ W
HalfR == 2 ^ (W \div 2)
Word == 0..(R - 1)

Bit(b) == IF b THEN 1 ELSE 0

(* Knuth's algorithm M, for compilers without a type of twice the width.    *)
mulul64(u, v) ==
  LET u1 == u \div HalfR    u0 == u % HalfR
      v1 == v \div HalfR    v0 == v % HalfR
      t0 == u0 * v0
      t1 == (u1 * v0 + t0 \div HalfR) % R
      t2 == (u0 * v1 + (t1 % HalfR)) % R
  IN  [hi |-> (u1 * v1 + t1 \div HalfR + t2 \div HalfR) % R,
       lo |-> (t2 * HalfR + (t0 % HalfR)) % R]

(* A negative x is all ones: the shifted-out bit is kept in t.              *)
ShiftSubtract(z, s) ==
  LET out == s.x >= R \div 2
      x == (2 * s.x + Bit(s.y >= R \div 2)) % R
      y == (2 * s.y) % R
      fits == out \/ x >= z
  IN  [x |-> IF fits THEN (x - z) % R ELSE x, y |-> IF fits THEN y + 1 ELSE y]

modul64(x, y, z) == Eager!Turns(LAMBDA i, s : ShiftSubtract(z, s), [x |-> x, y |-> y], W).x

montmul(abar, bbar, m, mprime) ==
  LET t == mulul64(abar, bbar)
      tmm == mulul64((t.lo * mprime) % R, m)
      ulo == (t.lo + tmm.lo) % R
      carry == ulo < t.lo
      uhi == (t.hi + tmm.hi + Bit(carry)) % R
      ov == uhi < t.hi \/ (uhi = t.hi /\ carry)
  IN  IF ov \/ uhi >= m THEN (uhi - m) % R ELSE uhi

(* Dietz's mean of u and beta, which does not need a carry.                 *)
RECURSIVE XorOf(_, _), AndOf(_, _)
XorOf(x, y) == IF x + y = 0 THEN 0 ELSE ((x + y) % 2) + 2 * XorOf(x \div 2, y \div 2)
AndOf(x, y) == IF x = 0 \/ y = 0 THEN 0 ELSE (x % 2) * (y % 2) + 2 * AndOf(x \div 2, y \div 2)
Mean(u, beta) == (XorOf(u, beta) \div 2 + AndOf(u, beta)) % R

xbinGCD(a, b) ==
  LET Halve(i, s) ==
        IF s.a = 0 THEN s
        ELSE IF s.u % 2 = 0 THEN [a |-> s.a \div 2, u |-> s.u \div 2, v |-> s.v \div 2]
        ELSE [a |-> s.a \div 2, u |-> Mean(s.u, b), v |-> (s.v \div 2 + a) % R]
  IN  Eager!Turns(Halve, [a |-> a, u |-> 1, v |-> 0], W)

(* benchmark_body(): the fourth power of a * b, once by remainders and once *)
(* by Montgomery products; errors is what it returns.                       *)
MulMod(x, y, m) == Eager!With(LAMBDA p : modul64(p.hi, p.lo, m), mulul64(x, y))

ByRemainders(a, b, m) ==
  Eager!With(LAMBDA p2 : MulMod(p2, p2, m), Eager!With(LAMBDA p1 : MulMod(p1, p1, m), MulMod(a, b, m)))

ByMontgomery(a, b, m, inv) ==
  LET Mont(x, y) == montmul(x, y, m, inv.v)
      Square(x) == Mont(x, x)
  IN  MulMod(Eager!With(Square, Eager!With(Square, Mont(modul64(a, 0, m), modul64(b, 0, m)))), inv.u, m)

errors(a, b, m) ==
  Eager!With(LAMBDA inv :
         Bit(\/ (R * inv.u - m * inv.v) % R # 1 % R
             \/ ByMontgomery(a, b, m, inv) # ByRemainders(a, b, m)),
       xbinGCD(R \div 2, m))

-----------------------------------------------------------------------------
(* For odd m and a, b below it: no error, the power is the power, and       *)
(* r * rinv - m * mprime is 1, of which the program compares the low word   *)
(* alone (montmul, xbinGCD, modul64, mulul64).                              *)
PowerOfProduct(a, b, m) ==
  LET inv == xbinGCD(R \div 2, m)
      p == (a * b) % m
      p2 == (p * p) % m
  IN  /\ errors(a, b, m) = 0
      /\ ByRemainders(a, b, m) = (p2 * p2) % m
      /\ R * inv.u - m * inv.v = 1
=============================================================================
