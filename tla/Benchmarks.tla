----------------------------- MODULE Benchmarks -----------------------------
(***************************************************************************)
(* Benchmarks of model/bench/embench that are one computation:             *)
(* the matrix product of matmult-int.c, the linear equations of libud.c,   *)
(* the prime counter of primecount.c, the signal processing of libedn.c    *)
(* and the archive search of tarfind.c, each with what it is to compute;   *)
(* the table of blocks that libnsichneu.c is; and the containers of        *)
(* sglib.h that are values.                                                *)
(***************************************************************************)
EXTENDS Words, FiniteSets
LOCAL INSTANCE SequencesExt
LOCAL INSTANCE TLC

Sum(f) == LET n == Len(f) IN Turns(LAMBDA k, s : s + f[k], 0, n)
Dot(u, v) == Sum([k \in DOMAIN u |-> u[k] * v[k]])
Column(m, j) == [k \in DOMAIN m |-> m[k][j]]

-----------------------------------------------------------------------------
(* matmult-int.c                                                            *)
UPPERLIMIT == 20
MOD_SIZE == 8095

RandomInteger(seed) == (seed * 133 + 81) % MOD_SIZE

Randoms ==
  Turns(LAMBDA k, s : Append(s, RandomInteger(IF s = << >> THEN 0 ELSE s[k - 1])),
        << >>, 2 * UPPERLIMIT * UPPERLIMIT)

MatrixAt(r, at) ==
  [i \in 1..UPPERLIMIT |-> [j \in 1..UPPERLIMIT |-> r[at + UPPERLIMIT * (i - 1) + j]]]

(* initialise_benchmark(): the first matrix, then the second, row by row.   *)
initialise_benchmark ==
  [A |-> MatrixAt(Randoms, 0), B |-> MatrixAt(Randoms, UPPERLIMIT * UPPERLIMIT)]

Multiply(A, B) == [i \in DOMAIN A |-> [j \in DOMAIN B[1] |-> Dot(A[i], Column(B, j))]]

ResultArray == With(LAMBDA m : Multiply(m.A, m.B), initialise_benchmark)

exp == <<
  << 291018000, 315000075, 279049970, 205074215, 382719905, 302595865, 348060915, 308986330, 343160760, 307099935,
     292564810, 240954510, 232755815, 246511665, 328466830, 263664375, 324016395, 334656070, 285978755, 345370360 >>,
  << 252241835, 333432715, 299220275, 247745815, 422508990, 316728505, 359662270, 277775280, 323336795, 320656600,
     249903690, 251499360, 242195700, 263484280, 348207635, 289485100, 328607555, 300799835, 269351410, 305703460 >>,
  << 304901010, 316252815, 263230275, 208939015, 421993740, 335002930, 348571170, 280992155, 289749970, 259701175,
     295249990, 310900035, 250896625, 250154105, 315096035, 236364800, 312879355, 312580685, 275998435, 344137885 >>,
  << 286700525, 325985600, 253054970, 224361490, 353502130, 306544290, 323492140, 259123905, 307731610, 282414410,
     281127810, 246936935, 207890815, 233789540, 339836730, 277296350, 319925620, 307470895, 290537580, 292297535 >>,
  << 272571255, 377663320, 304545985, 263001340, 375034885, 325423710, 410620380, 313191730, 356989815, 308508355,
     218003850, 272487135, 266000220, 264734710, 367539620, 304146675, 355295500, 276019740, 251415695, 301225235 >>,
  << 272547900, 321522300, 288294345, 247748015, 389912855, 331874890, 370798315, 315467255, 367554485, 311947660,
     258809685, 270536510, 256730515, 287143040, 363087030, 285672775, 353670120, 304219695, 274897255, 324684660 >>,
  << 233123995, 227142480, 212655155, 198592290, 345335250, 302661845, 253374925, 233243305, 233750030, 224590040,
     200404820, 250791135, 234405760, 211723645, 280630165, 185245875, 296423665, 276278575, 252368265, 278726535 >>,
  << 277690535, 339615440, 320921550, 307114315, 400187215, 334374655, 376286920, 295993530, 362988020, 356272700,
     293965465, 261574710, 259690975, 263037705, 416748985, 274683275, 385571030, 402782385, 323927010, 362778710 >>,
  << 267168970, 323401680, 279474330, 201934365, 362624300, 330736145, 371793675, 299650280, 333646005, 264791490,
     215918320, 277512760, 264068435, 234555295, 321772515, 217507025, 310372440, 317544750, 245525965, 343183435 >>,
  << 281293570, 326519505, 233494705, 238516065, 297038200, 266273420, 349521550, 259343530, 306032255, 266397915,
     210274920, 263743085, 231689610, 251949545, 293562740, 226822900, 309225440, 286212000, 206108715, 236678985 >>,
  << 288404350, 310319375, 282695670, 244150740, 426489380, 387525790, 342018190, 326086505, 352250260, 319997735,
     300645835, 284822660, 271837440, 274000415, 361826730, 252399600, 348582320, 375813820, 316588255, 322499110 >>,
  << 273368780, 329706295, 288668335, 234501665, 381962610, 343186285, 337520205, 259637405, 295755465, 284778105,
     205310525, 249598310, 256662470, 251533535, 336159770, 249342150, 333559450, 329296590, 278254845, 300673860 >>,
  << 318589575, 315522800, 260632295, 250009765, 337127730, 312810490, 346698590, 260810030, 388289910, 337081285,
     283635410, 208148610, 234123865, 259653165, 370115255, 243311450, 377808245, 358786770, 286839730, 321912835 >>,
  << 229541925, 253967450, 223002545, 202302515, 303446955, 268472740, 285580065, 211013405, 287677960, 279773910,
     227377310, 197461135, 222469715, 179536615, 306957380, 178407075, 281051570, 279718120, 234868230, 288991535 >>,
  << 290692955, 317729070, 297868235, 213450065, 469270935, 375344910, 326987580, 334565680, 325300040, 290325655,
     254703825, 284914960, 245773820, 276641510, 323510795, 271034400, 337424250, 360011440, 281515520, 331261535 >>,
  << 287075125, 313194850, 269889345, 208109115, 420653930, 331900290, 355440665, 318065155, 343785360, 302163035,
     308959360, 312666110, 268997740, 288557415, 370158305, 205012650, 318198795, 384484520, 316450105, 378714460 >>,
  << 278680580, 356815220, 307597060, 216073365, 390879235, 358775185, 358895230, 306434180, 315569040, 272688130,
     249424325, 274584610, 273530970, 265450585, 325127920, 312802050, 317134900, 298518590, 269975470, 332586535 >>,
  << 245629780, 267021570, 234689035, 208808065, 366356035, 267059560, 349348005, 270158755, 348048340, 291550930,
     272717800, 259714410, 236033845, 280627610, 335089770, 176610475, 259339950, 322752840, 236218295, 329687310 >>,
  << 226517370, 272306005, 271484080, 216145515, 400972075, 288475645, 332969550, 338410905, 329052205, 330392265,
     306488095, 271979085, 232795960, 257593945, 339558165, 202700275, 320622065, 386350450, 315344865, 329233410 >>,
  << 224852610, 231292540, 236945875, 243273740, 336327040, 305144680, 248261920, 191671605, 241699245, 263085200,
     198883715, 175742885, 202517850, 172427630, 296304160, 209188850, 326546955, 252990460, 238844535, 289753485 >> >>

-----------------------------------------------------------------------------
(* libud.c: C's division rounds towards zero.                               *)
Abs(n) == IF n < 0 THEN -n ELSE n
Sign(n) == IF n < 0 THEN -1 ELSE 1
Div(n, d) == Sign(n) * Sign(d) * (Abs(n) \div Abs(d))

(* What is left of entry (i, j) when its first m products are taken off.    *)
Reduced(a, i, j, m) == a[i][j] - Sum([k \in 1..m |-> a[i][k] * a[k][j]])

LowerColumn(a, i) ==
  [j \in DOMAIN a |-> IF j <= i THEN a[j]
                      ELSE [a[j] EXCEPT ![i] = Div(Reduced(a, j, i, i - 1), a[i][i])]]
UpperRow(a, i) ==
  [a EXCEPT ![i + 1] = [j \in DOMAIN a |-> IF j <= i THEN @[j] ELSE Reduced(a, i + 1, j, i)]]

Factored(a) == Turns(LAMBDA i, m : UpperRow(LowerColumn(m, i), i), a, Len(a) - 1)

Forward(a, b) ==
  Turns(LAMBDA i, y : Append(y, b[i] - Sum([j \in 1..(i - 1) |-> a[i][j] * y[j]])), << >>, Len(b))

(* x holds the entries from i + 1 on: the one for i is put before them.     *)
Back(a, y) ==
  LET n == Len(y)
      Solve(s, x) ==
        LET i == n + 1 - s
            w == y[i] - Sum([j \in 1..(n - i) |-> a[i][i + j] * x[j]])
        IN  <<Div(w, a[i][i])>> \o x
  IN  Turns(Solve, << >>, n)

ludcmp(a, b) == With(LAMBDA m : Back(m, Forward(m, b)), Factored(a))

(* benchmark_body(): i + j on either side of the diagonal, twice that on it *)
(* (rows and columns count from 1), and the sums of the rows on the right.  *)
UdMatrix == [i \in 1..6 |-> [j \in 1..6 |-> IF i = j THEN 2 * (i + j) ELSE i + j]]
UdSums == [i \in 1..6 |-> Sum(UdMatrix[i])]
x_ref == <<0, 0, 1, 1, 1, 2>>

-----------------------------------------------------------------------------
(* primecount.c: the primes found first sieve the numbers that follow.      *)
RECURSIVE Sieved(_, _)
Sieved(s, i) ==
  IF i > Len(s.primes) THEN [s EXCEPT !.end = "break"]
  ELSE IF s.primes[i] > s.sqr THEN [s EXCEPT !.end = "found_prime"]
  ELSE LET p == s.primes[i]
           missing == IF s.sieve[i] < s.trial THEN s.trial - s.sieve[i] ELSE 0
           next == s.sieve[i] + p * ((missing + p - 1) \div p)
       IN  With(LAMBDA t : IF next = s.trial THEN [t EXCEPT !.end = "try_next"] ELSE Sieved(t, i + 1),
                [s EXCEPT !.sieve[i] = next])

(* The root is counted up past the trial and then down by one.              *)
Root(sqr, trial) == (CHOOSE r \in sqr..(sqr + 2) : r * r > trial /\ \A q \in sqr..(r - 1) : q * q <= trial) - 1

Found(s, SZ) ==
  [s EXCEPT !.primes = IF Len(@) < SZ THEN Append(@, s.trial) ELSE @,
            !.sieve = IF Len(@) < SZ THEN Append(@, s.trial * s.trial) ELSE @,
            !.nPrimes = @ + 1]

Trial(s, SZ) ==
  With(LAMBDA t : CASE t.end = "break" -> t
                    [] t.end = "found_prime" -> [Found(t, SZ) EXCEPT !.trial = @ + 1]
                    [] t.end = "try_next" -> [t EXCEPT !.trial = @ + 1],
       Sieved([s EXCEPT !.sqr = Root(@, s.trial)], 1))

countPrimes(SZ, most) ==
  Turns(LAMBDA n, s : IF s.end = "break" THEN s ELSE Trial(s, SZ),
        [primes |-> <<2>>, sieve |-> <<4>>, nPrimes |-> 1, trial |-> 3, sqr |-> 2, end |-> "go"],
        most)
NPRIMES == 3512

-----------------------------------------------------------------------------
(* A system whose matrix is the product of a lower matrix with ones on the  *)
(* diagonal and an upper one divides without remainder: its solution is     *)
(* found (ludcmp).                                                          *)
Solves(lower, upper, x) ==
  LET a == Multiply(lower, upper)
      b == [i \in DOMAIN a |-> Dot(a[i], x)]
  IN  ludcmp(a, b) = x

(* The counter stops behind the square of the SZ-th prime with the number   *)
(* of all primes up to it, although it stores only SZ (countPrimes).        *)
IsPrime(n) == n > 1 /\ \A d \in 2..(n - 1) : n % d # 0
CountsPrimes(SZ, most) ==
  LET s == countPrimes(SZ, most)
      last == s.primes[SZ]
  IN  /\ s.end = "break" /\ Len(s.primes) = SZ
      /\ s.nPrimes = Cardinality({n \in 2..(last * last) : IsPrime(n)})

-----------------------------------------------------------------------------
(* libedn.c: the signal-processing functions, which run one after the other *)
(* on the same two arrays.  A short is what is left of a number in 16 bits; *)
(* >> rounds down.                                                          *)

Short(n) == ((n + 32768) % 65536) - 32768
Shift(n, bits) == n \div 2 ^ bits

N == 100
ORDER == 50

SumOf(F(_), n) == Turns(LAMBDA i, s : s + F(i - 1), 0, n)

(* Arrays count from 0, as in the code.                                     *)
vec_mpy1(y, x, scaler) ==
  [i \in DOMAIN y |-> IF i < 150 THEN Short(y[i] + Shift(scaler * x[i], 15)) ELSE y[i]]

mac(a, b, sqr, sum) ==
  [dotp |-> sum + SumOf(LAMBDA i : b[i] * a[i], 150),
   sqr |-> sqr + SumOf(LAMBDA i : b[i] * b[i], 150)]

fir(array1, coeff, output) ==
  [i \in DOMAIN output |->
     IF i < N - ORDER THEN Shift(SumOf(LAMBDA j : array1[i + j] * coeff[j], ORDER), 15) ELSE output[i]]

(* Two outputs at a time; a sample once loaded serves both.                 *)
Pair(x, h, j) ==
  LET Turn(n, s) ==
        LET i == 2 * (n - 1)
            x1 == x[j + i + 1]
            x2 == x[j + i + 2]
        IN  [x0 |-> x2, sum0 |-> s.sum0 + s.x0 * h[i] + x1 * h[i + 1],
             sum1 |-> s.sum1 + x1 * h[i] + x2 * h[i + 1]]
  IN  Turns(Turn, [x0 |-> x[j], sum0 |-> 0, sum1 |-> 0], 16)
fir_no_red_ld(x, h, y) ==
  LET pairs == [p \in 0..49 |-> Pair(x, h, 2 * p)]
  IN  [j \in DOMAIN y |->
         IF j >= 100 THEN y[j]
         ELSE Shift(IF j % 2 = 0 THEN pairs[j \div 2].sum0 ELSE pairs[j \div 2].sum1, 15)]

latsynth(b, k, n, f) ==
  LET Stage(t, s) ==
        LET i == n - 1 - t
            g == s.f - s.b[i] * k[i]
        IN  [f |-> g, b |-> [s.b EXCEPT ![i + 1] = Short(s.b[i] + Shift(k[i] * Shift(g, 16), 16))]]
      last == Turns(Stage, [f |-> f - b[n - 1] * k[n - 1], b |-> b], n - 1)
  IN  [f |-> last.f, b |-> [last.b EXCEPT ![0] = Short(Shift(last.f, 16))]]

(* The states are pairs of the array that also takes the result, at `at`.   *)
iir1(coefs, input, output, at) ==
  LET Stage(n, s) ==
        LET c == 4 * (n - 1)
            p == 2 * (n - 1)
            o == s.output
            t == s.x + Shift(coefs[c + 2] * o[p] + coefs[c + 3] * o[p + 1], 15)
        IN  [x |-> t + Shift(coefs[c] * o[p] + coefs[c + 1] * o[p + 1], 15),
             output |-> [o EXCEPT ![p + 1] = o[p], ![p] = t]]
      last == Turns(Stage, [x |-> input[0], output |-> output], 50)
  IN  [last.output EXCEPT ![at] = last.x]

(* The search itself is commented out: g is returned as it came.            *)
codebook(g) == g

(* One butterfly over the eight entries `at`, at + k, ... of d.             *)
Butterfly(d, r, at, k, m, n) ==
  LET D(j) == d[at + k * j]
      t0 == D(0) + D(7)   t7 == D(0) - D(7)
      t1 == D(1) + D(6)   t6 == D(1) - D(6)
      t2 == D(2) + D(5)   t5 == D(2) - D(5)
      t3 == D(3) + D(4)   t4 == D(3) - D(4)
      even == t0 + t3     t9 == t0 - t3
      odd == t1 + t2      t11 == t1 - t2
      t8 == Short(t11 + t9) * r[10]
      s0 == Short(t4 + t7) * r[2]
      s1 == Short(t5 + t6) * r[0]
      both == Short(t4 + t6 + t5 + t7) * r[8]
      s2 == Short(t4 + t6) * r[1] + both
      s3 == Short(t5 + t7) * r[3] + both
      out == <<Shift(even + odd, m),
               Shift(Short(t7 * r[7] + s0 + s3), n),
               t8 + Short(Shift(t9 * r[9], n)),
               Shift(Short(t6 * r[5] + s1 + s2), n),
               Shift(even - odd, m),
               Shift(Short(t5 * r[6] + s1 + s3), n),
               t8 + Short(Shift(t11 * r[11], n)),
               Shift(Short(t4 * r[4] + s0 + s2), n)>>
  IN  [x \in DOMAIN d |->
         IF \E j \in 0..7 : x = at + k * j THEN Short(out[(x - at) \div k + 1]) ELSE d[x]]

(* The rows, then the columns.                                              *)
jpegdct(d, r) ==
  With(LAMBDA rows : Turns(LAMBDA i, e : Butterfly(e, r, i - 1, 8, 3, 16), rows, 8),
       Turns(LAMBDA i, e : Butterfly(e, r, 8 * (i - 1), 1, 0, 13), d, 8))

-----------------------------------------------------------------------------
(* benchmark_body(), from arrays that are still zero.                       *)
in_a == [i \in 0..199 |-> Short(<<0, 2047, 3072, 2048, 512, 63488, 62208, 1024>>[(i % 8) + 1])]
in_b == [i \in 0..199 |-> Short(<<3168, 3136, 3104, 3072, 62976, 62464, 61952, 61440>>[(i % 8) + 1])]
Zeros == [i \in 0..199 |-> 0]

Scaled == vec_mpy1(in_a, in_b, 3)
Filtered(a) ==
  With(LAMBDA s : [c |-> Short(s.sqr),
                   output |-> fir_no_red_ld(a, in_b, fir(a, in_b, [Zeros EXCEPT ![0] = s.dotp]))],
       mac(a, in_b, 3, 0))
Synthesized(a, output) ==
  With(LAMBDA l : [d |-> l.f, a |-> l.b, output |-> iir1(l.b, in_b, output, 100)],
       latsynth(a, in_b, N, 43690))

benchmark_body ==
  With(LAMBDA a :
         With(LAMBDA f :
                With(LAMBDA l : [c |-> f.c, d |-> l.d, e |-> codebook(l.d),
                                 a |-> jpegdct(l.a, in_b), output |-> l.output],
                     Synthesized(a, f.output)),
              Filtered(a)),
       Scaled)

exp_output == <<
  3760, 4269, 3126, 1030, 2453, -4601, 1981, -1056, 2621, 4269,
  3058, 1030, 2378, -4601, 1902, -1056, 2548, 4269, 2988, 1030,
  2300, -4601, 1822, -1056, 2474, 4269, 2917, 1030, 2220, -4601,
  1738, -1056, 2398, 4269, 2844, 1030, 2140, -4601, 1655, -1056,
  2321, 4269, 2770, 1030, 2058, -4601, 1569, -1056, 2242, 4269,
  2152, 1030, 1683, -4601, 1627, -1056, 2030, 4269, 2080, 1030,
  1611, -4601, 1555, -1056, 1958, 4269, 2008, 1030, 1539, -4601,
  1483, -1056, 1886, 4269, 1935, 1030, 1466, -4601, 1410, -1056,
  1813, 4269, 1862, 1030, 1393, -4601, 1337, -1056, 1740, 4269,
  1789, 1030, 1320, -4601, 1264, -1056, 1667, 4269, 1716, 1030,
  1968 >>

(* verify_benchmark()                                                       *)
Verified(r) ==
  /\ \A i \in 0..199 : r.output[i] = IF i < 101 THEN exp_output[i + 1] ELSE 0
  /\ r.c = 10243 /\ r.d = -441886230 /\ r.e = -441886230

-----------------------------------------------------------------------------
(* Sharing the loads of two outputs changes none of them: every output is   *)
(* the sum of 32 products (fir_no_red_ld).                                  *)
SharedLoadsFilter(x, h) ==
  LET y == fir_no_red_ld(x, h, Zeros)
  IN  \A j \in 0..99 : y[j] = Shift(SumOf(LAMBDA i : x[j + i] * h[i], 32), 15)

-----------------------------------------------------------------------------
(* tarfind.c: an archive of records with random names, and the search for   *)
(* five of them.  A name is the sequence of its characters up to the NUL.   *)

ARCHIVE_FILES == 35
N_SEARCHES == 5
RecordSize == 257           \* sizeof(tar_header_t)
PointerSize == 4            \* sizeof(void *) of the target
roundup(d, u) == ((d + u) \div u) * u
HEAP_SIZE == roundup(8995, PointerSize)

NameLength(i) == 5 + (i % 94)

(* The characters are drawn one after the other, the seed is carried on.    *)
Character(k, s) ==
  [seed |-> NextSeed(s.seed), name |-> Append(s.name, (rand_beebs(s.seed) % 26) + 65)]
Record(i, s) ==
  With(LAMBDA r : [seed |-> r.seed, hdr |-> Append(s.hdr, r.name)],
       Turns(Character, [seed |-> s.seed, name |-> << >>], NameLength(i - 1)))
Archive == Turns(Record, [seed |-> Zero, hdr |-> << >>], ARCHIVE_FILES).hdr

(* strcmp() by hand: the names differ where the walk stops, or both end.    *)
Stop(c1, c2) ==
  CHOOSE k \in 1..(Len(c1) + 1) :
    /\ k > Len(c1) \/ k > Len(c2) \/ c1[k] # c2[k]
    /\ \A j \in 1..(k - 1) : j <= Len(c2) /\ c1[j] = c2[j]
Matches(c1, c2) == LET k == Stop(c1, c2) IN k > Len(c1) /\ k > Len(c2)

Searched(p) == ((p - 1 + ARCHIVE_FILES \div 2) % ARCHIVE_FILES) + 1
FoundAt(hdr, p) ==
  LET hits == {i \in 1..Len(hdr) : Matches(hdr[i], hdr[Searched(p)])}
  IN  IF hits = {} THEN 0 ELSE CHOOSE i \in hits : \A j \in hits : i <= j
found(hdr) == Turns(LAMBDA p, n : IF FoundAt(hdr, p) > 0 THEN n + 1 ELSE n, 0, N_SEARCHES)

(* The single request of the program, at a heap that begins at `address`.   *)
Granted(address) ==
  LET next == address + RecordSize * ARCHIVE_FILES
  IN  next + ((PointerSize - (next % PointerSize)) % PointerSize) <= address + HEAP_SIZE

-----------------------------------------------------------------------------
(* Every search ends at the very record whose name it looks for (no earlier *)
(* record has that name), and the request is granted when the array starts  *)
(* at a word (benchmark_body, HEAP_SIZE).                                   *)
SearchesEnd ==
  /\ \A p \in 1..N_SEARCHES : FoundAt(Archive, p) = Searched(p)
  /\ found(Archive) = N_SEARCHES
  /\ \A address \in 0..64 : address % PointerSize = 0 => Granted(address)

-----------------------------------------------------------------------------
(* The order of the blocks of libnsichneu.c.  A block takes one permutation *)
(* of slots; the permutations that name the same slots for a transition's   *)
(* own variables follow one another.                                        *)
Perms(i, j, rests) == [n \in DOMAIN rests |-> <<i, j>> \o rests[n]]

T1Blocks == << <<0, 1, 2>>, <<0, 2, 1>>, <<1, 0, 2>>,
               <<1, 2, 0>>, <<2, 0, 1>>, <<2, 1, 0>> >>

(* Four members, none of them in the last slot: tried first.                *)
T2of4_01 == Perms(0, 1, << <<2, 3>>, <<3, 2>> >>)
T2of4_02 == Perms(0, 2, << <<1, 3>>, <<3, 1>> >>)
T2of4_03 == Perms(0, 3, << <<1, 2>>, <<2, 1>> >>)
T2of4_10 == Perms(1, 0, << <<2, 3>>, <<3, 2>> >>)
T2of4_12 == Perms(1, 2, << <<0, 3>>, <<3, 0>> >>)
T2of4_13 == Perms(1, 3, << <<0, 2>>, <<2, 0>> >>)
T2of4_20 == Perms(2, 0, << <<1, 3>>, <<3, 1>> >>)
T2of4_21 == Perms(2, 1, << <<0, 3>>, <<3, 0>> >>)
T2of4_23 == Perms(2, 3, << <<0, 1>>, <<1, 0>> >>)
T2of4_30 == Perms(3, 0, << <<1, 2>>, <<2, 1>> >>)
T2of4_31 == Perms(3, 1, << <<0, 2>>, <<2, 0>> >>)
T2of4_32 == Perms(3, 2, << <<0, 1>>, <<1, 0>> >>)

(* Four of five members.                                                    *)
T2of5_01 == Perms(0, 1, << <<2, 4>>, <<3, 4>>, <<4, 2>>, <<4, 3>> >>)
T2of5_02 == Perms(0, 2, << <<1, 4>>, <<3, 4>>, <<4, 1>>, <<4, 3>> >>)
T2of5_03 == Perms(0, 3, << <<1, 4>>, <<2, 4>>, <<4, 1>>, <<4, 2>> >>)
T2of5_041 == Perms(0, 4, << <<1, 2>>, <<1, 3>> >>)
T2of5_042 == Perms(0, 4, << <<2, 1>>, <<2, 3>> >>)
T2of5_043 == Perms(0, 4, << <<3, 1>>, <<3, 2>> >>)
T2of5_10 == Perms(1, 0, << <<2, 4>>, <<3, 4>>, <<4, 2>>, <<4, 3>> >>)
T2of5_12 == Perms(1, 2, << <<0, 4>>, <<3, 4>>, <<4, 0>>, <<4, 3>> >>)
T2of5_13 == Perms(1, 3, << <<0, 4>>, <<2, 4>>, <<4, 0>>, <<4, 2>> >>)
T2of5_140 == Perms(1, 4, << <<0, 2>>, <<0, 3>> >>)
T2of5_142 == Perms(1, 4, << <<2, 0>>, <<2, 3>> >>)
T2of5_143 == Perms(1, 4, << <<3, 0>>, <<3, 2>> >>)
T2of5_20 == Perms(2, 0, << <<1, 4>>, <<3, 4>>, <<4, 1>>, <<4, 3>> >>)
T2of5_21 == Perms(2, 1, << <<0, 4>>, <<3, 4>>, <<4, 0>>, <<4, 3>> >>)
T2of5_23 == Perms(2, 3, << <<0, 4>>, <<1, 4>>, <<4, 0>>, <<4, 1>> >>)
T2of5_240 == Perms(2, 4, << <<0, 1>>, <<0, 3>> >>)
T2of5_241 == Perms(2, 4, << <<1, 0>>, <<1, 3>> >>)
T2of5_243 == Perms(2, 4, << <<3, 0>>, <<3, 1>> >>)
T2of5_30 == Perms(3, 0, << <<1, 4>>, <<2, 4>>, <<4, 1>>, <<4, 2>> >>)
T2of5_31 == Perms(3, 1, << <<0, 4>>, <<2, 4>>, <<4, 0>>, <<4, 2>> >>)
T2of5_32 == Perms(3, 2, << <<0, 4>>, <<1, 4>>, <<4, 0>>, <<4, 1>> >>)
T2of5_340 == Perms(3, 4, << <<0, 1>>, <<0, 2>> >>)
T2of5_341 == Perms(3, 4, << <<1, 0>>, <<1, 2>> >>)
T2of5_342 == Perms(3, 4, << <<2, 0>>, <<2, 1>> >>)
T2of5_401 == Perms(4, 0, << <<1, 2>>, <<1, 3>> >>)
T2of5_402 == Perms(4, 0, << <<2, 1>>, <<2, 3>> >>)
T2of5_403 == Perms(4, 0, << <<3, 1>>, <<3, 2>> >>)
T2of5_410 == Perms(4, 1, << <<0, 2>>, <<0, 3>> >>)
T2of5_412 == Perms(4, 1, << <<2, 0>>, <<2, 3>> >>)
T2of5_413 == Perms(4, 1, << <<3, 0>>, <<3, 2>> >>)
T2of5_420 == Perms(4, 2, << <<0, 1>>, <<0, 3>> >>)
T2of5_421 == Perms(4, 2, << <<1, 0>>, <<1, 3>> >>)
T2of5_423 == Perms(4, 2, << <<3, 0>>, <<3, 1>> >>)
T2of5_430 == Perms(4, 3, << <<0, 1>>, <<0, 2>> >>)
T2of5_431 == Perms(4, 3, << <<1, 0>>, <<1, 2>> >>)
T2of5_432 == Perms(4, 3, << <<2, 0>>, <<2, 1>> >>)

T2Blocks ==
  T2of4_01 \o T2of4_02 \o T2of4_03 \o T2of4_10 \o T2of4_12 \o T2of4_13
    \o T2of4_20 \o T2of4_21 \o T2of4_23 \o T2of4_30 \o T2of4_31 \o T2of4_32
    \o T2of5_01 \o T2of5_02 \o T2of5_03 \o T2of5_041 \o T2of5_042 \o T2of5_043
    \o T2of5_10 \o T2of5_12 \o T2of5_13 \o T2of5_140 \o T2of5_142 \o T2of5_143
    \o T2of5_20 \o T2of5_21 \o T2of5_23 \o T2of5_240 \o T2of5_241 \o T2of5_243
    \o T2of5_30 \o T2of5_31 \o T2of5_32 \o T2of5_340 \o T2of5_341 \o T2of5_342
    \o T2of5_401 \o T2of5_402 \o T2of5_403 \o T2of5_410 \o T2of5_412 \o T2of5_413
    \o T2of5_420 \o T2of5_421 \o T2of5_423 \o T2of5_430 \o T2of5_431 \o T2of5_432

Blocks == T1Blocks \o T2Blocks

-----------------------------------------------------------------------------
(* sglib.h and combined.c: the containers that are values: sorts of an      *)
(* array, binary search, the queue and the priority queue in an array, the  *)
(* linked lists and the table of lists.  An array is a function from 0 on,  *)
(* a list the sequence of its elements, and an element the number the       *)
(* comparator compares.                                                     *)
ARRAY_ELEMENTS_EXCHANGER(a, i, j) == [a EXCEPT ![i] = a[j], ![j] = a[i]]

-----------------------------------------------------------------------------
RECURSIVE ARRAY_HEAP_DOWN(_, _, _)
ARRAY_HEAP_DOWN(a, i, max) ==
  LET l == 2 * i + 1
      r == l + 1
      m1 == IF l < max /\ a[i] < a[l] THEN l ELSE i
      m == IF r < max /\ a[m1] < a[r] THEN r ELSE m1
  IN  IF m = i THEN a ELSE ARRAY_HEAP_DOWN(ARRAY_ELEMENTS_EXCHANGER(a, i, m), m, max)

ARRAY_HEAP_SORT(a, max) ==
  LET RECURSIVE Build(_, _), Extract(_, _)
      Build(b, k) == IF k < 0 THEN b ELSE Build(ARRAY_HEAP_DOWN(b, k, max), k - 1)
      Extract(b, k) ==
        IF k < 0 THEN b
        ELSE Extract(ARRAY_HEAP_DOWN(ARRAY_ELEMENTS_EXCHANGER(b, 0, k), 0, k), k - 1)
  IN  Extract(Build(a, max \div 2), max - 1)

(* The pivot a[p] to its place: the result has the array and that place.    *)
RECURSIVE Partition(_, _, _, _)
Partition(a, p, i, j) ==
  LET up == CHOOSE k \in i..(j + 1) : (k > j \/ a[k] > a[p]) /\ \A n \in i..(k - 1) : a[n] <= a[p]
      down == CHOOSE k \in (up - 1)..j : (k < up \/ a[k] < a[p]) /\ \A n \in (k + 1)..j : a[n] >= a[p]
      swapped == ARRAY_ELEMENTS_EXCHANGER(a, up, down)
  IN  IF i >= j THEN [a |-> a, at |-> j]
      ELSE IF up > j THEN [a |-> ARRAY_ELEMENTS_EXCHANGER(a, j, p), at |-> j]
      ELSE IF up > down THEN [a |-> ARRAY_ELEMENTS_EXCHANGER(a, down, p), at |-> down]
      ELSE IF up + 2 < down THEN Partition(swapped, p, up + 1, down - 1)
      ELSE IF up + 1 < down THEN Partition(swapped, p, up + 1, down)
      ELSE Partition(swapped, p, up, down)

(* One range in hand, the others on the stack; deepest is the most there    *)
(* were.  The larger part is pushed, the smaller one sorted first.          *)
RECURSIVE Quick(_)
Quick(q) ==
  LET start == q.start
      end == q.end
      part == Partition(q.a, start, start + 1, end - 1)
      at == part.at
      left == <<start, at>>
      right == <<at + 1, end>>
      leftBig == at - start > 1
      rightBig == end - at > 1
      Go(range, stack) ==
        Quick([a |-> part.a, start |-> range[1], end |-> range[2], stack |-> stack,
               deepest |-> IF Len(stack) > q.deepest THEN Len(stack) ELSE q.deepest])
      pair == IF end - start = 2 /\ q.a[start] > q.a[end - 1]
              THEN ARRAY_ELEMENTS_EXCHANGER(q.a, start, end - 1) ELSE q.a
      n == Len(q.stack)
  IN  IF end - start > 2
      THEN IF leftBig /\ rightBig
           THEN IF at - start < end - at - 1 THEN Go(left, Append(q.stack, right))
                ELSE Go(right, Append(q.stack, left))
           ELSE Go(IF leftBig THEN left ELSE right, q.stack)
      ELSE IF n = 0 THEN [a |-> pair, deepest |-> q.deepest]
      ELSE Quick([q EXCEPT !.a = pair, !.start = q.stack[n][1], !.end = q.stack[n][2],
                           !.stack = SubSeq(@, 1, n - 1)])

ARRAY_QUICK_SORT(a, max) ==
  Quick([a |-> a, start |-> 0, end |-> max, stack |-> << >>, deepest |-> 1])

RECURSIVE Bisect(_, _, _, _)
Bisect(a, i, j, key) ==
  LET k == (i + j) \div 2
  IN  IF i > j THEN [found |-> FALSE, result_index |-> j + 1]
      ELSE IF a[k] = key THEN [found |-> TRUE, result_index |-> k]
      ELSE IF a[k] < key THEN Bisect(a, k + 1, j, key) ELSE Bisect(a, i, k - 1, key)
ARRAY_BINARY_SEARCH(a, start_index, end_index, key) == Bisect(a, start_index, end_index, key)

-----------------------------------------------------------------------------
(* A queue is a ring of dim slots with one always free; an operation that   *)
(* would fail its assertion has no result here.                             *)
QUEUE_INIT(dim) == [a |-> [n \in 0..(dim - 1) |-> 0], i |-> 0, j |-> 0, dim |-> dim]
QUEUE_IS_EMPTY(q) == q.i = q.j
QUEUE_IS_FULL(q) == q.i = (q.j + 1) % q.dim
QUEUE_FIRST_ELEMENT(q) == q.a[q.i]
QUEUE_ADD(q, elem) == [q EXCEPT !.a[q.j] = elem, !.j = (@ + 1) % q.dim]
QUEUE_DELETE(q) == [q EXCEPT !.i = (@ + 1) % q.dim]

(* A priority queue: h.i elements in h.a.  An element rises along i / 2.    *)
HEAP_INIT(dim) == [a |-> [n \in 0..(dim - 1) |-> 0], i |-> 0]
HEAP_IS_EMPTY(h) == h.i = 0
HEAP_FIRST_ELEMENT(h) == h.a[0]

RECURSIVE Rise(_, _)
Rise(a, i) ==
  IF i > 0 /\ a[i \div 2] < a[i] THEN Rise(ARRAY_ELEMENTS_EXCHANGER(a, i \div 2, i), i \div 2) ELSE a

HEAP_ADD(h, elem) == [a |-> Rise([h.a EXCEPT ![h.i] = elem], h.i), i |-> h.i + 1]
HEAP_DELETE(h) ==
  [a |-> ARRAY_HEAP_DOWN([h.a EXCEPT ![0] = h.a[h.i - 1]], 0, h.i - 1), i |-> h.i - 1]

RECURSIVE Drained(_)
Drained(h) == IF HEAP_IS_EMPTY(h) THEN << >> ELSE <<HEAP_FIRST_ELEMENT(h)>> \o Drained(HEAP_DELETE(h))

RECURSIVE Heaped(_, _)
Heaped(h, s) == IF s = << >> THEN h ELSE Heaped(HEAP_ADD(h, Head(s)), Tail(s))

-----------------------------------------------------------------------------
(* SGLIB_LIST_SORT: runs of n are merged two by two, n doubles.  Of two     *)
(* equal elements the later run's comes first.  Key is what the comparator  *)
(* sees of an element.                                                      *)
RECURSIVE Merged(_, _, _)
Merged(Key, a, b) ==
  IF a = << >> \/ b = << >> THEN a \o b
  ELSE IF Key[a[1]] < Key[b[1]] THEN <<a[1]>> \o Merged(Key, Tail(a), b)
  ELSE <<b[1]>> \o Merged(Key, a, Tail(b))

RECURSIVE MergedRuns(_, _, _)
MergedRuns(Key, s, n) ==
  IF Len(s) <= n THEN s
  ELSE LET m == IF 2 * n < Len(s) THEN 2 * n ELSE Len(s)
       IN  Merged(Key, SubSeq(s, 1, n), SubSeq(s, n + 1, m)) \o MergedRuns(Key, SubSeq(s, m + 1, Len(s)), n)

RECURSIVE SortedFrom(_, _, _)
SortedFrom(Key, s, n) == IF n >= Len(s) THEN s ELSE SortedFrom(Key, MergedRuns(Key, s, n), n + n)
LIST_SORT(Key, s) == SortedFrom(Key, s, 1)

-----------------------------------------------------------------------------
(* Lists: new elements in front.                                            *)
LIST_ADD(list, elem) == <<elem>> \o list
LIST_FIND_MEMBER(list, elem) == Contains(list, elem)
Place(list, elem) == CHOOSE i \in DOMAIN list : list[i] = elem /\ \A j \in 1..(i - 1) : list[j] # elem
LIST_ADD_IF_NOT_MEMBER(list, elem) == IF LIST_FIND_MEMBER(list, elem) THEN list ELSE LIST_ADD(list, elem)
LIST_DELETE_IF_MEMBER(list, elem) ==
  IF LIST_FIND_MEMBER(list, elem) THEN RemoveAt(list, Place(list, elem)) ELSE list

(* A sorted list: the place of elem is before the first that is not less.   *)
SORTED_LIST_FIND_MEMBER_OR_PLACE(list, elem) ==
  CHOOSE i \in 1..(Len(list) + 1) :
    /\ \A j \in 1..(i - 1) : list[j] < elem
    /\ i <= Len(list) => list[i] >= elem
SORTED_LIST_ADD(list, elem) == InsertAt(list, SORTED_LIST_FIND_MEMBER_OR_PLACE(list, elem), elem)
SORTED_LIST_FIND_MEMBER(list, elem) ==
  LET i == SORTED_LIST_FIND_MEMBER_OR_PLACE(list, elem) IN i <= Len(list) /\ list[i] = elem
SORTED_LIST_ADD_IF_NOT_MEMBER(list, elem) ==
  IF SORTED_LIST_FIND_MEMBER(list, elem) THEN list ELSE SORTED_LIST_ADD(list, elem)
SORTED_LIST_DELETE_IF_MEMBER(list, elem) ==
  IF SORTED_LIST_FIND_MEMBER(list, elem)
  THEN RemoveAt(list, SORTED_LIST_FIND_MEMBER_OR_PLACE(list, elem)) ELSE list

(* A table of dim lists, an element in the one its remainder names.         *)
hashed_init(dim) == [i \in 0..(dim - 1) |-> << >>]
Slot(table, elem) == elem % Cardinality(DOMAIN table)
hashed_add(table, elem) == [table EXCEPT ![Slot(table, elem)] = LIST_ADD(@, elem)]
hashed_find_member(table, elem) == LIST_FIND_MEMBER(table[Slot(table, elem)], elem)
hashed_add_if_not_member(table, elem) ==
  [table EXCEPT ![Slot(table, elem)] = LIST_ADD_IF_NOT_MEMBER(@, elem)]
hashed_delete_if_member(table, elem) ==
  [table EXCEPT ![Slot(table, elem)] = LIST_DELETE_IF_MEMBER(@, elem)]
hashed_it(table) == FlattenSeq([i \in 1..Cardinality(DOMAIN table) |-> table[i - 1]])

-----------------------------------------------------------------------------
(* combined.c: what it sorts, and its run over all the containers.          *)
array ==
  <<14, 66, 12, 41, 86, 69, 19, 77, 68, 38, 26, 42, 37, 23, 17, 29, 55, 13, 90, 92,
    76, 99, 10, 54, 57, 83, 40, 44, 75, 33, 24, 28, 80, 18, 78, 32, 93, 89, 52, 11,
    21, 96, 50, 15, 48, 63, 87, 20, 8, 85, 43, 16, 94, 88, 53, 84, 74, 91, 67, 36,
    95, 61, 64, 5, 30, 82, 72, 46, 59, 9, 7, 3, 39, 31, 4, 73, 70, 60, 58, 81,
    56, 51, 45, 1, 6, 49, 27, 47, 34, 35, 62, 97, 2, 79, 98, 25, 22, 65, 71, 0>>
HASH_TAB_SIZE == 20
MAX_PARAMS == 101

FromZero(s) == [i \in 0..(Len(s) - 1) |-> s[i + 1]]
array2 == ARRAY_QUICK_SORT(FromZero(array), Len(array)).a
htab ==
  FoldLeft(LAMBDA table, e : IF hashed_find_member(table, e) THEN table ELSE hashed_add(table, e),
           hashed_init(HASH_TAB_SIZE), array)

RECURSIVE Echoed(_)
Echoed(q) == IF QUEUE_IS_EMPTY(q) THEN 0 ELSE QUEUE_FIRST_ELEMENT(q) + Echoed(QUEUE_DELETE(q))

Total(s) == FoldLeft(LAMBDA m, n : m + n, 0, s)

(* list and walk are what the doubly linked list and the tree hold.         *)
sglib_body(list, walk) ==
  Len(list) + Len(hashed_it(htab))
    + Echoed(FoldLeft(QUEUE_ADD, QUEUE_INIT(MAX_PARAMS), array))
    + Total(Drained(Heaped(HEAP_INIT(MAX_PARAMS), array))) + Total(walk)

SglibVerified(list, walk) ==
  /\ \A i \in DOMAIN list : list[i] = i - 1
  /\ \A i \in DOMAIN array : hashed_find_member(htab, array[i])
  /\ sglib_body(list, walk) = 15050
  /\ \A i \in 0..99 : array2[i] = i

-----------------------------------------------------------------------------
Rises(a) == \A i, j \in DOMAIN a : i < j => a[i] <= a[j]
SameBag(a, b) == \A v \in {a[i] : i \in DOMAIN a} \cup {b[i] : i \in DOMAIN b} :
  Cardinality({i \in DOMAIN a : a[i] = v}) = Cardinality({i \in DOMAIN b : b[i] = v})

(* Both sorts order any array, quick sort with a stack that is logarithmic, *)
(* and binary search tells whether and where a key is in the result.        *)
ArraySorts(s) ==
  LET a == FromZero(s)
      quick == ARRAY_QUICK_SORT(a, Len(s))
      heap == ARRAY_HEAP_SORT(a, Len(s))
  IN  /\ Rises(quick.a) /\ SameBag(quick.a, a)
      /\ 2 ^ quick.deepest <= (IF Len(s) < 2 THEN 2 ELSE Len(s))
      /\ heap = quick.a
      /\ \A k \in -1..4 :
           LET r == ARRAY_BINARY_SEARCH(quick.a, 0, Len(s) - 1, k)
           IN  /\ r.found <=> \E i \in DOMAIN a : a[i] = k
               /\ r.found => quick.a[r.result_index] = k
               /\ ~r.found => \A i \in DOMAIN a : (i < r.result_index) <=> (quick.a[i] < k)

(* Whatever is added to them and deleted again, a sorted list and a table   *)
(* hold each member once, the list in order; a queue is full when it holds  *)
(* one element less than it has slots, and never sooner.                    *)
MembersKept(s) ==
  LET sorted == FoldLeft(SORTED_LIST_ADD_IF_NOT_MEMBER, << >>, s)
      hashed == FoldLeft(hashed_add_if_not_member, hashed_init(3), s)
      Queued(n) == FoldLeft(QUEUE_ADD, QUEUE_INIT(Len(s) + 1), SubSeq(s, 1, n))
      Holds(list, members) == ToSet(list) = members /\ Len(list) = Cardinality(members)
  IN  /\ \A i, j \in DOMAIN sorted : i < j => sorted[i] < sorted[j]
      /\ Holds(sorted, ToSet(s)) /\ Holds(hashed_it(hashed), ToSet(s))
      /\ \A e \in 0..4 :
           /\ Holds(SORTED_LIST_DELETE_IF_MEMBER(sorted, e), ToSet(s) \ {e})
           /\ Holds(hashed_it(hashed_delete_if_member(hashed, e)), ToSet(s) \ {e})
      /\ \A n \in 0..Len(s) : QUEUE_IS_FULL(Queued(n)) <=> n = Len(s)
=============================================================================
