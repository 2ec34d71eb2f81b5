------------------------------ MODULE Kernels ------------------------------
(***************************************************************************)
(* The benchmarks that compute over 32-bit words.                          *)
(*                                                                         *)
(* Of model/bench/embench: crc_32.c, with the remainder of a polynomial    *)
(* division that its table stands for; md5.c, the padding of a message and *)
(* the 64 rounds of a chunk; nettle-sha256.c, the compression of a block;  *)
(* nettle-aes.c, the cipher.  Of model/bench: the kernels that measure a   *)
(* custom instruction, each with the C code and with the instruction, and  *)
(* the string routines of libc_min.c.                                      *)
(***************************************************************************)
EXTENDS Words, FiniteSetsExt
LOCAL INSTANCE TLC

Table ==
  "0000000077073096ee0e612c990951ba076dc419706af48fe963a5359e6495a3" \o
  "0edb883279dcb8a4e0d5e91e97d2d98809b64c2b7eb17cbde7b82d0790bf1d91" \o
  "1db710646ab020f2f3b9714884be41de1adad47d6ddde4ebf4d4b55183d385c7" \o
  "136c9856646ba8c0fd62f97a8a65c9ec14015c4f63066cd9fa0f3d638d080df5" \o
  "3b6e20c84c69105ed56041e4a26771723c03e4d14b04d447d20d85fda50ab56b" \o
  "35b5a8fa42b2986cdbbbc9d6acbcf94032d86ce345df5c75dcd60dcfabd13d59" \o
  "26d930ac51de003ac8d75180bfd0611621b4f4b556b3c423cfba9599b8bda50f" \o
  "2802b89e5f058808c60cd9b2b10be9242f6f7c8758684c11c1611dabb6662d3d" \o
  "76dc419001db710698d220bcefd5102a71b1858906b6b51f9fbfe4a5e8b8d433" \o
  "7807c9a20f00f9349609a88ee10e98187f6a0dbb086d3d2d91646c97e6635c01" \o
  "6b6b51f41c6c6162856530d8f262004e6c0695ed1b01a57b8208f4c1f50fc457" \o
  "65b0d9c612b7e9508bbeb8eafcb9887c62dd1ddf15da2d498cd37cf3fbd44c65" \o
  "4db261583ab551cea3bc0074d4bb30e24adfa5413dd895d7a4d1c46dd3d6f4fb" \o
  "4369e96a346ed9fcad678846da60b8d044042d7333031de5aa0a4c5fdd0d7cc9" \o
  "5005713c270241aabe0b1010c90c20865768b525206f85b3b966d409ce61e49f" \o
  "5edef90e29d9c998b0d09822c7d7a8b459b33d172eb40d81b7bd5c3bc0ba6cad" \o
  "edb883209abfb3b603b6e20c74b1d29aead547399dd277af04db261573dc1683" \o
  "e3630b1294643b840d6d6a3e7a6a5aa8e40ecf0b9309ff9d0a00ae277d079eb1" \o
  "f00f93448708a3d21e01f2686906c2fef762575d806567cb196c36716e6b06e7" \o
  "fed41b7689d32be010da7a5a67dd4accf9b9df6f8ebeeff917b7be4360b08ed5" \o
  "d6d6a3e8a1d1937e38d8c2c44fdff252d1bb67f1a6bc57673fb506dd48b2364b" \o
  "d80d2bdaaf0a1b4c36034af641047a60df60efc3a867df55316e8eef4669be79" \o
  "cb61b38cbc66831a256fd2a05268e236cc0c7795bb0b4703220216b95505262f" \o
  "c5ba3bbeb2bd0b282bb45a925cb36a04c2d7ffa7b5d0cf312cd99e8b5bdeae1d" \o
  "9b64c2b0ec63f226756aa39c026d930a9c0906a9eb0e363f7207678505005713" \o
  "95bf4a82e2b87a147bb12bae0cb61b3892d28e9be5d5be0d7cdcefb70bdbdf21" \o
  "86d3d2d4f1d4e24268ddb3f81fda836e81be16cdf6b9265b6fb077e118b74777" \o
  "88085ae6ff0f6a7066063bca11010b5c8f659efff862ae69616bffd3166ccf45" \o
  "a00ae278d70dd2ee4e0483543903b3c2a7672661d06016f74969474d3e6e77db" \o
  "aed16a4ad9d65adc40df0b6637d83bf0a9bcae53debb9ec547b2cf7f30b5ffe9" \o
  "bdbdf21ccabac28a53b3933024b4a3a6bad03605cdd7069354de572923d967bf" \o
  "b3667a2ec4614ab85d681b022a6f2b94b40bbe37c30c8ea15a05df1b2d02ef8d"
crc_32_tab == [i \in 0..255 |-> HexAt(Table, i + 1)]

UPDC32(octet, crc) == Xor(crc_32_tab[XorHalf(crc[2] % 256, octet % 256)], Shr(crc, 8))

Ones == <<65535, 65535>>

(* crc32pseudo() over n numbers.                                            *)
Draw(i, s) == [seed |-> NextSeed(s.seed), crc |-> UPDC32(rand_beebs(s.seed), s.crc)]
crc32pseudo(n) == Not(Turns(Draw, [seed |-> Zero, crc |-> Ones], n).crc)

crc_32_result == crc32pseudo(1024)[2] % 32768

-----------------------------------------------------------------------------
(* The division, a bit at a time, lowest bit first.                         *)
Polynomial == Hex("edb88320")
Divided(i, r) == IF r[2] % 2 = 1 THEN Xor(Shr(r, 1), Polynomial) ELSE Shr(r, 1)
Remainder(octet, crc) == Turns(Divided, Xor(crc, <<0, octet % 256>>), 8)

(* One octet of the code is eight steps of the division, for any register   *)
(* of the set (UPDC32 and the table).                                       *)
OctetIsRemainder(crcs) ==
  \A crc \in crcs, octet \in 0..255 : UPDC32(octet, crc) = Remainder(octet, crc)

-----------------------------------------------------------------------------
(* md5.c                                                                    *)

rotations == [i \in 0..63 |->
        CASE i < 16 -> <<7, 12, 17, 22>>[(i % 4) + 1]
          [] i \in 16..31 -> <<5, 9, 14, 20>>[(i % 4) + 1]
          [] i \in 32..47 -> <<4, 11, 16, 23>>[(i % 4) + 1]
          [] OTHER -> <<6, 10, 15, 21>>[(i % 4) + 1]]
Sines ==
  "d76aa478e8c7b756242070dbc1bdceeef57c0faf4787c62aa8304613fd469501" \o
  "698098d88b44f7afffff5bb1895cd7be6b901122fd987193a679438e49b40821" \o
  "f61e2562c040b340265e5a51e9b6c7aad62f105d02441453d8a1e681e7d3fbc8" \o
  "21e1cde6c33707d6f4d50d87455a14eda9e3e905fcefa3f8676f02d98d2a4c8a" \o
  "fffa39428771f6816d9d6122fde5380ca4beea444bdecfa9f6bb4b60bebfbc70" \o
  "289b7ec6eaa127fad4ef308504881d05d9d4d039e6db99e51fa27cf8c4ac5665" \o
  "f4292244432aff97ab9423a7fc93a039655b59c38f0ccc92ffeff47d85845dd1" \o
  "6fa87e4ffe2ce6e0a30143144e0811a1f7537e82bd3af2352ad7d2bbeb86d391"
sines == [i \in 0..63 |-> HexAt(Sines, i + 1)]

H0 == [i \in 1..4 |-> HexAt("67452301efcdab8998badcfe10325476", i)]

LEFTROTATE(x, c) == Or(Shl(x, c), Shr(x, 32 - c))

(* The buffer: the message, the mark, zeros, and at NewLen the number of    *)
(* its bits, of which four bytes are written.                               *)
(* Mutant: the bytes of the length are not counted. *)
NewLenShort(len) == (len \div 64 + 1) * 64 - 8
NewLen(len) == ((len + 8) \div 64 + 1) * 64 - 8
Padded(m) ==
  LET bits == Bytes(FromNat(8 * Len(m)))
  IN  [i \in 1..(NewLen(Len(m)) + 64) |->
         IF i <= Len(m) THEN m[i]
         ELSE IF i = Len(m) + 1 THEN 128
         ELSE IF i - NewLen(Len(m)) \in 1..4 THEN bits[5 - (i - NewLen(Len(m)))]
         ELSE 0]

WordAt(msg, at) == OfBytes(msg[at + 4], msg[at + 3], msg[at + 2], msg[at + 1])

F(i, b, c, d) ==
  CASE i < 16 -> Or(And(b, c), And(Not(b), d))
    [] i \in 16..31 -> Or(And(d, b), And(Not(d), c))
    [] i \in 32..47 -> Xor(b, Xor(c, d))
    [] OTHER -> Xor(c, Or(b, Not(d)))
G(i) ==
  CASE i < 16 -> i
    [] i \in 16..31 -> (5 * i + 1) % 16
    [] i \in 32..47 -> (3 * i + 5) % 16
    [] OTHER -> (7 * i) % 16

Round(i, w, v) ==
  LET sum == Plus(Plus(v[1], F(i, v[2], v[3], v[4])), Plus(sines[i], w[G(i)]))
  IN  <<v[4], Plus(v[2], LEFTROTATE(sum, rotations[i])), v[2], v[3]>>

Chunk(h, msg, offset) ==
  LET w == [j \in 0..15 |-> WordAt(msg, offset + 4 * j)]
      v == Turns(LAMBDA i, u : Round(i - 1, w, u), h, 64)
  IN  [j \in 1..4 |-> Plus(h[j], v[j])]

md5(m) ==
  LET msg == Padded(m)
  IN  Turns(LAMBDA n, h : Chunk(h, msg, 64 * (n - 1)), H0, (NewLen(Len(m)) + 63) \div 64)

(* benchmark_body(): a message of len bytes that count up.                  *)
BenchmarkMessage(len) == [i \in 1..len |-> (i - 1) % 256]
md5_result(len) ==
  LET h == md5(BenchmarkMessage(len)) IN Xor(Xor(h[1], h[2]), Xor(h[3], h[4]))
RESULT == Hex("33f673b4")

-----------------------------------------------------------------------------
(* The mark and the 8 bytes of the length fit behind the message in the     *)
(* last chunk, and no chunk is spent on zeros alone (NewLen).               *)
PaddingFits(len) ==
  /\ NewLen(len) % 64 = 56
  /\ len + 1 <= NewLen(len) /\ NewLen(len) < len + 65

-----------------------------------------------------------------------------
(* nettle-sha256.c.  The rewritten copy nettle-sha256_accel.c is the same   *)
(* text with the rotate instruction for ROTL32.  How a message is cut into  *)
(* blocks is MdBuffer's.                                                    *)
ROTL32(n, x) == Or(Shl(x, n), Shr(x, 32 - n))

Plus4(a, b, c, d) == Plus(Plus(a, b), Plus(c, d))
Xor3(a, b, c) == Xor(a, Xor(b, c))

READ_UINT32(bytes, at) == OfBytes(bytes[at], bytes[at + 1], bytes[at + 2], bytes[at + 3])

Choice(x, y, z) == Xor(z, And(x, Xor(y, z)))
Majority(x, y, z) == Xor(And(x, y), And(z, Xor(x, y)))

S0(x) == Xor3(ROTL32(30, x), ROTL32(19, x), ROTL32(10, x))
S1(x) == Xor3(ROTL32(26, x), ROTL32(21, x), ROTL32(7, x))
s0(x) == Xor3(ROTL32(25, x), ROTL32(14, x), Shr(x, 3))
s1(x) == Xor3(ROTL32(15, x), ROTL32(13, x), Shr(x, 10))

(* The 16 words of data are a ring; EXPAND overwrites word i of it.         *)
EXPAND(data, i) ==
  [data EXCEPT ![i % 16] =
     Plus4(@, s1(data[(i - 2) % 16]), data[(i - 7) % 16], s0(data[(i - 15) % 16]))]

(* v is A to H; the code renames them from one round to the next.           *)
ROUND(v, k, word) ==
  LET h == Plus(v[8], Plus4(S1(v[5]), Choice(v[5], v[6], v[7]), k, word))
      d == Plus(v[4], h)
  IN  <<Plus(h, Plus(S0(v[1]), Majority(v[1], v[2], v[3]))), v[1], v[2], v[3], d, v[5], v[6], v[7]>>

RoundConstants ==
  "428a2f9871374491b5c0fbcfe9b5dba53956c25b59f111f1923f82a4ab1c5ed5" \o
  "d807aa9812835b01243185be550c7dc372be5d7480deb1fe9bdc06a7c19bf174" \o
  "e49b69c1efbe47860fc19dc6240ca1cc2de92c6f4a7484aa5cb0a9dc76f988da" \o
  "983e5152a831c66db00327c8bf597fc7c6e00bf3d5a7914706ca635114292967" \o
  "27b70a852e1b21384d2c6dfc53380d13650a7354766a0abb81c2c92e92722c85" \o
  "a2bfe8a1a81a664bc24b8b70c76c51a3d192e819d6990624f40e3585106aa070" \o
  "19a4c1161e376c082748774c34b0bcb5391c0cb34ed8aa4a5b9cca4f682e6ff3" \o
  "748f82ee78a5636f84c878148cc7020890befffaa4506cebbef9a3f7c67178f2"

K == [i \in 0..63 |-> HexAt(RoundConstants, i + 1)]

InitialState == [i \in 1..8 |-> HexAt("6a09e667bb67ae853c6ef372a54ff53a510e527f9b05688c1f83d9ab5be0cd19", i)]

(* The first 16 rounds take the data as they are, the others expand them.   *)
CompressRound(i, s) ==
  LET data == IF i <= 16 THEN s.data ELSE EXPAND(s.data, i - 1)
  IN  [v |-> ROUND(s.v, K[i - 1], data[(i - 1) % 16]), data |-> data]

COMPRESS(state, block) ==
  LET data == [i \in 0..15 |-> READ_UINT32(block, 4 * i + 1)]
      v == Turns(CompressRound, [v |-> state, data |-> data], 64).v
  IN  [i \in 1..8 |-> Plus(state[i], v[i])]

(* _nettle_write_be32: the first `length` bytes of the state's words.       *)
_nettle_write_be32(length, state) ==
  [k \in 1..length |-> Bytes(state[(k - 1) \div 4 + 1])[((k - 1) % 4) + 1]]

WRITE_UINT64(n) == [k \in 1..8 |-> IF k <= 4 THEN 0 ELSE Bytes(FromNat(n))[k - 4]]

-----------------------------------------------------------------------------
(* benchmark_body(): the digest of sha_msg.                                 *)
Letters == "abcdefghijklmnopq"
LetterCode(c) == 96 + CHOOSE i \in 1..17 : SubSeq(Letters, i, i) = c
MsgText == "abcdbcdecdefdefgefghfghighijhijkijkljklmklmnlmnomnopnopq"
sha_msg == [k \in 1..56 |-> LetterCode(SubSeq(MsgText, k, k))]
sha_hash == _nettle_write_be32(32, [i \in 1..8 |->
          HexAt("248d6a61d20638b8e5c026930c3e6039a33ce45964ff2167f6ecedd419db06c1", i)])

-----------------------------------------------------------------------------
(* nettle-aes.c: the block cipher whose rounds are looked up in tables.  A *)
(* uint32_t of it is the sequence of its four bytes, the least significant *)
(* one first, so that LE_READ_UINT32 reads a column as it is and ROTL32 by  *)
(* a byte is a rotation of the sequence.                                    *)
AES_BLOCK_SIZE == 16

XorByte(x, y) == XorHalf(x, y)
XorColumn(v, w) == Made([b \in 1..4 |-> XorByte(v[b], w[b])])

-----------------------------------------------------------------------------
(* The field of 256 elements, by x^8 + x^4 + x^3 + x + 1.                   *)
Double(x) == IF x < 128 THEN 2 * x ELSE XorByte(2 * x - 256, 27)
Multiples(x) ==
  LET two == Double(x)
      four == Double(two)
      eight == Double(four)
  IN  [one |-> x, two |-> two, three |-> XorByte(two, x),
       nine |-> XorByte(eight, x), eleven |-> XorByte(eight, XorByte(two, x)),
       thirteen |-> XorByte(eight, XorByte(four, x)),
       fourteen |-> XorByte(eight, XorByte(four, two))]
Of == Made([x \in 0..255 |-> Multiples(x)])

HexByte(h, n) == 16 * HexDigitOf(SubSeq(h, 2 * n - 1, 2 * n - 1)) + HexDigitOf(SubSeq(h, 2 * n, 2 * n))

SboxBytes ==
  "637c777bf26b6fc53001672bfed7ab76ca82c97dfa5947f0add4a2af9ca472c0" \o
  "b7fd9326363ff7cc34a5e5f171d8311504c723c31896059a071280e2eb27b275" \o
  "09832c1a1b6e5aa0523bd6b329e32f8453d100ed20fcb15b6acbbe394a4c58cf" \o
  "d0efaafb434d338545f9027f503c9fa851a3408f929d38f5bcb6da2110fff3d2" \o
  "cd0c13ec5f974417c4a77e3d645d197360814fdc222a908846eeb814de5e0bdb" \o
  "e0323a0a4906245cc2d3ac629195e479e7c8376d8dd54ea96c56f4ea657aae08" \o
  "ba78252e1ca6b4c6e8dd741f4bbd8b8a703eb5664803f60e613557b986c11d9e" \o
  "e1f8981169d98e949b1e87e9ce5528df8ca1890dbfe6426841992d0fb054bb16"

aes_sbox == Made([x \in 0..255 |-> HexByte(SboxBytes, x + 1)])
isbox == Made([y \in 0..255 |-> CHOOSE x \in 0..255 : aes_sbox[x] = y])

(* ROTL32 by n bytes.                                                       *)
Rotated(w, n) == Made([b \in 1..4 |-> w[((b - 1 - n) % 4) + 1]])

dtable0 == Made([x \in 0..255 |-> LET m == Of[aes_sbox[x]] IN <<m.two, m.one, m.one, m.three>>])
dtables == Made([k \in 0..3 |-> Made([x \in 0..255 |-> Rotated(dtable0[x], k)])])

mtable == Made([x \in 0..255 |-> LET m == Of[x] IN <<m.fourteen, m.nine, m.thirteen, m.eleven>>])
itable0 == Made([x \in 0..255 |-> mtable[isbox[x]]])
itables == Made([k \in 0..3 |-> Made([x \in 0..255 |-> Rotated(itable0[x], k)])])

_aes_encrypt_table == [sbox |-> aes_sbox, table |-> dtables]
_aes_decrypt_table == [sbox |-> isbox, table |-> itables]

-----------------------------------------------------------------------------
SUBBYTE(w, box) == Made([b \in 1..4 |-> box[w[b]]])

rcon == <<1, 2, 4, 8, 16, 32, 64, 128, 27, 54>>

Columns(bytes) == Made([i \in 0..(Len(bytes) \div 4 - 1) |-> SubSeq(bytes, 4 * i + 1, 4 * i + 4)])

_aes_set_key(nr, nk, k) ==
  LET Subkey(i, last) ==
        IF i % nk = 0
        THEN LET u == SUBBYTE(Rotated(last, 3), aes_sbox)
             IN  [u EXCEPT ![1] = XorByte(@, rcon[i \div nk])]
        ELSE IF nk > 6 /\ i % nk = 4 THEN SUBBYTE(last, aes_sbox) ELSE last
      Extend(n, subkeys) ==
        LET i == nk + n - 1
        IN  subkeys @@ (i :> XorColumn(subkeys[i - nk], Subkey(i, subkeys[i - 1])))
      given == [i \in 0..(nk - 1) |-> Columns(k)[i]]
  IN  Turns(Extend, given, 4 * (nr + 1) - nk)

(* Sizes between the three are truncated to the one below.                  *)
aes_set_encrypt_key(keysize, k) ==
  LET size == IF keysize = 32 THEN [nk |-> 8, nr |-> 14]
              ELSE IF keysize >= 24 THEN [nk |-> 6, nr |-> 12]
              ELSE [nk |-> 4, nr |-> 10]
  IN  [rounds |-> size.nr, keys |-> _aes_set_key(size.nr, size.nk, k)]

MIX_COLUMN(T, w) ==
  XorColumn(XorColumn(T[w[1]], Rotated(T[w[2]], 1)),
            XorColumn(Rotated(T[w[3]], 2), Rotated(T[w[4]], 3)))

(* The subkeys in groups of four from the last, all but the first and last  *)
(* group mixed.                                                             *)
_nettle_aes_invert(rounds, src) ==
  Made([i \in 0..(4 * rounds + 3) |->
     LET w == src[4 * (rounds - i \div 4) + (i % 4)]
     IN  IF i \in 4..(4 * rounds - 1) THEN MIX_COLUMN(mtable, w) ELSE w])

aes_set_decrypt_key(keysize, k) ==
  LET ctx == aes_set_encrypt_key(keysize, k)
  IN  [ctx EXCEPT !.keys = _nettle_aes_invert(ctx.rounds, @)]

-----------------------------------------------------------------------------
(* Column i of the next round, from the columns i, i + step, ...            *)
AES_ROUND(T, w, i, step, k) ==
  LET At(j) == T.table[j][w[(i + j * step) % 4][j + 1]]
  IN  XorColumn(XorColumn(XorColumn(At(0), At(1)), XorColumn(At(2), At(3))), k)

AES_FINAL_ROUND(T, w, i, step, k) ==
  XorColumn([b \in 1..4 |-> T.sbox[w[(i + (b - 1) * step) % 4][b]]], k)

Crypt(T, step, rounds, keys, src) ==
  LET w == Made([i \in 0..3 |-> XorColumn(Columns(src)[i], keys[i])])
      OneRound(n, v) == Made([i \in 0..3 |-> AES_ROUND(T, v, i, step, keys[4 * n + i])])
      Last(v) == [i \in 0..3 |-> AES_FINAL_ROUND(T, v, i, step, keys[4 * rounds + i])]
      dst == With(Last, Turns(OneRound, w, rounds - 1))
  IN  dst[0] \o dst[1] \o dst[2] \o dst[3]

_nettle_aes_encrypt(rounds, keys, src) == Crypt(_aes_encrypt_table, 1, rounds, keys, src)
_nettle_aes_decrypt(rounds, keys, src) == Crypt(_aes_decrypt_table, 3, rounds, keys, src)

Blocks(data) == Len(data) \div AES_BLOCK_SIZE
BlockOf(data, n) == SubSeq(data, AES_BLOCK_SIZE * (n - 1) + 1, AES_BLOCK_SIZE * n)

aes_encrypt(ctx, data) ==
  [n \in 1..Blocks(data) |-> _nettle_aes_encrypt(ctx.rounds, ctx.keys, BlockOf(data, n))]
aes_decrypt(ctx, blocks) ==
  [n \in DOMAIN blocks |-> _nettle_aes_decrypt(ctx.rounds, ctx.keys, blocks[n])]

-----------------------------------------------------------------------------
(* The cipher as the standard writes it, byte by byte; s[c][r] is row r of  *)
(* column c.                                                                *)
ShiftRows(s) == Made([c \in 0..3 |-> Made([r \in 1..4 |-> s[(c + r - 1) % 4][r]])])
MixColumns(s) ==
  [c \in 0..3 |-> [r \in 1..4 |->
     LET At(k) == Of[s[c][((r + k - 1) % 4) + 1]]
     IN  XorByte(XorByte(At(0).two, At(1).three), XorByte(At(2).one, At(3).one))]]
AddRoundKey(s, keys, n) == Made([c \in 0..3 |-> XorColumn(s[c], keys[4 * n + c])])

Rijndael(ctx, block) ==
  LET Substituted(s) == [c \in 0..3 |-> SUBBYTE(s[c], aes_sbox)]
      OneRound(n, s) ==
        LET shifted == ShiftRows(Substituted(s))
        IN  AddRoundKey(IF n < ctx.rounds THEN With(MixColumns, shifted) ELSE shifted, ctx.keys, n)
      s == Turns(OneRound, AddRoundKey(Columns(block), ctx.keys, 0), ctx.rounds)
  IN  s[0] \o s[1] \o s[2] \o s[3]

(* The tables compute the cipher, and decryption takes it back.             *)
IsCipher(keysize, k, block) ==
  LET enc == aes_set_encrypt_key(keysize, k)
      dec == aes_set_decrypt_key(keysize, k)
      encrypted == _nettle_aes_encrypt(enc.rounds, enc.keys, block)
  IN  /\ encrypted = Rijndael(enc, block)
      /\ _nettle_aes_decrypt(dec.rounds, dec.keys, encrypted) = block

-----------------------------------------------------------------------------
OfHex(h) == Made([n \in 1..(Len(h) \div 2) |-> HexByte(h, n)])

key == OfHex(
  "c9955531a650d1547bd8c5aaa4a4bdac5cea12c7f883d6b85dd6cf2d60c8a5f0")

plaintext == OfHex(
  "d77fb38c2225c46fb9d5c918c092d008852af368bd84aff20c8bf51e51704670" \o
  "9e8bdee186a1f8cd71029fa17b44b082407fceb4be5dbc8e19430b3a4669a0cc" \o
  "ed4f61afa6a95b476951d500777ede2e7ea63ce033dfed403f1ac7e0c746e33b" \o
  "904e64552e8d363b929b876fae943d0ac8a24e7f5a83ec18fd8254c8d8ed1e52" \o
  "7dcacf4bba3168b978a3ca4e7286b23379cbcda643a39cfaee2aae3b72c64632" \o
  "a59945924679dce33ea98a11374985e4581a1f6ed7aae60ac427fd465c6cb028" \o
  "2e6b8435901a6d38f2694abc96ecd7566527eea6b05f9c7071a52bec936716c1" \o
  "c4b34370b56dad9541f002fc8d588ea146323468118cb33adb54be3ab3382e7c")

expected == OfHex(
  "0f17001007827ff945da150e54948f22749f03cd581ab26b9a6805e7cb1f75ad" \o
  "518556a1f6d8b7ec9e0dc3487daaf799c21dea3f53dba884ed61c0e738addcb7" \o
  "9bfac0b6887cf0872520bc0b036db89b10d3a88738badb4340020f896e11697e" \o
  "154ac5e3b17a9d3b74be05581e40731d83a04589fccfc34ea252ef7e5e2c9838" \o
  "2657b4124e2410ac7c89420d9daf492fc0607543c5d1ccfd46ae4e38a9f38398" \o
  "9ffa0a1505462a0ebea8ac2d59272e54057752643960c47ca730b9133b1ffe37" \o
  "b0eafd3d83ed7ef2b0f20a8678b9081fffc050adb8926819309c7ee54c575ea6" \o
  "583a8770801acf1ee83b43c6e92747ba9e585214c0b7f177778f2343490e24ce")

(* benchmark_body() and what verify_benchmark() asks of it.                 *)
Verified ==
  LET encrypted == aes_encrypt(aes_set_encrypt_key(32, key), plaintext)
      decrypted == aes_decrypt(aes_set_decrypt_key(32, key), encrypted)
  IN  \A n \in 1..Blocks(plaintext) :
        /\ encrypted[n] = BlockOf(expected, n)
        /\ decrypted[n] = BlockOf(plaintext, n)

-----------------------------------------------------------------------------
(* The kernels of the custom instructions.  A C array is a function from 0  *)
(* on; int32_t values are integers (no sum here leaves their range),        *)
(* uint32_t values words.                                                   *)
RTL == INSTANCE XifDatapath WITH LaneBits <- 8

OfInt(v) == <<(v \div 65536) % 65536, v % 65536>>
ToInt(a) == RTL!Signed(a[1], 16) * 65536 + a[2]
ElementsOf(f) == MapThenSumSet(LAMBDA i : f[i], DOMAIN f)

-----------------------------------------------------------------------------
(* The instructions as custom_intrinsics.h states them and, for the dot     *)
(* products, as the coprocessor computes them.                              *)
pg_mac(x, y, acc) == ToInt(Plus(OfInt(acc), Times(OfInt(x), OfInt(y))))
pg_sdot4(a, b, acc) ==
  acc + MapThenSumSet(LAMBDA i : RTL!Product(<<ToInt(a), ToInt(b), 0>>, i, 8, 16), 0..3)
pg_sdot2(a, b, acc) ==
  acc + MapThenSumSet(LAMBDA i : RTL!Lane(ToInt(a), i, 16) * RTL!Lane(ToInt(b), i, 16), 0..1)
BitOf(a, i) == IF i < 16 THEN Bit(a[2], i) ELSE Bit(a[1], i - 16)
pg_rol(x, n) ==
  LET bit(i) == BitOf(x, (i - n) % 32)
  IN  <<MapThenSumSet(LAMBDA i : bit(i + 16) * 2 ^ i, 0..15),
        MapThenSumSet(LAMBDA i : bit(i) * 2 ^ i, 0..15)>>
pg_idx(x, base) == base + 4 * (x[2] % 256)

-----------------------------------------------------------------------------
(* bench_dotprod_int8.c and bench_dotprod_int16.c: lanes of packed words.   *)
(* Mutant: the lane is not sign-extended. *)
UnpackUnsigned(w, i) == Shr(w, 8 * i)[2] % 256
unpack_lane(w, i) == RTL!Signed(Shr(w, 8 * i)[2] % 256, 8)
unpack_half(w, i) == RTL!Signed(Shr(w, 16 * i)[2], 16)

dot4_scalar(a, b, acc) ==
  acc + unpack_lane(a, 0) * unpack_lane(b, 0) + unpack_lane(a, 1) * unpack_lane(b, 1)
    + unpack_lane(a, 2) * unpack_lane(b, 2) + unpack_lane(a, 3) * unpack_lane(b, 3)
dot2_scalar(a, b, acc) ==
  acc + unpack_half(a, 0) * unpack_half(b, 0) + unpack_half(a, 1) * unpack_half(b, 1)

dot4(with, a, b, acc) == IF with THEN pg_sdot4(a, b, acc) ELSE dot4_scalar(a, b, acc)
dot2(with, a, b, acc) == IF with THEN pg_sdot2(a, b, acc) ELSE dot2_scalar(a, b, acc)

(* benchmark_run(), word after word: a kernel's parameter is the macro that *)
(* selects the instruction.                                                 *)
Run(Dot(_, _, _), va, vb) ==
  Turns(LAMBDA n, acc : Dot(va[n - 1], vb[n - 1], acc), 0, Cardinality(DOMAIN va))

A_SEED == "010203047f01020380ff0102030405060a0b0c0d111213142122232431323334"
B_SEED == "040302010201017f020100ff060504030d0c0b0a141312112423222134333231"
dotprod_int8(USE_PG_SDOT4) ==
  Run(LAMBDA a, b, acc : dot4(USE_PG_SDOT4, a, b, acc),
      Made([i \in 0..63 |-> HexAt(A_SEED, (i % 8) + 1)]), Made([i \in 0..63 |-> HexAt(B_SEED, (i % 8) + 1)]))

(* bench_mac_tinyml.c packs what bench_mac.c has one in a word.             *)
va(i) == (i % 7) - 3
vb(i) == (i % 5) - 2
Packed8(f, w) == OfBytes(f[4 * w + 3] % 256, f[4 * w + 2] % 256, f[4 * w + 1] % 256, f[4 * w] % 256)
Packed16(f, w) == <<f[2 * w + 1] % 65536, f[2 * w] % 65536>>
mac_tinyml(USE_PG_SDOT4) ==
  Run(LAMBDA a, b, acc : dot4(USE_PG_SDOT4, a, b, acc),
      Made([w \in 0..255 |-> Packed8([i \in 0..1023 |-> va(i)], w)]),
      Made([w \in 0..255 |-> Packed8([i \in 0..1023 |-> vb(i)], w)]))
dotprod_int16(USE_PG_SDOT2) ==
  Run(LAMBDA a, b, acc : dot2(USE_PG_SDOT2, a, b, acc),
      Made([w \in 0..255 |-> Packed16([i \in 0..511 |-> (i % 17) - 8], w)]),
      Made([w \in 0..255 |-> Packed16([i \in 0..511 |-> (i % 13) - 6], w)]))
mac(USE_PG_MAC) ==
  Run(LAMBDA x, y, acc : IF USE_PG_MAC THEN pg_mac(x, y, acc) ELSE acc + x * y,
      Made([i \in 0..1023 |-> va(i)]), Made([i \in 0..1023 |-> vb(i)]))

-----------------------------------------------------------------------------
(* bench_rol.c, bench_sha.c, bench_crc.c, bench_swpi.c, bench_add3.c.       *)
Rotate(x, n) == Or(Shl(x, n), Shr(x, 32 - n))
rol(USE_PG_ROL) ==
  LET turned(x, n) == IF USE_PG_ROL THEN pg_rol(x, n) ELSE Rotate(x, n)
  IN  Turns(LAMBDA n, acc : Xor(acc, turned(Times(FromNat(n - 1), Hex("9e3779b1")), ((n - 1) % 31) + 1)), Zero, 1024)

Sra15(a) == Or(Shr(a, 15), IF a[1] >= 32768 THEN <<65534, 0>> ELSE Zero)
sha(USE_PG_SHA) ==
  LET shifted(x, y) == IF USE_PG_SHA THEN OfInt(x \div 2 ^ 15 + y) ELSE Plus(Sra15(OfInt(x)), OfInt(y))
  IN  Turns(LAMBDA n, acc : Xor(acc, shifted((n - 1) * 999331 - 500000000, (n - 1) * 7 - 300)), Zero, 1024)

table == Made([i \in 0..255 |-> Turns(LAMBDA k, c : IF c[2] % 2 = 1 THEN Xor(Hex("edb88320"), Shr(c, 1))
                                                    ELSE Shr(c, 1), <<0, i>>, 8)])
data(i) == (i * 31 + 7) % 256
crc(USE_PG_IDX) ==
  LET entry(x) == table[IF USE_PG_IDX THEN (pg_idx(x, 4096) - 4096) \div 4 ELSE x[2] % 256]
  IN  Not(Turns(LAMBDA n, r : Xor(entry(Xor(r, <<0, data(n - 1)>>)), Shr(r, 8)), Ones, 1024))

pg_swpi(m, v) == [dst |-> [m.dst EXCEPT ![m.p \div 4] = v], p |-> m.p + 4]
swpi ==
  LET stored == Turns(LAMBDA n, m : pg_swpi(m, n - 1), [dst |-> Made([i \in 0..1023 |-> 0]), p |-> 0], 1024)
  IN  MapThenSumSet(LAMBDA k : stored.dst[128 * k], 0..7)

pg_add3(x, y) == ToInt(Plus(OfInt(x), OfInt(y)))
add3 == Cardinality({i \in 0..63 : pg_add3(i * 7 - 13, i * (-3) + 5) # (i * 7 - 13) + (i * (-3) + 5)})

(* bench_matmult.c, which is kernel.c's timed region and checksum.          *)
Row == 0..7
a8 == Made([i, j \in Row |-> va(8 * i + j)])
b8 == Made([i, j \in Row |-> vb(8 * i + j)])
matmult == Made([i, j \in Row |-> MapThenSumSet(LAMBDA k : a8[i, k] * b8[k, j], Row)])
checksum == ElementsOf(matmult)

-----------------------------------------------------------------------------
(* libc_min.c on a memory of bytes.                                         *)
memset(m, d, c, n) == [k \in DOMAIN m |-> IF k \in d..(d + n - 1) THEN c % 256 ELSE m[k]]
memcpy(m, d, s, n) == Turns(LAMBDA k, x : [x EXCEPT ![d + k - 1] = x[s + k - 1]], m, n)
memmove(m, d, s, n) ==
  IF d < s THEN memcpy(m, d, s, n)
  ELSE IF d > s THEN Turns(LAMBDA k, x : [x EXCEPT ![d + n - k] = x[s + n - k]], m, n)
  ELSE m
memcmp(m, x, y, n) ==
  LET differ == {k \in 0..(n - 1) : m[x + k] # m[y + k]}
  IN  IF differ = {} THEN 0 ELSE m[x + Min(differ)] - m[y + Min(differ)]
Strings(m, s) == {k \in DOMAIN m : k >= s /\ m[k] = 0}
strlen(m, s) == Min(Strings(m, s)) - s
strchr(m, s, c) ==
  LET at == {k \in s..(s + strlen(m, s)) : m[k] = c % 256} IN IF at = {} THEN -1 ELSE Min(at)

-----------------------------------------------------------------------------
(* Every kernel has the same result with the instruction as without, the    *)
(* one its comment names, and the table of bench_crc.c is Embench's.        *)
KernelsAgree ==
  /\ dotprod_int8(FALSE) = dotprod_int8(TRUE)
  /\ dotprod_int16(FALSE) = dotprod_int16(TRUE)
  /\ mac_tinyml(FALSE) = 1 /\ mac_tinyml(TRUE) = 1
  /\ mac(FALSE) = 1 /\ mac(TRUE) = 1
  /\ rol(FALSE) = rol(TRUE)
  /\ sha(FALSE) = sha(TRUE)
  /\ table = crc_32_tab
  /\ crc(FALSE) = crc(TRUE)
  /\ swpi = 3584
  /\ add3 = 0
  /\ checksum = MapThenSumSet(LAMBDA k : MapThenSumSet(LAMBDA i : a8[i, k], Row)
                                           * MapThenSumSet(LAMBDA j : b8[k, j], Row), Row)

(* memmove() copies what was there, however source and destination overlap; *)
(* memcpy() does when they do not or it copies down.  A string ends at the  *)
(* first zero.                                                              *)
CopiesWhatWas(m) ==
  \A n \in 0..Cardinality(DOMAIN m) :
    \A d, s \in 0..(Cardinality(DOMAIN m) - n) :
      LET copied == [k \in DOMAIN m |-> IF k \in d..(d + n - 1) THEN m[k - d + s] ELSE m[k]]
      IN  /\ memmove(m, d, s, n) = copied
          /\ (d <= s \/ d >= s + n) => memcpy(m, d, s, n) = copied
          /\ memcmp(copied, d, d, n) = 0
          /\ n > 0 /\ s <= d =>
               LET string == memset(m, d, 0, n)
               IN  strlen(string, s) = d - s /\ strchr(string, s, 256) = d
=============================================================================
