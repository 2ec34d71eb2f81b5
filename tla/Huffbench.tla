----------------------------- MODULE Huffbench -----------------------------
(***************************************************************************)
(* model/bench/embench/libhuffbench.c: compdecomp() compresses its data    *)
(* with a Huffman code made for them and expands the result over them.     *)
(* The heap counts from 1, as heap_adjust() sees it.  A code is the        *)
(* sequence of its bits from the root of the trie, the output one sequence *)
(* of bits that a last byte fills with zeros.                              *)
(***************************************************************************)
EXTENDS Integers, Sequences, FiniteSets
LOCAL INSTANCE SequencesExt
LOCAL Eager == INSTANCE Words

CONSTANTS
  Symbols,       \* how many bytes there are: 256
  ByteBits       \* bits of a byte: 8

Bytes == [b \in 1..Symbols |-> b - 1]       \* in their order

-----------------------------------------------------------------------------
RECURSIVE Sift(_, _, _, _, _)
Sift(freq, heap, v, n, k) ==
  LET j == IF 2 * k < n /\ freq[heap[2 * k]] > freq[heap[2 * k + 1]] THEN 2 * k + 1 ELSE 2 * k
  IN  IF k > n \div 2 \/ freq[v] < freq[heap[j]] THEN [heap EXCEPT ![k] = v]
      ELSE Sift(freq, [heap EXCEPT ![k] = heap[j]], v, n, j)

heap_adjust(freq, heap, n, k) == Sift(freq, heap, heap[k], n, k)

(* The least two of the heap become the children of node Symbols + n: the   *)
(* one now in front the left one, whose link is negative.                   *)
RECURSIVE Trie(_)
Trie(t) ==
  LET n == t.n - 1
      temp == t.heap[1]
      heap == heap_adjust(t.freq, [t.heap EXCEPT ![1] = t.heap[n + 1]], n, 1)
      node == Symbols + n
      freq == [t.freq EXCEPT ![node] = t.freq[heap[1]] + t.freq[temp]]
      link == [t.link EXCEPT ![temp] = node, ![heap[1]] = -node]
  IN  IF t.n <= 1 THEN t
      ELSE Trie([n |-> n, freq |-> freq, link |-> link,
                 heap |-> heap_adjust(freq, [heap EXCEPT ![1] = node], n, 1)])

Frequencies(data) ==
  [b \in 0..(2 * Symbols - 1) |-> Cardinality({k \in DOMAIN data : data[k] = b})]

Built(data) ==
  LET freq == Frequencies(data)
      present == SelectSeq(Bytes, LAMBDA b : freq[b] # 0)
      n == Len(present)
      start == [k \in 1..Symbols |-> IF k <= n THEN present[k] ELSE 0]
      heap == FoldLeft(LAMBDA h, i : heap_adjust(freq, h, n, n + 1 - i), start, [i \in 1..n |-> i])
      t == Trie([n |-> n, freq |-> freq, heap |-> heap, link |-> [b \in 0..(2 * Symbols - 1) |-> 0]])
  IN  [t.link EXCEPT ![Symbols + t.n] = 0]

(* From a link up to the root: a left child adds a 1.                       *)
RECURSIVE Climb(_, _)
Climb(link, l) ==
  IF l = 0 THEN << >>
  ELSE IF l < 0 THEN Append(Climb(link, link[-l]), 1) ELSE Append(Climb(link, link[l]), 0)

Codes(data) ==
  LET link == Built(data)
  IN  [b \in {data[k] : k \in DOMAIN data} |-> Climb(link, link[b])]

Compressed(code, data) == Eager!Turns(LAMBDA k, out : out \o code[data[k]], << >>, Len(data))

-----------------------------------------------------------------------------
(* Where a code's path ends in the trie, as a heap numbers its nodes.       *)
PathEnd(bits) == FoldLeft(LAMBDA k, bit : 2 * k + 1 + bit, 0, bits)

(* heap2 and outc, sorted, without the bytes that do not occur.             *)
Table(code) ==
  LET present == SelectSeq(Bytes, LAMBDA b : b \in DOMAIN code)
  IN  SortSeq([k \in DOMAIN present |-> <<PathEnd(code[present[k]]), present[k]>>],
              LAMBDA x, y : x[1] < y[1])

(* From bit `at` on to the end of a path: k is the place in the trie, i     *)
(* the place in the table.                                                  *)
RECURSIVE Found(_, _, _, _, _)
Found(table, bits, at, k, i) ==
  LET k2 == 2 * k + 1 + bits[at]
      i2 == CHOOSE m \in i..Len(table) :
              table[m][1] >= k2 /\ \A h \in i..(m - 1) : table[h][1] < k2
  IN  IF table[i2][1] = k2 THEN [next |-> at + 1, byte |-> table[i2][2]]
      ELSE Found(table, bits, at + 1, k2, i2)

Expand(table, bits, n) ==
  Eager!Turns(LAMBDA m, s : LET r == Found(table, bits, s.at, 0, 1)
                      IN  [at |-> r.next, out |-> Append(s.out, r.byte)],
        [at |-> 1, out |-> << >>], n).out

(* The early returns leave the data as they are: one symbol only, or more   *)
(* bytes of output than of data.                                            *)
compdecomp(data) ==
  LET code == Codes(data)
      bits == Compressed(code, data)
  IN  IF \A b \in DOMAIN code : \A k \in DOMAIN code[b] : code[b][k] = 0 THEN data
      ELSE IF Len(bits) > ByteBits * Len(data) THEN data
      ELSE Expand(Table(code), bits, Len(data))

-----------------------------------------------------------------------------
(* The bytes of orig_data are digits and letters: Alphabet in their order;   *)
(* orig_data(n) are the first n of them.                                    *)
Chars(string) == [i \in 1..Len(string) |-> SubSeq(string, i, i)]
Alphabet == Chars("0123456789ABCDEFGHIJKLMNOPQRSTUVWXYZ")
OrigText ==
     Chars("J2OZF50FYLD5UTVYYRMT0VXO01VC5FNIB1CG12MTIPT2CIV00B")
  \o Chars("OUWFDRAYTA3AI42KFXHRKPA3LCGA3ABLUYQXJRQ2RN2ZMYERPL")
  \o Chars("C00CXFE3GB3HMS53JIOZE5HBYTZ2EJHGDBI0HMYNOVU0HUXR2F")
  \o Chars("KBERC3E1ZIEBOHCWCJD0WRPLLX5DI1IS2NE4KI0DR4E5GHWIQZ")
  \o Chars("CHKRSVIRYQMBDJOHHYPB1AAAAGHWOXPQ4ZBQOKBH0OI3XWE4OU")
  \o Chars("AJUAJUGQKUIZEGSFXBPYIKGQH3GM2UA23U2HJCXTW5N0G553AP")
  \o Chars("VIZ2YAZ4MVSMRQBNXKPO3FOK5UK5RKOGTHCLH2KUR2ADMBQDLA")
  \o Chars("SJFATFU3EFISL1ZOGAKQU1NV4ZWP3CPPLUP4ZD23IEPT5IBFJL")
  \o Chars("W3HDSF2JUZLDIWYXUR0QPCU4WTHXZQDPNKSAPOJEIUHQK5I4RC")
  \o Chars("PAFD41XFSQVV5D5RDP5MTHA0YK0AILCXLH1JCSPVCEKBHKSKZR")
orig_data(n) == [k \in 1..n |-> (CHOOSE i \in DOMAIN Alphabet : Alphabet[i] = OrigText[k]) - 1]

-----------------------------------------------------------------------------
(* The least number of bits that a binary code of the data can have: the    *)
(* sum of the weights of the nodes that joining the two lightest trees      *)
(* makes, over again.                                                       *)
RECURSIVE JoinCost(_)
JoinCost(weights) ==
  LET sorted == SortSeq(weights, <)
      joined == sorted[1] + sorted[2]
  IN  IF Len(weights) < 2 THEN 0
      ELSE joined + JoinCost(<<joined>> \o SubSeq(sorted, 3, Len(sorted)))

Weights(data) ==
  LET freq == Frequencies(data)
      present == SelectSeq(Bytes, LAMBDA b : freq[b] # 0)
  IN  [k \in DOMAIN present |-> freq[present[k]]]

(* The data come back, no code is a prefix of another one, and no code of   *)
(* this kind needs fewer bits.                                              *)
RoundTrip(data) ==
  LET code == Codes(data)
  IN  /\ compdecomp(data) = data
      /\ \A b, c \in DOMAIN code : b # c => ~IsPrefix(code[b], code[c])
      /\ Len(Compressed(code, data)) = JoinCost(Weights(data))
=============================================================================
