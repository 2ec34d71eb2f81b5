------------------------------- MODULE Slre -------------------------------
(***************************************************************************)
(* model/bench/embench/libslre.c: a regular expression matcher that walks  *)
(* the text of the expression.  A matcher p is the record of the           *)
(* expression p.re, the subject p.text, p.flags and what the first pass    *)
(* over the expression has found: its brackets, their branches and the     *)
(* number of captures the caller has room for.  Positions count from 1;    *)
(* a chunk of the expression is its first position and its length, and so  *)
(* is a chunk of the subject.  Reading behind the end gives Nul.           *)
(***************************************************************************)
EXTENDS Integers, Sequences, FiniteSets, TLC
LOCAL INSTANCE SequencesExt

NoMatch == -1
UnexpectedQuantifier == -2
UnbalancedBrackets == -3
InternalError == -4
InvalidCharacterSet == -5
InvalidMetacharacter == -6
CapsArrayTooSmall == -7
TooManyBranches == -8
TooManyBrackets == -9

MaxBrackets == 100
MaxBranches == 100
Nul == ""

Chars(string) == [i \in 1..Len(string) |-> SubSeq(string, i, i)]

(* The order of the characters: the printable part of ASCII.                *)
Ascii == Chars(" !\"#$%&'()*+,-./0123456789:;<=>?@ABCDEFGHIJKLMNOPQRSTUVWXYZ[\\]^_")
         \o << "backquote" >> \o Chars("abcdefghijklmnopqrstuvwxyz{|}~")
Code(c) == IF c = Nul THEN 0 ELSE 31 + CHOOSE i \in 1..Len(Ascii) : Ascii[i] = c
Lower(c) == IF Code(c) \in 65..90 THEN Ascii[Code(c) - 31 + 32] ELSE c

Digit(c) == Code(c) \in 48..57
HexDigit(c) == Digit(c) \/ Code(Lower(c)) \in 97..102
Metacharacter(c) == c \in {"^", "$", "(", ")", ".", "[", "]", "*", "+", "?", "|", "\\", "S", "s", "d", Nul}
Quantifier(c) == c \in {"*", "+", "?"}
HexValue(c) == IF Digit(c) THEN Code(c) - 48 ELSE Code(Lower(c)) - 87

Re(p, k) == IF k <= Len(p.re) THEN p.re[k] ELSE Nul
Subject(p, k) == IF k <= Len(p.text) THEN p.text[k] ELSE Nul

-----------------------------------------------------------------------------
(* How long the next element of the expression is.                          *)
OpLen(p, k) == IF Re(p, k) # "\\" THEN 1 ELSE IF Re(p, k + 1) = "x" THEN 4 ELSE 2

RECURSIVE SetEnd(_, _, _, _)
SetEnd(p, at, len, off) ==
  IF off < len /\ Re(p, at + off) # "]" THEN SetEnd(p, at, len, off + OpLen(p, at + off)) ELSE off

SetLen(p, at, len) ==
  LET end == SetEnd(p, at, len, 0) IN IF end <= len THEN end + 1 ELSE -1

GetOpLen(p, at, len) ==
  IF Re(p, at) = "[" THEN SetLen(p, at + 1, len - 1) + 1 ELSE OpLen(p, at)

(* One character c against the element at position k.                       *)
MatchEscape(p, k, c) ==
  LET e == Re(p, k + 1)
  IN  CASE e = "S" -> c # " "
        [] e = "s" -> c = " "
        [] e = "d" -> Digit(c)
        [] e = "x" -> 16 * HexValue(Re(p, k + 2)) + HexValue(Re(p, k + 3)) = Code(c)
        [] OTHER -> e = c

MatchOp(p, k, c) ==
  LET e == Re(p, k)
      same == IF p.ignoreCase THEN Lower(e) = Lower(c) ELSE e = c
  IN  CASE e = "|" -> InternalError
        [] e = "$" -> NoMatch
        [] e = "." -> 1
        [] e = "\\" -> IF MatchEscape(p, k, c) THEN 1 ELSE NoMatch
        [] OTHER -> IF same THEN 1 ELSE NoMatch

IsRange(p, k) == Re(p, k) # "-" /\ Re(p, k + 1) = "-" /\ Re(p, k + 2) \notin {"]", Nul}

(* `info->flags && IGNORE_CASE ? exact : lower case`: the case of a range's *)
(* ends counts if and only if the flag asks to ignore it.                   *)
InRange(p, k, c) ==
  IF p.ignoreCase THEN Code(c) \in Code(Re(p, k))..Code(Re(p, k + 2))
  ELSE Code(Lower(c)) \in Code(Lower(Re(p, k)))..Code(Lower(Re(p, k + 2)))

RECURSIVE AnyOf(_, _, _, _)
AnyOf(p, at, len, c) ==
  /\ len >= 0 /\ Re(p, at) # "]"
  /\ IF IsRange(p, at)
     THEN InRange(p, at, c) \/ AnyOf(p, at + 3, len - 3, c)
     ELSE MatchOp(p, at, c) > 0 \/ AnyOf(p, at + OpLen(p, at), len - OpLen(p, at), c)

MatchSet(p, at, len, c) ==
  LET hit == IF Re(p, at) = "^" THEN ~AnyOf(p, at + 1, len - 1, c) ELSE AnyOf(p, at, len, c)
  IN  IF hit THEN 1 ELSE -1

-----------------------------------------------------------------------------
(* The walk.  Bar matches the chunk [at, len) of the expression at the      *)
(* chunk [s, n) of the subject; bi is the last bracket opened.  Each result *)
(* is the length matched, or an error, and the captures.  i and j are the   *)
(* offsets in the two chunks.                                               *)
RECURSIVE BarFrom(_, _, _, _), Doh(_, _, _, _, _), Repeated(_, _, _, _)

Answer(n, caps) == [n |-> n, caps |-> caps]

Bar(p, at, len, s, n, bi, caps) ==
  BarFrom(p, [at |-> at, len |-> len, s |-> s, n |-> n, bi |-> bi, i |-> 0], 0, caps)

Gain(n) == IF n > 0 THEN n ELSE 0

Step(p, w) == IF Re(p, w.at + w.i) = "(" THEN p.brackets[w.bi + 1].len + 2
              ELSE GetOpLen(p, w.at + w.i, w.len - w.i)

(* `?`: one try, whatever it gives.                                         *)
(* Mutant: the quantifier itself is not skipped. *)
OptionalStays(p, w, step, j, caps) ==
  LET r == Bar(p, w.at + w.i, step, w.s + j, w.n - j, w.bi, caps)
  IN  BarFrom(p, [w EXCEPT !.i = @ + step], j + Gain(r.n), r.caps)
Optional(p, w, step, j, caps) ==
  LET r == Bar(p, w.at + w.i, step, w.s + j, w.n - j, w.bi, caps)
  IN  BarFrom(p, [w EXCEPT !.i = @ + step + 1], j + Gain(r.n), r.caps)

(* `+` and `*`: the loop body.  v holds the operands of the repetition, u   *)
(* what the loop carries: j2, nj, n1 and n2.                                *)
Repeated(p, w, v, u) ==
  LET one == Bar(p, w.at + w.i, v.step, w.s + u.j2, w.n - u.j2, w.bi, u.caps)
      j2 == u.j2 + Gain(one.n)
      rest == Bar(p, w.at + v.ni, w.len - v.ni, w.s + j2, w.n - j2, w.bi, one.caps)
      last == v.ni >= w.len
      next == [j2 |-> j2, n1 |-> one.n,
               nj |-> IF last THEN j2 ELSE IF rest.n >= 0 THEN j2 + rest.n ELSE u.nj,
               n2 |-> IF last THEN u.n2 ELSE rest.n,
               caps |-> IF last THEN one.caps ELSE rest.caps]
  IN  IF v.plus /\ one.n < 0 THEN [u EXCEPT !.n1 = one.n, !.caps = one.caps]
      ELSE IF one.n <= 0 \/ (next.nj > v.j /\ v.lazy) THEN next
      ELSE Repeated(p, w, v, next)

Quantified(p, w, step, j, caps) ==
  LET after == w.i + step + 1
      lazy == after < w.len /\ Re(p, w.at + after) = "?"
      ni == IF lazy THEN after + 1 ELSE after
      plus == Re(p, w.at + w.i + step) = "+"
      u == Repeated(p, w, [step |-> step, ni |-> ni, lazy |-> lazy, plus |-> plus, j |-> j],
                    [j2 |-> j, nj |-> j, n1 |-> 0, n2 |-> -1, caps |-> caps])
      none == Bar(p, w.at + ni, w.len - ni, w.s + j, w.n - j, w.bi, u.caps)
      retry == u.n1 < 0 /\ ~plus
      nj == IF retry /\ none.n > 0 THEN j + none.n ELSE u.nj
      n2 == IF retry THEN none.n ELSE u.n2
      caps2 == IF retry THEN none.caps ELSE u.caps
  IN  IF nj = j /\ (plus \/ (ni < w.len /\ n2 < 0)) THEN Answer(NoMatch, caps2)
      ELSE Answer(nj, caps2)

(* A bracket, with less and less of the subject until the rest matches too. *)
RECURSIVE Shorter(_, _, _, _, _, _)
Shorter(p, w, step, j, j2, caps) ==
  LET in == Doh(p, w.s + j, w.n - (j + j2), w.bi + 1, caps)
      rest == Bar(p, w.at + w.i + step, w.len - (w.i + step),
                  w.s + j + in.n, w.n - (j + in.n), w.bi + 1, in.caps)
      tried == IF in.n >= 0 THEN rest.caps ELSE in.caps
  IN  IF (in.n >= 0 /\ rest.n >= 0) \/ j2 = w.n - j THEN Answer(in.n, tried)
      ELSE Shorter(p, w, step, j, j2 + 1, tried)

Bracket(p, w, step, j, caps) ==
  LET bi == w.bi + 1
      r == IF w.len - (w.i + step) <= 0 THEN Doh(p, w.s + j, w.n - j, bi, caps)
           ELSE Shorter(p, w, step, j, 0, caps)
      kept == IF p.numCaps = 0 THEN r.caps
              ELSE [r.caps EXCEPT ![bi] = [at |-> w.s + j, len |-> r.n]]
  IN  IF bi >= Cardinality(DOMAIN p.brackets) THEN Answer(InternalError, caps)
      ELSE IF r.n < 0 THEN r
      ELSE BarFrom(p, [w EXCEPT !.i = @ + step, !.bi = bi], j + r.n, kept)

(* A set reads the subject without asking whether it has ended.             *)
Single(p, w, step, j) ==
  LET k == w.at + w.i
  IN  CASE Re(p, k) = "[" -> MatchSet(p, k + 1, w.len - (w.i + 2), Subject(p, w.s + j))
        [] Re(p, k) = "^" -> IF j # 0 THEN NoMatch ELSE 0
        [] Re(p, k) = "$" -> IF j # w.n THEN NoMatch ELSE 0
        [] OTHER -> IF j >= w.n THEN NoMatch ELSE MatchOp(p, k, Subject(p, w.s + j))

BarFrom(p, w, j, caps) ==
  LET k == w.at + w.i
      step == Step(p, w)
      q == IF w.i + step < w.len THEN Re(p, k + step) ELSE Nul
      n == Single(p, w, step, j)
  IN  IF w.i >= w.len \/ j > w.n THEN Answer(j, caps)
      ELSE IF Quantifier(Re(p, k)) THEN Answer(UnexpectedQuantifier, caps)
      ELSE IF step <= 0 THEN Answer(InvalidCharacterSet, caps)
      ELSE IF q = "?" THEN Optional(p, w, step, j, caps)
      ELSE IF q \in {"+", "*"} THEN Quantified(p, w, step, j, caps)
      ELSE IF Re(p, k) = "(" THEN Bracket(p, w, step, j, caps)
      ELSE IF n < 0 THEN Answer(n, caps)
      ELSE BarFrom(p, [w EXCEPT !.i = @ + step], j + n, caps)

(* The branches of bracket bi, from branch i on, until one matches more     *)
(* than nothing.                                                            *)
RECURSIVE DohFrom(_, _, _, _, _, _)
DohFrom(p, s, n, bi, i, caps) ==
  LET b == p.brackets[bi]
      at == IF i = 0 THEN b.at ELSE p.branches[b.branches + i].at + 1
      end == IF i = b.num THEN b.at + b.len ELSE p.branches[b.branches + i + 1].at
      r == Bar(p, at, end - at, s, n, bi, caps)
  IN  IF r.n <= 0 /\ i < b.num THEN DohFrom(p, s, n, bi, i + 1, r.caps) ELSE r

Doh(p, s, n, bi, caps) == DohFrom(p, s, n, bi, 0, caps)

RECURSIVE Baz(_, _, _)
Baz(p, i, caps) ==
  LET r == Doh(p, 1 + i, Len(p.text) - i, 0, caps)
  IN  IF r.n >= 0 THEN Answer(r.n + i, r.caps)
      ELSE IF i = Len(p.text) \/ Re(p, p.brackets[0].at) = "^" THEN r
      ELSE Baz(p, i + 1, r.caps)

-----------------------------------------------------------------------------
(* The first pass over the expression.                                      *)
SortBranches(branches) ==
  LET n == Len(branches)
      Exchange(b, i, j) ==
        IF b[i].bracket > b[j].bracket THEN [b EXCEPT ![i] = b[j], ![j] = b[i]] ELSE b
      RECURSIVE From(_, _, _)
      From(b, i, j) == IF i > n THEN b
                       ELSE IF j > n THEN From(b, i + 1, i + 2)
                       ELSE From(Exchange(b, i, j), i, j + 1)
  IN  From(branches, 1, 2)

(* Brackets 0, 1, ... take the runs of branches that carry their index, as  *)
(* far as these follow in this order.                                       *)
SetupBranchPoints(p) ==
  LET sorted == SortBranches(p.branches)
      before(b) == Cardinality({k \in DOMAIN sorted : sorted[k].bracket < b})
      own(b) == Cardinality({k \in DOMAIN sorted : sorted[k].bracket = b})
  IN  [p EXCEPT !.branches = sorted,
                !.brackets = [b \in DOMAIN @ |->
                   [at |-> @[b].at, len |-> @[b].len, branches |-> before(b), num |-> own(b)]]]

Open == -1          \* len of a bracket that has not been closed

Scan(p, i, depth) ==
  LET num == Cardinality(DOMAIN p.brackets)
      here == IF p.brackets[num - 1].len = Open THEN num - 1 ELSE depth
      c == Re(p, i)
      e == Re(p, i + 1)
      badEscape == IF e = "x" THEN i > Len(p.re) - 3 \/ ~HexDigit(Re(p, i + 2)) \/ ~HexDigit(Re(p, i + 3))
                   ELSE i > Len(p.re) - 1 \/ ~Metacharacter(e)
      Fail(code) == [p |-> p, depth |-> depth, error |-> code]
      Go(q, d) == [p |-> q, depth |-> d, error |-> 0]
      opened == (num :> [at |-> i + 1, len |-> Open]) @@ p.brackets
      closed == [p.brackets EXCEPT ![here].len = i - p.brackets[here].at]
  IN  CASE c = "|" -> IF Len(p.branches) >= MaxBranches THEN Fail(TooManyBranches)
                      ELSE Go([p EXCEPT !.branches = Append(@, [bracket |-> here, at |-> i])], depth)
        [] c = "\\" -> IF badEscape THEN Fail(InvalidMetacharacter) ELSE Go(p, depth)
        [] c = "(" -> IF num >= MaxBrackets THEN Fail(TooManyBrackets)
                      ELSE IF p.numCaps > 0 /\ num > p.numCaps THEN Fail(CapsArrayTooSmall)
                      ELSE Go([p EXCEPT !.brackets = opened], depth + 1)
        [] c = ")" -> IF depth < 1 THEN Fail(UnbalancedBrackets)
                      ELSE IF i > 1 /\ Re(p, i - 1) = "(" THEN Fail(NoMatch)
                      ELSE Go([p EXCEPT !.brackets = closed], depth - 1)
        [] OTHER -> Go(p, depth)

RECURSIVE Foo(_, _, _, _)
Foo(p, i, depth, caps) ==
  LET r == Scan(p, i, depth)
  IN  IF i > Len(p.re)
      THEN IF depth # 0 THEN Answer(UnbalancedBrackets, caps) ELSE Baz(SetupBranchPoints(p), 0, caps)
      ELSE IF r.error # 0 THEN Answer(r.error, caps)
      ELSE Foo(r.p, i + GetOpLen(p, i, Len(p.re) + 1 - i), r.depth, caps)

slre_match(regexp, text, numCaps) ==
  LET ignore == Len(regexp) >= 4 /\ SubSeq(regexp, 1, 4) = Chars("(?i)")
      re == IF ignore THEN SubSeq(regexp, 5, Len(regexp)) ELSE regexp
      p == [re |-> re, text |-> text, ignoreCase |-> ignore, numCaps |-> numCaps, branches |-> << >>,
            brackets |-> 0 :> [at |-> 1, len |-> Len(re)]]
      unset == [b \in 1..numCaps |-> [at |-> 0, len |-> 0]]
  IN  Foo(p, 1, 0, unset)

-----------------------------------------------------------------------------
(* benchmark_body(): the sum of the four matches.                           *)
Text == Chars("abbbababaabccababcacbcbcbabbabcbabcabcbbcbbac")
Regexes == << Chars("(ab)+"), Chars("(b.+)+"), Chars("a[ab]*"), Chars("([ab^c][ab^c])+") >>
BenchmarkResult ==
  slre_match(Regexes[1], Text, 1).n + slre_match(Regexes[2], Text, 1).n
    + slre_match(Regexes[3], Text, 1).n + slre_match(Regexes[4], Text, 1).n
-----------------------------------------------------------------------------
(* What an expression denotes.  An item is an atom -- its text and the      *)
(* words it stands for -- and a quantifier; Ends is the set of the places   *)
(* where a match of the items that starts at i may end.                     *)
Atom(text, words) == [text |-> text, words |-> {Chars(word) : word \in words}]

AtomEnds(atom, t, I) ==
  {i + Len(word) : i \in I, word \in atom.words}
    \cap {e \in 0..Len(t) : \E i \in I, word \in atom.words :
            e = i + Len(word) /\ SubSeq(t, i + 1, e) = word}

Closure(atom, t, I) ==
  LET after[n \in 0..Len(t)] == IF n = 0 THEN I ELSE after[n - 1] \cup AtomEnds(atom, t, after[n - 1])
  IN  after[Len(t)]

ItemEnds(item, t, I) ==
  CASE item.q = "" -> AtomEnds(item.atom, t, I)
    [] item.q = "?" -> I \cup AtomEnds(item.atom, t, I)
    [] item.q = "*" -> Closure(item.atom, t, I)
    [] item.q = "+" -> Closure(item.atom, t, AtomEnds(item.atom, t, I))

Ends(items, t, i) == FoldLeft(LAMBDA I, item : ItemEnds(item, t, I), {i}, items)
Written(items) == FoldLeft(LAMBDA re, item : re \o Chars(item.atom.text) \o Chars(item.q), << >>, items)

(* The matcher tries one length for an optional item and one alternative    *)
(* for a bracket: where that can cost it a match, its No is not final.      *)
Committed(items) ==
  \/ \E k \in 1..(Len(items) - 1) : items[k].q = "?"
  \/ \E k \in DOMAIN items : \E u, v \in items[k].atom.words :
       Len(u) < Len(v) /\ u = SubSeq(v, 1, Len(u))

(* Only a bracket without a quantifier counts one up in the number of the   *)
(* last bracket that was opened (`bi++`): behind one with a quantifier the  *)
(* next bracket is taken for that one again, with its branches and its      *)
(* length, and what its own text has beyond that is read on its own.  The   *)
(* pattern, of two items at most, as the matcher reads it:                  *)
IsBracket(item) == SubSeq(item.atom.text, 1, 1) = "("
Misnumbered(items) ==
  Len(items) = 2 /\ IsBracket(items[1]) /\ IsBracket(items[2]) /\ items[1].q # ""
AsRead(items) ==
  IF ~Misnumbered(items) THEN items
  ELSE LET again == items[1].atom
           own == Chars(items[2].atom.text)
           left == SubSeq(own, Len(again.text) + 1, Len(own))
           quantified(last) == IF last THEN items[2].q ELSE ""
       IN  <<items[1], [atom |-> again, q |-> quantified(Len(own) = Len(again.text))]>>
             \o [j \in DOMAIN left |->
                   [atom |-> [text |-> left[j], words |-> {<<left[j]>>}],
                    q |-> quantified(j = Len(left))]]

(* A match ends where the denotation of what is read says that one may end, *)
(* and where a match exists the matcher finds one (line 229 on).            *)
FindsMatch(items, t) ==
  LET r == slre_match(Written(items), t, 2).n
      ends == UNION {Ends(AsRead(items), t, i) : i \in 0..Len(t)}
  IN  /\ r >= 0 => r \in ends
      /\ r < 0 => (ends = {} \/ Committed(AsRead(items)))
=============================================================================
