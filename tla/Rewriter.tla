----------------------------- MODULE Rewriter ------------------------------
(***************************************************************************)
(* The source-to-source part of the acceleration flow: what                *)
(* tools/idiom_detector.py finds in a C file, what tools/c_rewriter.py     *)
(* makes of it, and what the two builds of pariscv_flow.py compile.        *)
(*                                                                         *)
(* A source is a sequence of lines.  A line stands for its shape:          *)
(*   "#include", "intrinsics" (the include of custom_intrinsics.h), "text" *)
(*     (comments and declarations),                                        *)
(*   "init()", "run()", "{", "}": the two functions of a benchmark,        *)
(*   "for": a loop header that opens a brace; "fill": a loop on one line,  *)
(*   "mac8", "mac32": acc += a[i] * b[i] with and without the int32_t      *)
(*     casts; "formac8", "formac32": the same behind its loop header,      *)
(*   "dot4", "dot2": acc = dot4_scalar(x, y, acc), acc = dot2_scalar(..),  *)
(*   "rol", "rolm": (x << n) | (x >> (32 - n)), also with the bit mask;    *)
(*   "ror": (x >> n) | (x << (32 - n)); "idx": table[e & 0xff],            *)
(*   "#if ..." on USE_PG_SDOT4, USE_PG_SDOT2, USE_PG_ROL, USE_PG_IDX,      *)
(*     "#else", "#endif", and the custom instruction as inline assembly,   *)
(*   "pg.sdot4", "pg.sdot2", "pg.rol", "pg.idx": an intrinsic or inline    *)
(*     assembly; "dotblock": the loop over packed words with its epilogue. *)
(***************************************************************************)
EXTENDS Integers, SequencesExt
LOCAL Eager == INSTANCE Words

Defines == [sdot4 |-> "#if SDOT4", sdot2 |-> "#if SDOT2", rol |-> "#if ROL",
            idx |-> "#if IDX"]
Instruction == [sdot4 |-> "pg.sdot4", sdot2 |-> "pg.sdot2", rol |-> "pg.rol",
                idx |-> "pg.idx"]

Loops == {"for", "fill", "formac8", "formac32"}
Has(source, line) == \E i \in DOMAIN source : source[i] = line
Where(source, lines) == {i \in DOMAIN source : source[i] \in lines}
FirstOf(source, lines) == Min(Where(source, lines))

-----------------------------------------------------------------------------
(* idiom_detector.detect: the matches, in the order of the scans.           *)

Match(name, line, original, packed) ==
  [name |-> name, line |-> line, original |-> original, packed |-> packed]

(* A raw loop needs a loop keyword in the lines around it.                  *)
InLoop(source, i) == \E j \in i - 5 .. i + 1 : j \in DOMAIN source /\ source[j] \in Loops

RawMatch(source, lines) ==
  IF Where(source, lines) = {} THEN <<>>
  ELSE LET i == FirstOf(source, lines)
       IN  IF InLoop(source, i) THEN <<Match("sdot4", i, source[i], FALSE)>> ELSE <<>>

Sdot4Scan(source) ==
  IF Has(source, "#if SDOT4") \/ Has(source, "pg.sdot4")
  THEN IF Has(source, "dot4")
       THEN <<Match("sdot4", FirstOf(source, {"dot4"}), "dot4", TRUE)>> ELSE <<>>
  ELSE IF Has(source, "#if SDOT2") \/ Has(source, "dot2") THEN <<>>
  ELSE LET casts == RawMatch(source, {"mac8", "formac8"})
       IN  IF casts # <<>> THEN casts ELSE RawMatch(source, {"mac32", "formac32"})

Sdot2Scan(source) ==
  IF Has(source, "dot2") THEN <<Match("sdot2", FirstOf(source, {"dot2"}), "dot2", TRUE)>>
  ELSE <<>>

(* The patterns are tried in this order; the first that occurs decides.     *)
RolScan(source) ==
  LET found == SelectSeq(<<"rol", "ror", "rolm">>, LAMBDA p : Has(source, p))
  IN  IF found = <<>> THEN <<>>
      ELSE <<Match("rol", FirstOf(source, {found[1]}), found[1], FALSE)>>

IdxScan(source) ==
  IF Has(source, "idx") THEN <<Match("idx", FirstOf(source, {"idx"}), "idx", FALSE)>>
  ELSE <<>>

detect(source) ==
  Sdot4Scan(source) \o Sdot2Scan(source) \o RolScan(source) \o IdxScan(source)

-----------------------------------------------------------------------------
(* c_rewriter.rewrite. *)

Banner == <<"text", "text", "text", "text", "text">>

Cut(source, first, last, new) ==
  SubSeq(source, 1, first - 1) \o new \o SubSeq(source, last + 1, Len(source))
ReplaceLine(source, line, new) ==
  IF Has(source, line)
  THEN [source EXCEPT ![FirstOf(source, {line})] = new] ELSE source

(* Every #if ... end becomes one unconditional intrinsic.                   *)
ReplaceTo(end, source, if, new) ==
  LET inside(i) == \E j \in Where(source, {if}) :
                     j < i /\ ~\E k \in Where(source, {end}) : j < k /\ k < i
      kept == SelectSeq([i \in DOMAIN source |-> i], LAMBDA i : ~inside(i))
  IN  [j \in DOMAIN kept |-> IF source[kept[j]] = if THEN new ELSE source[kept[j]]]

(* Mutant: the block ends at its #else, the scalar call stays.              *)
ReplaceBlocksToElse(source, if, new) == ReplaceTo("#else", source, if, new)
ReplaceBlocks(source, if, new) == ReplaceTo("#endif", source, if, new)

Depth(source, first, last) ==
  Cardinality({i \in Where(source, {"{", "for"}) : first <= i /\ i <= last})
    - Cardinality({i \in Where(source, {"}"}) : first <= i /\ i <= last})

(* The fallback comments the accumulation out.                              *)
ExprOnly(source, match) == ReplaceLine(source, match.original, "text")

(* The loop is looked for from the match's line upwards, at most ten lines, *)
(* and its end at most thirty lines down.  The line was counted before the  *)
(* banner was put in front.                                                 *)
RewriteRaw(source, match) ==
  LET starts == {i \in Where(source, Loops) : i <= match.line /\ i > match.line - 10}
      start == Max(starts)
      ends == {i \in start + 1 .. Len(source) :
                 i < start + 30 /\ Depth(source, start, i) = 0}
  IN  IF starts = {} \/ ends = {} THEN ExprOnly(source, match)
      ELSE Cut(source, start, Min(ends), <<"dotblock">>)

(* All scalar calls are replaced when there is no #if around them.          *)
RewriteSdot2(source) ==
  IF Has(source, "#if SDOT2") THEN ReplaceBlocks(source, "#if SDOT2", "pg.sdot2")
  ELSE [i \in DOMAIN source |-> IF source[i] = "dot2" THEN "pg.sdot2" ELSE source[i]]

RewriteOne(source, match) ==
  CASE match.name = "sdot4" /\ match.packed -> ReplaceBlocks(source, "#if SDOT4", "pg.sdot4")
    [] match.name = "sdot4" /\ ~match.packed -> RewriteRaw(source, match)
    [] match.name = "sdot2" -> RewriteSdot2(source)
    [] match.name \in {"rol", "idx"} ->
         ReplaceLine(source, match.original, Instruction[match.name])

EnsureInclude(source) ==
  IF Has(source, "intrinsics") THEN source
  ELSE IF ~Has(source, "#include") THEN <<"intrinsics">> \o source
  ELSE LET last == Max(Where(source, {"#include"}))
       IN  Cut(source, last, last, <<"#include", "intrinsics">>)

rewrite(source, matches) ==
  LET transformed == FoldLeft(RewriteOne, Banner \o source, matches)
  IN  IF matches = <<>> THEN transformed ELSE EnsureInclude(transformed)

-----------------------------------------------------------------------------
(* The two builds.  The first idiom alone selects what is defined; a macro  *)
(* that is not defined counts as 0.                                         *)

BaseDefines(matches) == {}
AccelDefines(matches) ==
  IF matches[1].name = "sdot4" THEN {} ELSE {Defines[matches[1].name]}

(* The preprocessor keeps one branch of every conditional.                  *)
Ifs == {Defines[name] : name \in DOMAIN Defines}
Branch(source, i) ==
  LET if == Max({j \in Where(source, Ifs) : j < i})
  IN  <<source[if], \E j \in Where(source, {"#else"}) : if < j /\ j < i>>
Conditional(source, i) ==
  \E j \in Where(source, Ifs) : j < i /\ ~\E k \in Where(source, {"#endif"}) : j < k /\ k < i
Directives == Ifs \cup {"#else", "#endif", "#include", "intrinsics", "text"}
Compiled(source, defines) ==
  LET kept(i) == /\ source[i] \notin Directives
                 /\ Conditional(source, i) =>
                      (Branch(source, i)[1] \in defines) # Branch(source, i)[2]
      lines == SelectSeq([i \in DOMAIN source |-> i], kept)
  IN  [j \in DOMAIN lines |-> source[lines[j]]]

(* What a compiled program computes: the custom instructions are what the C *)
(* code they replace is, and a loop around a product is the dot product of  *)
(* the arrays.  The packed loop takes the arrays for arrays of bytes.       *)
Computes(line) ==
  CASE line = "dot4" -> "pg.sdot4" [] line = "dot2" -> "pg.sdot2"
    [] line \in {"rol", "rolm"} -> "pg.rol" [] line = "idx" -> "pg.idx"
    [] line = "formac8" -> "dotblock" [] OTHER -> line
Meaning(lines) ==
  LET product(i) == /\ i \in 1 .. Len(lines) - 2
                    /\ lines[i] = "for" /\ lines[i + 1] \in {"mac8", "mac32"}
                    /\ lines[i + 2] = "}"
      kept == SelectSeq([i \in DOMAIN lines |-> i],
                        LAMBDA i : ~product(i - 1) /\ ~product(i - 2))
  IN  [j \in DOMAIN kept |->
         IF product(kept[j])
         THEN IF lines[kept[j] + 1] = "mac8" THEN "dotblock" ELSE "formac32"
         ELSE Computes(lines[kept[j]])]

Baseline(source) ==
  Eager!With(LAMBDA matches : Compiled(source, BaseDefines(matches)), detect(source))
Accelerated(source) ==
  Eager!With(LAMBDA matches :
         Eager!With(LAMBDA lines : Compiled(lines, AccelDefines(matches)),
              rewrite(source, matches)),
       detect(source))

Custom == {Instruction[name] : name \in DOMAIN Instruction} \cup {"dotblock"}
Uses(lines) == {lines[i] : i \in DOMAIN lines} \cap Custom

(* The same for several sources, each under a name.                         *)
Tags == {"baseline", "accel"}
Findings(sources) == Eager!Made([r \in DOMAIN sources |-> detect(sources[r])])
Programs(sources) ==
  Eager!Made([p \in (DOMAIN sources) \X Tags |->
    IF p[2] = "baseline" THEN Baseline(sources[p[1]]) ELSE Accelerated(sources[p[1]])])
Results(sources) == Eager!Made([p \in DOMAIN Programs(sources) |-> << Meaning(Programs(sources)[p]) >>])

-----------------------------------------------------------------------------
(* The shape that rotates to the right is noted as `swapped`, which nothing *)
(* reads: it is rewritten to a rotate to the left by the same amount.       *)
RotatesRight(source) ==
  \E i \in DOMAIN detect(source) : detect(source)[i].original = "ror"
Turned(source, lines) ==
  IF RotatesRight(source) THEN ReplaceLine(lines, "ror", "pg.rol") ELSE lines

(* A source in the packed form, or with a rotate or a table lookup: the     *)
(* accelerated program computes what the baseline does, but for the rotate  *)
(* to the right, the baseline has no custom instruction, and the            *)
(* accelerated one has one for every idiom that was found, although the     *)
(* first idiom alone selects the defines.                                   *)
RewriteIsExact(source) ==
  LET found == {detect(source)[i].name : i \in DOMAIN detect(source)}
  IN  /\ Meaning(Accelerated(source)) = Turned(source, Meaning(Baseline(source)))
      /\ Uses(Baseline(source)) = {}
      /\ Uses(Accelerated(source)) = {Instruction[name] : name \in found}
=============================================================================
