---------------------------- MODULE MCPrograms -----------------------------
(***************************************************************************)
(* Instances for TLC of the benchmark programs and of the flow that builds *)
(* and measures them.  One execution is that of one program; the variables *)
(* of the others stand still.                                              *)
(***************************************************************************)
EXTENDS Heap, MdBuffer, Flow, Nsichneu, DlList

CONSTANT None

MCHeaps == {2, 3}
MCSizes == 0 .. 3
MCByte == {0, 1}

VARIABLES
  program,    \* The program this execution is of.
  stS, stRunning,                                             \* Statemate
  rbTree, rbAborted, rbMembers,                               \* RbTree
  kernel,     \* A program that is one computation, and its input.
  computed    \* Whether it has been run.

stVars == <<stS, stRunning>>
rbVars == <<rbTree, rbAborted, rbMembers>>
kVars == <<kernel, computed>>
allVars == <<program, heapVars, netVars, hashVars, stVars, rbVars, listVars, flowVars, kVars>>

-----------------------------------------------------------------------------
(* The programs that run in steps. *)

Bench == INSTANCE Benchmarks
MCValues == {0, 1}
MCUnrolled == Bench!Blocks

(* The buffering of the hash over blocks of four bytes, with the chain of   *)
(* blocks itself as the hash, so that no two messages have the same one.    *)
MCCompress(chain, bytes) == Append(chain, bytes)
MCStartState == << >>
MCWriteSize(bits) == <<bits>>
MCData == {1, 2}

(* KL_50 is low: no window moves while the key is out of the lock.          *)
Signals ==
  [A_MEC : BOOLEAN, Z_MEC : BOOLEAN, I_EIN : {0, 1}, POSITION : {0, 200, 405},
   LEISTE : BOOLEAN, KL_50 : {FALSE}]
Window == INSTANCE Statemate WITH
  FirstIsSource <- FALSE, MidCall <- FALSE, Inputs <- Signals,
  s <- stS, running <- stRunning

(* Keys collide, so that equal members meet.                                *)
Tree == INSTANCE RbTree WITH
  Elems <- 1 .. 7, Key <- [e \in 1 .. 7 |-> (e * 3) % 5],
  tree <- rbTree, aborted <- rbAborted, members <- rbMembers
MCElems == 1 .. 4
MCKey == [e \in 1 .. 4 |-> (e * 2) % 3]
MCSeconds == 1 .. 3
MCSortedList(s) == Bench!LIST_SORT(MCKey, s)

Source == INSTANCE Rewriter

(* Two flows in one simulation directory and on one source file, with a     *)
(* rotate to the left or, as edited for the other flow, to the right.       *)
Conditional(macro, instruction, scalar) ==
  <<macro, instruction, "#else", scalar, "#endif">>
Rotating(line) ==
  <<"#include", "init()", "{", "fill", "}", "run()", "{", "for", line, "}", "}">>
FlowSources == [r1 |-> Rotating("rol"), r2 |-> Rotating("ror")]
FlowFindings == Source!Findings(FlowSources)
FlowPrograms == Source!Programs(FlowSources)
FlowResults == Source!Results(FlowSources)

(* The values of the constants of Flow; those with a table of their own are *)
(* evaluated once, which they are not where the .cfg names the table.       *)
MCRuns == {"r1", "r2"}
MCStem == [r \in MCRuns |-> "bench_rol"]
MCSimDir == [r \in MCRuns |-> "sim"]
MCFound == FlowFindings
MCProgram == FlowPrograms
MCResult == FlowResults

-----------------------------------------------------------------------------
(* The programs that are one computation. *)

Sums == INSTANCE Kernels
ShaBuffer == INSTANCE MdBuffer WITH
  Compress <- Sums!COMPRESS, StartState <- Sums!InitialState, BlockSize <- 64, SizeField <- 8,
  WriteSize <- Sums!WRITE_UINT64, Data <- {}, MaxLen <- 0
Predictor == INSTANCE Xpulp WITH Regs <- {}, WordBits <- 32, DivCycles <- 35
Regex == INSTANCE Slre
Words4 == INSTANCE Mont64 WITH W <- 4
Words6 == INSTANCE Mont64 WITH W <- 6
Coder == INSTANCE Huffbench WITH Symbols <- 36, ByteBits <- 6
SmallCoder == INSTANCE Huffbench WITH Symbols <- 5, ByteBits <- 3
NoCache == INSTANCE WikiSort WITH CacheSize <- 0
SmallCache == INSTANCE WikiSort WITH CacheSize <- 8
FullCache == INSTANCE WikiSort WITH CacheSize <- 512

(* The shortest arrays that are split into more than one block to merge,    *)
(* with few and with many equal keys; sorted backwards; and the tests of    *)
(* the benchmark that draw no numbers.                                      *)
Numbers(Value(_), n) == [k \in 0 .. n - 1 |-> [value |-> Value(k), index |-> k]]
Arrays ==
  UNION {{Numbers(LAMBDA k : (k * m) % p, n), Numbers(LAMBDA k : (n - k) \div m, n),
          Numbers(LAMBDA k : (k * k * 7 + k * m) % p, n)} :
         n \in {33, 40, 65, 70}, m \in {1, 3}, p \in {2, 7, 31}}
    \cup NoCache!TestArrays(65)
SizeOf(a) == Cardinality(DOMAIN a)
Sorted(cache, a) ==
  CASE cache = 0 -> NoCache!Sort(a, SizeOf(a))
    [] cache = 8 -> SmallCache!Sort(a, SizeOf(a))
    [] cache = 512 -> FullCache!Sort(a, SizeOf(a))

(* Patterns of at most two items over two letters, and the texts of at most *)
(* four letters.                                                            *)
Atoms ==
  {Regex!Atom("a", {"a"}), Regex!Atom("b", {"b"}), Regex!Atom(".", {"a", "b"}),
   Regex!Atom("[ab]", {"a", "b"}), Regex!Atom("[b-b]", {"b"}),
   Regex!Atom("(ab)", {"ab"}), Regex!Atom("(a|b)", {"a", "b"}),
   Regex!Atom("(a|ab)", {"a", "ab"})}
Items == [atom : Atoms, q : {"", "*", "+", "?"}]
Patterns == UNION {[1 .. n -> Items] : n \in 1 .. 2}
Texts == UNION {[1 .. n -> {"a", "b"}] : n \in 0 .. 4}

(* Sources with one or two idioms in the packed form, or with a rotate or a *)
(* table lookup, behind different beginnings of a file.                     *)
Idioms ==
  {Conditional("#if SDOT4", "pg.sdot4", "dot4"), Conditional("#if SDOT2", "pg.sdot2", "dot2"),
   Conditional("#if ROL", "pg.rol", "rol"), Conditional("#if IDX", "pg.idx", "idx"),
   <<"dot2">>, <<"rol">>, <<"rolm">>, <<"ror">>, <<"idx">>, <<"text">>}
Sources ==
  {head \o <<"init()", "{">> \o fill \o <<"}", "text", "run()", "{", "for">>
     \o body \o <<"}", "}">> :
     head \in {<<>>, <<"#include">>, <<"text", "#include", "text">>},
     fill \in {<<"fill">>, <<"for", "text", "}">>},
     body \in ({a \o b : a, b \in Idioms} \ {<<"text", "text">>})}

(* Sources with the multiply-accumulate loop that `_rewrite_sdot4_raw()`    *)
(* documents, and shipped as model/bench/bench_single_loop.c.               *)
RawSources ==
  {head \o <<"init()", "{">> \o fill \o <<"}", "text", "run()", "{", "text">> \o loop
     \o <<"text", "}">> :
     head \in {<<"#include">>, <<"text", "text", "#include", "text", "text", "text">>},
     fill \in {<<"fill">>, <<"for", "text", "}">>},
     loop \in {<<"for", "mac8", "}">>, <<"formac32">>}}

(* Loops over an array: all orders of the counting with up to three of the  *)
(* instructions that make an address, access memory or compute.             *)
Op(base, ops) ==
  LET plain == base \in {"sw", "beq"}
  IN  [base |-> base, rvc |-> FALSE, pc |-> 0, size |-> 4, ops |-> ops, csr |-> "fast",
       writes |-> IF plain THEN "zero" ELSE Head(ops),
       reads |-> {ops[k] : k \in (IF plain THEN 1 ELSE 2) .. Len(ops)}, divisor |-> None]
Counting == Op("addi", <<"i", "i">>)
Code == {
  Op("slli", <<"t", "i">>), Op("add", <<"t", "A", "t">>), Op("add", <<"u", "A", "i">>),
  Op("addi", <<"A", "A">>), Op("lw", <<"x", "t">>), Op("lw", <<"y", "A">>),
  Op("lw", <<"t", "u">>), Op("mul", <<"p", "x", "y">>), Op("add", <<"s", "s", "p">>),
  Op("add", <<"s", "s", "i">>), Op("sw", <<"p", "u">>)}
LoopBodies ==
  {Append(b, Op("beq", <<"i", "n">>)) :
     b \in UNION {{c \in [1 .. n -> Code \cup {Counting}] :
                     /\ \E k \in 1 .. n : c[k] = Counting
                     /\ \A j, k \in 1 .. n : c[j] = c[k] => j = k} : n \in 1 .. 4}}

(* The trace of two turns of a loop behind the branch that guards it, and   *)
(* of the loop within another one; the code starts at pc.                   *)
LaidOut(code, pc) == [k \in DOMAIN code |-> [code[k] EXCEPT !.pc = pc + 4 * (k - 1)]]
Guarded(b, pc) ==
  LET code == LaidOut(<<Op("beq", <<"n", "zero">>)>> \o b \o <<Op("sw", <<"s", "B">>)>>, pc)
      turn == SubSeq(code, 2, Len(b) + 1)
  IN  <<code[1]>> \o turn \o turn \o <<code[Len(b) + 2]>>
Nested(b, pc) ==
  LET code == LaidOut(<<Op("add", <<"t", "A", "j">>)>> \o b
                        \o <<Op("addi", <<"j", "j">>), Op("beq", <<"j", "m">>),
                             Op("sw", <<"s", "B">>)>>, pc)
      turn == SubSeq(code, 2, Len(b) + 1)
      round == <<code[1]>> \o turn \o turn \o SubSeq(code, Len(b) + 2, Len(b) + 3)
  IN  round \o round \o <<code[Len(b) + 4]>>

(* Small factors of a matrix; the lower one has ones on its diagonal.       *)
Lowers == {<< <<1, 0, 0>>, <<p, 1, 0>>, <<q, r, 1>> >> : p, q, r \in {-2, 0, 3}}
Uppers == {<< <<p, q, r>>, <<0, q, p>>, <<0, 0, r>> >> : p, q, r \in {-3, 1, 2}}

Computations ==
  [of : {"sort"}, input : Arrays, cache : {0, 8, 512}]
    \cup [of : {"regex"}, input : Patterns]
    \cup [of : {"rewrite"}, input : Sources]
    \cup [of : {"xpulp"}, input : LoopBodies]
    \cup [of : {"array sort"}, input : 0 .. 6]
    \cup [of : {"crc", "md5", "matmult", "ud", "primecount", "edn", "tarfind", "aes",
                "sglib", "slre", "huffbench", "sha", "kernels", "copies"}]
    \cup [of : {"code"}, input : UNION {[1 .. n -> 0 .. 3] : n \in 1 .. 4}]
    \cup [of : {"cipher"}, input : {16, 17, 24, 31, 32}]
    \cup [of : {"mont"}, input : {m \in 3 .. 15 : m % 2 = 1}]
    \cup [of : {"wide mont"}, input : {33, 47, 61, 63}]

-----------------------------------------------------------------------------
(* One program runs; the variables of the others are as they were.          *)

NoBlock ==
  /\ heap = CHOOSE h \in Heaps : TRUE
  /\ heap_ptr = heap /\ heap_requested = 0 /\ blocks = {} /\ refused = FALSE
  /\ memory = [x \in heap .. heap + HeapSize - 1 |-> 0]
NoNet ==
  /\ P1_member = 0 /\ P2_member = 0 /\ P3_member = 0
  /\ P1_is_marked = 0 /\ P2_is_marked = 0 /\ P3_is_marked = 0
  /\ block = 0 /\ pass = 0 /\ marking = 0
NoTree == rbTree = 0 /\ rbAborted = 0 /\ rbMembers = 0

Idle(p) ==
  /\ p # "heap" => NoBlock
  /\ p # "nsichneu" => NoNet
  /\ p # "sha" => HashInit
  /\ p # "statemate" => stS = 0 /\ stRunning = FALSE
  /\ p # "rbtree" => NoTree
  /\ p # "dllist" => ListInit
  /\ p # "flow" => FlowInit
  /\ p # "kernel" => kernel = 0 /\ computed = FALSE

Rests(p) ==
  /\ p # "heap" => UNCHANGED heapVars
  /\ p # "nsichneu" => UNCHANGED netVars
  /\ p # "sha" => UNCHANGED hashVars
  /\ p # "statemate" => UNCHANGED stVars
  /\ p # "rbtree" => UNCHANGED rbVars
  /\ p # "dllist" => UNCHANGED listVars
  /\ p # "flow" => UNCHANGED flowVars
  /\ p # "kernel" => UNCHANGED kVars

Starts(p, MachineInit) == program = p /\ MachineInit /\ Idle(p)
Steps(p, MachineNext) ==
  program = p /\ MachineNext /\ Rests(p) /\ UNCHANGED program

AllInit ==
  \/ Starts("heap", HeapInit)
  \/ Starts("nsichneu", NetInit)
  \/ Starts("sha", HashInit)
  \/ Starts("statemate", Window!Init)
  \/ Starts("rbtree", Tree!Init)
  \/ Starts("dllist", ListInit)
  \/ Starts("flow", FlowInit)
  \/ Starts("kernel", kernel \in Computations /\ computed = FALSE)

Compute == ~computed /\ computed' = TRUE /\ UNCHANGED kernel

AllNext ==
  \/ Steps("heap", HeapNext)
  \/ Steps("nsichneu", NetNext)
  \/ Steps("sha", HashNext)
  \/ Steps("statemate", Window!Next)
  \/ Steps("rbtree", Tree!Next)
  \/ Steps("dllist", ListNext)
  \/ Steps("flow", FlowNext)
  \/ Steps("kernel", Compute)

AllSpec ==
  /\ AllInit /\ [][AllNext]_allVars
  /\ WF_stVars(program = "statemate" /\ Window!Pass)
  /\ \A r \in Runs : WF_flowVars(program = "flow" /\ Progress(r))

(* The same for the raw loops alone.                                        *)
RawSpec ==
  /\ Starts("kernel", kernel \in [of : {"raw"}, input : RawSources] /\ computed = FALSE)
  /\ [][Steps("kernel", Compute)]_allVars

-----------------------------------------------------------------------------
(* Properties: those of the modules, of the program that runs.              *)

(* Additions and deletions keep a red-black tree with the members that were *)
(* added, no assertion fails and every walk meets each member once          *)
(* (SGLIB_DEFINE_RBTREE_FUNCTIONS).                                         *)
RedBlack == program = "rbtree" => Tree!RedBlack /\ Tree!WalksAreComplete

(* The passes of a call of FH_DU settle (libstatemate.c, `while (!stable)`).*)
(* Every flow comes to a report, a failure or the end without an idiom: a   *)
(* simulation that hangs is timed out (verilator_runner.py).                *)
CallsEnd ==
  /\ Window!CallsEnd
  /\ <>(program = "flow" => \A r \in Runs : stage[r] \in Ended)

(* The step that runs a computation comes to what is expected of it.        *)
Outcome(of, Expected(_)) == program = "kernel" /\ kernel.of = of => Expected(kernel)

(* Sources in the packed form, with a rotate or with a lookup are rewritten *)
(* exactly, except that a rotate to the right becomes one to the left       *)
(* (c_rewriter.py).                                                         *)
RewritesAreExact ==
  [][Outcome("rewrite", LAMBDA k :
       Source!detect(k.input) # << >> => Source!RewriteIsExact(k.input))]_computed

(* "We rewrite it to the packed form": the accelerated source computes what *)
(* the source computes, with the loop over packed words in the place of the *)
(* raw one (c_rewriter.py, _rewrite_sdot4_raw).                             *)
RawLoopIsPacked ==
  [][Outcome("raw", LAMBDA k :
       /\ Source!Meaning(Source!Baseline(k.input)) = Source!Meaning(Source!Accelerated(k.input))
       /\ Source!Has(Source!Accelerated(k.input), "dotblock"))]_computed

(* The kernels compute with the custom instruction what they compute        *)
(* without it (model/bench).                                                *)
KernelsAgree == [][Outcome("kernels", LAMBDA k : Sums!KernelsAgree)]_computed

(* Of loops within its reach the predictor removes only what the extension  *)
(* does instead; what it predicts for a region is at most what the model    *)
(* charges for it as it is, wherever the code lies: a loop behind its guard *)
(* with hardware loops, the loop without them, one loop within another      *)
(* (analyse_loop_body and transform of predict_xpulp.py).                   *)
PredictionIsBacked ==
  [][Outcome("xpulp", LAMBDA k :
       /\ \A hwloop \in BOOLEAN : Predictor!RemovesOnlyReplaced(k.input, hwloop)
       /\ \A pc \in {0, 2} :
            /\ Predictor!NeverSlower(Guarded(k.input, pc), FALSE, TRUE)
            /\ Predictor!NeverSlower(Tail(Guarded(k.input, pc)), FALSE, FALSE)
            /\ Len(k.input) <= 4 =>
                 \A nest, hwloop \in BOOLEAN :
                   Predictor!NeverSlower(Nested(k.input, pc), nest, hwloop))]_computed

(* A match of the regular expression matcher is one, and it finds one where *)
(* it does not commit itself too early, of the pattern as it numbers the    *)
(* brackets: the one behind a bracket with a quantifier is read as that one *)
(* again (libslre.c, bar and doh).                                          *)
FindsMatch ==
  [][Outcome("regex", LAMBDA k : \A t \in Texts : Regex!FindsMatch(k.input, t))]_computed

(* The merge sort is stable with any size of its cache; quick sort, heap    *)
(* sort and the sort of a list put their elements in order (libwikisort.c,  *)
(* sglib.h).                                                                *)
SortsStably ==
  [][/\ Outcome("sort", LAMBDA k : NoCache!StablySorted(k.input, Sorted(k.cache, k.input)))
     /\ Outcome("array sort", LAMBDA k : \A a \in [1 .. k.input -> 0 .. 3] :
                                         Bench!ArraySorts(a) /\ Bench!MembersKept(a))
     /\ program = "dllist" => SortRises
    ]_<<computed, listVars>>

AsSpecified ==
  /\ Outcome("crc", LAMBDA k : /\ Sums!crc_32_result = 11433
                              /\ Sums!OctetIsRemainder({<<0, 0>>, <<65535, 65535>>}))
  /\ Outcome("md5", LAMBDA k : /\ Sums!md5_result(1000) = Sums!RESULT
                              /\ \A len \in 0 .. 200 : Sums!PaddingFits(len))
  /\ Outcome("sha", LAMBDA k :
       Sums!_nettle_write_be32(32, ShaBuffer!Digest(ShaBuffer!MD_UPDATE(ShaBuffer!Fresh, Sums!sha_msg)))
         = Sums!sha_hash)
  /\ Outcome("aes", LAMBDA k : Sums!Verified)
  /\ Outcome("cipher", LAMBDA k :
       Sums!IsCipher(k.input, SubSeq(Sums!key, 1, k.input),
                       Sums!BlockOf(Sums!plaintext, 3)))
  /\ Outcome("matmult", LAMBDA k : Bench!ResultArray = Bench!exp)
  /\ Outcome("ud", LAMBDA k :
       /\ Bench!ludcmp(Bench!UdMatrix, Bench!UdSums) = Bench!x_ref
       /\ \A lower \in Lowers, upper \in Uppers : Bench!Solves(lower, upper, <<3, -1, 2>>))
  /\ Outcome("primecount", LAMBDA k :
       /\ Bench!countPrimes(42, 33000).nPrimes = Bench!NPRIMES
       /\ \A SZ \in 1 .. 5 : Bench!CountsPrimes(SZ, 200))
  /\ Outcome("edn", LAMBDA k : /\ Bench!Verified(Bench!benchmark_body)
                              /\ Bench!SharedLoadsFilter(Bench!in_a, Bench!in_b))
  /\ Outcome("tarfind", LAMBDA k : Bench!SearchesEnd)
  /\ Outcome("sglib", LAMBDA k : Bench!SglibVerified([i \in 1 .. 100 |-> i - 1], [i \in 1 .. 100 |-> i - 1]))
  /\ Outcome("slre", LAMBDA k : Regex!BenchmarkResult = 102)
  /\ Outcome("huffbench", LAMBDA k : Coder!RoundTrip(Coder!orig_data(500)))
  /\ Outcome("code", LAMBDA k : SmallCoder!RoundTrip(k.input))
  /\ Outcome("mont", LAMBDA k : \A a, b \in 0 .. k.input - 1 : Words4!PowerOfProduct(a, b, k.input))
  /\ Outcome("wide mont", LAMBDA k : Words6!PowerOfProduct(k.input \div 2, k.input - 2, k.input))
  /\ Outcome("copies", LAMBDA k : Sums!CopiesWhatWas([i \in 0 .. 6 |-> i + 1]))

(* Each benchmark has the result its verify_benchmark() asks for, and its   *)
(* algorithm the meaning its name has for other inputs too (benchmark_body  *)
(* of the programs under model/bench/embench).                              *)
ResultsAsSpecified == [][AsSpecified]_computed
=============================================================================
