---------------------------- MODULE MCLibraries ----------------------------
(***************************************************************************)
(* The helpers and the bundled libraries, each alone: one behaviour is one *)
(* use of one of them.                                                     *)
(***************************************************************************)
EXTENDS Packets, Tables, ExecMemory, Bpf, Regex, Codegen, CodeBuffer

-----------------------------------------------------------------------------
(* lpm and cdb: a prefix and a longer one below it, and hash triples that    *)
(* build an acyclic graph, a cyclic one, and one with a vertex twice.        *)

MCLpmAddrs == {<<1>>, <<2>>, <<1, 2>>, <<1, 3>>}
MCCdbHashes == {<<0, 1, 2>>, <<7, 3, 4>>, <<1, 2, 9>>, <<3, 0, 5>>, <<4, 2, 1>>,
                <<1, 0, 3>>, <<0, 4, 1>>}

-----------------------------------------------------------------------------
(* bpfjit: every program of a menu, a number of its instructions followed by *)
(* a fixed tail.  The menus: bounds checks and jumps; arithmetic; the memory *)
(* words, X and the coprocessor, with a context and without one.             *)

LdB(k) == Insn("LD", "ABS", "B", k)
LdH(k) == Insn("LD", "ABS", "H", k)
RetK(k) == Insn("RET", "RET", "K", k)
RetA == Insn("RET", "RET", "A", 0)
ExtContext == [ext |-> 2, preinited |-> {0}, nfuncs |-> 2]

Checks ==
  [insns |-> {LdB(0), LdH(1), LdH(254), Insn("LD", "IND", "B", 1), Insn("LDX", "MSH", "B", 0),
              Jump("JEQ", "K", 1, 0, 1), Jump("JGT", "K", 1, 2, 1), Jump("JA", "K", 1, 0, 0),
              RetK(0), RetK(1)},
   len |-> 4, last |-> <<LdB(2), RetA>>, bc |-> NullContext]

Arith ==
  [insns |-> {LdB(0), Insn("LD", "ABS", "W", 0), Insn("LDX", "LEN", "W", 0),
              Insn("MISC", "TAX", "K", 0)}
             \cup {Insn("ALU", op, "X", 0) :
                     op \in {"ADD", "SUB", "MUL", "DIV", "MOD", "OR", "XOR", "AND"}}
             \cup {Insn("ALU", i[1], "K", i[2]) :
                     i \in {<<"LSH", 7>>, <<"RSH", 1>>, <<"DIV", 4>>, <<"MOD", 4>>, <<"DIV", 1>>,
                            <<"DIV", 3>>, <<"MOD", 0>>, <<"NEG", 0>>}},
   len |-> 3, last |-> <<Jump("JGE", "X", 0, 0, 1), Insn("ALU", "RSH", "K", 2), RetA>>,
   bc |-> NullContext]

Memory(bc) ==
  [insns |-> {LdH(1), Insn("ST", "ST", "K", 0), Insn("STX", "STX", "K", 1),
              Insn("LD", "MEM", "W", 1), Insn("LDX", "MEM", "W", 0), Insn("LDX", "IMM", "W", 1),
              Insn("MISC", "TXA", "K", 0), Insn("MISC", "COP", "K", 0),
              Insn("MISC", "COPX", "K", 0), Jump("JSET", "K", 2, 0, 1), RetK(0)},
   len |-> 4, last |-> <<Insn("ALU", "ADD", "X", 0), RetA>>, bc |-> bc]

MCBpfMenus == {Checks, Arith, Memory(ExtContext), Memory(NullContext)}
MCBpfPackets == {[buf |-> b, wirelen |-> Len(b) + 1] :
                   b \in {<<>>, <<1>>, <<2, 1>>, <<3, 2, 1>>, <<1, 0, 3, 2>>}}
MCSeccompLists == {<<1, 3>>, <<0>>, <<>>}

-----------------------------------------------------------------------------
(* regexJIT: every form of repetition over a character, an alternative and a *)
(* sequence, alone, at both ends and nested, under every anchor and flag.    *)

ChrA == <<"chr", 97>>
ChrB == <<"chr", 98>>
Dot == <<"any">>
AtoB == <<"rng", FALSE, 97, 98, <<97, 45, 98>>>>
NotA == <<"rng", TRUE, 97, 97, <<97>>>>
Cat(x, y) == <<"cat", x, y>>
Alt(x, y) == <<"alt", x, y>>
Named(x, n) == Cat(x, <<"id", n>>)
Star(x) == <<"rep", x, 0, -1, <<42>>>>
Plus(x) == <<"rep", x, 1, -1, <<43>>>>
Maybe(x) == <<"rep", x, 0, 1, <<63>>>>
Between(x, m, n) == <<"rep", x, m, n, <<123, 48 + m, 44, 48 + n, 125>>>>
AtLeast(x, m) == <<"rep", x, m, -1, <<123, 48 + m, 44, 125>>>>
Exactly(x, m) == <<"rep", x, m, m, <<123, 48 + m, 125>>>>

Reps(x) == {Star(x), Plus(x), Maybe(x), Between(x, 0, 2), Between(x, 1, 3), AtLeast(x, 2),
            Exactly(x, 2), Exactly(x, 0)}

Repetitions == UNION {Reps(x) : x \in {ChrA, Alt(Named(ChrA, 1), ChrB), Cat(ChrA, ChrB)}}

Expressions ==
  Repetitions \cup {Cat(x, ChrA) : x \in Repetitions} \cup {Cat(ChrA, x) : x \in Reps(AtoB)}
  \cup {Alt(x, Named(Dot, 2)) : x \in Reps(NotA)}
  \cup {Between(Cat(Star(ChrA), ChrB), 1, 3), Star(Maybe(Named(ChrA, 2))),
        AtLeast(Alt(ChrA, Named(ChrB, 3)), 2), Alt(Cat(ChrA, ChrB), Cat(ChrB, ChrA)),
        Alt(Alt(ChrA, Cat(ChrB, ChrB)), Named(ChrB, 3))}

Anchored(x, caret, dollar, flags) ==
  [exp |-> x, caret |-> caret, dollar |-> dollar, flags |-> flags]

MCRegexPatterns ==
  {Anchored(x, f[1], f[2], f[3]) :
     x \in Expressions,
     f \in {<<FALSE, FALSE, {}>>, <<TRUE, FALSE, {}>>, <<FALSE, TRUE, {}>>, <<TRUE, TRUE, {}>>,
            <<FALSE, FALSE, {"NON_GREEDY"}>>, <<TRUE, FALSE, {"NON_GREEDY"}>>,
            <<FALSE, TRUE, {"NEWLINE"}>>, <<TRUE, FALSE, {"NEWLINE"}>>, <<TRUE, TRUE, {"NEWLINE"}>>}}
MCRegexInvalid ==
  {<<40>>, <<97, 41>>, <<42>>, <<97, 124, 43>>, <<91, 97>>, <<92>>}

\* ^a$ and ^ab$
MCRegexWhole == {Anchored(x, TRUE, TRUE, {}) : x \in {ChrA, Cat(ChrA, ChrB)}}

-----------------------------------------------------------------------------
(* The code generator of sljit.  One world has distinct words everywhere, the *)
(* other small ones, which counts of shifts must be.                          *)

MCEmitWorlds ==
  {[r |-> [k \in 0 .. 15 |-> <<100, 5, -300, 37, 1001, 11, -70, 900, 77, 40, -9, 250, 30, 61, 330, 20000>>[k + 1]],
    stride |-> 7, cmov |-> TRUE, f |-> [z |-> FALSE, s |-> TRUE, c |-> TRUE, o |-> FALSE]],
   [r |-> [k \in 0 .. 15 |-> <<3, 2, 19, 6, 1001, 12, -1, 24, 255, 31, 44, -32768, 1, 0, 7, 128>>[k + 1]],
    stride |-> 0, cmov |-> FALSE, f |-> [z |-> TRUE, s |-> FALSE, c |-> FALSE, o |-> TRUE]]}

\* Registers below and above r8, and memory through them, near, far and indexed.
MCEmitTargets ==
  {SLJIT_REG(1), SLJIT_REG(3), SLJIT_REG(8), SLJIT_MEM1(1, 4), SLJIT_MEM1(3, 500), SLJIT_MEM2(8, 1, 1),
   SLJIT_MEM1(LOCALS, 2)}
MCEmitFloats == {SLJIT_REG(1), SLJIT_REG(2), SLJIT_MEM1(1, 4), SLJIT_MEM1(3, 500)}
MCEmitValues == {5, 60, -1000}

\* The least and the greatest byte and int, and their neighbours.
Edges == {-129, -128, -17, -16, 0, 1, 8, 15, 16, 127, 128}
Immediates(vs) == {SLJIT_IMM(v) : v \in vs}
Op2Names == {"ADD", "ADDC", "SUB", "SUBC", "MUL", "AND", "OR", "XOR", "SHL", "LSHR", "ASHR"}
MoveNames == {"MOV", "MOV_UB", "MOV_SB", "MOV_UH", "MOV_SH", "MOV_UI", "MOV_SI", "MOV_P"}

\* Operands that share registers; flags and widths; immediates on either side.
MCEmitOp2Menus ==
  {[op |-> Op2Names, int |-> {FALSE}, flags |-> {"none", "set"}, saved |-> {FALSE},
    dst |-> (MCEmitTargets \ {SLJIT_MEM1(3, 500)}) \cup {SLJIT_UNUSED},
    src1 |-> MCEmitTargets \cup Immediates({5, 60}), src2 |-> MCEmitTargets \cup Immediates({5, 60, 1000})],
   [op |-> Op2Names, int |-> BOOLEAN, flags |-> {"none", "set", "keep"}, saved |-> BOOLEAN,
    dst |-> {SLJIT_REG(1), SLJIT_REG(6), SLJIT_MEM1(8, 40)}, src1 |-> {SLJIT_REG(1), SLJIT_REG(3), SLJIT_MEM1(8, 40)},
    src2 |-> {SLJIT_REG(1), SLJIT_REG(3), SLJIT_MEM1(8, 40), SLJIT_IMM(7)}],
   [op |-> Op2Names, int |-> BOOLEAN, flags |-> {"none", "set"}, saved |-> {FALSE},
    dst |-> {SLJIT_REG(1), SLJIT_REG(9), SLJIT_MEM0(200)}, src1 |-> {SLJIT_REG(1), SLJIT_REG(7), SLJIT_REG(9)},
    src2 |-> Immediates(Edges)],
   [op |-> Op2Names, int |-> BOOLEAN, flags |-> {"none", "set"}, saved |-> {FALSE},
    dst |-> {SLJIT_REG(1), SLJIT_REG(9), SLJIT_MEM0(200)}, src1 |-> Immediates(Edges),
    src2 |-> {SLJIT_REG(1), SLJIT_REG(7)}]}

MCEmitOp1Menus ==
  {[op |-> MoveNames, update |-> BOOLEAN, int |-> {FALSE}, flags |-> {"none"}, saved |-> {FALSE},
    dst |-> MCEmitTargets \cup {SLJIT_UNUSED}, src |-> MCEmitTargets \cup Immediates(Edges)],
   [op |-> MoveNames \ {"MOV", "MOV_P"}, update |-> BOOLEAN, int |-> {TRUE}, flags |-> {"none"}, saved |-> BOOLEAN,
    dst |-> {SLJIT_REG(1), SLJIT_REG(6), SLJIT_REG(8), SLJIT_MEM1(6, 40)},
    src |-> {SLJIT_REG(1), SLJIT_REG(6), SLJIT_MEM1(8, 40), SLJIT_MEM2(6, 1, 0), SLJIT_IMM(-9)}],
   [op |-> {"NOT", "NEG", "CLZ"}, update |-> {FALSE}, int |-> BOOLEAN, flags |-> {"none", "set", "keep"},
    saved |-> BOOLEAN, dst |-> MCEmitTargets \cup {SLJIT_UNUSED},
    src |-> MCEmitTargets \cup Immediates({-129, -16, 0, 60, 128})]}

-----------------------------------------------------------------------------
Init == PacketInit \/ TableInit \/ ExecInit \/ BpfInit \/ regex_none \/ codegen_none \/ CompilerInit

Next ==
  \/ PacketNext
  \/ TableNext
  \/ ExecNext
  \/ BpfNext
  \/ RegexNext
  \/ CodegenNext
  \/ CompilerNext
  \/ Return

Spec == Init /\ [][Next]_dpvars

RegexSpec == regex_none /\ [][RegexNext]_dpvars
=============================================================================
