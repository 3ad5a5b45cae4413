-------------------------------- MODULE Bpf --------------------------------
(***************************************************************************)
(* The compiler of packet filters (bpfjit.c) and the system call filter    *)
(* (seccomp.c).  A filter is compiled in three passes, one that finds what *)
(* must be initialised, one that moves the checks of the packet's length   *)
(* up, one that drops the checks already made; the code is a sequence of   *)
(* operations on registers twice as wide as the words of the filter.       *)
(***************************************************************************)
EXTENDS DataPath, TLC, SequencesExt, FiniteSetsExt, Bitwise

CONSTANTS
  WordBits,        \* bits of a word of a filter, 32
  BPF_MEMWORDS,    \* words of the scratch memory, 16
  BpfMenus,        \* sets of filters: their instructions, length and context
  BpfPackets,      \* packets they run on
  BpfJunk,         \* what an uninitialised register or word may hold
  SeccompCalls,    \* numbers of system calls
  SeccompLists     \* lists of allowed ones

Word == 2 ^ WordBits
ByteBase == 2 ^ (WordBits \div 4)
UINT32_MAX == Word - 1
MAX_ABC_LENGTH == UINT32_MAX + 4

\* An instruction: class, mode or operation, size or source, operand, jumps.
Insn(c, m, s, k) == [c |-> c, m |-> m, s |-> s, k |-> k, jt |-> 0, jf |-> 0]

Jump(m, s, k, jt, jf) == [c |-> "JMP", m |-> m, s |-> s, k |-> k, jt |-> jt, jf |-> jf]

\* A context: the external memory words, those of them the caller initialised, and the
\* number of coprocessor functions.
NullContext == [ext |-> 0, preinited |-> {}, nfuncs |-> 0]

GET_MEMWORDS(bc) == IF bc.ext = 0 THEN BPF_MEMWORDS ELSE bc.ext

ABit == BPF_MEMWORDS

XBit == BPF_MEMWORDS + 1

read_width(pc) == CASE pc.s = "W" -> 4 [] pc.s = "H" -> 2 [] pc.s = "B" -> 1 [] OTHER -> 0

read_pkt_insn(pc) == (pc.c = "LD" /\ pc.m \in {"ABS", "IND"}) \/ (pc.c = "LDX" /\ pc.m = "MSH")

Length(pc) == pc.k + read_width(pc)

IsCop(pc) == pc.c = "MISC" /\ pc.m \in {"COP", "COPX"}

Jt(pc) == IF pc.m = "JA" THEN pc.k ELSE pc.jt

Jf(pc) == IF pc.m = "JA" THEN pc.k ELSE pc.jf

Indices(prog) == [i \in 1 .. Len(prog) |-> i]

-----------------------------------------------------------------------------
(* optimize_pass1 *)

\* The words an instruction reads: registers and memory words.
Reads(bc, pc) ==
  LET word == IF pc.m = "MEM" /\ pc.k < GET_MEMWORDS(bc) THEN {pc.k} ELSE {}
      source == IF pc.s = "X" /\ pc.m # "NEG" THEN {XBit} ELSE {}
  IN CASE pc.c = "RET" -> IF pc.s = "A" THEN {ABit} ELSE {}
       [] pc.c = "LD" -> word \cup (IF pc.m = "IND" THEN {XBit} ELSE {})
       [] pc.c = "LDX" -> word
       [] pc.c = "ST" -> {ABit}
       [] pc.c = "STX" -> {XBit}
       [] pc.c \in {"ALU", "JMP"} -> {ABit} \cup source
       [] pc.m = "TXA" -> {XBit}
       [] OTHER -> {ABit}

\* The words it sets.
Writes(bc, pc) ==
  CASE pc.c \in {"LD", "ALU"} \/ pc.m \in {"TXA", "COP", "COPX"} -> {ABit}
    [] pc.c = "LDX" \/ pc.m = "TAX" -> {XBit}
    [] pc.c \in {"ST", "STX"} /\ pc.k < GET_MEMWORDS(bc) -> {pc.k}
    [] OTHER -> {}

\* dead are the unreachable instructions, from the jumps to each one, missing what may
\* be uninitialised at it, initmask what the code must set to zero.
Pass1Start(prog) ==
  [dead |-> {}, from |-> [i \in DOMAIN prog |-> {}], missing |-> [i \in DOMAIN prog |-> {}],
   invalid |-> 0 .. XBit, unreachable |-> FALSE, initmask |-> {}, ok |-> TRUE]

Pass1Jump(prog, p, i, invalid) ==
  LET pc == prog[i]
      targets == {i + 1 + Jt(pc), i + 1 + Jf(pc)}
  IN IF \E t \in targets : t > Len(prog) THEN [p EXCEPT !.ok = FALSE]
     ELSE [p EXCEPT !.unreachable = Jt(pc) > 0 /\ Jf(pc) > 0,
                    !.from = [t \in DOMAIN prog |-> IF t \in targets THEN @[t] \cup {i} ELSE @[t]],
                    !.missing = [t \in DOMAIN prog |-> IF t \in targets THEN @[t] \cup invalid ELSE @[t]],
                    !.invalid = {}]

Pass1Insn(bc, prog, p, i) ==
  LET pc == prog[i]
      invalid == p.invalid \cup p.missing[i]
      read == [p EXCEPT !.initmask = @ \cup (invalid \cap Reads(bc, pc)),
                        !.unreachable = pc.c = "RET" \/ (read_pkt_insn(pc) /\ Length(pc) > UINT32_MAX),
                        !.invalid = invalid \ Writes(bc, pc)]
  IN IF ~p.ok THEN p
     ELSE IF p.unreachable /\ p.from[i] = {} THEN [p EXCEPT !.dead = @ \cup {i}]
     ELSE IF pc.c = "JMP" THEN Pass1Jump(prog, read, i, invalid) ELSE read

optimize_pass1(bc, prog) ==
  FoldLeft(LAMBDA p, i : Pass1Insn(bc, prog, p, i), Pass1Start(prog), Indices(prog))

hints_LDX(prog, dead) == \E i \in DOMAIN prog \ dead : prog[i].c = "LDX"

-----------------------------------------------------------------------------
(* optimize_pass2 and optimize_pass3: jump and read are the lengths of an        *)
(* instruction, abc the one at the place the pass has come to.                   *)

\* The length that every way on from here reads, or returns 0.
AbcLength(bc, pc, q, i) ==
  CASE pc.c = "RET" -> IF pc.s = "K" /\ pc.k = 0 THEN MAX_ABC_LENGTH ELSE 0
    [] IsCop(pc) -> 0
    [] pc.c \in {"ST", "STX"} /\ bc.ext # 0 -> 0
    [] pc.c = "JMP" -> q.jump[i]
    [] read_pkt_insn(pc) -> Max({q.abc, Length(pc)})
    [] OTHER -> q.abc

optimize_pass2(bc, prog, p) ==
  LET insn(q, i) ==
        LET abc == AbcLength(bc, prog[i], q, i)
        IN IF i \in p.dead THEN q
           ELSE [q EXCEPT !.abc = abc, !.read[i] = abc,
                          !.jump = [j \in DOMAIN prog |-> IF j \in p.from[i] THEN Min({@[j], abc}) ELSE @[j]]]
  IN FoldLeft(insn, [abc |-> 0, read |-> [i \in DOMAIN prog |-> 0],
                     jump |-> [i \in DOMAIN prog |-> MAX_ABC_LENGTH]], Reverse(Indices(prog)))

\* Mutant: a length checked on one way to an instruction counts on the others.
CheckedAny(r, from) == Max({r.checked} \cup {r.jump[j] : j \in from})

CheckedHere(r, from) == Min({r.checked} \cup {r.jump[j] : j \in from})

\* check is the length an instruction checks, 0 for none.
optimize_pass3(prog, p, q) ==
  LET insn(r, i) ==
        LET checked == CheckedHere(r, p.from[i])
        IN CASE i \in p.dead -> r
             [] prog[i].c = "JMP" -> [r EXCEPT !.checked = checked, !.jump[i] = checked]
             [] read_pkt_insn(prog[i]) /\ checked < q.read[i] ->
                  [r EXCEPT !.checked = q.read[i], !.check[i] = q.read[i]]
             [] OTHER -> [r EXCEPT !.checked = checked]
  IN FoldLeft(insn, [checked |-> 0, check |-> [i \in DOMAIN prog |-> 0], jump |-> [i \in DOMAIN prog |-> 0]],
              Indices(prog))
-----------------------------------------------------------------------------
(* The code.  An operand is a register, an immediate value or a memory word; an  *)
(* operation with int works on words, the others on registers; to is the         *)
(* instruction a jump goes to, 0 the return of 0 at the end.                     *)

Reg(r) == [r |-> r, v |-> 0]

Imm(v) == [r |-> "imm", v |-> v]

Mem(k) == [r |-> "mem", v |-> k]

Op(o, int, d, a, b) == [o |-> o, int |-> int, d |-> d, a |-> a, b |-> b, to |-> 0]

Op1(o, d, a) == Op(o, FALSE, d, a, a)

Cmp(o, int, a, b, to) == [o |-> o, int |-> int, d |-> a, a |-> a, b |-> b, to |-> to]

JumpTo(to) == Cmp("JUMP", FALSE, Imm(0), Imm(0), to)

\* The accumulator gets a byte, and another one behind it.
FirstByte(base, k) == <<Op("MOV_UB", FALSE, Reg("A"), Reg(base), Imm(k))>>

NextByte(base, k) ==
  <<Op("MOV_UB", FALSE, Reg("T1"), Reg(base), Imm(k)),
    Op("SHL", FALSE, Reg("A"), Reg("A"), Imm(WordBits \div 4)),
    Op("ADD", FALSE, Reg("A"), Reg("A"), Reg("T1"))>>

emit_read8(base, k) == FirstByte(base, k)

emit_read16(base, k) == emit_read8(base, k) \o NextByte(base, k + 1)

emit_read32(base, k) == emit_read16(base, k) \o NextByte(base, k + 2) \o NextByte(base, k + 3)

Indirect(pc) ==
  IF pc.m = "IND"
  THEN <<Op("SUB", FALSE, Reg("T1"), Reg("BUFLEN"), Imm(Length(pc) % Word)),
         Op("ADD", FALSE, Reg("T2"), Reg("BUF"), Reg("X")),
         Cmp("LESS", FALSE, Reg("T1"), Reg("X"), 0)>>
  ELSE <<>>

emit_pkt_read(pc) ==
  LET base == IF pc.m = "IND" THEN "T2" ELSE "BUF"
  IN Indirect(pc) \o
     (IF Length(pc) - 1 > UINT32_MAX THEN <<>>
      ELSE CASE pc.s = "W" -> emit_read32(base, pc.k)
             [] pc.s = "H" -> emit_read16(base, pc.k)
             [] OTHER -> emit_read8(base, pc.k))

\* The pointer to external memory goes through a register.
Extern(bc) == IF bc.ext = 0 THEN <<>> ELSE <<Op1("MOV", Reg("T1"), Reg("EXTMEM"))>>

emit_memload(bc, dst, k) == Extern(bc) \o <<Op1("MOV_UI", Reg(dst), Mem(k))>>

emit_memstore(bc, src, k) == Extern(bc) \o <<Op1("MOV_UI", Mem(k), Reg(src))>>

emit_msh(pc) ==
  <<Op("MOV_UB", FALSE, Reg("T1"), Reg("BUF"), Imm(pc.k)),
    Op("AND", FALSE, Reg("T1"), Reg("T1"), Imm(2 ^ (WordBits \div 8) - 1)),
    Op("SHL", FALSE, Reg("X"), Reg("T1"), Imm(2))>>

kx_to_reg(pc) == IF pc.s = "X" THEN Reg("X") ELSE Imm(pc.k)

Power2(k) == \E n \in 0 .. WordBits - 1 : k = 2 ^ n

Log2(k) == CHOOSE n \in 0 .. WordBits - 1 : k = 2 ^ n

emit_pow2_moddiv(pc) ==
  IF pc.m = "MOD" THEN <<Op("AND", FALSE, Reg("A"), Reg("A"), Imm(pc.k - 1))>>
  ELSE IF pc.k = 1 THEN <<>>
  ELSE <<Op("LSHR", TRUE, Reg("A"), Reg("A"), Imm(Log2(pc.k)))>>

\* divide or modulus is called.
emit_moddiv(pc) == <<Op1("MOV", Reg("T1"), kx_to_reg(pc)), Op(pc.m, TRUE, Reg("A"), Reg("A"), Reg("T1"))>>

bpf_alu_to_sljit_op(pc) ==
  CASE pc.m \in {"ADD", "SUB", "OR", "XOR", "AND"} -> Op(pc.m, FALSE, Reg("A"), Reg("A"), kx_to_reg(pc))
    [] pc.m = "MUL" -> Op("MUL", TRUE, Reg("A"), Reg("A"), kx_to_reg(pc))
    [] pc.m = "LSH" -> Op("SHL", FALSE, Reg("A"), Reg("A"), kx_to_reg(pc))
    [] OTHER -> Op("LSHR", TRUE, Reg("A"), Reg("A"), kx_to_reg(pc))

emit_alu(pc) ==
  CASE pc.m = "NEG" -> <<Op1("NEG", Reg("A"), Reg("A"))>>
    [] pc.m \notin {"DIV", "MOD"} -> <<bpf_alu_to_sljit_op(pc)>>
    [] pc.s = "X" -> <<Cmp("EQUAL", TRUE, Reg("X"), Imm(0), 0)>> \o emit_moddiv(pc)
    [] pc.k = 0 -> <<JumpTo(0)>>
    [] OTHER -> IF Power2(pc.k) THEN emit_pow2_moddiv(pc) ELSE emit_moddiv(pc)

\* The call of a coprocessor function, X saved around it.
emit_cop(bc, pc, ldx) ==
  (IF ldx THEN <<Op1("MOV_UI", Reg("STACK"), Reg("X"))>> ELSE <<>>)
    \o (IF pc.m = "COP" THEN <<Op1("MOV", Reg("T3"), Imm(pc.k))>>
        ELSE <<Cmp("GREATER_EQUAL", FALSE, Reg("X"), Imm(bc.nfuncs), 0), Op1("MOV", Reg("T3"), Reg("X"))>>)
    \o <<Op1("MOV_UI", Reg("T2"), Reg("A")), Op("CALL", FALSE, Reg("A"), Reg("T3"), Reg("T2"))>>
    \o (IF ldx THEN <<Op1("MOV_UI", Reg("X"), Reg("STACK"))>> ELSE <<>>)

Negated(m) == CASE m = "JGT" -> "LESS_EQUAL" [] m = "JGE" -> "LESS" [] m = "JEQ" -> "NOT_EQUAL" [] OTHER -> "EQUAL"

Straight(m) == CASE m = "JGT" -> "GREATER" [] m = "JGE" -> "GREATER_EQUAL" [] m = "JEQ" -> "EQUAL" [] OTHER -> "NOT_EQUAL"

bpf_jmp_to_sljit_cond(pc, negate) == IF negate THEN Negated(pc.m) ELSE Straight(pc.m)

emit_jmp(pc, i) ==
  LET jt == Jt(pc)
      jf == Jf(pc)
      negate == jt = 0
      cond == bpf_jmp_to_sljit_cond(pc, negate)
      to == i + 1 + (IF negate THEN jf ELSE jt)
      compare == IF pc.m = "JSET"
                 THEN <<Op("AND", FALSE, Reg("T1"), Reg("A"), kx_to_reg(pc)), Cmp(cond, TRUE, Reg("T1"), Imm(0), to)>>
                 ELSE <<Cmp(cond, TRUE, Reg("A"), kx_to_reg(pc), to)>>
  IN (IF jt = jf THEN <<>> ELSE compare)
       \o (IF jt = jf \/ (jt # 0 /\ jf # 0) THEN <<JumpTo(i + 1 + jf)>> ELSE <<>>)

\* The instructions no code is made for.
Refused(bc, pc) ==
  \/ (pc.m = "MEM" \/ pc.c \in {"ST", "STX"}) /\ pc.k >= GET_MEMWORDS(bc)
  \/ pc.c = "ALU" /\ pc.m \in {"LSH", "RSH"} /\ pc.k >= WordBits
  \/ pc.c = "RET" /\ pc.s = "X"
  \/ IsCop(pc) /\ (bc.nfuncs = 0 \/ (pc.m = "COP" /\ pc.k >= bc.nfuncs))

\* LD and LDX: into the accumulator, or into X.
emit_load(bc, pc, dst) ==
  CASE pc.m = "IMM" -> <<Op1("MOV", Reg(dst), Imm(pc.k))>>
    [] pc.m = "LEN" -> <<Op1("MOV", Reg(dst), Reg("WIRELEN"))>>
    [] pc.m = "MEM" -> emit_memload(bc, dst, pc.k)
    [] pc.m = "MSH" -> emit_msh(pc)
    [] OTHER -> emit_pkt_read(pc)

emit_ret(pc) == <<Op1("RET", Reg("A"), IF pc.s = "K" THEN Imm(pc.k) ELSE Reg("A"))>>

emit_misc(bc, pc, ldx) ==
  CASE pc.m = "TAX" -> <<Op1("MOV_UI", Reg("X"), Reg("A"))>>
    [] pc.m = "TXA" -> <<Op1("MOV", Reg("A"), Reg("X"))>>
    [] OTHER -> emit_cop(bc, pc, ldx)

\* The switch on the class of an instruction.
emit_insn(bc, pc, i, ldx) ==
  CASE pc.c = "LD" -> emit_load(bc, pc, "A")
    [] pc.c = "LDX" -> emit_load(bc, pc, "X")
    [] pc.c = "ST" -> emit_memstore(bc, "A", pc.k)
    [] pc.c = "STX" -> emit_memstore(bc, "X", pc.k)
    [] pc.c = "ALU" -> emit_alu(pc)
    [] pc.c = "JMP" -> emit_jmp(pc, i)
    [] pc.c = "RET" -> emit_ret(pc)
    [] OTHER -> emit_misc(bc, pc, ldx)

generate_insn_code(bc, prog, p, r) ==
  [i \in DOMAIN prog |->
     IF i \in p.dead THEN <<>>
     ELSE IF r.check[i] > UINT32_MAX THEN <<JumpTo(0)>>
     ELSE (IF r.check[i] > 0 THEN <<Cmp("LESS", FALSE, Reg("BUFLEN"), Imm(r.check[i]), 0)>> ELSE <<>>)
            \o emit_insn(bc, prog[i], i, hints_LDX(prog, p.dead))]

\* The code that runs before the first instruction.
Prologue(bc, initmask) ==
  LET zero == initmask \ (bc.preinited \ {ABit, XBit})
      words == SetToSortSeq({k \in zero : k < GET_MEMWORDS(bc)}, <)
  IN [n \in DOMAIN words |-> Op1("MOV_UI", Mem(words[n]), Imm(0))]
       \o (IF ABit \in zero THEN <<Op1("MOV", Reg("A"), Imm(0))>> ELSE <<>>)
       \o (IF XBit \in zero THEN <<Op1("MOV", Reg("X"), Imm(0))>> ELSE <<>>)

\* No code is made for a filter with an instruction that is refused or jumps outside.
bpfjit_generate_code ==
  LET bc == state.bc
      prog == state.prog
      p == optimize_pass1(bc, prog)
      r == optimize_pass3(prog, p, optimize_pass2(bc, prog, p))
      ok == p.ok /\ \A i \in DOMAIN prog \ p.dead : ~Refused(bc, prog[i])
  IN /\ Idle /\ state.kind = "bpf"
     /\ call' = IF ok THEN [op |-> "bpfjit", prologue |-> Prologue(bc, p.initmask),
                            code |-> generate_insn_code(bc, prog, p, r)]
                ELSE [op |-> "bpfjit", prologue |-> <<>>, code |-> <<>>]
     /\ UNCHANGED <<state, sent>>

-----------------------------------------------------------------------------
(* What the code does when it runs: on a processor whose registers hold two words *)
(* and where a call keeps none of the registers a function may use.               *)

\* The result of a coprocessor function of the caller.
Coprocessor(n, a) == (a + n + 1) % Word

Fetch(m, x) == CASE x.r = "imm" -> x.v [] x.r = "mem" -> m.mem[x.v] [] OTHER -> m.reg[x.r]

Store(m, x, v) == IF x.r = "mem" THEN [m EXCEPT !.mem[x.v] = v] ELSE [m EXCEPT !.reg[x.r] = v]

Compute2(o, a, b) ==
  CASE o \in {"MOV", "RET"} -> a
    [] o = "MOV_UI" -> a % Word
    [] o = "NEG" -> -a
    [] o = "ADD" -> a + b
    [] o = "SUB" -> a - b
    [] o = "MUL" -> a * b
    [] o = "AND" -> a & b
    [] o = "OR" -> a | b
    [] o = "XOR" -> a ^^ b
    [] o = "SHL" -> a * 2 ^ (b % (2 * WordBits))
    [] o = "LSHR" -> a \div 2 ^ (b % WordBits)
    [] o = "DIV" -> a \div b
    [] OTHER -> a % b

Holds(o, a, b) ==
  CASE o = "JUMP" -> TRUE
    [] o = "EQUAL" -> a = b
    [] o = "NOT_EQUAL" -> a # b
    [] o = "LESS" -> a < b
    [] o = "LESS_EQUAL" -> a <= b
    [] o = "GREATER" -> a > b
    [] OTHER -> a >= b

IsJump(op) == op.o \in {"JUMP", "EQUAL", "NOT_EQUAL", "LESS", "LESS_EQUAL", "GREATER", "GREATER_EQUAL"}

Clobber(m, junk) == [m EXCEPT !.reg = [r \in DOMAIN @ |-> IF r \in {"X", "T1", "T2", "T3"} THEN junk ELSE @[r]]]

\* An operation that is no jump.
Execute(m, op, pkt, junk) ==
  LET width == IF op.int THEN Word ELSE Word * Word
      a == Fetch(m, op.a) % width
      b == Fetch(m, op.b) % width
  IN CASE op.o = "MOV_UB" ->
            IF a + b < Len(pkt.buf) THEN Store(m, op.d, pkt.buf[a + b + 1]) ELSE [m EXCEPT !.fault = TRUE, !.ret = 0]
       [] op.o = "CALL" ->
            LET after == Store(Clobber(m, junk), op.d, Coprocessor(a, b))
            IN [after EXCEPT !.log = Append(@, <<a, b>>)]
       [] op.o = "RET" -> [m EXCEPT !.ret = a % Word]
       [] OTHER -> Store(m, op.d, Compute2(op.o, a, b) % width)

RECURSIVE Run(_, _, _, _, _, _)
\* The code of instruction i from its operation n on.
Run(code, m, pkt, junk, i, n) ==
  IF m.ret # -1 THEN m
  ELSE IF i > Len(code) THEN [m EXCEPT !.ret = 0]
  ELSE IF n > Len(code[i]) THEN Run(code, m, pkt, junk, i + 1, 1)
  ELSE LET op == code[i][n]
           width == IF op.int THEN Word ELSE Word * Word
       IN IF ~IsJump(op) THEN Run(code, Execute(m, op, pkt, junk), pkt, junk, i, n + 1)
          ELSE IF ~Holds(op.o, Fetch(m, op.a) % width, Fetch(m, op.b) % width) THEN Run(code, m, pkt, junk, i, n + 1)
          ELSE Run(code, m, pkt, junk, IF op.to = 0 THEN Len(code) + 1 ELSE op.to, 1)

\* The memory when the filter starts: what the caller put there, or anything.
Start(bc, word) == [k \in 0 .. GET_MEMWORDS(bc) - 1 |-> IF k \in bc.preinited THEN 2 ELSE word]

RunJit(bc, c, pkt, junk) ==
  LET regs == [r \in {"A", "X", "T1", "T2", "T3", "STACK"} |-> junk]
               @@ ("BUF" :> 0) @@ ("EXTMEM" :> 0) @@ ("BUFLEN" :> Len(pkt.buf)) @@ ("WIRELEN" :> pkt.wirelen)
      m == [reg |-> regs, mem |-> Start(bc, junk), log |-> <<>>, fault |-> FALSE, ret |-> -1]
      ready == FoldLeft(LAMBDA t, op : Execute(t, op, pkt, junk), m, c.prologue)
  IN Run(c.code, ready, pkt, junk, 1, 1)

-----------------------------------------------------------------------------
(* bpf_filter: what a filter means.  It is interpreted by libpcap and the kernel.  *)

RECURSIVE WordAt(_, _, _)
WordAt(buf, k, width) ==
  IF width = 0 THEN 0 ELSE WordAt(buf, k, width - 1) * ByteBase + buf[k + width]

\* The result of an operation; shifts by the width of a word or more are undefined.
Alu(m, a, b) ==
  CASE m = "LSH" -> (a * 2 ^ b) % Word
    [] m = "RSH" -> a \div 2 ^ b
    [] OTHER -> Compute2(m, a, b) % Word

RECURSIVE Filter(_, _, _, _, _)
Filter(bc, prog, pkt, s, i) ==
  LET pc == prog[i]
      at == pc.k + (IF pc.m = "IND" THEN s.X ELSE 0)
      src == IF pc.s = "X" THEN s.X ELSE pc.k
      next(t) == Filter(bc, prog, pkt, t, i + 1)
      stop(v) == [s EXCEPT !.ret = v]
      load(v) == next(IF pc.c = "LD" THEN [s EXCEPT !.A = v] ELSE [s EXCEPT !.X = v])
      cop == IF pc.m = "COP" THEN pc.k ELSE s.X
      taken == IF pc.m = "JSET" THEN (s.A & src) # 0 ELSE Holds(Straight(pc.m), s.A, src)
  IN CASE read_pkt_insn(pc) ->
            IF at + read_width(pc) > Len(pkt.buf) THEN stop(0)
            ELSE IF pc.m = "MSH" THEN load(4 * (pkt.buf[at + 1] % 2 ^ (WordBits \div 8)))
            ELSE load(WordAt(pkt.buf, at, read_width(pc)))
       [] pc.m = "IMM" -> load(pc.k)
       [] pc.m = "LEN" -> load(pkt.wirelen)
       [] pc.m = "MEM" -> load(s.mem[pc.k])
       [] pc.c = "ST" -> next([s EXCEPT !.mem[pc.k] = s.A])
       [] pc.c = "STX" -> next([s EXCEPT !.mem[pc.k] = s.X])
       [] pc.m = "NEG" -> next([s EXCEPT !.A = (-s.A) % Word])
       [] pc.c = "ALU" -> IF pc.m \in {"DIV", "MOD"} /\ src = 0 THEN stop(0) ELSE next([s EXCEPT !.A = Alu(pc.m, s.A, src)])
       [] pc.m = "JA" -> Filter(bc, prog, pkt, s, i + 1 + pc.k)
       [] pc.c = "JMP" -> Filter(bc, prog, pkt, s, i + 1 + IF taken THEN pc.jt ELSE pc.jf)
       [] pc.c = "RET" -> stop(IF pc.s = "K" THEN pc.k ELSE s.A)
       [] pc.m = "TAX" -> next([s EXCEPT !.X = s.A])
       [] pc.m = "TXA" -> next([s EXCEPT !.A = s.X])
       [] OTHER -> IF cop >= bc.nfuncs THEN stop(0)
                   ELSE next([s EXCEPT !.A = Coprocessor(cop, s.A), !.log = Append(@, <<cop, s.A>>)])

bpf_filter(bc, prog, pkt) ==
  Filter(bc, prog, pkt, [A |-> 0, X |-> 0, mem |-> Start(bc, 0), log |-> <<>>, ret |-> -1], 1)

-----------------------------------------------------------------------------
(* pg_init_seccomp *)

ARCH_NR == 2
RET_KILL == 0
RET_ALLOW == 3

VALIDATE_ARCHITECTURE ==
  <<Insn("LD", "ABS", "W", 4), Jump("JEQ", "K", ARCH_NR, 1, 0), Insn("RET", "RET", "K", RET_KILL)>>

EXAMINE_SYSCALL == <<Insn("LD", "ABS", "W", 0)>>

ALLOW_SYSCALL(nr) == <<Jump("JEQ", "K", nr, 0, 1), Insn("RET", "RET", "K", RET_ALLOW)>>

KILL_PROCESS == <<Insn("RET", "RET", "K", RET_KILL)>>

\* The filter is installed, unless prctl fails.
pg_init_seccomp(fails) ==
  /\ Idle /\ state.kind = "seccomp"
  /\ call' = IF fails THEN [op |-> "seccomp", ret |-> -1, prog |-> <<>>]
             ELSE [op |-> "seccomp", ret |-> 0,
                   prog |-> VALIDATE_ARCHITECTURE \o EXAMINE_SYSCALL
                              \o FlattenSeq([n \in DOMAIN state.allowed |-> ALLOW_SYSCALL(state.allowed[n])])
                              \o KILL_PROCESS]
  /\ UNCHANGED <<state, sent>>

BpfInit ==
  /\ call = NoCall /\ sent = <<>>
  /\ \/ \E menu \in BpfMenus : \E body \in [1 .. menu.len -> menu.insns] :
          state = [kind |-> "bpf", bc |-> menu.bc, prog |-> body \o menu.last]
     \/ \E allowed \in SeccompLists : state = [kind |-> "seccomp", allowed |-> allowed]

BpfNext ==
  \/ bpfjit_generate_code
  \/ \E fails \in BOOLEAN : pg_init_seccomp(fails)

-----------------------------------------------------------------------------
(* Properties. *)

\* X is in a register that calls do not keep.  The compiler saves it around a
\* coprocessor function only in a filter with an LDX instruction, and sets it to zero
\* before COPX only if another instruction needs it: what follows is about the filters
\* where this is enough.
CopKeepsX(prog) ==
  (\E i \in DOMAIN prog : IsCop(prog[i])) =>
    /\ \E i \in DOMAIN prog : prog[i].c = "LDX"
    /\ (\E i \in DOMAIN prog : prog[i].m = "COPX") => prog[1].c = "LDX"

\* The code of a filter returns what the filter means, calls the same coprocessor
\* functions with the same arguments, leaves the same external memory, and never reads
\* outside the packet, whatever was in the registers and on the stack before: the
\* checks of the length that optimize_pass2 moves up and optimize_pass3 drops change
\* nothing.
BpfJitExact ==
  call.op = "bpfjit" /\ call.code # <<>> /\ CopKeepsX(state.prog) =>
    \A pkt \in BpfPackets, junk \in BpfJunk :
      LET is == RunJit(state.bc, call, pkt, junk)
          should == bpf_filter(state.bc, state.prog, pkt)
      IN /\ ~is.fault /\ is.ret = should.ret /\ is.log = should.log
         /\ state.bc.ext # 0 => \A k \in DOMAIN is.mem : is.mem[k] = should.mem[k] \/ (is.mem[k] = junk /\ should.mem[k] = 0)

RECURSIVE BytesOf(_, _)
BytesOf(word, n) == IF n = 0 THEN <<>> ELSE BytesOf(word \div ByteBase, n - 1) \o <<word % ByteBase>>

\* Once the filter is installed, a system call goes through if and only if it is in
\* the list and made by the architecture of the build.
SeccompExact ==
  call.op = "seccomp" /\ call.ret = 0 =>
    \A nr \in SeccompCalls, arch \in {ARCH_NR, ARCH_NR + 1} :
      (bpf_filter(NullContext, call.prog, [buf |-> BytesOf(nr, 4) \o BytesOf(arch, 4), wirelen |-> 8]).ret = RET_ALLOW)
        = (arch = ARCH_NR /\ nr \in ToSet(state.allowed))

\* A program of BPF means the same to every reader of it: to the code bpfjit makes of
\* it, and to the kernel that is given the one pg_init_seccomp puts together.
BpfExact == BpfJitExact /\ SeccompExact
=============================================================================
