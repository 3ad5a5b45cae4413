-------------------------------- MODULE X86 --------------------------------
(***************************************************************************)
(* The processor sljit generates code for (external): how an x86-64        *)
(* instruction is decoded, and what it does to the registers, the memory   *)
(* and the flags.  Only the instructions sljit emits.                      *)
(*                                                                         *)
(* The four widths of the processor are scaled down and keep their order;  *)
(* words and ints stay powers of two, which the masks of shifts need.  A   *)
(* word is a signed number.  A cell of memory holds one word; the narrower *)
(* accesses reach the low bits of the cell.                                *)
(***************************************************************************)
EXTENDS Integers, Sequences, TLC, Bitwise

WordWidth == 16    \* sljit_sw, 64 bits
IntWidth == 8      \* sljit_si, 32 bits
HalfWidth == 6     \* sljit_sh, 16 bits
ByteWidth == 5     \* sljit_sb, 8 bits

\* The unsigned and the signed number in the low bits of v.
Unsigned(v, width) == v % 2 ^ width
Sign(v, width) ==
  IF Unsigned(v, width) >= 2 ^ (width - 1) THEN Unsigned(v, width) - 2 ^ width ELSE Unsigned(v, width)

Fits(v, width) == v \in -(2 ^ (width - 1)) .. 2 ^ (width - 1) - 1

\* The low bits of old are replaced by those of v.
Merge(old, v, width) == Sign(old - Unsigned(old, width) + Unsigned(v, width), WordWidth)

-----------------------------------------------------------------------------
(* An instruction: its name and the operation that completes it, the bits of *)
(* the REX byte, another prefix, the fields of the mod/rm byte, the base,    *)
(* index and scale of the SIB byte if there is one, the displacement and the *)
(* width it is written in (0: none), and the immediate.                      *)

Instruction(name, alu, rex, prefix, reg, mod, rm, sib, disp, disp_width, imm) ==
  [name |-> name, alu |-> alu, rex |-> rex, prefix |-> prefix, reg |-> reg, mod |-> mod, rm |-> rm,
   sib |-> sib, disp |-> disp, disp_width |-> disp_width, imm |-> imm]

High(i, bit) == IF bit \in i.rex THEN 8 ELSE 0
RegField(i) == i.reg + High(i, "R")
RmField(i) == i.rm + High(i, "B")

\* Base 5 without a displacement stands for a displacement of an int and no base.
NoBase(i) == i.mod = 0 /\ i.sib[1] = 5

\* What the mod/rm byte announces is what follows it.  rm 4 announces a SIB byte, rm 5
\* without a displacement an address relative to the next instruction, never emitted.
Decodes(i) ==
  \/ i.mod = 3
  \/ /\ (i.rm = 4) = (i.sib # <<>>)
     /\ ~(i.mod = 0 /\ i.rm = 5)
     /\ i.disp_width = CASE i.mod = 1 -> ByteWidth
                         [] i.mod = 2 -> IntWidth
                         [] OTHER -> IF i.rm = 4 /\ NoBase(i) THEN IntWidth ELSE 0

Address(m, i) ==
  LET base == IF i.rm # 4 THEN m.r[RmField(i)]
              ELSE IF NoBase(i) THEN 0 ELSE m.r[i.sib[1] + High(i, "B")]
      index == IF i.rm = 4 /\ i.sib[2] + High(i, "X") # 4
               THEN m.r[i.sib[2] + High(i, "X")] * 2 ^ i.sib[3] ELSE 0
  IN Sign(base + index + i.disp, WordWidth)

\* A cell nothing was written to holds a word that depends on its address.
Cell(m, a) == IF a \in DOMAIN m.mem THEN m.mem[a] ELSE Sign(a * m.stride + 3, WordWidth)

Stored(m, a, v, width) == [m EXCEPT !.mem = (a :> Merge(Cell(m, a), v, width)) @@ m.mem]

\* Writing an int clears the high bits of a register, a narrower write keeps them.
Loaded(m, r, v, width) ==
  [m EXCEPT !.r[r] = IF width = WordWidth THEN Sign(v, width)
                     ELSE IF width = IntWidth THEN Unsigned(v, width) ELSE Merge(@, v, width)]

\* Without a REX byte the byte registers 4 to 7 are the second bytes of 0 to 3.
ByteRegister(m, i, r) ==
  IF i.rex = {} /\ r \in 4 .. 7 THEN m.r[r - 4] \div 2 ^ ByteWidth ELSE m.r[r]

Operand(m, i, width) ==
  IF i.mod # 3 THEN Cell(m, Address(m, i))
  ELSE IF width = ByteWidth THEN ByteRegister(m, i, RmField(i)) ELSE m.r[RmField(i)]

ToOperand(m, i, v, width) ==
  IF i.mod = 3 THEN Loaded(m, RmField(i), v, width) ELSE Stored(m, Address(m, i), v, width)

OperandWidth(i) ==
  IF "W" \in i.rex THEN WordWidth ELSE IF i.prefix = "66" THEN HalfWidth ELSE IntWidth

-----------------------------------------------------------------------------
(* Arithmetic: a result and the flags.                                       *)

FlagsOf(v, width, carry, overflow) ==
  [z |-> Unsigned(v, width) = 0, s |-> Sign(v, width) < 0, c |-> carry, o |-> overflow]

BitValue(b) == IF b THEN 1 ELSE 0

Sum(a, b, c, width) ==
  LET total == Unsigned(a, width) + Unsigned(b, width) + c
  IN [v |-> total, f |-> FlagsOf(total, width, total >= 2 ^ width,
                                 ~Fits(Sign(a, width) + Sign(b, width) + c, width))]

Difference(a, b, c, width) ==
  LET total == Unsigned(a, width) - Unsigned(b, width) - c
  IN [v |-> total, f |-> FlagsOf(total, width, total < 0,
                                 ~Fits(Sign(a, width) - Sign(b, width) - c, width))]

Logical(v, width) == [v |-> v, f |-> FlagsOf(v, width, FALSE, FALSE)]

Computed(alu, a, b, f, width) ==
  LET x == Unsigned(a, width)
      y == Unsigned(b, width)
  IN CASE alu = "ADD" -> Sum(a, b, 0, width)
       [] alu = "ADC" -> Sum(a, b, BitValue(f.c), width)
       [] alu \in {"SUB", "CMP"} -> Difference(a, b, 0, width)
       [] alu = "SBB" -> Difference(a, b, BitValue(f.c), width)
       [] alu \in {"AND", "TEST"} -> Logical(x & y, width)
       [] alu = "OR" -> Logical(x | y, width)
       [] alu = "XOR" -> Logical(x ^^ y, width)
       [] alu = "MOV" -> [v |-> b, f |-> f]

Product(a, b, width) ==
  LET v == Sign(a, width) * Sign(b, width)
  IN [v |-> v, f |-> [z |-> FALSE, s |-> FALSE, c |-> ~Fits(v, width), o |-> ~Fits(v, width)]]

\* A shift by zero leaves the flags.
Shifted(alu, a, count, f, width) ==
  LET n == count % width
      v == CASE alu = "SHL" -> Unsigned(a, width - n) * 2 ^ n
             [] alu = "SHR" -> Unsigned(a, width) \div 2 ^ n
             [] alu = "SAR" -> Sign(a, width) \div 2 ^ n
  IN [v |-> v, f |-> IF n = 0 THEN f ELSE FlagsOf(v, width, FALSE, FALSE)]

\* The flags as a word, for PUSHF.
FlagWord(f) == BitValue(f.z) + 2 * BitValue(f.s) + 4 * BitValue(f.c) + 8 * BitValue(f.o)
WordFlags(w) ==
  [z |-> w % 2 = 1, s |-> (w \div 2) % 2 = 1, c |-> (w \div 4) % 2 = 1, o |-> (w \div 8) % 2 = 1]

\* The condition of a jump or setcc of the given code.
Condition(f, code) ==
  CASE code = "je" -> f.z
    [] code = "jne" -> ~f.z
    [] code = "jc" -> f.c
    [] code = "jae" -> ~f.c
    [] code = "jnbe" -> ~f.c /\ ~f.z
    [] code = "jbe" -> f.c \/ f.z
    [] code = "jl" -> f.s # f.o
    [] code = "jnl" -> f.s = f.o
    [] code = "jnle" -> ~f.z /\ f.s = f.o
    [] code = "jle" -> f.z \/ f.s # f.o
    [] code = "jo" -> f.o
    [] code = "jno" -> ~f.o

-----------------------------------------------------------------------------
(* A machine: registers r, memory mem, flags f; floating point registers x,  *)
(* floating point memory fmem and the outcome cmp of the last floating point *)
(* comparison, all as terms; pc is "next" until control leaves the code.     *)

SP == 4            \* rsp

Pushed(m, v) == Stored([m EXCEPT !.r[SP] = @ - 1], m.r[SP] - 1, v, WordWidth)
Top(m) == Cell(m, m.r[SP])
Popped(m) == [m EXCEPT !.r[SP] = @ + 1]

Result(m, i, p, width) ==
  IF i.alu \in {"CMP", "TEST"} THEN [m EXCEPT !.f = p.f]
  ELSE ToOperand([m EXCEPT !.f = p.f], i, p.v, width)

\* The product of two words, high and low; a division of a dividend the emitted code
\* extends from one word to two.
Widened(m, i, width) ==
  LET a == m.r[0]
      b == Operand(m, i, width)
      v == Sign(a, width) * Sign(b, width)
      high == IF i.alu = "IMUL" THEN v \div 2 ^ width
              ELSE v \div 2 ^ width + (IF Sign(a, width) < 0 THEN b ELSE 0)
                                    + (IF Sign(b, width) < 0 THEN a ELSE 0)
  IN Loaded(Loaded(m, 0, v, width), 2, high, width)

Divided(m, i, width) ==
  LET signed == i.alu = "IDIV"
      a == IF signed THEN Sign(m.r[0], width) ELSE Unsigned(m.r[0], width)
      b == IF signed THEN Sign(Operand(m, i, width), width)
           ELSE Unsigned(Operand(m, i, width), width)
      size(n) == IF n < 0 THEN -n ELSE n
      q == (size(a) \div size(b)) * (IF (a < 0) # (b < 0) THEN -1 ELSE 1)
      extended == Sign(m.r[2], width) = (IF signed /\ a < 0 THEN -1 ELSE 0)
  IN IF b = 0 \/ ~extended THEN [m EXCEPT !.pc = <<"fault">>]
     ELSE Loaded(Loaded(m, 0, q, width), 2, a - q * b, width)

Leading(v, width) == CHOOSE n \in 0 .. width - 1 : v \in 2 ^ n .. 2 ^ (n + 1) - 1

\* The instructions of one or no operand, and the group completed by the reg field.
Grouped(m, i, width) ==
  LET a == Operand(m, i, width)
  IN CASE i.alu = "NOT" -> ToOperand(m, i, -a - 1, width)
       [] i.alu = "NEG" -> Result(m, i, Difference(0, a, 0, width), width)
       [] i.alu = "TEST" -> Result(m, i, Computed("TEST", a, i.imm, m.f, width), width)
       [] i.alu \in {"MUL", "IMUL"} -> Widened(m, i, width)
       [] i.alu \in {"DIV", "IDIV"} -> Divided(m, i, width)

\* An address to go to is a whole word whatever the REX byte says.
Branched(m, i) ==
  LET a == Operand(m, i, WordWidth)
  IN CASE i.alu = "JMP" -> [m EXCEPT !.pc = <<"jump", a>>]
       [] i.alu = "CALL" -> [m EXCEPT !.pc = <<"call", a>>]
       [] i.alu = "PUSH" -> Pushed(m, a)

\* A floating point operand, and the instructions on them.
FloatOperand(m, i) ==
  IF i.mod = 3 THEN m.x[i.rm]
  ELSE IF Address(m, i) \in DOMAIN m.fmem THEN m.fmem[Address(m, i)] ELSE <<"cell", Address(m, i)>>

Floated(m, i) ==
  LET a == FloatOperand(m, i)
  IN CASE i.alu = "MOVSD_x_xm" -> [m EXCEPT !.x[i.reg] = a]
       [] i.alu = "MOVSD_xm_x" ->
            IF i.mod = 3 THEN [m EXCEPT !.x[i.rm] = m.x[i.reg]]
            ELSE [m EXCEPT !.fmem = (Address(m, i) :> m.x[i.reg]) @@ @]
       [] i.alu = "UCOMISD_x_xm" -> [m EXCEPT !.cmp = <<i.prefix, m.x[i.reg], a>>]
       [] OTHER -> [m EXCEPT !.x[i.reg] = <<i.alu, i.prefix, @, a>>]

\* One instruction.  skip is the instruction a short jump leaves out.
Executed(m, i) ==
  LET width == OperandWidth(i)
      reg == RegField(i)
      a == Operand(m, i, width)
      extend(v) == Loaded(m, reg, v, width)
      byte == Operand(m, i, ByteWidth)
  IN CASE i.name = "r_rm" ->
            LET p == Computed(i.alu, m.r[reg], a, m.f, width)
            IN IF i.alu = "CMP" THEN [m EXCEPT !.f = p.f]
               ELSE Loaded([m EXCEPT !.f = p.f], reg, p.v, width)
       [] i.name = "rm_r" -> Result(m, i, Computed(i.alu, a, m.r[reg], m.f, width), width)
       [] i.name \in {"GROUP_BINARY_81", "GROUP_BINARY_83", "MOV_rm_i32"} ->
            Result(m, i, Computed(i.alu, a, i.imm, m.f, width), width)
       [] i.name = "EAX_i32" ->
            LET p == Computed(i.alu, m.r[0], i.imm, m.f, width)
            IN IF i.alu \in {"CMP", "TEST"} THEN [m EXCEPT !.f = p.f]
               ELSE Loaded([m EXCEPT !.f = p.f], 0, p.v, width)
       [] i.name = "MOV_r_i32" -> Loaded(m, RmField(i), i.imm, width)
       [] i.name = "MOV_rm8_i8" -> ToOperand(m, i, i.imm, ByteWidth)
       [] i.name = "MOV_rm8_r8" -> ToOperand(m, i, ByteRegister(m, i, reg), ByteWidth)
       [] i.name = "OR_rm8_r8" ->
            Result(m, i, Computed("OR", byte, ByteRegister(m, i, reg), m.f, ByteWidth), ByteWidth)
       [] i.name = "SETCC" -> ToOperand(m, i, BitValue(Condition(m.f, i.alu)), ByteWidth)
       [] i.name = "MOVSXD_r_rm" -> extend(Sign(a, IntWidth))
       [] i.name = "MOVSX_r_rm8" -> extend(Sign(byte, ByteWidth))
       [] i.name = "MOVZX_r_rm8" -> extend(Unsigned(byte, ByteWidth))
       [] i.name = "MOVSX_r_rm16" -> extend(Sign(a, HalfWidth))
       [] i.name = "MOVZX_r_rm16" -> extend(Unsigned(a, HalfWidth))
       [] i.name = "LEA_r_m" -> extend(Address(m, i))
       [] i.name = "IMUL_r_rm" ->
            LET p == Product(m.r[reg], a, width) IN Loaded([m EXCEPT !.f = p.f], reg, p.v, width)
       [] i.name \in {"IMUL_r_rm_i8", "IMUL_r_rm_i32"} ->
            LET p == Product(a, i.imm, width) IN Loaded([m EXCEPT !.f = p.f], reg, p.v, width)
       [] i.name = "GROUP_SHIFT_1" -> Result(m, i, Shifted(i.alu, a, 1, m.f, width), width)
       [] i.name = "GROUP_SHIFT_N" -> Result(m, i, Shifted(i.alu, a, i.imm, m.f, width), width)
       [] i.name = "GROUP_SHIFT_CL" -> Result(m, i, Shifted(i.alu, a, m.r[1], m.f, width), width)
       [] i.name = "BSR_r_rm" ->
            LET v == Unsigned(a, width)
            IN [Loaded(m, reg, IF v = 0 THEN m.r[reg] ELSE Leading(v, width), width)
                  EXCEPT !.f.z = (v = 0)]
       [] i.name = "CMOVNE_r_rm" -> Loaded(m, reg, IF m.f.z THEN m.r[reg] ELSE a, width)
       [] i.name = "JE_i8" -> [m EXCEPT !.skip = m.f.z]
       [] i.name = "CDQ" -> Loaded(m, 2, IF Sign(m.r[0], width) < 0 THEN -1 ELSE 0, width)
       [] i.name = "GROUP_F7" -> Grouped(m, i, width)
       [] i.name = "GROUP_FF" -> Branched(m, i)
       [] i.name = "SSE2" -> Floated(m, i)
       [] i.name = "PUSH_r" -> Pushed(m, m.r[RmField(i)])
       [] i.name = "PUSH_i32" -> Pushed(m, i.imm)
       [] i.name = "POP_r" -> [Popped(m) EXCEPT !.r[RmField(i)] = Top(m)]
       [] i.name = "POP_rm" -> ToOperand(Popped(m), i, Top(m), WordWidth)
       [] i.name = "PUSHF" -> Pushed(m, FlagWord(m.f))
       [] i.name = "POPF" -> [Popped(m) EXCEPT !.f = WordFlags(Top(m))]
       [] i.name = "RET_near" -> [Popped(m) EXCEPT !.pc = <<"return", Top(m)>>]
       [] i.name = "NOP" -> m
       [] i.name = "INT3" -> [m EXCEPT !.pc = <<"break">>]

\* POP to memory takes the address after rsp has moved.

RECURSIVE Ran(_, _, _)
Ran(m, code, k) ==
  IF k > Len(code) \/ m.pc # <<"next">> THEN m
  ELSE IF m.skip THEN Ran([m EXCEPT !.skip = FALSE], code, k + 1)
  ELSE Ran(IF Decodes(code[k]) THEN Executed(m, code[k]) ELSE [m EXCEPT !.pc = <<"fault">>],
           code, k + 1)
=============================================================================
