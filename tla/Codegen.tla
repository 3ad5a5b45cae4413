------------------------------ MODULE Codegen ------------------------------
(***************************************************************************)
(* The code generator of sljit for x86-64 (sljitLir.c,                     *)
(* sljitNativeX86_common.c, sljitNativeX86_64.c), which bpfjit and         *)
(* regexJIT compile with: the instructions the sljit_emit functions        *)
(* append to the buffers of a compiler, run on the processor of X86.  The  *)
(* buffers, the labels and the jumps are in CodeBuffer.                    *)
(*                                                                         *)
(* A compiler is abstracted to what the next call depends on: flags_saved, *)
(* the saved registers and the size of the locals.  mode32 is a parameter  *)
(* of the emitters.  Every emit function returns the instructions it       *)
(* appends; those that change flags_saved return it with them.  A word of  *)
(* the stack is one cell, so sizeof(sljit_sw) is 1 and an alignment of 16  *)
(* bytes is one of 2 cells.                                                *)
(***************************************************************************)
EXTENDS DataPath, TLC, SequencesExt, X86

CONSTANTS
  EmitWorlds,      \* contents of registers, memory and flags the code runs on
  EmitOp1Menus,    \* requests of operations with one source
  EmitOp2Menus,    \* requests of operations with two sources
  EmitTargets,     \* registers and memory operands of the other requests
  EmitFloats,      \* floating point operands
  EmitValues,      \* immediates, offsets and constants
  EmitLocals       \* sizes of the locals of a function

-----------------------------------------------------------------------------
(* Operands.                                                                 *)

LOCALS == 11       \* SLJIT_LOCALS_REG
TMP_REGISTER == 12
TMP_REG2 == 13
TMP_REG3 == 14
FIXED_LOCALS_OFFSET == 1

\* The machine register of a register of sljit, SLJIT_UNUSED (0) included.
reg_map == [r \in 0 .. 14 |-> <<0, 0, 6, 1, 8, 11, 3, 15, 14, 13, 12, 4, 2, 7, 9>>[r + 1]]
reg_lmap == [r \in 0 .. 14 |-> reg_map[r] % 8]

SLJIT_REG(r) == [t |-> "reg", b |-> r, i |-> 0, w |-> 0]
SLJIT_IMM(w) == [t |-> "imm", b |-> 0, i |-> 0, w |-> w]
SLJIT_MEM0(w) == [t |-> "mem", b |-> 0, i |-> 0, w |-> w]
SLJIT_MEM1(b, w) == [t |-> "mem", b |-> b, i |-> 0, w |-> w]
SLJIT_MEM2(b, i, shift) == [t |-> "mem", b |-> b, i |-> i, w |-> shift]

SLJIT_UNUSED == SLJIT_REG(0)
SCRATCH_REG1 == SLJIT_REG(1)
SCRATCH_REG2 == SLJIT_REG(2)
PREF_SHIFT_REG == SLJIT_REG(3)
TMP == SLJIT_REG(TMP_REGISTER)
TMP2 == SLJIT_REG(TMP_REG2)

\* The tests of operands: x <= TMP_REGISTER, which holds of SLJIT_UNUSED too, x & SLJIT_IMM,
\* x & SLJIT_MEM, IS_HALFWORD, and the range of a byte.
Register(x) == x.t = "reg" /\ x.b <= TMP_REGISTER
Constant(x) == x.t = "imm"
InMemory(x) == x.t = "mem"
IS_HALFWORD(w) == Fits(w, IntWidth)
IsByte(w) == Fits(w, ByteWidth)

ADDRESSING_DEPENDS_ON(x, reg) == InMemory(x) /\ reg.b \in {x.b, x.i}

\* A local variable is above the slot of the flags.
ADJUST_LOCAL_OFFSET(x) ==
  IF InMemory(x) /\ x.b = LOCALS /\ x.i = 0 THEN [x EXCEPT !.w = @ + FIXED_LOCALS_OFFSET] ELSE x

-----------------------------------------------------------------------------
(* Instructions.                                                             *)

RexIf(high, bit) == IF high THEN {bit} ELSE {}

\* An instruction on registers written byte by byte.
Direct(name, alu, rex, reg, rm, imm) ==
  Instruction(name, alu, rex, "", reg, 3, rm, <<>>, 0, 0, imm)

emit_load_imm64(reg, imm) ==
  <<Direct("MOV_r_i32", "MOV", {"W"} \cup RexIf(reg_map[reg.b] > 7, "B"), 0, reg_lmap[reg.b], imm)>>

emit_do_imm32(name, alu, rex, rm, imm) == <<Direct(name, alu, rex, 0, rm, Sign(imm, IntWidth))>>

PUSH_REG(reg) == <<Direct("PUSH_r", "", RexIf(reg_map[reg] > 7, "B"), 0, reg_lmap[reg], 0)>>
POP_REG(reg) == <<Direct("POP_r", "", RexIf(reg_map[reg] > 7, "B"), 0, reg_lmap[reg], 0)>>
RET == <<Direct("RET_near", "", {}, 0, 0, 0)>>

\* The name and the immediate of an instruction whose operand a is one.
Immediate(name, flags, w, m32) ==
  CASE "BIN_INS" \in flags ->
         IF IsByte(w) THEN <<"GROUP_BINARY_83", w>> ELSE <<"GROUP_BINARY_81", Sign(w, IntWidth)>>
    [] "SHIFT_INS" \in flags ->
         LET n == w % (IF m32 THEN IntWidth ELSE WordWidth)
         IN IF n = 1 THEN <<"GROUP_SHIFT_1", 0>> ELSE <<"GROUP_SHIFT_N", n>>
    [] "BYTE_ARG" \in flags -> <<name, Sign(w, ByteWidth)>>
    [] "HALF_ARG" \in flags -> <<name, Sign(w, HalfWidth)>>
    [] OTHER -> <<name, Sign(w, IntWidth)>>

\* The fields of the mod/rm and SIB bytes for the operand b: <<mod, rm, sib, disp width>>.
ModRm(b, sse2) ==
  LET width == IF b.w = 0 THEN 0 ELSE IF IsByte(b.w) THEN ByteWidth ELSE IntWidth
      mod == IF b.w = 0 THEN 0 ELSE IF IsByte(b.w) THEN 1 ELSE 2
  IN IF ~InMemory(b) THEN <<3, IF sse2 THEN b.b ELSE reg_lmap[b.b], <<>>, 0>>
     ELSE IF b.b = 0 THEN <<0, 4, <<5, 4, 0>>, IntWidth>>
     ELSE IF b.b = LOCALS /\ b.i = 0 THEN <<mod, 4, <<reg_lmap[LOCALS], reg_lmap[LOCALS], 0>>, width>>
     ELSE IF b.i = 0 THEN <<mod, reg_lmap[b.b], <<>>, width>>
     ELSE <<0, 4, <<reg_lmap[b.b], reg_lmap[b.i], b.w>>, 0>>

Encoded(i, a, b, sse2, im, mr) ==
  LET rex == (IF ~i.m32 /\ "NO_REXW" \notin i.flags THEN {"W"} ELSE RexIf("REX" \in i.flags, "REX"))
               \cup RexIf((InMemory(b) \/ ~sse2) /\ reg_map[b.b] > 7, "B")
               \cup RexIf(InMemory(b) /\ reg_map[b.i] > 7, "X")
               \cup RexIf(~Constant(a) /\ ~sse2 /\ reg_map[a.b] > 7, "R")
      reg == IF Constant(a) \/ "SHIFT_INS" \in i.flags THEN 0 ELSE IF sse2 THEN a.b ELSE reg_lmap[a.b]
      prefix == IF "PREF_66" \in i.flags THEN "66" ELSE IF "PREF_F2" \in i.flags THEN "F2"
                ELSE IF "PREF_F3" \in i.flags THEN "F3" ELSE ""
  IN Instruction(im[1], i.alu, rex, prefix, reg, mr[1], mr[2], mr[3],
                 IF mr[4] = 0 THEN 0 ELSE Sign(b.w, mr[4]), mr[4], im[2])

EncodedTo(i, b, sse2) ==
  Encoded(i, i.a, b, sse2,
          IF Constant(i.a) THEN Immediate(i.name, i.flags, i.a.w, i.m32)
          ELSE <<IF "SHIFT_INS" \in i.flags THEN "GROUP_SHIFT_CL" ELSE i.name, i.imm>>,
          ModRm(b, sse2))

\* A displacement of more than an int goes to TMP_REG3, which becomes the index or the base.
Wide(b) == InMemory(b) /\ b.i = 0 /\ ~IS_HALFWORD(b.w)
Narrow(b) ==
  IF ~Wide(b) THEN b ELSE IF b.b # 0 THEN SLJIT_MEM2(b.b, TMP_REG3, 0) ELSE SLJIT_MEM1(TMP_REG3, 0)
Encoding(i) ==
  (IF Wide(i.b) THEN emit_load_imm64(SLJIT_REG(TMP_REG3), i.b.w) ELSE <<>>)
  \o <<EncodedTo(i, Narrow(i.b), "SSE2" \in i.flags)>>

\* The emitters below give the arguments of an instruction, which Assembled encodes.
emit_x86_instruction(name, alu, flags, a, b, m32) ==
  <<[emit |-> "x86", name |-> name, alu |-> alu, flags |-> flags, a |-> a, b |-> b, m32 |-> m32, imm |-> 0]>>
EMIT_MOV(dst, src, m32) == <<[emit |-> "mov", dst |-> dst, src |-> src, m32 |-> m32]>>

\* The forms of most instructions: reg := reg op b, b := b op reg, b op imm, and a group
\* completed in the reg field.
op_rm(alu, a, b, m32) == emit_x86_instruction("r_rm", alu, {}, a, b, m32)
op_mr(alu, a, b, m32) == emit_x86_instruction("rm_r", alu, {}, a, b, m32)
op_0f(name, a, b, m32) == emit_x86_instruction(name, "", {}, a, b, m32)
op_group(name, alu, b, m32) == emit_x86_instruction(name, alu, {}, SLJIT_UNUSED, b, m32)

-----------------------------------------------------------------------------
(* Moves.                                                                    *)

emit_mov(dst, src, m32) ==
  IF dst = SLJIT_UNUSED THEN IF InMemory(src) THEN op_rm("MOV", TMP, src, m32) ELSE <<>>
  ELSE IF Register(src) THEN op_mr("MOV", src, dst, m32)
  ELSE IF Constant(src)
  THEN IF Register(dst) /\ m32
       THEN emit_do_imm32("MOV_r_i32", "MOV", RexIf(reg_map[dst.b] > 7, "B"), reg_lmap[dst.b], src.w)
       ELSE IF Register(dst) /\ ~IS_HALFWORD(src.w) THEN emit_load_imm64(dst, src.w)
       ELSE IF ~m32 /\ ~IS_HALFWORD(src.w)
       THEN emit_load_imm64(TMP2, src.w) \o op_mr("MOV", TMP2, dst, m32)
       ELSE emit_x86_instruction("MOV_rm_i32", "MOV", {}, src, dst, m32)
  ELSE IF Register(dst) THEN op_rm("MOV", dst, src, m32)
  ELSE op_rm("MOV", TMP, src, m32) \o op_mr("MOV", TMP, dst, m32)

Emits(step, what) == "emit" \in DOMAIN step /\ step.emit = what
Assembled(code) ==
  LET moves(step) == IF Emits(step, "mov") THEN emit_mov(step.dst, step.src, step.m32) ELSE <<step>>
      bytes(step) == IF Emits(step, "x86") THEN Encoding(step) ELSE <<step>>
      x86 == FlattenSeq([k \in 1 .. Len(code) |-> moves(code[k])])
  IN FlattenSeq([k \in 1 .. Len(x86) |-> bytes(x86[k])])

\* A register of sljit or TMP_REGISTER in its place.
OrTmp(x) == IF Register(x) THEN x ELSE TMP

\* The register a narrow move stores: the source itself, or the one it was extended into.
Narrowed(dst, src) == IF InMemory(dst) /\ Register(src) THEN src ELSE OrTmp(dst)

ExtendByte(sign, reg, src) == op_0f(IF sign THEN "MOVSX_r_rm8" ELSE "MOVZX_r_rm8", reg, src, FALSE)
StoreByte(reg, dst) == emit_x86_instruction("MOV_rm8_r8", "MOV", {"REX", "NO_REXW"}, reg, dst, FALSE)

emit_mov_byte(sign, dst, src) ==
  IF dst = SLJIT_UNUSED /\ ~InMemory(src) THEN <<>>
  ELSE IF Constant(src)
  THEN IF Register(dst) THEN emit_x86_instruction("MOV_rm_i32", "MOV", {}, src, dst, FALSE)
       ELSE emit_x86_instruction("MOV_rm8_i8", "MOV", {"BYTE_ARG", "NO_REXW"}, src, dst, FALSE)
  ELSE (IF InMemory(dst) /\ Register(src) THEN <<>> ELSE ExtendByte(sign, OrTmp(dst), src))
       \o (IF InMemory(dst) THEN StoreByte(Narrowed(dst, src), dst) ELSE <<>>)

emit_mov_half(sign, dst, src) ==
  IF dst = SLJIT_UNUSED /\ ~InMemory(src) THEN <<>>
  ELSE IF Constant(src)
  THEN IF Register(dst) THEN emit_x86_instruction("MOV_rm_i32", "MOV", {}, src, dst, FALSE)
       ELSE emit_x86_instruction("MOV_rm_i32", "MOV", {"HALF_ARG", "NO_REXW", "PREF_66"}, src, dst, FALSE)
  ELSE (IF InMemory(dst) /\ Register(src) THEN <<>>
        ELSE op_0f(IF sign THEN "MOVSX_r_rm16" ELSE "MOVZX_r_rm16", OrTmp(dst), src, FALSE))
       \o (IF ~InMemory(dst) THEN <<>>
           ELSE emit_x86_instruction("rm_r", "MOV", {"NO_REXW", "PREF_66"}, Narrowed(dst, src), dst, FALSE))

emit_mov_int(sign, dst, src) ==
  IF dst = SLJIT_UNUSED /\ ~InMemory(src) THEN <<>>
  ELSE IF Constant(src)
  THEN IF Register(dst) /\ ~sign /\ src.w \notin 0 .. 2 ^ (IntWidth - 1) - 1
       THEN emit_load_imm64(dst, src.w)
       ELSE emit_x86_instruction("MOV_rm_i32", "MOV", {}, SLJIT_IMM(Sign(src.w, IntWidth)), dst, ~Register(dst))
  ELSE (IF InMemory(dst) /\ Register(src) THEN <<>>
        ELSE IF sign THEN op_0f("MOVSXD_r_rm", OrTmp(dst), src, FALSE)
        ELSE EMIT_MOV(OrTmp(dst), src, TRUE))
       \o (IF InMemory(dst) THEN op_mr("MOV", Narrowed(dst, src), dst, TRUE) ELSE <<>>)

-----------------------------------------------------------------------------
(* Operations with one source.  A request is [op, int, flags, dst, src1,     *)
(* src2]; flags is "none", "set" (every flag the operation may set) or       *)
(* "keep".  saved is the flags_saved of the compiler.                        *)

emit_save_flags == <<Instruction("LEA_r_m", "", {"W"}, "", 4, 1, 4, <<4, 4, 0>>, 1, ByteWidth, 0),
                     Direct("PUSHF", "", {}, 0, 0, 0)>>
emit_restore_flags == <<Direct("POPF", "", {}, 0, 0, 0),
                        Instruction("LEA_r_m", "", {"W"}, "", 4, 1, 4, <<4, 4, 0>>, -1, ByteWidth, 0)>>

\* The flags are saved once, before an operation that must keep them destroys them.
Keeping(flags, saved) == IF flags = "keep" /\ ~saved THEN emit_save_flags ELSE <<>>
SavedAfter(flags, saved) == IF flags = "set" THEN FALSE ELSE saved \/ flags = "keep"

emit_unary(alu, dst, src, m32) ==
  IF dst = SLJIT_UNUSED THEN EMIT_MOV(TMP, src, m32) \o op_group("GROUP_F7", alu, TMP, m32)
  ELSE IF dst = src THEN op_group("GROUP_F7", alu, dst, m32)
  ELSE IF Register(dst) THEN EMIT_MOV(dst, src, m32) \o op_group("GROUP_F7", alu, dst, m32)
  ELSE EMIT_MOV(TMP, src, m32) \o op_group("GROUP_F7", alu, TMP, m32) \o EMIT_MOV(dst, TMP, m32)

emit_not_with_flags(dst, src, m32) ==
  LET at == IF dst = SLJIT_UNUSED THEN TMP ELSE OrTmp(dst)
  IN EMIT_MOV(at, src, m32) \o op_group("GROUP_F7", "NOT", at, m32) \o op_rm("OR", at, at, m32)
     \o (IF Register(dst) THEN <<>> ELSE EMIT_MOV(dst, TMP, m32))

\* cmov is what get_cpu_features finds.
emit_clz(dst, src, m32, cmov) ==
  LET width == IF m32 THEN IntWidth ELSE WordWidth
      from == IF Constant(src) THEN TMP ELSE src
      at == IF Register(dst) THEN dst ELSE TMP2
  IN IF dst = SLJIT_UNUSED
     THEN EMIT_MOV(TMP, src, m32) \o op_group("GROUP_F7", "NOT", TMP, m32)
          \o emit_x86_instruction("", "SHR", {"SHIFT_INS"}, SLJIT_IMM(width - 1), TMP, m32)
     ELSE (IF Constant(src) THEN EMIT_MOV(TMP, src, m32) ELSE <<>>)
          \o op_0f("BSR_r_rm", TMP, from, m32)
          \o EMIT_MOV(at, SLJIT_IMM(2 * width - 1), FALSE)
          \o (IF cmov THEN op_0f("CMOVNE_r_rm", at, TMP, m32)
              ELSE <<Direct("JE_i8", "", {}, 0, 0, 3),
                     Direct("r_rm", "MOV", {"W"} \cup RexIf(reg_map[at.b] > 7, "R"),
                            reg_lmap[at.b], reg_lmap[TMP_REGISTER], 0)>>)
          \o emit_x86_instruction("", "XOR", {"BIN_INS"}, SLJIT_IMM(width - 1), at, m32)
          \o (IF InMemory(dst) THEN EMIT_MOV(dst, TMP2, m32) ELSE <<>>)

Emitted(code, saved) == [code |-> code, saved |-> saved]
After(code, emitted) == [emitted EXCEPT !.code = code \o @]

\* The value an immediate has after the cast of a narrow move.
CastImmediate(op, w) ==
  CASE op = "MOV_UB" -> Unsigned(w, ByteWidth)
    [] op = "MOV_SB" -> Sign(w, ByteWidth)
    [] op = "MOV_UH" -> Unsigned(w, HalfWidth)
    [] op = "MOV_SH" -> Sign(w, HalfWidth)
    [] op = "MOV_UI" -> Unsigned(w, IntWidth)
    [] op = "MOV_SI" -> Sign(w, IntWidth)
    [] op \in {"MOV", "MOV_P"} -> w
TYPE_CAST_NEEDED(op) == op \in {"MOV_UB", "MOV_SB", "MOV_UH", "MOV_SH"}

\* With SLJIT_INT_OP only the low int matters, and the cheaper of the two moves is taken.
IntMove(op, src) ==
  IF op = "MOV_SI" /\ InMemory(src) THEN "MOV_UI"
  ELSE IF op = "MOV_UI" /\ Constant(src) THEN "MOV_SI" ELSE op

Move(op, dst, src) ==
  CASE op \in {"MOV", "MOV_P"} -> EMIT_MOV(dst, src, FALSE)
    [] op \in {"MOV_UB", "MOV_SB"} -> emit_mov_byte(op = "MOV_SB", dst, src)
    [] op \in {"MOV_UH", "MOV_SH"} -> emit_mov_half(op = "MOV_SH", dst, src)
    [] op \in {"MOV_UI", "MOV_SI"} -> emit_mov_int(op = "MOV_SI", dst, src)

\* A move with update adds the displacement or the index to the base register: before the
\* move to that of the source, after it to that of the destination.
Updates(update, x) == update /\ InMemory(x) /\ x.b # 0 /\ (x.w # 0 \/ x.i # 0)
Updated(update, x) ==
  IF Updates(update, x) THEN op_0f("LEA_r_m", SLJIT_REG(x.b), x, FALSE) ELSE <<>>

MoveUpdated(op, update, dst, src) ==
  Updated(update, src)
  \o Move(op, dst, IF Constant(src) THEN SLJIT_IMM(CastImmediate(op, src.w))
                   ELSE IF Updates(update, src) THEN SLJIT_MEM1(src.b, 0) ELSE src)
  \o Updated(update, dst)

MoveOp(q, dst, src, saved) ==
  Emitted(IF q.int /\ src = dst /\ Register(src) /\ ~TYPE_CAST_NEEDED(q.op) THEN <<>>
          ELSE MoveUpdated(IF q.int THEN IntMove(q.op, src) ELSE q.op, q.update, dst, src), saved)

\* A request q is [op, update, int, flags, dst, src].
OneSource(q, dst, src, saved, cmov) ==
  CASE q.op = "NOT" ->
         IF q.flags = "set" THEN Emitted(emit_not_with_flags(dst, src, q.int), FALSE)
         ELSE Emitted(emit_unary("NOT", dst, src, q.int), saved)
    [] q.op = "NEG" ->
         Emitted(Keeping(q.flags, saved) \o emit_unary("NEG", dst, src, q.int),
                 SavedAfter(q.flags, saved))
    [] q.op = "CLZ" ->
         Emitted(Keeping(q.flags, saved) \o emit_clz(dst, src, q.int, cmov),
                 SavedAfter(q.flags, saved))
    [] OTHER -> MoveOp(q, dst, src, saved)

sljit_emit_op1(q, saved, cmov) ==
  OneSource(q, ADJUST_LOCAL_OFFSET(q.dst), ADJUST_LOCAL_OFFSET(q.src), saved, cmov)

-----------------------------------------------------------------------------
(* Operations with two sources.                                              *)

BINARY_IMM(alu, imm, arg, m32) ==
  IF IS_HALFWORD(imm) \/ m32 THEN emit_x86_instruction("", alu, {"BIN_INS"}, SLJIT_IMM(imm), arg, m32)
  ELSE emit_load_imm64(TMP2, imm) \o op_mr(alu, TMP2, arg, m32)

BINARY_EAX_IMM(alu, imm, m32) == emit_do_imm32("EAX_i32", alu, IF m32 THEN {} ELSE {"W"}, 0, imm)

\* The short form of an operation on rax and an int.
EaxForm(reg, x, m32) ==
  reg = SCRATCH_REG1 /\ Constant(x) /\ ~IsByte(x.w) /\ (m32 \/ IS_HALFWORD(x.w))

\* dst := dst op src.
InPlace(alu, dst, src, m32) ==
  IF EaxForm(dst, src, m32) THEN BINARY_EAX_IMM(alu, src.w, m32)
  ELSE IF Constant(src) THEN BINARY_IMM(alu, src.w, dst, m32)
  ELSE IF Register(dst) THEN op_rm(alu, dst, src, m32)
  ELSE IF Register(src) THEN op_mr(alu, src, dst, m32)
  ELSE EMIT_MOV(TMP, src, m32) \o op_mr(alu, TMP, dst, m32)

\* at := src1 op src2.
ThreeAddress(alu, at, src1, src2, m32) ==
  EMIT_MOV(at, src1, m32)
  \o (IF Constant(src2) THEN BINARY_IMM(alu, src2.w, at, m32) ELSE op_rm(alu, at, src2, m32))

emit_cum_binary(alu, dst, src1, src2, m32) ==
  IF dst = SLJIT_UNUSED THEN ThreeAddress(alu, TMP, src1, src2, m32)
  ELSE IF dst = src1 THEN InPlace(alu, dst, src2, m32)
  ELSE IF dst = src2 THEN InPlace(alu, dst, src1, m32)
  ELSE IF Register(dst) THEN ThreeAddress(alu, dst, src1, src2, m32)
  ELSE ThreeAddress(alu, TMP, src1, src2, m32) \o EMIT_MOV(dst, TMP, m32)

\* Mutant: the second source is overwritten when it is the destination.
emit_non_cum_binaryOverwrites(alu, dst, src1, src2, m32) ==
  IF dst = SLJIT_UNUSED THEN ThreeAddress(alu, TMP, src1, src2, m32)
  ELSE IF dst = src1 THEN InPlace(alu, dst, src2, m32)
  ELSE IF Register(dst) THEN ThreeAddress(alu, dst, src1, src2, m32)
  ELSE ThreeAddress(alu, TMP, src1, src2, m32) \o EMIT_MOV(dst, TMP, m32)

emit_non_cum_binary(alu, dst, src1, src2, m32) ==
  IF dst = SLJIT_UNUSED THEN ThreeAddress(alu, TMP, src1, src2, m32)
  ELSE IF dst = src1 THEN InPlace(alu, dst, src2, m32)
  ELSE IF Register(dst) /\ dst # src2 THEN ThreeAddress(alu, dst, src1, src2, m32)
  ELSE ThreeAddress(alu, TMP, src1, src2, m32) \o EMIT_MOV(dst, TMP, m32)

\* A product with an immediate, which follows the instruction; one that does not fit is
\* loaded, and wide is the operand the code loads.
MulImmediate(dst_r, src, imm, wide, m32) ==
  IF IS_HALFWORD(imm)
  THEN LET code == op_0f(IF IsByte(imm) THEN "IMUL_r_rm_i8" ELSE "IMUL_r_rm_i32", dst_r, src, m32)
       IN [code EXCEPT ![Len(code)].imm = imm]
  ELSE EMIT_MOV(TMP2, SLJIT_IMM(wide), m32)
       \o (IF dst_r # src THEN EMIT_MOV(dst_r, src, m32) ELSE <<>>)
       \o op_0f("IMUL_r_rm", dst_r, TMP2, m32)

\* The product in the register dst_r.
MulInto(dst_r, src1, src2, m32) ==
  IF dst_r = src1 /\ ~Constant(src2) THEN op_0f("IMUL_r_rm", dst_r, src2, m32)
  ELSE IF dst_r = src2 /\ ~Constant(src1) THEN op_0f("IMUL_r_rm", dst_r, src1, m32)
  ELSE IF Constant(src1) /\ Constant(src2)
  THEN EMIT_MOV(dst_r, src2, m32) \o MulImmediate(dst_r, dst_r, src1.w, src1.w, m32)
  ELSE IF Constant(src1) THEN MulImmediate(dst_r, src2, src1.w, src1.w, m32)
  ELSE IF Constant(src2) THEN MulImmediate(dst_r, src1, src2.w, src1.w, m32)
  ELSE EMIT_MOV(dst_r, src1, m32) \o op_0f("IMUL_r_rm", dst_r, src2, m32)

\* Two sources that are no immediates go to TMP_REGISTER if dst_r is in src2's address.
MulTarget(dst_r, src1, src2) ==
  IF dst_r \notin {src1, src2} /\ ~Constant(src1) /\ ADDRESSING_DEPENDS_ON(src2, dst_r) THEN TMP ELSE dst_r

emit_mul(dst, src1, src2, m32) ==
  LET at == MulTarget(OrTmp(dst), src1, src2)
  IN MulInto(at, src1, src2, m32) \o (IF at = TMP THEN EMIT_MOV(dst, TMP, m32) ELSE <<>>)

\* An addition as the address of a LEA; no code stands for SLJIT_ERR_UNSUPPORTED.
LeaAddress(src1, src2, m32) ==
  CASE Register(src1) /\ Register(src2) -> SLJIT_MEM2(src1.b, src2.b, 0)
    [] Register(src1) /\ Constant(src2) /\ (m32 \/ IS_HALFWORD(src2.w)) ->
         SLJIT_MEM1(src1.b, Sign(src2.w, IntWidth))
    [] ~Register(src1) /\ Register(src2) /\ Constant(src1) /\ (m32 \/ IS_HALFWORD(src1.w)) ->
         SLJIT_MEM1(src2.b, Sign(src1.w, IntWidth))
    [] OTHER -> SLJIT_UNUSED

emit_lea_binary(keep, dst, src1, src2, m32) ==
  LET at == LeaAddress(src1, src2, m32)
  IN IF (~keep /\ dst \in {src1, src2}) \/ at = SLJIT_UNUSED THEN <<>>
     ELSE op_0f("LEA_r_m", OrTmp(dst), at, m32)
          \o (IF OrTmp(dst) = TMP THEN EMIT_MOV(dst, TMP, m32) ELSE <<>>)

emit_cmp_binary(src1, src2, m32) ==
  IF EaxForm(src1, src2, m32) THEN BINARY_EAX_IMM("CMP", src2.w, m32)
  ELSE IF Register(src1)
  THEN IF Constant(src2) THEN BINARY_IMM("CMP", src2.w, src1, m32) ELSE op_rm("CMP", src1, src2, m32)
  ELSE IF Register(src2) /\ ~Constant(src1) THEN op_mr("CMP", src2, src1, m32)
  ELSE IF Constant(src2)
  THEN IF Constant(src1) THEN EMIT_MOV(TMP, src1, m32) \o BINARY_IMM("CMP", src2.w, TMP, m32)
       ELSE BINARY_IMM("CMP", src2.w, src1, m32)
  ELSE EMIT_MOV(TMP, src1, m32) \o op_rm("CMP", TMP, src2, m32)

\* The register and the other operand of a test.
TestOf(reg, x, m32) ==
  IF ~Constant(x) THEN op_mr("TEST", reg, x, m32)
  ELSE IF IS_HALFWORD(x.w) \/ m32 THEN emit_x86_instruction("GROUP_F7", "TEST", {}, x, reg, m32)
  ELSE emit_load_imm64(TMP2, x.w) \o op_mr("TEST", TMP2, reg, m32)

emit_test_binary(src1, src2, m32) ==
  IF EaxForm(src1, src2, m32) THEN BINARY_EAX_IMM("TEST", src2.w, m32)
  ELSE IF Register(src1) THEN TestOf(src1, src2, m32)
  ELSE IF Register(src2) THEN TestOf(src2, src1, m32)
  ELSE EMIT_MOV(TMP, src1, m32) \o TestOf(TMP, src2, m32)

ShiftBy(mode, count, at, m32) == emit_x86_instruction("", mode, {"SHIFT_INS"}, count, at, m32)

\* The count is an immediate or in PREF_SHIFT_REG, rcx.
ShiftPlain(mode, dst, src1, src2, m32) ==
  IF dst = src1 THEN ShiftBy(mode, src2, dst, m32)
  ELSE IF dst = SLJIT_UNUSED \/ (dst = PREF_SHIFT_REG /\ src2 = dst) \/ ~Register(dst)
  THEN EMIT_MOV(TMP, src1, m32) \o ShiftBy(mode, src2, TMP, m32)
       \o (IF dst = SLJIT_UNUSED THEN <<>> ELSE EMIT_MOV(dst, TMP, m32))
  ELSE EMIT_MOV(dst, src1, m32) \o ShiftBy(mode, src2, dst, m32)

emit_shift(mode, dst, src1, src2, m32) ==
  IF Constant(src2) \/ src2 = PREF_SHIFT_REG THEN ShiftPlain(mode, dst, src1, src2, m32)
  ELSE IF dst = PREF_SHIFT_REG
  THEN EMIT_MOV(TMP, src1, m32) \o EMIT_MOV(PREF_SHIFT_REG, src2, m32)
       \o ShiftBy(mode, PREF_SHIFT_REG, TMP, m32) \o EMIT_MOV(PREF_SHIFT_REG, TMP, m32)
  ELSE IF Register(dst) /\ dst # src2 /\ ~ADDRESSING_DEPENDS_ON(src2, dst)
  THEN (IF src1 # dst THEN EMIT_MOV(dst, src1, m32) ELSE <<>>)
       \o EMIT_MOV(TMP, PREF_SHIFT_REG, m32) \o EMIT_MOV(PREF_SHIFT_REG, src2, m32)
       \o ShiftBy(mode, PREF_SHIFT_REG, dst, m32) \o EMIT_MOV(PREF_SHIFT_REG, TMP, m32)
  ELSE EMIT_MOV(TMP, src1, m32) \o EMIT_MOV(TMP2, PREF_SHIFT_REG, m32)
       \o EMIT_MOV(PREF_SHIFT_REG, src2, m32) \o ShiftBy(mode, PREF_SHIFT_REG, TMP, m32)
       \o EMIT_MOV(PREF_SHIFT_REG, TMP2, m32) \o EMIT_MOV(dst, TMP, m32)
\* The processor leaves the flags alone when it shifts by zero.
emit_shift_with_flags(mode, set_flags, dst, src1, src2, m32) ==
  IF Constant(src2)
  THEN IF src2.w % WordWidth # 0 \/ (m32 /\ src2.w % IntWidth # 0) THEN emit_shift(mode, dst, src1, src2, m32)
       ELSE IF ~set_flags THEN EMIT_MOV(dst, src1, m32)
       ELSE emit_cum_binary("OR", dst, src1, SLJIT_IMM(0), m32)
  ELSE (IF set_flags /\ ~Register(dst) THEN emit_cmp_binary(src1, SLJIT_IMM(0), m32) ELSE <<>>)
       \o emit_shift(mode, dst, src1, src2, m32)
       \o (IF set_flags /\ Register(dst) THEN emit_cmp_binary(dst, SLJIT_IMM(0), m32) ELSE <<>>)

\* An addition or a subtraction: a LEA if the flags are not wanted and it has a form for it.
Additive(flags, saved, lea, code) ==
  IF flags # "set" /\ lea # <<>> THEN Emitted(lea, saved)
  ELSE Emitted(Keeping(flags, saved) \o code, SavedAfter(flags, saved))

\* With the carry: saved flags are restored and stay saved.
WithCarry(flags, saved, code) ==
  Emitted((IF saved THEN emit_restore_flags ELSE Keeping(flags, FALSE)) \o code,
          flags # "set" /\ (saved \/ flags = "keep"))

Others(flags, saved, code) == Emitted(Keeping(flags, saved) \o code, SavedAfter(flags, saved))

\* A request q is [op, int, flags, dst, src1, src2].
TwoSources(op, flags, dst, src1, src2, m32, saved) ==
  CASE op = "ADD" ->
         Additive(flags, saved, emit_lea_binary(flags = "keep", dst, src1, src2, m32),
                  emit_cum_binary("ADD", dst, src1, src2, m32))
    [] op = "ADDC" -> WithCarry(flags, saved, emit_cum_binary("ADC", dst, src1, src2, m32))
    [] op = "SUB" ->
         Additive(flags, saved,
                  IF Constant(src2) THEN emit_lea_binary(flags = "keep", dst, src1, SLJIT_IMM(-src2.w), m32)
                  ELSE <<>>,
                  IF dst = SLJIT_UNUSED THEN emit_cmp_binary(src1, src2, m32)
                  ELSE emit_non_cum_binary("SUB", dst, src1, src2, m32))
    [] op = "SUBC" -> WithCarry(flags, saved, emit_non_cum_binary("SBB", dst, src1, src2, m32))
    [] op = "MUL" -> Others(flags, saved, emit_mul(dst, src1, src2, m32))
    [] op = "AND" ->
         Others(flags, saved, IF dst = SLJIT_UNUSED THEN emit_test_binary(src1, src2, m32)
                              ELSE emit_cum_binary("AND", dst, src1, src2, m32))
    [] op \in {"OR", "XOR"} -> Others(flags, saved, emit_cum_binary(op, dst, src1, src2, m32))
    [] op \in {"SHL", "LSHR", "ASHR"} ->
         Others(flags, saved,
                emit_shift_with_flags(CASE op = "SHL" -> "SHL" [] op = "LSHR" -> "SHR" [] op = "ASHR" -> "SAR",
                                      flags = "set", dst, src1, src2, m32))

sljit_emit_op2(q, saved) ==
  TwoSources(q.op, q.flags, ADJUST_LOCAL_OFFSET(q.dst), ADJUST_LOCAL_OFFSET(q.src1),
             ADJUST_LOCAL_OFFSET(q.src2), q.int, saved)

-----------------------------------------------------------------------------
(* The other operations.                                                     *)

\* The dividend is extended into rdx, TMP_REGISTER; the second result moves from there.
Extended(op, m32) ==
  CASE op = "UDIV" -> op_rm("XOR", TMP, TMP, m32)
    [] op = "SDIV" -> <<Direct("CDQ", "", IF m32 THEN {} ELSE {"W"}, 0, 0, 0)>>
    [] OTHER -> <<>>

sljit_emit_op0(op, m32, saved) ==
  CASE op = "BREAKPOINT" -> Emitted(<<Direct("INT3", "", {}, 0, 0, 0)>>, saved)
    [] op = "NOP" -> Emitted(<<Direct("NOP", "", {}, 0, 0, 0)>>, saved)
    [] OTHER ->
         Emitted(Extended(op, m32)
                 \o <<Direct("GROUP_F7", CASE op = "UMUL" -> "MUL" [] op = "SMUL" -> "IMUL"
                                           [] op = "UDIV" -> "DIV" [] op = "SDIV" -> "IDIV",
                             IF m32 THEN {} ELSE {"W"}, 0, reg_map[SCRATCH_REG2.b], 0)>>
                 \o EMIT_MOV(SCRATCH_REG2, TMP, m32), FALSE)

\* Floating point registers are numbers of xmm registers; 0 is TMP_FREG.
TMP_FREG == SLJIT_REG(0)
sse2_buffer == 300
FloatRegister(x) == x.t = "reg"

emit_sse2(opcode, single, xmm1, xmm2) ==
  emit_x86_instruction("SSE2", opcode, {IF single THEN "PREF_F3" ELSE "PREF_F2", "SSE2"}, xmm1, xmm2, TRUE)
emit_sse2_logic(opcode, pref66, xmm1, xmm2) ==
  emit_x86_instruction("SSE2", opcode, {"SSE2"} \cup RexIf(pref66, "PREF_66"), xmm1, xmm2, TRUE)
emit_sse2_load(single, dst, src) == emit_sse2("MOVSD_x_xm", single, dst, src)
emit_sse2_store(single, dst, src) == emit_sse2("MOVSD_xm_x", single, src, dst)

\* The result is made in dst if that is a register, else in TMP_FREG and stored.
FloatUnary(op, single, dst, src) ==
  LET dst_r == IF FloatRegister(dst) THEN dst ELSE TMP_FREG
      constants == sse2_buffer + (IF single THEN 0 ELSE 8) + (IF op = "NEGD" THEN 0 ELSE 4)
  IN (IF dst_r # src THEN emit_sse2_load(single, dst_r, src) ELSE <<>>)
     \o (CASE op = "NEGD" -> emit_sse2_logic("XORPD_x_xm", TRUE, dst_r, SLJIT_MEM0(constants))
           [] op = "ABSD" -> emit_sse2_logic("ANDPD_x_xm", TRUE, dst_r, SLJIT_MEM0(constants))
           [] OTHER -> <<>>)
     \o (IF dst_r = TMP_FREG THEN emit_sse2_store(single, dst, TMP_FREG) ELSE <<>>)

\* q.single is SLJIT_SINGLE_OP.  The short forms of MOVD compare the whole op, flag included.
sljit_emit_fop1(q, saved) ==
  CASE q.op = "CMPD" ->
         Emitted(IF FloatRegister(q.dst) THEN emit_sse2_logic("UCOMISD_x_xm", ~q.single, q.dst, q.src)
                 ELSE emit_sse2_load(q.single, TMP_FREG, q.dst)
                      \o emit_sse2_logic("UCOMISD_x_xm", ~q.single, TMP_FREG, q.src), FALSE)
    [] q.op = "MOVD" /\ ~q.single ->
         Emitted(IF FloatRegister(q.dst) THEN emit_sse2_load(FALSE, q.dst, q.src)
                 ELSE IF FloatRegister(q.src) THEN emit_sse2_store(FALSE, q.dst, q.src)
                 ELSE emit_sse2_load(FALSE, TMP_FREG, q.src) \o emit_sse2_store(FALSE, q.dst, TMP_FREG), saved)
    [] OTHER -> Emitted(FloatUnary(q.op, q.single, q.dst, q.src), saved)

FloatBinary(opcode, single, dst, dst_r, src1, src2) ==
  (IF dst_r # src1 THEN emit_sse2_load(single, dst_r, src1) ELSE <<>>)
  \o emit_sse2(opcode, single, dst_r, src2)
  \o (IF dst_r = TMP_FREG THEN emit_sse2_store(single, dst, TMP_FREG) ELSE <<>>)

sljit_emit_fop2(q, saved) ==
  LET opcode == CASE q.op = "ADDD" -> "ADDSD_x_xm" [] q.op = "SUBD" -> "SUBSD_x_xm"
                  [] q.op = "MULD" -> "MULSD_x_xm" [] q.op = "DIVD" -> "DIVSD_x_xm"
      swapped == q.dst = q.src2 /\ q.dst # q.src1 /\ q.op \in {"ADDD", "MULD"} /\ ~q.single
  IN Emitted(IF FloatRegister(q.dst) /\ swapped THEN FloatBinary(opcode, q.single, q.dst, q.dst, q.dst, q.src1)
             ELSE IF FloatRegister(q.dst) /\ (q.dst = q.src1 \/ q.dst # q.src2)
             THEN FloatBinary(opcode, q.single, q.dst, q.dst, q.src1, q.src2)
             ELSE FloatBinary(opcode, q.single, q.dst, TMP_FREG, q.src1, q.src2), saved)

\* The condition code of a type of jump; the floating point types share those of the others.
get_jump_code(type) ==
  CASE type = "C_EQUAL" -> "je" [] type = "C_NOT_EQUAL" -> "jne"
    [] type = "C_LESS" -> "jc" [] type = "C_GREATER_EQUAL" -> "jae"
    [] type = "C_GREATER" -> "jnbe" [] type = "C_LESS_EQUAL" -> "jbe"
    [] type = "C_SIG_LESS" -> "jl" [] type = "C_SIG_GREATER_EQUAL" -> "jnl"
    [] type = "C_SIG_GREATER" -> "jnle" [] type = "C_SIG_LESS_EQUAL" -> "jle"
    [] type = "C_OVERFLOW" -> "jo" [] type = "C_NOT_OVERFLOW" -> "jno"

\* setcc to the low byte of reg, then the whole register.
SetCondition(type, reg) ==
  <<Direct("SETCC", get_jump_code(type), IF reg_map[reg.b] <= 7 THEN {"REX"} ELSE {"B"}, 0, reg_lmap[reg.b], 0),
    Direct("MOVZX_r_rm8", "", {"W"} \cup RexIf(reg_map[reg.b] > 7, "B") \cup RexIf(reg_map[reg.b] > 7, "R"),
           reg_lmap[reg.b], reg_lmap[reg.b], 0)>>

\* q is [op, int, flags, dst, src, type], op one of MOV, MOV_UI, MOV_SI, AND, OR, XOR.  dst
\* has been adjusted when sljit_emit_op2 adjusts it.
FlagsTo(q, dst, saved) ==
  LET plain == q.flags = "none" /\ ~q.int
  IN IF q.op = "OR" /\ plain /\ Register(dst) /\ dst = q.src
     THEN Emitted(<<SetCondition(q.type, TMP)[1],
                    Direct("OR_rm8_r8", "", {"REX"} \cup RexIf(reg_map[dst.b] > 7, "B"),
                           reg_lmap[TMP_REGISTER], reg_lmap[dst.b], 0)>>, saved)
     ELSE IF q.op = "MOV" /\ plain /\ Register(dst) THEN Emitted(SetCondition(q.type, dst), saved)
     ELSE IF q.op \in {"MOV", "MOV_UI", "MOV_SI"}
     THEN Emitted(SetCondition(q.type, TMP) \o EMIT_MOV(dst, TMP, q.op # "MOV"), saved)
     ELSE After(SetCondition(q.type, TMP),
                sljit_emit_op2([op |-> q.op, int |-> q.int, flags |-> q.flags,
                                dst |-> dst, src1 |-> dst, src2 |-> TMP], saved))

sljit_emit_op_flags(q, saved) ==
  IF q.dst = SLJIT_UNUSED THEN Emitted(<<>>, saved)
  ELSE After(IF saved THEN emit_restore_flags ELSE <<>>,
             FlagsTo(q, ADJUST_LOCAL_OFFSET(q.dst), saved /\ q.flags = "keep"))

sljit_get_local_base(dst, offset) ==
  LET base == SLJIT_REG(LOCALS)
      at == offset + FIXED_LOCALS_OFFSET
      to == ADJUST_LOCAL_OFFSET(dst)
  IN IF ~IS_HALFWORD(at) THEN emit_load_imm64(TMP, at) \o emit_lea_binary(TRUE, to, base, TMP, FALSE)
     ELSE IF at # 0 THEN emit_lea_binary(TRUE, to, base, SLJIT_IMM(at), FALSE)
     ELSE EMIT_MOV(to, base, FALSE)

sljit_emit_const(dst, init_value) ==
  LET to == ADJUST_LOCAL_OFFSET(dst)
      reg == OrTmp(to)
  IN emit_load_imm64(reg, init_value) \o (IF reg = TMP THEN EMIT_MOV(to, TMP, FALSE) ELSE <<>>)
-----------------------------------------------------------------------------
(* Functions and calls.  The saved registers 6 to 10 are rbx, r15, r14, r13  *)
(* and r12.                                                                  *)

SavedRegister(k) == 5 + k
RDI == 7
RSI == 6
RDX == 2

\* The locals fill what keeps rsp aligned below the pushed registers and the return address.
LocalSize(saveds, local_size) ==
  LET pushed == saveds + 1
  IN ((local_size + FIXED_LOCALS_OFFSET + pushed + 1) \div 2) * 2 - pushed

MoveStack(alu, size) ==
  <<Direct(IF size <= 2 ^ (ByteWidth - 1) - 1 THEN "GROUP_BINARY_83" ELSE "GROUP_BINARY_81", alu, {"W"}, 0, SP, size)>>

\* Pushes in one order, pops in the other.
PushSaved(saveds) == LET of(k) == PUSH_REG(SavedRegister(saveds + 1 - k)) IN FlattenSeq([k \in 1 .. saveds |-> of(k)])
PopSaved(saveds) == LET of(k) == POP_REG(SavedRegister(k)) IN FlattenSeq([k \in 1 .. saveds |-> of(k)])

\* The arguments of the C calling convention go to the first saved registers.
TakeArguments(args) ==
  LET of(k) == Direct("r_rm", "MOV", {"W"} \cup RexIf(reg_map[SavedRegister(k)] > 7, "R"),
                      reg_lmap[SavedRegister(k)], <<RDI, RSI, RDX>>[k], 0)
  IN [k \in 1 .. args |-> of(k)]

sljit_emit_enter(args, saveds, local_size) ==
  PushSaved(saveds) \o TakeArguments(args) \o MoveStack("SUB", LocalSize(saveds, local_size))

\* What a compiler that joins the function of another one assumes of it.
sljit_set_context(saveds, local_size) == [saveds |-> saveds, local_size |-> LocalSize(saveds, local_size)]

emit_mov_before_return(op, src) ==
  IF op = "UNUSED" \/ (op \in {"MOV", "MOV_P"} /\ src = SCRATCH_REG1) THEN <<>>
  ELSE sljit_emit_op1([op |-> op, update |-> FALSE, int |-> FALSE, flags |-> "none",
                       dst |-> SCRATCH_REG1, src |-> src], FALSE, TRUE).code

sljit_emit_return(context, op, src) ==
  emit_mov_before_return(op, src) \o MoveStack("ADD", context.local_size) \o PopSaved(context.saveds) \o RET

\* type is "CALL0" to "CALL3", "FAST_CALL" or "JUMP".  rsi already holds the second argument.
call_with_args(type) ==
  (IF type = "CALL3" THEN <<Direct("r_rm", "MOV", {"W"}, RDX, reg_lmap[3], 0)>> ELSE <<>>)
  \o <<Direct("r_rm", "MOV", {"W"}, RDI, reg_lmap[1], 0)>>

sljit_emit_ijump(type, src, saved) ==
  LET from == ADJUST_LOCAL_OFFSET(src)
  IN (IF saved /\ type = "JUMP" THEN emit_restore_flags ELSE <<>>)
     \o (IF type \in {"CALL1", "CALL2", "CALL3"} THEN call_with_args(type) ELSE <<>>)
     \o op_group("GROUP_FF", IF type = "JUMP" THEN "JMP" ELSE "CALL", from, TRUE)

\* The return address of a fast call is taken off the stack, and put back to return.
sljit_emit_fast_enter(dst) ==
  LET to == IF dst = SLJIT_UNUSED THEN TMP ELSE ADJUST_LOCAL_OFFSET(dst)
  IN IF Register(to) THEN POP_REG(to.b) ELSE op_group("POP_rm", "", to, TRUE)

sljit_emit_fast_return(src) ==
  LET from == ADJUST_LOCAL_OFFSET(src)
  IN (IF Register(from) THEN PUSH_REG(from.b)
      ELSE IF InMemory(from) THEN op_group("GROUP_FF", "PUSH", from, TRUE)
      ELSE IF ~IS_HALFWORD(from.w) THEN emit_load_imm64(TMP, from.w) \o PUSH_REG(TMP_REGISTER)
      ELSE <<Direct("PUSH_i32", "", {}, 0, 0, from.w)>>)
     \o RET

\* A comparison and the condition of the jump it ends with.  An immediate goes second, and
\* the condition is mirrored.
Mirrored(type) ==
  CASE type = "C_LESS" -> "C_GREATER" [] type = "C_GREATER" -> "C_LESS"
    [] type = "C_GREATER_EQUAL" -> "C_LESS_EQUAL" [] type = "C_LESS_EQUAL" -> "C_GREATER_EQUAL"
    [] type = "C_SIG_LESS" -> "C_SIG_GREATER" [] type = "C_SIG_GREATER" -> "C_SIG_LESS"
    [] type = "C_SIG_GREATER_EQUAL" -> "C_SIG_LESS_EQUAL" [] type = "C_SIG_LESS_EQUAL" -> "C_SIG_GREATER_EQUAL"
    [] OTHER -> type

sljit_emit_cmp(type, src1, src2, m32, saved) ==
  LET swap == Constant(src1) /\ ~Constant(src2)
  IN [code |-> sljit_emit_op2([op |-> "SUB", int |-> m32, flags |-> "set", dst |-> SLJIT_UNUSED,
                               src1 |-> IF swap THEN src2 ELSE src1, src2 |-> IF swap THEN src1 ELSE src2], saved).code,
      type |-> IF swap THEN Mirrored(type) ELSE type]

sljit_emit_fcmp(type, single, src1, src2, saved) ==
  [code |-> sljit_emit_fop1([op |-> "CMPD", single |-> single, dst |-> src1, src |-> src2], saved).code,
   type |-> type]
-----------------------------------------------------------------------------
(* Running the code.  A call is a request, the machine before and the        *)
(* machine after.                                                            *)

\* init_compiler: the constants that change or clear the sign of a number.
init_compiler ==
  (sse2_buffer :> <<"sign", "single">>) @@ (sse2_buffer + 4 :> <<"rest", "single">>)
    @@ (sse2_buffer + 8 :> <<"sign", "double">>) @@ (sse2_buffer + 12 :> <<"rest", "double">>)

\* A world gives the registers, the cells and the flags the program has.  Flags that are
\* saved are in the slot at rsp, and the processor has others.
MachineOf(w, saved) ==
  [r |-> w.r, stride |-> w.stride, pc |-> <<"next">>, skip |-> FALSE,
   f |-> IF saved THEN [k \in {"z", "s", "c", "o"} |-> ~w.f[k]] ELSE w.f,
   mem |-> IF saved THEN w.r[SP] :> FlagWord(w.f) ELSE <<>>,
   x |-> [k \in 0 .. 6 |-> <<"x", k>>], fmem |-> init_compiler, cmp |-> <<>>]

\* The flags the program has.
Seen(m, saved) == IF saved THEN WordFlags(Top(m)) ELSE m.f

CodegenIs == Idle /\ state.kind = "codegen"

Emission(fun, q, w, saved, emitted) ==
  /\ call' = [op |-> fun, q |-> q, before |-> MachineOf(w, saved), flags |-> w.f,
              after |-> Ran(MachineOf(w, saved), Assembled(emitted.code), 1), saved |-> emitted.saved]
  /\ UNCHANGED <<state, sent>>

Comparisons == {"C_EQUAL", "C_NOT_EQUAL", "C_LESS", "C_GREATER_EQUAL", "C_GREATER", "C_LESS_EQUAL", "C_SIG_LESS",
                "C_SIG_GREATER_EQUAL", "C_SIG_GREATER", "C_SIG_LESS_EQUAL"}
JumpTypes == Comparisons \cup {"C_OVERFLOW", "C_NOT_OVERFLOW"}

EmitOp1(q, w, saved) == Emission("op1", q, w, saved, sljit_emit_op1(q, saved, w.cmov))
EmitOp2(q, w, saved) == Emission("op2", q, w, saved, sljit_emit_op2(q, saved))
EmitOp0(q, w, saved) == Emission("op0", q, w, saved, sljit_emit_op0(q.op, q.int, saved))
EmitFop1(q, w, saved) == Emission("fop1", q, w, saved, sljit_emit_fop1(q, saved))
EmitFop2(q, w, saved) == Emission("fop2", q, w, saved, sljit_emit_fop2(q, saved))
EmitFlags(q, w, saved) == Emission("op_flags", q, w, saved, sljit_emit_op_flags(q, saved))
EmitBase(q, w, saved) == Emission("local_base", q, w, saved, Emitted(sljit_get_local_base(q.dst, q.offset), saved))
EmitConst(q, w, saved) == Emission("const", q, w, saved, Emitted(sljit_emit_const(q.dst, q.value), saved))
EmitIjump(q, w, saved) == Emission("ijump", q, w, saved, Emitted(sljit_emit_ijump(q.type, q.src, saved), FALSE))
EmitFastEnter(q, w, saved) == Emission("fast_enter", q, w, saved, Emitted(sljit_emit_fast_enter(q.dst), saved))
EmitFastReturn(q, w, saved) == Emission("fast_return", q, w, saved, Emitted(sljit_emit_fast_return(q.src), saved))

\* A comparison and the jump it ends with.
Comparison(fun, q, w, saved, c) == Emission(fun, q @@ [jump |-> c.type], w, saved, Emitted(c.code, FALSE))
EmitCmp(q, w, saved) == Comparison("cmp", q, w, saved, sljit_emit_cmp(q.type, q.src1, q.src2, q.int, saved))
EmitFcmp(q, w, saved) == Comparison("fcmp", q, w, saved, sljit_emit_fcmp(q.type, q.single, q.src1, q.src2, saved))

\* A whole function: it enters, uses its registers and its locals, and returns.
Body(m, q) ==
  [m EXCEPT !.r = [k \in DOMAIN @ |->
                     IF k \in {reg_map[j] : j \in 1 .. 5 + q.saveds} THEN Sign(@[k] * 3 + k, WordWidth) ELSE @[k]],
            !.mem = [a \in m.r[SP] .. m.r[SP] + q.local_size |-> a] @@ @]

EmitFunction(q, w, entered) ==
  /\ call' = [op |-> "function", q |-> q, before |-> MachineOf(w, FALSE), entered |-> entered,
              used |-> Body(entered, q),
              after |-> Ran(Body(entered, q),
                            Assembled(sljit_emit_return(sljit_set_context(q.saveds, q.local_size), q.op, q.src)), 1)]
  /\ UNCHANGED <<state, sent>>

codegen_none == state = [kind |-> "codegen"] /\ call = NoCall /\ sent = <<>>

\* The requests of a menu are every combination of its sets.
CodegenNext == CodegenIs /\ \E w \in EmitWorlds :
    \/ \E menu \in EmitOp2Menus : \E saved \in menu.saved, op \in menu.op, m32 \in menu.int, flags \in menu.flags,
         dst \in menu.dst, src1 \in menu.src1, src2 \in menu.src2 :
         EmitOp2([op |-> op, int |-> m32, flags |-> flags, dst |-> dst, src1 |-> src1, src2 |-> src2], w, saved)
    \/ \E menu \in EmitOp1Menus : \E saved \in menu.saved, op \in menu.op, update \in menu.update, m32 \in menu.int,
         flags \in menu.flags, dst \in menu.dst, src \in menu.src :
         EmitOp1([op |-> op, update |-> update, int |-> m32, flags |-> flags, dst |-> dst, src |-> src], w, saved)
    \/ \E saved \in BOOLEAN, op \in {"BREAKPOINT", "NOP", "UMUL", "SMUL", "UDIV", "SDIV"}, m32 \in BOOLEAN :
         EmitOp0([op |-> op, int |-> m32], w, saved)
    \/ \E saved \in BOOLEAN, op \in {"MOVD", "NEGD", "ABSD", "CMPD"}, single \in BOOLEAN,
         dst \in EmitFloats, src \in EmitFloats :
         EmitFop1([op |-> op, single |-> single, dst |-> dst, src |-> src], w, saved)
    \/ \E saved \in BOOLEAN, op \in {"ADDD", "SUBD", "MULD", "DIVD"}, single \in BOOLEAN,
         dst \in EmitFloats, src1 \in EmitFloats, src2 \in EmitFloats :
         EmitFop2([op |-> op, single |-> single, dst |-> dst, src1 |-> src1, src2 |-> src2], w, saved)
    \/ \E saved \in BOOLEAN, flags \in {"none", "keep"}, op \in {"MOV", "MOV_UI", "MOV_SI"},
         dst \in EmitTargets \cup {SLJIT_UNUSED}, type \in JumpTypes :
         EmitFlags([op |-> op, int |-> FALSE, flags |-> flags, dst |-> dst, src |-> dst, type |-> type], w, saved)
    \/ \E saved \in BOOLEAN, flags \in {"none", "set", "keep"}, op \in {"AND", "OR", "XOR"}, m32 \in BOOLEAN,
         dst \in EmitTargets, type \in JumpTypes :
         EmitFlags([op |-> op, int |-> m32, flags |-> flags, dst |-> dst, src |-> dst, type |-> type], w, saved)
    \/ \E dst \in EmitTargets, offset \in EmitValues :
         \/ EmitBase([dst |-> dst, offset |-> offset], w, FALSE)
         \/ EmitConst([dst |-> dst, value |-> offset], w, FALSE)
    \/ \E saved \in BOOLEAN, type \in {"JUMP", "FAST_CALL", "CALL0", "CALL1", "CALL2", "CALL3"}, src \in EmitTargets :
         EmitIjump([type |-> type, src |-> src], w, saved)
    \/ \E dst \in EmitTargets : EmitFastEnter([dst |-> dst], w, FALSE)
    \/ \E src \in EmitTargets \cup {SLJIT_IMM(v) : v \in EmitValues} : EmitFastReturn([src |-> src], w, FALSE)
    \/ \E saved \in BOOLEAN, type \in Comparisons, m32 \in BOOLEAN,
         src1 \in EmitTargets \cup {SLJIT_IMM(v) : v \in EmitValues},
         src2 \in EmitTargets \cup {SLJIT_IMM(v) : v \in EmitValues} :
         EmitCmp([type |-> type, int |-> m32, src1 |-> src1, src2 |-> src2], w, saved)
    \/ \E single \in BOOLEAN, src1 \in EmitFloats, src2 \in EmitFloats :
         EmitFcmp([type |-> "C_FLOAT_EQUAL", single |-> single, src1 |-> src1, src2 |-> src2], w, FALSE)
    \/ \E args \in 0 .. 3, saveds \in 0 .. 5, local_size \in EmitLocals, op \in {"UNUSED", "MOV", "MOV_UB"},
         src \in EmitTargets :
         /\ args <= saveds
         /\ EmitFunction([args |-> args, saveds |-> saveds, local_size |-> local_size, op |-> op, src |-> src], w,
                         Ran(MachineOf(w, FALSE), sljit_emit_enter(args, saveds, local_size), 1))
-----------------------------------------------------------------------------
(* What a request means to the program that makes it.                        *)

Location(m, x) ==
  Sign((IF x.b = 0 THEN 0 ELSE m.r[reg_map[x.b]])
         + (IF x.i # 0 THEN m.r[reg_map[x.i]] * 2 ^ x.w
            ELSE x.w + (IF x.b = LOCALS THEN FIXED_LOCALS_OFFSET ELSE 0)), WordWidth)

Value(m, x) ==
  CASE x.t = "imm" -> x.w
    [] x.t = "reg" -> m.r[reg_map[x.b]]
    [] x.t = "mem" -> Cell(m, Location(m, x))

WidthOf(m32) == IF m32 THEN IntWidth ELSE WordWidth

\* dst has the low bits of v; the rest of a cell is as it was, that of a register is not
\* looked at.
Gets(b, m, dst, v, width) ==
  CASE dst = SLJIT_UNUSED -> TRUE
    [] dst.t = "reg" -> Sign(m.r[reg_map[dst.b]], width) = Sign(v, width)
    [] dst.t = "mem" -> Cell(m, Location(b, dst)) = Merge(Cell(b, Location(b, dst)), v, width)

\* Control goes on, and only the registers regs, the cells cells and the slot of the flags
\* have changed.
OnlyChanges(b, m, regs, cells) ==
  /\ m.pc = <<"next">>
  /\ \A r \in ({SP} \cup {reg_map[k] : k \in 1 .. 10}) \ {reg_map[k] : k \in regs} : m.r[r] = b.r[r]
  /\ \A a \in DOMAIN m.mem \ (cells \cup {b.r[SP]}) : m.mem[a] = Cell(b, a)

RegsOf(x) == IF x.t = "reg" THEN {x.b} \ {0} ELSE {}
CellsOf(b, x) == IF x.t = "mem" THEN {Location(b, x)} ELSE {}

\* The result of an operation on numbers, of which only the low bits count.
Operation(op, a, b, carry, width) ==
  CASE op = "ADD" -> a + b
    [] op = "ADDC" -> a + b + carry
    [] op = "SUB" -> a - b
    [] op = "SUBC" -> a - b - carry
    [] op = "MUL" -> Sign(a, width) * Sign(b, width)
    [] op = "AND" -> Unsigned(a, width) & Unsigned(b, width)
    [] op = "OR" -> Unsigned(a, width) | Unsigned(b, width)
    [] op = "XOR" -> Unsigned(a, width) ^^ Unsigned(b, width)
    [] op = "SHL" -> Unsigned(a, width - (b % width)) * 2 ^ (b % width)
    [] op = "LSHR" -> Unsigned(a, width) \div 2 ^ (b % width)
    [] op = "ASHR" -> Sign(a, width) \div 2 ^ (b % width)
    [] op = "NOT" -> -a - 1
    [] op = "NEG" -> -a
    [] op = "CLZ" -> Cardinality({n \in 0 .. width - 1 : Unsigned(a, width) < 2 ^ n})
    [] op = "MOV_UB" -> Unsigned(a, ByteWidth)
    [] op = "MOV_SB" -> Sign(a, ByteWidth)
    [] op = "MOV_UH" -> Unsigned(a, HalfWidth)
    [] op = "MOV_SH" -> Sign(a, HalfWidth)
    [] op = "MOV_UI" -> Unsigned(a, IntWidth)
    [] op = "MOV_SI" -> Sign(a, IntWidth)
    [] op \in {"MOV", "MOV_P"} -> a

\* The flags sljitLir.h says an operation sets.
FlagsRight(op, f, a, b, carry, v, width) ==
  /\ op \notin {"ADDC", "SUBC", "MUL"} => f.z = (Unsigned(v, width) = 0)
  /\ op = "ADD" => /\ f.c = (Unsigned(a, width) + Unsigned(b, width) >= 2 ^ width)
                   /\ f.o = ~Fits(Sign(a, width) + Sign(b, width), width)
  /\ op = "ADDC" => f.c = (Unsigned(a, width) + Unsigned(b, width) + carry >= 2 ^ width)
  /\ op = "SUB" => /\ f.c = (Unsigned(a, width) < Unsigned(b, width))
                   /\ (f.s # f.o) = (Sign(a, width) < Sign(b, width))
                   /\ f.o = ~Fits(Sign(a, width) - Sign(b, width), width)
  /\ op = "SUBC" => f.c = (Unsigned(a, width) < Unsigned(b, width) + carry)
  /\ op = "MUL" => f.o = ~Fits(v, width)
  /\ op = "NEG" => f.o = ~Fits(-Sign(a, width), width)

\* The flags after a request: set, or those the program had before.
FlagsAfter(c, a, b, v, width) ==
  /\ c.q.flags = "set" => ~c.saved /\ FlagsRight(c.q.op, c.after.f, a, b, BitValue(c.flags.c), v, width)
  /\ c.q.flags = "keep" => Seen(c.after, c.saved) = c.flags

IsShift(op) == op \in {"SHL", "LSHR", "ASHR"}
\* Requests whose meaning sljitLir.h leaves open, or which the code treats otherwise than the
\* others: a count outside the word; an immediate of a product wider than an int, which
\* emit_mul does not load; a destination in the address of the second source, which the
\* general case of a binary operation overwrites; an unused product, which overwrites
\* SCRATCH_REG1 before it reads it; the flags of an int shifted by a multiple of its width; a
\* sum with an extra saved register, which emit_lea_binary cannot encode as a base.
Open2(q, b, width) ==
  \/ IsShift(q.op) /\ ~Constant(q.src2) /\ Value(b, q.src2) \notin 0 .. width - 1
  \/ q.op = "MUL" /\ Constant(q.src2) /\ ~IS_HALFWORD(q.src2.w)
  \/ ~IsShift(q.op) /\ q.op # "MUL" /\ q.dst # q.src1 /\ ADDRESSING_DEPENDS_ON(q.src2, q.dst)
  \/ q.dst = SLJIT_UNUSED /\ (q.op = "MUL" \/ IsShift(q.op)) /\ q.flags = "set"
  \/ IsShift(q.op) /\ q.int /\ Constant(q.src2) /\ q.src2.w % IntWidth = 0 /\ q.flags = "set"
  \/ q.op \in {"ADD", "SUB"} /\ q.flags # "set" /\ {9, 10} \cap (RegsOf(q.src1) \cup RegsOf(q.src2)) # {}

\* An unused result of some operations goes to SCRATCH_REG1, and an int shift by a count that
\* is elsewhere keeps only the int of SCRATCH_REG3.
Spoils(q) ==
  (IF q.dst = SLJIT_UNUSED THEN {1} ELSE {})
  \cup (IF IsShift(q.op) /\ q.int /\ ~Constant(q.src2) /\ q.src2 # PREF_SHIFT_REG THEN {3} ELSE {})

Op2Exact(c) ==
  LET width == WidthOf(c.q.int)
      a == Value(c.before, c.q.src1)
      b == Value(c.before, c.q.src2)
      v == Operation(c.q.op, a, b, BitValue(c.flags.c), width)
  IN \/ Open2(c.q, c.before, width)
     \/ /\ Gets(c.before, c.after, c.q.dst, v, width)
        /\ OnlyChanges(c.before, c.after, RegsOf(c.q.dst) \cup Spoils(c.q), CellsOf(c.before, c.q.dst))
        /\ 3 \in Spoils(c.q) \ RegsOf(c.q.dst) => Sign(c.after.r[1] - c.before.r[1], IntWidth) = 0
        /\ FlagsAfter(c, a, b, v, width)

\* A move is of the width of its type; with update it also moves the base registers.
IsMove(op) == op \notin {"NOT", "NEG", "CLZ"}
MoveWidth(op) ==
  CASE op \in {"MOV_UB", "MOV_SB"} -> ByteWidth
    [] op \in {"MOV_UH", "MOV_SH"} -> HalfWidth
    [] op \in {"MOV_UI", "MOV_SI"} -> IntWidth
    [] OTHER -> WordWidth
MovedBases(q) == UNION {IF q.update /\ x.t = "mem" THEN {x.b} \ {0} ELSE {} : x \in {q.dst, q.src}}

\* A base register that is updated is used nowhere else in the request.
Open1(q) ==
  \E k \in MovedBases(q) : \/ q.dst.t = "mem" /\ q.src.t = "mem"
                           \/ k \in {q.dst.i, q.src.i} \/ k = LOCALS
                           \/ q.src.t = "mem" /\ q.dst \in {SLJIT_REG(k), SLJIT_UNUSED}

Op1Exact(c) ==
  LET width == WidthOf(c.q.int)
      a == Value(c.before, c.q.src)
      v == Operation(c.q.op, a, 0, 0, width)
  IN \/ Open1(c.q)
     \/ /\ Gets(c.before, c.after, c.q.dst, v,
                IF IsMove(c.q.op) /\ c.q.dst.t = "mem" THEN MoveWidth(c.q.op) ELSE width)
        /\ OnlyChanges(c.before, c.after, RegsOf(c.q.dst) \cup MovedBases(c.q) \cup Spoils(c.q), CellsOf(c.before, c.q.dst))
        /\ \A x \in {c.q.dst, c.q.src} :
             c.q.update /\ x.t = "mem" /\ x.b # 0 => c.after.r[reg_map[x.b]] = Location(c.before, x)
        /\ IF IsMove(c.q.op) THEN Seen(c.after, c.saved) = c.flags ELSE FlagsAfter(c, a, 0, v, width)
\* SCRATCH_REG1 and SCRATCH_REG2 have the low and the high word of a product, or the quotient
\* and the remainder; a divisor of zero and a quotient that does not fit are left open.
Op0Exact(c) ==
  LET width == WidthOf(c.q.int)
      signed == c.q.op \in {"SMUL", "SDIV"}
      size(n) == IF n < 0 THEN -n ELSE n
      number(r) == IF signed THEN Sign(r, width) ELSE Unsigned(r, width)
      a == number(c.before.r[reg_map[1]])
      b == number(c.before.r[reg_map[2]])
      low == number(c.after.r[reg_map[1]])
      high == number(c.after.r[reg_map[2]])
  IN CASE c.q.op = "BREAKPOINT" -> c.after = [c.before EXCEPT !.pc = <<"break">>]
       [] c.q.op = "NOP" -> c.after = c.before
       [] OTHER ->
            \/ c.q.op \in {"UDIV", "SDIV"} /\ (b = 0 \/ (b = -1 /\ ~Fits(-a, width)))
            \/ /\ OnlyChanges(c.before, c.after, {1, 2}, {})
               /\ IF c.q.op \in {"UMUL", "SMUL"}
                  THEN /\ Unsigned(low, width) = (Sign(a, width) * Sign(b, width)) % 2 ^ width
                       /\ signed => high = (a * b) \div 2 ^ width
                       /\ ~signed => high = ((a \div 2) * b + ((a % 2) * b) \div 2) \div 2 ^ (width - 1)
                  ELSE /\ a = low * b + high
                       /\ IF a < 0 THEN high <= 0 ELSE high >= 0
                       /\ size(high) < size(b)
\* Floating point.
FloatValue(m, x) ==
  IF x.t = "reg" THEN m.x[x.b]
  ELSE IF Location(m, x) \in DOMAIN m.fmem THEN m.fmem[Location(m, x)] ELSE <<"cell", Location(m, x)>>

\* dst has one of the values vs, and nothing else has changed but TMP_FREG and the flags.
FloatGets(b, m, dst, vs) ==
  /\ FloatValue(m, dst) \in vs
  /\ OnlyChanges(b, m, {}, {})
  /\ \A k \in 1 .. 6 : dst # SLJIT_REG(k) => m.x[k] = b.x[k]
  /\ \A a \in DOMAIN m.fmem \ CellsOf(b, dst) : a \in DOMAIN b.fmem /\ m.fmem[a] = b.fmem[a]

ComparedAre(c, single, a, b) ==
  /\ ~c.saved
  /\ c.after.cmp = <<IF single THEN "" ELSE "66", FloatValue(c.before, a), FloatValue(c.before, b)>>

Fop1Exact(c) ==
  LET a == FloatValue(c.before, c.q.src)
      kind == IF c.q.single THEN "single" ELSE "double"
  IN IF c.q.op = "CMPD" THEN ComparedAre(c, c.q.single, c.q.dst, c.q.src)
     ELSE /\ FloatGets(c.before, c.after, c.q.dst,
                       {CASE c.q.op = "MOVD" -> a
                          [] c.q.op = "NEGD" -> <<"XORPD_x_xm", "66", a, <<"sign", kind>>>>
                          [] c.q.op = "ABSD" -> <<"ANDPD_x_xm", "66", a, <<"rest", kind>>>>})
          /\ Seen(c.after, c.saved) = c.flags

Fop2Exact(c) ==
  LET a == FloatValue(c.before, c.q.src1)
      b == FloatValue(c.before, c.q.src2)
      of(name, x, y) == <<name, IF c.q.single THEN "F3" ELSE "F2", x, y>>
  IN /\ FloatGets(c.before, c.after, c.q.dst,
                  CASE c.q.op = "ADDD" -> {of("ADDSD_x_xm", a, b), of("ADDSD_x_xm", b, a)}
                    [] c.q.op = "MULD" -> {of("MULSD_x_xm", a, b), of("MULSD_x_xm", b, a)}
                    [] c.q.op = "SUBD" -> {of("SUBSD_x_xm", a, b)}
                    [] c.q.op = "DIVD" -> {of("DIVSD_x_xm", a, b)})
     /\ Seen(c.after, c.saved) = c.flags

\* The condition is a number, which replaces dst or is combined with it.  A local combined
\* with it is left out: its offset is adjusted twice.
FlagsExact(c) ==
  LET q == c.q
      move == q.op \in {"MOV", "MOV_UI", "MOV_SI"}
      bit == BitValue(Condition(c.flags, get_jump_code(q.type)))
      v == IF move THEN bit ELSE Operation(q.op, Value(c.before, q.dst), bit, 0, WidthOf(q.int))
      width == IF move THEN MoveWidth(q.op) ELSE WidthOf(q.int)
  IN \/ ~move /\ q.dst.b = LOCALS
     \/ q.dst = SLJIT_UNUSED /\ c.after = c.before
     \/ /\ Gets(c.before, c.after, q.dst, v, width)
        /\ OnlyChanges(c.before, c.after, RegsOf(q.dst), CellsOf(c.before, q.dst))
        /\ move => Seen(c.after, c.saved) = c.flags
        /\ ~move => FlagsAfter(c, 0, 0, v, width)

\* A comparison and its jump.
Relation(type, a, b, width) ==
  CASE type = "C_EQUAL" -> Unsigned(a - b, width) = 0
    [] type = "C_NOT_EQUAL" -> Unsigned(a - b, width) # 0
    [] type = "C_LESS" -> Unsigned(a, width) < Unsigned(b, width)
    [] type = "C_GREATER_EQUAL" -> Unsigned(a, width) >= Unsigned(b, width)
    [] type = "C_GREATER" -> Unsigned(a, width) > Unsigned(b, width)
    [] type = "C_LESS_EQUAL" -> Unsigned(a, width) <= Unsigned(b, width)
    [] type = "C_SIG_LESS" -> Sign(a, width) < Sign(b, width)
    [] type = "C_SIG_GREATER_EQUAL" -> Sign(a, width) >= Sign(b, width)
    [] type = "C_SIG_GREATER" -> Sign(a, width) > Sign(b, width)
    [] type = "C_SIG_LESS_EQUAL" -> Sign(a, width) <= Sign(b, width)

CmpExact(c) ==
  /\ OnlyChanges(c.before, c.after, {}, {})
  /\ Condition(c.after.f, get_jump_code(c.q.jump))
       = Relation(c.q.type, Value(c.before, c.q.src1), Value(c.before, c.q.src2), WidthOf(c.q.int))
\* A jump or a call goes to the value of its operand; a jump has the flags of the program,
\* a call the first scratch registers as its arguments.
IjumpExact(c) ==
  /\ c.after.pc = <<IF c.q.type = "JUMP" THEN "jump" ELSE "call", Value(c.before, c.q.src)>>
  /\ OnlyChanges(c.before, [c.after EXCEPT !.pc = <<"next">>], {}, {})
  /\ c.q.type = "JUMP" => c.after.f = c.flags
  /\ c.q.type \in {"CALL1", "CALL2", "CALL3"} => c.after.r[RDI] = c.before.r[reg_map[1]]
  /\ c.q.type \in {"CALL2", "CALL3"} => c.after.r[RSI] = c.before.r[reg_map[2]]
  /\ c.q.type = "CALL3" => c.after.r[RDX] = c.before.r[reg_map[3]]

\* The return address of a fast call: taken from the stack, and gone back to.
FastEnterExact(c) ==
  LET entered == Popped(c.before)
  IN /\ Gets(entered, c.after, c.q.dst, Top(c.before), WordWidth)
     /\ OnlyChanges(entered, c.after, RegsOf(c.q.dst), CellsOf(entered, c.q.dst))

FastReturnExact(c) ==
  /\ c.after.pc = <<"return", Value(c.before, c.q.src)>>
  /\ c.after.r[SP] = c.before.r[SP]

\* At the entry rsp is odd, below the return address.  Inside it is aligned and the arguments
\* are in the saved registers; the locals are the function's alone: whatever it writes there,
\* the caller gets its registers, its stack and the value back.
FunctionExact(c) ==
  LET q == c.q
      kept == {5} \cup {reg_map[k] : k \in 6 .. 10}
  IN /\ c.entered.r[SP] % 2 = 0
     /\ \A k \in 1 .. q.args : c.entered.r[reg_map[SavedRegister(k)]] = c.before.r[<<RDI, RSI, RDX>>[k]]
     /\ c.after.pc = <<"return", Top(c.before)>>
     /\ c.after.r[SP] = c.before.r[SP] + 1
     /\ \A r \in kept : c.after.r[r] = c.before.r[r]
     /\ q.op # "UNUSED" =>
          c.after.r[reg_map[1]] = Operation(q.op, Value(c.used, q.src), 0, 0, WordWidth)

\* The code of a request does to the registers, the memory and the flags of the program what
\* sljitLir.h says the request means, for every form its operands can take (sljit_emit_op0
\* to sljit_emit_fop2, the calls, the jumps and the frame of a function): operands that share
\* registers, displacements and immediates of every width, flags wanted, kept or saved
\* earlier.  Nothing else the program can see changes.
CodegenExact ==
  CASE call.op = "op2" -> Op2Exact(call)
    [] call.op = "op1" -> Op1Exact(call)
    [] call.op = "op0" -> Op0Exact(call)
    [] call.op = "fop1" -> Fop1Exact(call)
    [] call.op = "fop2" -> Fop2Exact(call)
    [] call.op = "op_flags" -> FlagsExact(call)
    [] call.op = "local_base" ->
         /\ Gets(call.before, call.after, call.q.dst,
                 call.before.r[SP] + FIXED_LOCALS_OFFSET + call.q.offset, WordWidth)
         /\ OnlyChanges(call.before, call.after, RegsOf(call.q.dst), CellsOf(call.before, call.q.dst))
    [] call.op = "const" ->
         /\ Gets(call.before, call.after, call.q.dst, call.q.value, WordWidth)
         /\ OnlyChanges(call.before, call.after, RegsOf(call.q.dst), CellsOf(call.before, call.q.dst))
    [] call.op = "ijump" -> IjumpExact(call)
    [] call.op = "fast_enter" -> FastEnterExact(call)
    [] call.op = "fast_return" -> FastReturnExact(call)
    [] call.op = "cmp" -> CmpExact(call)
    [] call.op = "fcmp" -> ComparedAre(call, call.q.single, call.q.src1, call.q.src2)
    [] call.op = "function" -> FunctionExact(call)
    [] OTHER -> TRUE
=============================================================================
