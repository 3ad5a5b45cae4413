---------------------------- MODULE CodeBuffer ----------------------------
(***************************************************************************)
(* A compiler of sljit as a buffer of code, labels, jumps and constants    *)
(* (sljitLir.c), and sljit_generate_code, which lays the code out and      *)
(* chooses the size of every jump (sljitNativeX86_common.c,                *)
(* sljitNativeX86_64.c).                                                   *)
(*                                                                         *)
(* The instructions between two labels or jumps are a number of bytes.     *)
(* items is a history variable: everything that was emitted, in order.     *)
(***************************************************************************)
EXTENDS DataPath, TLC, SequencesExt

CONSTANTS
  BUF_SIZE,        \* bytes of a memory fragment
  MaxFragments,    \* fragments there is memory for
  CodeLens,        \* lengths of the runs of instructions
  MaxItems,        \* calls before the code is generated
  IntReach,        \* reach of a displacement of 32 bits
  Targets          \* addresses outside of the code, relative to it

ByteReach == 127

CompilerIs == Idle /\ state.kind = "compiler"

\* struct sljit_compiler.  buf holds the fragments, the last one first.
sljit_create_compiler ==
  [kind |-> "compiler", error |-> FALSE, size |-> 0, buf |-> <<<<>>>>, used_size |-> 0,
   labels |-> <<>>, jumps |-> <<>>, consts |-> 0, items |-> <<>>]

ensure_buf(c, entry, size) ==
  IF c.used_size + size <= BUF_SIZE
  THEN [c EXCEPT !.buf[1] = Append(@, entry), !.used_size = @ + size]
  ELSE IF Len(c.buf) < MaxFragments
  THEN [c EXCEPT !.buf = <<<<entry>>>> \o @, !.used_size = size]
  ELSE [c EXCEPT !.error = TRUE]

\* A call that takes effect; after an error every call returns at once.
Emit(item, c) ==
  /\ CompilerIs /\ ~state.error /\ Len(state.items) < MaxItems
  /\ state' = [c EXCEPT !.items = Append(@, item)]
  /\ UNCHANGED <<call, sent>>

EmitCode(n) ==
  Emit(<<"code", n>>, [ensure_buf(state, <<"code", n>>, n + 1) EXCEPT !.size = @ + n])

\* Two labels at the same place are one.
SameLabel(c) == c.labels # <<>> /\ Last(c.labels) = c.size

sljit_emit_label ==
  Emit(<<"label", Len(state.labels) + (IF SameLabel(state) THEN 0 ELSE 1)>>,
       IF SameLabel(state) THEN state
       ELSE ensure_buf([state EXCEPT !.labels = Append(@, state.size)], <<"label">>, 2))

\* type is "cond", "jump" or "call".  The size of the largest form is counted.
WorstCase(type) == IF type = "cond" THEN 15 ELSE 13

sljit_emit_jump(type, rewritable) ==
  Emit(<<"jump", Len(state.jumps) + 1>>,
       ensure_buf([state EXCEPT !.jumps = Append(@, [type |-> type, rewritable |-> rewritable, target |-> 0]),
                                !.size = @ + WorstCase(type)], <<"jump">>, 2))

\* sljit_emit_ijump with an immediate.
sljit_emit_ijump_imm(type, target) ==
  Emit(<<"jump", Len(state.jumps) + 1>>,
       ensure_buf([state EXCEPT !.jumps = Append(@, [type |-> type, rewritable |-> FALSE, target |-> target]),
                                !.size = @ + 13], <<"jump">>, 2))

\* sljit_emit_const to a register: an instruction of 10 bytes that ends in the constant.
sljit_emit_const_imm ==
  Emit(<<"const">>,
       ensure_buf([ensure_buf(state, <<"code", 10>>, 11) EXCEPT !.size = @ + 10, !.consts = @ + 1], <<"const">>, 2))

-----------------------------------------------------------------------------
(* The layout: at is the address of the next byte, relative to the code; the *)
(* sizes of the labels become addresses as they are met.                     *)

reverse_buf(buf) == Reverse(buf)

\* Where a jump goes, as far as it is known when it is met.
LabelAddr(g, j) == IF j.target # 0 THEN j.target ELSE g.size[j.label]

\* A jump in the code: the bytes before the patched field, the field, and those after it.
Form(at, before, field, after) ==
  [at |-> at, addr |-> at + before, field |-> field, end |-> at + before + field + after]

\* The 64 bit address goes to TMP_REG3 (2 + 8 bytes), which is jumped to (3 bytes), after an
\* inverted jump around both (2 bytes) if the jump has a condition.
generate_far_jump_code(at, type) == Form(at, IF type = "cond" THEN 4 ELSE 2, 8, 3)

\* Mutant: the distance of a short jump is taken from its first byte.
ShortJumpFirst(at, to) == to - at \in -ByteReach - 1 .. ByteReach

ShortJump(at, to) == to - (at + 2) \in -ByteReach - 1 .. ByteReach

generate_near_jump_code(at, type, to) ==
  IF to - (at + 1) \notin -IntReach - 1 .. IntReach THEN generate_far_jump_code(at, type)
  ELSE IF type # "call" /\ ShortJump(at, to) THEN Form(at, 1, 1, 0)
  ELSE IF type = "cond" THEN Form(at, 2, 4, 0)
  ELSE Form(at, 1, 4, 0)

Placed(g, j) ==
  IF j.rewritable THEN generate_far_jump_code(g.at, j.type)
  ELSE generate_near_jump_code(g.at, j.type, LabelAddr(g, j))

Place(g, form) == [g EXCEPT !.at = form.end, !.forms = Append(@, form)]

Generate(g, entry) ==
  CASE entry[1] = "code" -> [g EXCEPT !.at = @ + entry[2]]
    [] entry[1] = "label" -> [g EXCEPT !.size[g.label] = g.at, !.label = @ + 1]
    [] entry[1] = "const" -> [g EXCEPT !.consts = Append(@, g.at - 8)]
    [] entry[1] = "jump" -> Place(g, Placed(g, g.jumps[Len(g.forms) + 1]))

\* The second pass: the field holds a distance from its end, or an address.
Patched(g) ==
  [k \in DOMAIN g.forms |->
     LET form == g.forms[k]
         to == LabelAddr(g, g.jumps[k])
     IN IF form.field = 8 THEN to ELSE to - (form.addr + form.field)]

\* labels are the labels of the jumps that have one, given by sljit_set_label; exec is
\* whether there is executable memory for the code.
sljit_generate_code(labels, exec) ==
  LET jumps == [k \in DOMAIN state.jumps |->
                  [type |-> state.jumps[k].type, rewritable |-> state.jumps[k].rewritable,
                   target |-> state.jumps[k].target, label |-> labels[k]]]
      g == FoldLeft(Generate,
                    [at |-> 0, size |-> state.labels, label |-> 1, jumps |-> jumps, forms |-> <<>>, consts |-> <<>>],
                    FlattenSeq(reverse_buf(state.buf)))
  IN /\ CompilerIs /\ Len(state.items) > 0
     /\ call' = IF state.error \/ ~exec THEN [op |-> "generate", ret |-> "NULL"]
                ELSE [op |-> "generate", ret |-> "code", jumps |-> jumps, labels |-> g.size, forms |-> g.forms,
                      fields |-> Patched(g), consts |-> g.consts, executable_size |-> g.at]
     /\ UNCHANGED <<state, sent>>

CompilerInit == state = sljit_create_compiler /\ call = NoCall /\ sent = <<>>

CompilerNext ==
  \/ \E n \in CodeLens : EmitCode(n)
  \/ CompilerIs /\ sljit_emit_label
  \/ \E type \in {"cond", "jump", "call"}, rewritable \in BOOLEAN : CompilerIs /\ sljit_emit_jump(type, rewritable)
  \/ \E type \in {"jump", "call"}, target \in Targets : CompilerIs /\ sljit_emit_ijump_imm(type, target)
  \/ sljit_emit_const_imm
  \/ /\ CompilerIs /\ \/ state.labels # <<>>
                      \/ \A k \in DOMAIN state.jumps : state.jumps[k].target # 0
     /\ \E labels \in [DOMAIN state.jumps -> {1, Len(state.labels)}], exec \in BOOLEAN :
          sljit_generate_code(labels, exec)

-----------------------------------------------------------------------------
(* Where an item of the history is in the generated code.                    *)

ItemSize(forms, item) ==
  CASE item[1] = "code" -> item[2]
    [] item[1] = "label" -> 0
    [] item[1] = "const" -> 10
    [] item[1] = "jump" -> forms[item[2]].end - forms[item[2]].at

ItemAddr(forms, k) ==
  FoldLeft(LAMBDA sum, i : sum + ItemSize(forms, state.items[i]), 0, [i \in 1 .. k - 1 |-> i])

\* The processor adds a distance to the address of the next instruction.
Lands(form, value) == IF form.field = 8 THEN value ELSE form.end + value

\* generate_near_jump_code measures from the second byte of a jump and the processor from its
\* end: a jump backwards over 2^31 bytes exactly, give or take these, is out of reach.
NearSlack == 5

Reaches(field, value) ==
  CASE field = 1 -> value \in -ByteReach - 1 .. ByteReach
    [] field = 4 -> value \in -IntReach - 1 - NearSlack .. IntReach
    [] field = 8 -> TRUE

\* Whatever sizes sljit_generate_code gives the jumps, and however the items were spread over
\* the fragments: every jump is where it was emitted, its displacement fits the field chosen
\* before the code after it was laid out, and it lands where its label was emitted or on its
\* target; a rewritable jump has a field of 64 bits; a constant is the end of its
\* instruction; and the code fits in the memory taken for it.
CodeBufferExact ==
  (state.kind = "compiler" /\ call.op = "generate" /\ call.ret = "code") =>
    LET forms == call.forms
        addr == [k \in DOMAIN state.items |-> ItemAddr(forms, k)]
        at(tag, n) == addr[CHOOSE k \in DOMAIN state.items : state.items[k] = <<tag, n>>]
        consts == SelectSeq([k \in DOMAIN state.items |-> k], LAMBDA k : state.items[k] = <<"const">>)
    IN /\ \A k \in DOMAIN forms :
            /\ forms[k].at = at("jump", k)
            /\ Reaches(forms[k].field, call.fields[k])
            /\ Lands(forms[k], call.fields[k]) =
                 (IF call.jumps[k].target # 0 THEN call.jumps[k].target ELSE at("label", call.jumps[k].label))
            /\ call.jumps[k].rewritable => forms[k].field = 8
       /\ call.consts = [k \in DOMAIN consts |-> addr[consts[k]] + 2]
       /\ call.executable_size <= state.size
=============================================================================
