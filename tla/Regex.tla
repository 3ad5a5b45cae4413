------------------------------- MODULE Regex -------------------------------
(***************************************************************************)
(* The regular expressions of sljit (regexJIT.c): the parser, which turns  *)
(* a pattern into a stack of items, the transitions made from the stack,   *)
(* and the matcher, which takes its input in pieces and follows all the    *)
(* ways through the transitions at once.  The code the compiler emits for  *)
(* a transition is what the transition does.  Characters are their codes.  *)
(***************************************************************************)
EXTENDS DataPath, TLC, SequencesExt, FiniteSetsExt

CONSTANTS
  RegexPatterns,   \* patterns: expression and what is around it
  RegexInvalid,    \* texts that are no pattern
  RegexChars,      \* characters of the input
  RegexMax,        \* characters of an input
  FragmentSize,    \* items of a fragment of a stack, 62
  StackMax         \* items of a stack

Item(t, v) == [t |-> t, v |-> v]

\* A character of the pattern is a char, which is signed.
Signed(c) == IF c >= 128 THEN c - 256 ELSE c

IsDigit(c) == c \in 48 .. 57

At(s, i) == IF i <= Len(s) THEN s[i] ELSE -1

-----------------------------------------------------------------------------
(* The parser.  A parse has the stack, the number of transitions it will need,  *)
(* the flags, the depth of brackets and whether a term may follow.              *)

Push(p, items, size) == [p EXCEPT !.stack = @ \o items, !.dfa_size = @ + size]

Term(p, items, size) == [Push(p, items, size) EXCEPT !.begin = FALSE]

Failed(p) == [p EXCEPT !.error = TRUE]

\* stack_push_copy: the topmost items move up, and stay where they were.
stack_push_copy(stack, items, length) ==
  LET base == Len(stack) - length
  IN SubSeq(stack, 1, base + items) \o SubSeq(stack, base + 1, Len(stack))

RECURSIVE LastTerm(_, _, _, _)
\* The size of the last term in transitions, and how many items of the stack it is.
LastTerm(stack, n, len, depth) ==
  LET t == stack[n].t
      done(l) == [len |-> l, count |-> Len(stack) - n + 1]
  IN CASE t \in {"id", "rng_end", "rng_char", "rng_left", "rng_right", "plus", "question"} ->
            LastTerm(stack, n - 1, len + 1, depth)
       [] t \in {"asterisk", "select"} -> LastTerm(stack, n - 1, len + 2, depth)
       [] t = "close_br" -> LastTerm(stack, n - 1, len, depth + 1)
       [] t = "open_br" -> IF depth = 1 THEN done(len) ELSE LastTerm(stack, n - 1, len, depth - 1)
       [] OTHER -> IF depth = 0 THEN done(len + 1) ELSE LastTerm(stack, n - 1, len + 1, depth)

RECURSIVE Copies(_, _, _)
Copies(stack, count, n) == IF n = 0 THEN stack ELSE Copies(stack_push_copy(stack, count, count), count, n - 1)

Question == <<Item("question", 0)>>

\* The copies of x{min,max}, after the first one.
Repeated(stack, count, min, max) ==
  LET least == Copies(stack, count, min - 1)
  IN IF max = 0 THEN Append(least, Item("plus", 0))
     ELSE IF min = 0 THEN Copies(stack \o Question, count + 1, max - 1)
     ELSE IF max = min THEN least
     ELSE Copies(stack_push_copy(least, count, count) \o Question, count + 1, max - min - 1)

IterateSize(len, min, max) == IF max = 0 THEN len * (min - 1) + 1 ELSE len * (max - 1) + max - min

\* x{min,max}, max = 0 for no limit, of the last term.
TermIterated(p, last, min, max) ==
  LET base == Len(p.stack) - last.count
      open == [stack_push_copy(p.stack, 1, last.count) EXCEPT ![base + 1] = Item("open_br", 0)]
  IN IF min = 0 /\ max = 0
     THEN [p EXCEPT !.stack = SubSeq(@, 1, base) \o <<Item("open_br", 0), Item("close_br", 0)>>,
                    !.dfa_size = @ - last.len]
     ELSE [p EXCEPT !.stack = Append(Repeated(open, last.count, min, max), Item("close_br", 0)),
                    !.dfa_size = @ + IterateSize(last.len, min, max)]

iterate(p, min, max) == TermIterated(p, LastTerm(p.stack, Len(p.stack), 0, 0), min, max)

RECURSIVE decode_number(_, _, _)
\* The number at a place of the text, -1 for none, and where it ends.
decode_number(s, i, value) ==
  IF IsDigit(At(s, i)) THEN decode_number(s, i + 1, Max({value, 0}) * 10 + s[i] - 48) ELSE [value |-> value, next |-> i]

\* What stands between { and }: where it ends, 0 if it is no iterator; bounds, of
\* which the first is -1 for {0} and {0,0}, or an identifier.
NoBounds == [next |-> 0, id |-> FALSE]

Bounds(val1, val2, next) ==
  [next |-> next, id |-> FALSE, val1 |-> IF val1 = 0 /\ val2 = 0 THEN -1 ELSE val1, val2 |-> val2]

Limited(s, val1, at, right) ==
  CASE At(s, right.next) # 125 -> NoBounds
    [] right.next = at + 1 -> [Bounds(val1, 0, at + 2) EXCEPT !.val1 = val1]
    [] right.value < val1 -> NoBounds
    [] OTHER -> Bounds(val1, right.value, right.next + 1)

BoundsAfter(s, begin, comma, left) ==
  LET at == left.next
  IN CASE left.value < 0 -> NoBounds
       [] ~comma /\ At(s, at) = 33 /\ At(s, at + 1) = 125 -> [next |-> at + 2, id |-> TRUE, val1 |-> left.value]
       [] begin -> NoBounds
       [] At(s, at) = 125 -> Bounds(left.value, left.value, at + 1)
       [] At(s, at) # 44 -> NoBounds
       [] OTHER -> Limited(s, left.value, at, decode_number(s, at + 1, -1))

\* Applies {min,max}; the short forms are items of their own.
Iterated(p, val1, val2) ==
  CASE val1 > 1 \/ val2 > 1 \/ val1 = -1 -> iterate(p, Max({val1, 0}), val2)
    [] val1 = 0 /\ val2 = 0 -> Push(p, <<Item("asterisk", 0)>>, 2)
    [] val1 = 1 /\ val2 = 0 -> Push(p, <<Item("plus", 0)>>, 1)
    [] val1 = 0 /\ val2 = 1 -> Push(p, Question, 1)
    [] OTHER -> p

\* A { that is no iterator stands for itself.
BoundsApplied(p, i, b) ==
  [p |-> CASE b.next = 0 -> Push(p, <<Item("char", 123)>>, 1)
           [] b.id -> Push(p, <<Item("id", b.val1)>>, 1)
           [] OTHER -> Iterated(p, b.val1, b.val2),
   next |-> IF b.next = 0 THEN i + 1 ELSE b.next]

parse_iterator(p, s, i) ==
  LET comma == At(s, i + 1) = 44
  IN BoundsApplied(p, i, BoundsAfter(s, p.begin, comma, IF comma THEN [value |-> 0, next |-> i + 1]
                                                       ELSE decode_number(s, i + 1, -1)))

\* A character of a range, which a backslash may precede.
Escaped(s, i) == IF At(s, i) = 92 THEN i + 1 ELSE i

RECURSIVE RangeItems(_, _, _)
\* The items of a range up to its ], and the place of this; 0 if there is none.
RangeItems(s, i, items) ==
  LET left == Escaped(s, i)
      isRange == At(s, left + 1) = 45 /\ At(s, left + 2) # 93 /\ left + 3 <= Len(s)
      right == Escaped(s, left + 2)
      low == Signed(At(s, left))
      high == Signed(At(s, right))
  IN IF At(s, i) = 93 THEN [items |-> items, next |-> i]
     ELSE IF left > Len(s) \/ (isRange /\ right > Len(s)) THEN [items |-> items, next |-> 0]
     ELSE IF isRange
     THEN RangeItems(s, right + 1, items \o <<Item("rng_left", Min({low, high})), Item("rng_right", Max({low, high}))>>)
     ELSE RangeItems(s, left + 1, Append(items, Item("rng_char", low)))

RangeParsed(p, invert, body) ==
  LET items == <<Item("rng_start", IF invert THEN 1 ELSE 0)>> \o body.items \o <<Item("rng_end", 0)>>
  IN [p |-> IF body.next = 0 THEN Failed(p) ELSE Term(p, items, Len(items)), next |-> body.next + 1]

parse_char_range(p, s, i) ==
  LET invert == At(s, i + 1) = 94
      first == IF invert THEN i + 2 ELSE i + 1
      bracket == At(s, first) = 93
  IN RangeParsed(p, invert, RangeItems(s, IF bracket THEN first + 1 ELSE first,
                                       IF bracket THEN <<Item("rng_char", 93)>> ELSE <<>>))

AnyChar(flags) ==
  <<Item("rng_start", 1)>> \o (IF "NEWLINE" \in flags THEN <<Item("rng_char", 10), Item("rng_char", 13)>> ELSE <<>>)
    \o <<Item("rng_end", 1)>>

\* The character at a place of the text: the parse after it, and where it goes on.
Parsed(p, s, i) ==
  LET c == At(s, i)
      after(q) == [p |-> q, next |-> i + 1]
  IN CASE c = 92 -> IF i = Len(s) THEN after(Failed(p))
                    ELSE [p |-> Term(p, <<Item("char", Signed(s[i + 1]))>>, 1), next |-> i + 2]
       [] c = 46 -> after(Term(p, AnyChar(p.flags), Len(AnyChar(p.flags))))
       [] c = 40 -> after([Push(p, <<Item("open_br", 0)>>, 0) EXCEPT !.depth = @ + 1, !.begin = TRUE])
       [] c = 41 -> after(IF p.depth = 0 THEN Failed(p)
                          ELSE [Term(p, <<Item("close_br", 0)>>, 0) EXCEPT !.depth = @ - 1])
       [] c = 124 -> after([Push(p, <<Item("select", 0)>>, 2) EXCEPT !.begin = TRUE])
       [] c \in {42, 43, 63} /\ p.begin -> after(Failed(p))
       [] c = 42 -> after(Push(p, <<Item("asterisk", 0)>>, 2))
       [] c \in {43, 63} -> after(Push(p, <<Item(IF c = 43 THEN "plus" ELSE "question", 0)>>, 1))
       [] c = 123 -> parse_iterator(p, s, i)
       [] c = 91 -> parse_char_range(p, s, i)
       [] c = 36 /\ i = Len(s) -> after([p EXCEPT !.flags = @ \cup {"MATCH_END"}])
       [] OTHER -> after(Term(p, <<Item("char", Signed(c))>>, 1))

RECURSIVE ParseFrom(_, _)
ParseFrom(r, s) == IF r.p.error \/ r.next > Len(s) THEN r.p ELSE ParseFrom(Parsed(r.p, s, r.next), s)

\* With NEWLINE, the anchors are turned into searches for the end of a line.
ParseBegin(flags) ==
  LET fake == {"MATCH_BEGIN", "NEWLINE"} \subseteq flags
      start == [stack |-> <<Item("begin", 0)>>, dfa_size |-> 2, depth |-> 0, begin |-> TRUE, error |-> FALSE,
                flags |-> IF fake THEN (flags \ {"MATCH_BEGIN"}) \cup {"FAKE_BEGIN"} ELSE flags]
  IN IF fake THEN Push(start, <<Item("newline", 0)>>, 1) ELSE start

ParseEnd(p) ==
  IF p.error \/ p.depth # 0 THEN Failed(p)
  ELSE IF {"MATCH_END", "NEWLINE"} \subseteq p.flags
  THEN [Push(p, <<Item("newline", 1), Item("end", 0)>>, 1)
        EXCEPT !.flags = (@ \ {"MATCH_END"}) \cup {"FAKE_END"}]
  ELSE Push(p, <<Item("end", 0)>>, 0)

parse(s, re_flags) ==
  LET caret == At(s, 1) = 94
      flags == re_flags \cup (IF caret THEN {"MATCH_BEGIN"} ELSE {})
  IN ParseEnd(ParseFrom([p |-> ParseBegin(flags), next |-> IF caret THEN 2 ELSE 1], s))

-----------------------------------------------------------------------------
(* The transitions, from the last to the first.  What is open at a place is a   *)
(* stack of brackets, alternatives and iterations with the transition they      *)
(* lead to; g.at is the transition that was put last.                           *)

PUT_TRANSITION(g, typ, val) == [g EXCEPT !.tr = (g.at - 1 :> Item(typ, val)) @@ g.tr, !.at = @ - 1]

Open(g, type) == [g EXCEPT !.depth = Append(@, Item(type, g.at))]

Close(g) == [g EXCEPT !.depth = Front(@)]

RECURSIVE handle_iteratives(_)
handle_iteratives(g) ==
  LET top == Last(g.depth)
      back == [g EXCEPT !.tr[top.v] = Item("branch", g.at)]
  IN CASE top.t = "asterisk" -> handle_iteratives(Close(PUT_TRANSITION(back, "branch", top.v + 1)))
       [] top.t = "plus" -> handle_iteratives(Close(back))
       [] top.t = "question" -> handle_iteratives(Close(PUT_TRANSITION(g, "branch", top.v)))
       [] OTHER -> g

Transition(g, item) ==
  LET top == Last(g.depth)
      put == PUT_TRANSITION(g, item.t, item.v)
      selected == IF top.t = "select" THEN PUT_TRANSITION(g, "branch", top.v + 1) ELSE g
      jump == PUT_TRANSITION(selected, "jump", top.v)
  IN CASE item.t = "begin" -> PUT_TRANSITION(Close(selected), "begin", 0)
       [] item.t = "open_br" -> handle_iteratives(Close(selected))
       [] item.t = "end" -> Open(put, "close_br")
       [] item.t = "close_br" -> Open(g, "close_br")
       [] item.t = "select" -> [jump EXCEPT !.depth = Append(Front(@), Item("select", jump.at))]
       [] item.t = "question" -> Open(g, "question")
       [] item.t \in {"asterisk", "plus"} -> Open(PUT_TRANSITION(g, "branch", 0), item.t)
       [] item.t \in {"char", "newline", "rng_start"} -> handle_iteratives(put)
       [] OTHER -> put

RECURSIVE Generated(_, _)
Generated(g, stack) == IF stack = <<>> \/ g.at <= 0 THEN g ELSE Generated(Transition(g, Last(stack)), Front(stack))

generate_transitions(p) == Generated([tr |-> <<>>, at |-> p.dfa_size, depth |-> <<>>], p.stack)

\* The term of a transition, -1 for the ones that are none; term 0 is the end.
Terms(tr, size, flags) ==
  LET first == IF "FAKE_END" \in flags THEN 2 ELSE 1
      counts(n) == tr[n].t \in {"char", "rng_end"} \/ (tr[n].t = "newline" /\ tr[n].v = 0)
      before(n) == first + Cardinality({m \in 0 .. n - 1 : counts(m)})
  IN [n \in 0 .. size - 1 |->
        CASE tr[n].t \in {"begin", "end"} -> 0
          [] tr[n].t = "newline" /\ tr[n].v = 1 -> 1
          [] tr[n].t \in {"char", "newline", "rng_start", "rng_end"} -> before(n)
          [] OTHER -> -1]

RECURSIVE Trace(_, _, _, _, _, _)
\* seen has the largest identifier a transition was reached with, order the
\* transitions as they were first reached, depth the branches still to take.
Trace(k, from, id, seen, order, depth) ==
  LET t == k.tr[from]
      best == IF t.t = "id" THEN Max({id, t.v}) ELSE id
      now == (from :> best) @@ seen
      list == IF seen[from] = -1 THEN Append(order, from) ELSE order
      back(s, l) == IF depth = <<>> THEN [seen |-> s, order |-> l]
                    ELSE Trace(k, k.tr[Last(depth).v].v, Last(depth).t, s, l, Front(depth))
  IN IF seen[from] >= best THEN back(seen, order)
     ELSE IF t.t = "branch" THEN Trace(k, from + 1, best, now, list, Append(depth, Item(best, from)))
     ELSE IF t.t = "jump" THEN Trace(k, t.v, best, now, list, depth)
     ELSE IF k.term[from] < 0 THEN Trace(k, from + 1, best, now, list, depth)
     ELSE back(now, list)

\* The terms that follow a transition, with their identifiers, last reached first.
trace_transitions(k, from) ==
  LET r == Trace(k, from + 1, 0, [n \in DOMAIN k.tr |-> -1], <<>>, <<>>)
      terms == SelectSeq(Reverse(r.order), LAMBDA n : k.term[n] >= 0)
  IN [j \in 1 .. Len(terms) |-> [term |-> k.term[terms[j]], at |-> terms[j], id |-> r.seen[terms[j]]]]

\* compile_range_check, compile_newline_check: what the code of a term tests.
RECURSIVE InRange(_, _, _)
InRange(tr, n, c) ==
  CASE tr[n].t = "rng_end" -> FALSE
    [] tr[n].t = "rng_char" -> c = tr[n].v \/ InRange(tr, n + 1, c)
    [] OTHER -> (c >= tr[n].v /\ c <= tr[n + 1].v) \/ InRange(tr, n + 2, c)

compile_newline_check(c) == c \in {10, 13}

Accepted(tr, n, c) ==
  CASE tr[n].t = "char" -> c = tr[n].v
    [] tr[n].t = "newline" -> compile_newline_check(c)
    [] tr[n].t = "rng_start" -> InRange(tr, n + 1, c) # (tr[n].v = 1)
    [] OTHER -> FALSE

RECURSIVE EndOf(_, _)
EndOf(tr, n) == IF tr[n].t \in {"char", "newline", "rng_end"} THEN n ELSE EndOf(tr, n + 1)

\* What the emitted code does at each term, and what the study of the pattern tells
\* of its first terms.
Coded(p, g, k, first) ==
  LET fake == "FAKE_BEGIN" \in p.flags
      empty == SelectSeq(first, LAMBDA x : x.term = 0)
      inverted == \E j \in DOMAIN first : k.tr[first[j].at] = Item("rng_start", 1)
      termOf(t) == CHOOSE n \in 1 .. p.dfa_size - 2 : k.term[n] = t /\ k.tr[n].t # "rng_end"
      entry(n) == [at |-> n, next |-> trace_transitions(k, EndOf(k.tr, n))]
  IN [flags |-> p.flags, tr |-> g.tr, spare |-> g.at, open |-> Len(g.depth),
      first |-> first,
      restart |-> IF fake THEN trace_transitions(k, 0) ELSE first,
      empty_match_id |-> IF empty = <<>> THEN -1 ELSE empty[1].id,
      suggest_fast_forward |-> empty = <<>> /\ (fake \/ ~inverted),
      line |-> IF fake THEN k.term[1] ELSE 0,
      entry |-> [t \in {k.term[n] : n \in 1 .. p.dfa_size - 2} \ {-1, 0} |-> entry(termOf(t))]]

Studied(p, g, k) == Coded(p, g, k, trace_transitions(k, IF "FAKE_BEGIN" \in p.flags THEN 1 ELSE 0))

Made(p, g) == Studied(p, g, [tr |-> g.tr, term |-> Terms(g.tr, p.dfa_size, p.flags)])

\* regex_compile, after parse.
Machine(p) == Made(p, generate_transitions(p))

-----------------------------------------------------------------------------
(* Matching.  An array has for each term its successor in the list of active    *)
(* terms, -1 for a term that is not in it, 0 for the last one; where the match  *)
(* it is part of begins; and the largest identifier met.  Term 0 is marked, and *)
(* is never a member of the list.                                               *)

None == [next |-> -1, start |-> 0, id |-> 0]

\* Adds a term to the list of an array.
Linked(a, term, start, id) ==
  [arr |-> [a.arr EXCEPT ![term] = [next |-> a.head, start |-> start, id |-> id]],
   head |-> IF term > 0 THEN term ELSE a.head]

compile_uncond_tran(arr, targets, start) ==
  FoldLeft(LAMBDA a, x : Linked(a, x.term, start, x.id), [arr |-> arr, head |-> 0], targets)

\* The terms after a term that accepted a character: the earlier start wins, and
\* the larger identifier with the same start.
compile_cond_tran(a, targets, from) ==
  LET step(b, x) ==
        LET old == b.arr[x.term]
            id == Max({from.id, x.id})
        IN IF old.next = -1 THEN Linked(b, x.term, from.start, id)
           ELSE IF from.start < old.start \/ (from.start = old.start /\ id > old.id)
           THEN [b EXCEPT !.arr[x.term] = [next |-> old.next, start |-> from.start, id |-> id]]
           ELSE b
  IN FoldLeft(step, a, targets)

RECURSIVE EachActive(_, _, _, _)
\* The terms of the current list, from term t on, are shown a character.
EachActive(k, m, t, c) ==
  LET e == k.entry[t]
      got == Accepted(k.tr, e.at, c)
      a == compile_cond_tran([arr |-> m.nxt, head |-> m.head], e.next, m.cur[t])
      left == [m EXCEPT !.cur[t].next = -1]
  IN IF t = 0 THEN m
     ELSE EachActive(k, IF got THEN [left EXCEPT !.nxt = a.arr, !.head = a.head, !.fast_forward = FALSE] ELSE left,
                     m.cur[t].next, c)

RECURSIVE Cleared(_, _, _)
\* The terms of the list that begin too late to be part of a better match go.
Cleared(m, t, latest) ==
  IF t = 0 THEN m
  ELSE Cleared(IF m.cur[t].start <= latest THEN [m EXCEPT !.cur[t].next = m.head, !.head = t]
               ELSE [m EXCEPT !.cur[t].next = -1], m.cur[t].next, latest)

Extra(k) == Cardinality(k.flags \cap {"FAKE_BEGIN", "FAKE_END"})

\* The end was reached: a match, unless the one there is begins earlier.
compile_end_check(k, m) ==
  LET start == m.cur[0].start
      lazy == "NON_GREEDY" \in k.flags
      worse == m.best_begin # -1 /\ (m.best_begin < start \/ (lazy /\ m.best_begin = start))
      better == [m EXCEPT !.best_begin = start, !.best_end = m.index - Extra(k), !.best_id = m.cur[0].id]
      latest == IF lazy THEN start - 1 ELSE start
  IN IF worse THEN m
     ELSE IF "MATCH_BEGIN" \in k.flags THEN [better EXCEPT !.fast_quit = lazy]
     ELSE IF m.best_begin = -1 \/ start < m.best_begin THEN Cleared([better EXCEPT !.head = 0], m.head, latest)
     ELSE better

\* Nothing better can come: no term is active, and the pattern may not start again.
best_match_check(k, m) ==
  /\ m.head = 0
  /\ "MATCH_BEGIN" \in k.flags \/ ("MATCH_END" \notin k.flags /\ m.best_begin # -1)

\* The code of term 0, after the last active term.
StateZero(k, n) ==
  LET m == [n EXCEPT !.cur = n.nxt, !.nxt = n.cur]
      checks == "MATCH_END" \notin k.flags /\ m.cur[0].next # -1
      e == IF checks THEN compile_end_check(k, m) ELSE m
      on == [e EXCEPT !.nxt[0].next = -1, !.index = @ + 1]
  IN IF e.fast_quit THEN e ELSE [on EXCEPT !.fast_quit = best_match_check(k, on)]

\* One character: the pattern may start here, unless a match was found already.
OneChar(k, m, c) ==
  LET anchored == "MATCH_BEGIN" \in k.flags
      restarts == ~anchored /\ ("MATCH_END" \in k.flags \/ m.best_begin = -1)
      a == IF restarts THEN compile_uncond_tran(m.nxt, k.restart, m.index) ELSE [arr |-> m.nxt, head |-> 0]
  IN StateZero(k, EachActive(k, [m EXCEPT !.nxt = a.arr, !.head = a.head, !.fast_forward = ~anchored], m.head, c))

\* Mutant: the starts of the first terms are left where they were.
FoundStale(k, m) == [m EXCEPT !.fast_forward = FALSE]

\* The character that ends a fast forward: the first terms start at it.
Found(k, m) ==
  LET terms == {k.restart[j].term : j \in DOMAIN k.restart}
  IN [m EXCEPT !.fast_forward = FALSE, !.cur = [t \in DOMAIN @ |-> IF t \in terms THEN [@[t] EXCEPT !.start = m.index - 1] ELSE @[t]]]

\* A fast forward ends at a character that one of the first terms accepts.
compile_leave_fast_forward(k, c) == \E j \in DOMAIN k.restart : Accepted(k.tr, k.restart[j].at, c)

RECURSIVE Matched(_, _, _)
\* The characters of a piece of the input.
Matched(k, m, s) ==
  LET skips == k.suggest_fast_forward /\ m.fast_forward /\ "MATCH_BEGIN" \notin k.flags
  IN IF m.fast_quit \/ s = <<>> THEN m
     ELSE IF skips /\ ~compile_leave_fast_forward(k, Head(s)) THEN Matched(k, [m EXCEPT !.index = @ + 1], Tail(s))
     ELSE Matched(k, OneChar(k, IF skips THEN Found(k, m) ELSE m, Head(s)), Tail(s))

\* The init stub; the current list is empty.
init_match(k, m) ==
  LET a == compile_uncond_tran(m.cur, k.first, 0)
      fake == "FAKE_BEGIN" \in k.flags
      b == IF fake THEN Linked(a, k.line, 1, 0) ELSE a
      none == "NON_GREEDY" \in k.flags /\ k.empty_match_id # -1
      best == [m EXCEPT !.best_begin = IF k.empty_match_id = -1 THEN -1 ELSE 0,
                        !.best_id = IF k.empty_match_id = -1 THEN 0 ELSE k.empty_match_id,
                        !.index = IF fake THEN 2 ELSE 1]
  IN IF none THEN [best EXCEPT !.head = 0] ELSE [best EXCEPT !.cur = b.arr, !.head = b.head]

RECURSIVE Unlisted(_, _)
Unlisted(arr, t) == IF t = 0 THEN arr ELSE Unlisted([arr EXCEPT ![t].next = -1], arr[t].next)

\* The list is taken apart; the mark of term 0, which is not in it, stays.
Reset(k, m) ==
  init_match(k, [m EXCEPT !.best_end = 0, !.fast_quit = FALSE, !.fast_forward = FALSE, !.cur = Unlisted(@, m.head)])

regex_get_result(k, m) ==
  LET best == [begin |-> m.best_begin, end |-> m.best_end, id |-> m.best_id]
      lasts(t, end) == [begin |-> m.cur[t].start, end |-> end, id |-> m.cur[t].id]
      no == [best EXCEPT !.begin = -1]
  IN IF "FAKE_END" \in k.flags
     THEN IF m.best_begin # -1 THEN best
          ELSE IF m.cur[1].next = -1 THEN no
          ELSE lasts(1, m.index - (IF "FAKE_BEGIN" \in k.flags THEN 2 ELSE 1))
     ELSE IF "MATCH_END" \in k.flags THEN IF m.cur[0].next = -1 THEN no ELSE lasts(0, m.index - 1)
     ELSE best

-----------------------------------------------------------------------------
(* The stack in fragments.  last and index are the place of its topmost item; a *)
(* fragment stays when the stack shrinks below it.                              *)

RECURSIVE Advance(_, _, _)
\* The place a number of items further: a loop over the fragments.
Advance(last, index, n) ==
  IF n <= 0 THEN <<last, index>>
  ELSE IF index + n >= FragmentSize THEN Advance(last + 1, 0, n - (FragmentSize - index))
  ELSE <<last, index + n>>

Back(at, n) == LET k == at[1] * FragmentSize + at[2] - n IN <<k \div FragmentSize, k % FragmentSize>>

EmptyStack == [kind |-> "stack", cells |-> <<>>, last |-> -1, index |-> FragmentSize - 1, count |-> 0, items |-> <<>>]

stack_push ==
  /\ state.kind = "stack" /\ Idle /\ state.count < StackMax
  /\ \E v \in {1, 2} :
       LET wraps == state.last = -1 \/ state.index + 1 >= FragmentSize
           at == IF wraps THEN <<state.last + 1, 0>> ELSE <<state.last, state.index + 1>>
       IN state' = [state EXCEPT !.cells = (at :> v) @@ @, !.last = at[1], !.index = at[2], !.count = @ + 1,
                                 !.items = Append(@, v)]
  /\ UNCHANGED <<call, sent>>

stack_pop ==
  /\ state.kind = "stack" /\ Idle /\ state.count > 0
  /\ state' = [state EXCEPT !.last = IF state.index > 0 THEN @ ELSE @ - 1,
                            !.index = IF @ > 0 THEN @ - 1 ELSE FragmentSize - 1,
                            !.count = @ - 1, !.items = Front(@)]
  /\ UNCHANGED <<call, sent>>

\* The items are copied one at a time, from the topmost down.
Copied(cells, from, to, length) ==
  FoldLeft(LAMBDA c, n : (Back(to, n - 1) :> c[Back(from, n - 1)]) @@ c, cells, [n \in 1 .. length |-> n])

StackCopy ==
  /\ state.kind = "stack" /\ Idle
  /\ \E length \in 1 .. state.count : \E items \in {1, length} :
       LET at == <<state.last, state.index>>
           to == Advance(state.last, state.index, items)
       IN /\ state.count + items <= StackMax
          /\ state' = [state EXCEPT !.cells = Copied(@, at, to, length), !.last = to[1], !.index = to[2],
                                    !.count = @ + items, !.items = stack_push_copy(@, items, length)]
  /\ UNCHANGED <<call, sent>>

-----------------------------------------------------------------------------
(* The machine of a pattern, and the matches made with it.                      *)

RECURSIVE Text(_)
\* The text of an expression: a character, any character, a range, an identifier,
\* a sequence, an alternative or a repetition with the text of its operator.
Text(x) ==
  LET part(y) == IF y[1] \in {"cat", "alt", "rep", "id"} THEN <<40>> \o Text(y) \o <<41>> ELSE Text(y)
  IN CASE x[1] = "chr" -> <<x[2]>>
       [] x[1] = "any" -> <<46>>
       [] x[1] = "rng" -> <<91>> \o (IF x[2] THEN <<94>> ELSE <<>>) \o x[5] \o <<93>>
       [] x[1] = "id" -> <<123, 48 + x[2], 33, 125>>
       [] x[1] = "cat" -> part(x[2]) \o part(x[3])
       [] x[1] = "alt" -> Text(x[2]) \o <<124>> \o Text(x[3])
       [] OTHER -> part(x[2]) \o x[5]

PatternText(pat) ==
  (IF pat.caret THEN <<94>> ELSE <<>>) \o
  (IF pat.exp[1] = "alt" /\ (pat.caret \/ pat.dollar) THEN <<40>> \o Text(pat.exp) \o <<41>> ELSE Text(pat.exp)) \o
  (IF pat.dollar THEN <<36>> ELSE <<>>)

regex_none ==
  /\ state \in {[kind |-> "pattern", pat |-> pat] : pat \in RegexPatterns} \cup
               {[kind |-> "text", text |-> text] : text \in RegexInvalid} \cup {EmptyStack}
  /\ call = NoCall
  /\ sent = <<>>

regex_begin_match(k) ==
  LET arr == [t \in DOMAIN k.entry \cup {0} |-> None]
  IN Reset(k, [cur |-> arr, nxt |-> arr, head |-> 0, index |-> 0, best_begin |-> -1, best_end |-> 0, best_id |-> 0,
               fast_quit |-> FALSE, fast_forward |-> FALSE])

regex_compile ==
  /\ state.kind = "pattern" /\ Idle
  /\ \E k \in {Machine(parse(PatternText(state.pat), state.pat.flags))} :
       state' = [kind |-> "regex", pat |-> state.pat, machine |-> k, match |-> regex_begin_match(k),
                 input |-> <<>>, resets |-> 0]
  /\ UNCHANGED <<call, sent>>

regex_compile_invalid ==
  /\ state.kind = "text" /\ Idle
  /\ call' = [op |-> "regex_compile", ret |-> IF parse(state.text, {}).error THEN 2 ELSE 0]
  /\ UNCHANGED <<state, sent>>

Pieces == {<<c>> : c \in RegexChars} \cup {<<c, d>> : c, d \in RegexChars}

regex_continue_match ==
  /\ state.kind = "regex" /\ Idle
  /\ \E s \in Pieces :
       /\ Len(state.input) + Len(s) <= RegexMax
       /\ state' = [state EXCEPT !.match = Matched(state.machine, @, s), !.input = @ \o s]
  /\ UNCHANGED <<call, sent>>

\* Bound: a match is reset once.
regex_reset_match ==
  /\ state.kind = "regex" /\ Idle /\ state.resets = 0 /\ state.input # <<>>
  /\ state' = [state EXCEPT !.match = Reset(state.machine, @), !.input = <<>>, !.resets = 1]
  /\ UNCHANGED <<call, sent>>

RegexNext ==
  \/ regex_compile \/ regex_compile_invalid \/ regex_continue_match \/ regex_reset_match
  \/ stack_push \/ stack_pop \/ StackCopy

-----------------------------------------------------------------------------
(* What a pattern matches, from its expression.                                 *)

RECURSIVE Ends(_, _, _, _)
\* Where a match of the expression from place i may end, with the largest
\* identifier on the way.
Ends(x, s, i, lines) ==
  LET one(ok) == IF i < Len(s) /\ ok THEN {<<i + 1, 0>>} ELSE {}
      c == s[i + 1]
      then(set, y) == UNION {{<<f[1], Max({e[2], f[2]})>> : f \in Ends(y, s, e[1], lines)} : e \in set}
      times[n \in 0 .. 9] == IF n = 0 THEN {<<i, 0>>} ELSE LET before == times[n - 1] IN then(before, x[2])
      most == IF x[4] = -1 THEN x[3] + Len(s) + 2 ELSE x[4]
  IN CASE x[1] = "chr" -> one(c = x[2])
       [] x[1] = "any" -> one(~lines \/ c \notin {10, 13})
       [] x[1] = "rng" -> one((c \in x[3] .. x[4]) # x[2])
       [] x[1] = "id" -> {<<i, x[2]>>}
       [] x[1] = "cat" -> then(Ends(x[2], s, i, lines), x[3])
       [] x[1] = "alt" -> Ends(x[2], s, i, lines) \cup Ends(x[3], s, i, lines)
       [] OTHER -> UNION {times[n] : n \in x[3] .. most}

Newline(s, i) == s[i] \in {10, 13}

\* The matches of a pattern in an input.
Matches(pat, s) ==
  LET lines == "NEWLINE" \in pat.flags
      begins == {b \in 0 .. Len(s) : pat.caret => b = 0 \/ (lines /\ Newline(s, b))}
      ends(e) == pat.dollar => e = Len(s) \/ (lines /\ Newline(s, e + 1))
  IN UNION {{<<b, e[1], e[2]>> : e \in {f \in Ends(pat.exp, s, b, lines) : ends(f[1])}} : b \in begins}

\* The one that is reported: it begins first, then it is the longest, or the
\* shortest, then it has the largest identifier.
Best(pat, s) ==
  LET all == Matches(pat, s)
      b == Min({x[1] : x \in all})
      ends == {x[2] : x \in {y \in all : y[1] = b}}
      e == IF "NON_GREEDY" \in pat.flags THEN Min(ends) ELSE Max(ends)
  IN IF all = {} THEN <<>> ELSE <<b, e, Max({x[3] : x \in {y \in all : y[1] = b /\ y[2] = e}})>>

RECURSIVE Listed(_, _)
Listed(arr, t) == IF t = 0 THEN {} ELSE {t} \cup Listed(arr, arr[t].next)

RECURSIVE Spans(_)
\* The pattern can match over the end of a line.
Spans(x) ==
  CASE x[1] = "rng" -> x[2]
    [] x[1] \in {"cat", "alt"} -> Spans(x[2]) \/ Spans(x[3])
    [] x[1] = "rep" -> Spans(x[2])
    [] OTHER -> FALSE

\* Where the result is the match there is.  With an anchored end it is not: after the
\* matcher of ^...$ has stopped before the end of the input, for an input that is
\* still empty after a reset, for a lazy pattern that matches the empty text; and
\* with lines, for a pattern over lines and after a fast forward.
Defined ==
  LET pat == state.pat
      lines == "NEWLINE" \in pat.flags
  IN pat.dollar =>
       IF lines THEN ~Spans(pat.exp) /\ (state.match.fast_forward => state.match.cur[1].next = -1)
       ELSE /\ pat.caret => state.match.index - 1 = Len(state.input)
            /\ state.resets = 1 => state.input # <<>>
            /\ "NON_GREEDY" \in pat.flags => state.machine.empty_match_id = -1

\* Whatever pieces an input comes in, and after a reset, regex_get_result reports
\* the match that begins first, is the longest (or shortest) there is and has the
\* largest identifier.  The parser counted the transitions that are made, the
\* list of active terms has the terms that are marked, and the array of the next
\* ones is clear between two characters, as regex_continue_match_debug asserts; a
\* text that is no pattern is refused; and the stack in fragments keeps the items of
\* a sequence when stack_push_copy moves its topmost items over each other.
RegexExact ==
  /\ state.kind = "regex" =>
       LET m == state.match
           k == state.machine
           r == regex_get_result(k, m)
           b == Best(state.pat, state.input)
           terms == DOMAIN m.cur \ {0}
       IN /\ k.spare = 0 /\ k.open = 0 /\ k.tr[0].t = "begin"
          /\ m.fast_quit \/ {t \in terms : m.cur[t].next # -1} = Listed(m.cur, m.head)
          /\ \A t \in terms : m.nxt[t].next = -1
          /\ Defined => IF b = <<>> THEN r.begin = -1 ELSE r = [begin |-> b[1], end |-> b[2], id |-> b[3]]
  /\ (state.kind = "text" /\ call.op = "regex_compile") => call.ret = 2
  /\ state.kind = "stack" =>
       \A n \in 1 .. state.count : state.cells[Back(<<state.last, state.index>>, state.count - n)] = state.items[n]

\* REGEX_MATCH_END forces the match to continue until the last character of the
\* input: a match that is reported ends there.
RegexMatchEnd ==
  (state.kind = "regex" /\ "MATCH_END" \in state.machine.flags) =>
     LET r == regex_get_result(state.machine, state.match) IN r.begin # -1 => r.end = Len(state.input)
=============================================================================
