------------------------------- MODULE SQRex -------------------------------
(***************************************************************************)
(* Regular expressions (sqstdlib/sqstdrex.cpp): the parser that turns a    *)
(* pattern into a graph of nodes and the matcher that walks it, which does *)
(* not go back: a repetition takes matches until what follows it matches   *)
(* too.  Characters are numbers; a node's type is one of them or, above    *)
(* MAX_CHAR, an operator.  Left out: escapes that only name a character,   *)
(* and \b, which looks one character past the text.                        *)
(***************************************************************************)
EXTENDS Integers, Sequences, FiniteSets

CONSTANT Infinity            \* 0xFFFF, the bound of * and +, and the width of {n,m}

ASSUME RexAssumption == Infinity \in Nat \ {0}

MAX_CHAR == 255
OP_GREEDY == MAX_CHAR + 1
OP_OR == MAX_CHAR + 2
OP_EXPR == MAX_CHAR + 3
OP_NOCAPEXPR == MAX_CHAR + 4
OP_DOT == MAX_CHAR + 5
OP_CLASS == MAX_CHAR + 6
OP_CCLASS == MAX_CHAR + 7
OP_NCLASS == MAX_CHAR + 8
OP_RANGE == MAX_CHAR + 9
OP_EOL == MAX_CHAR + 11
OP_BOL == MAX_CHAR + 12
OP_MB == MAX_CHAR + 14

\* The characters that mean something in a pattern.
Sym == [lparen |-> 40, rparen |-> 41, star |-> 42, plus |-> 43, comma |-> 44, dash |-> 45, dot |-> 46,
        colon |-> 58, quest |-> 63, lbracket |-> 91, esc |-> 92, rbracket |-> 93, caret |-> 94,
        lbrace |-> 123, bar |-> 124, rbrace |-> 125, dollar |-> 36]

Printable(c) == c \in 32 .. 126
IsDigit(c) == c \in 48 .. 57
IsAlpha(c) == c \in 65 .. 90 \/ c \in 97 .. 122

-----------------------------------------------------------------------------
(* The parser.  x is the SQRex under construction: pattern and position p,     *)
(* nodes (0 for no node, -1 in the code) and the room allocated for them,      *)
(* number of groups, whether it failed; ret is the node just built.            *)

Ch(x) == IF x.p > Len(x.pat) THEN 0 ELSE x.pat[x.p]
Skip(x) == [x EXCEPT !.p = @ + 1]
Fail(x) == [x EXCEPT !.err = TRUE]
Expect(x, c) == IF Ch(x) = c THEN Skip(x) ELSE Fail(x)
Ret(x, n) == [x EXCEPT !.ret = n]
Link(x, n, field, m) == [x EXCEPT !.nodes[n][field] = m]

NewNode(x, type) ==
  [x EXCEPT !.nodes = Append(@, [type |-> type, left |-> 0, next |-> 0,
                                 right |-> IF type = OP_EXPR THEN x.nsub ELSE 0]),
            !.nsub = IF type = OP_EXPR THEN @ + 1 ELSE @,
            !.room = IF @ < Len(x.nodes) + 1 THEN 2 * @ ELSE @,
            !.ret = Len(x.nodes) + 1]

CharClasses == {97, 100, 119}                  \* \a, \d and \w of the sixteen

\* \mbe: from b to the e that balances it.
Balanced(x) ==
  LET y == Skip(x)  b == Ch(y)  e == Ch(Skip(y))
      n == NewNode(Skip(Skip(y)), OP_MB)
  IN  IF b = 0 \/ e = 0 \/ b = e THEN Fail(y) ELSE Link(Link(n, n.ret, "left", b), n.ret, "right", e)

CharNode(x) ==
  LET y == IF Ch(x) = Sym.esc THEN Skip(x) ELSE x  c == Ch(y)  n == NewNode(Skip(y), OP_CCLASS)
  IN  CASE Ch(x) = Sym.esc /\ c \in CharClasses -> Link(n, n.ret, "left", c)
        [] Ch(x) = Sym.esc /\ c = 109 -> Balanced(y)
        [] (Ch(x) = Sym.esc /\ c = 0) \/ (Ch(x) # Sym.esc /\ ~Printable(c)) -> Fail(y)
        [] OTHER -> NewNode(Skip(y), c)

RECURSIVE ClassItems(_, _, _), Element(_), List(_)

\* The items of a class after node chain; first is a character that may yet
\* start a range.
ClassItems(x, chain, first) ==
  LET y == IF Ch(x) = Sym.dash /\ first # 0 THEN NewNode(Skip(x), OP_RANGE) ELSE CharNode(x)
      end == IF Ch(y) = Sym.esc THEN Skip(y) ELSE y
      r == Link(Link(Link(Skip(end), y.ret, "left", x.nodes[first].type), y.ret, "right", Ch(end)), chain, "next", y.ret)
  IN  CASE x.err -> x
        [] ~x.err /\ Ch(x) = Sym.rbracket ->
             IF first = 0 THEN x ELSE Link(x, chain, "next", first)
        [] ~x.err /\ Ch(x) = Sym.dash /\ first # 0 ->
             IF x.nodes[first].type > Ch(y) \/ ~Printable(Ch(y)) THEN Fail(y) ELSE ClassItems(r, y.ret, 0)
        [] OTHER -> IF first = 0 \/ y.err THEN ClassItems(y, chain, y.ret)
                    ELSE ClassItems(Link(y, chain, "next", first), first, y.ret)

Class(x) ==
  LET n == IF Ch(x) = Sym.caret THEN NewNode(Skip(x), OP_NCLASS) ELSE NewNode(x, OP_CLASS)
      c == ClassItems(n, n.ret, 0)
  IN  IF Ch(n) = Sym.rbracket THEN Fail(n)
      ELSE Ret(Link(Link(c, n.ret, "left", c.nodes[n.ret].next), n.ret, "next", 0), n.ret)

\* ParseNumber: the digits at x; more than nine are an overflow.
Digits(x) == CHOOSE k \in 0 .. Len(x.pat) : ~IsDigit(Ch([x EXCEPT !.p = @ + k])) /\ \A i \in 0 .. k - 1 : IsDigit(Ch([x EXCEPT !.p = @ + i]))
NumberAt(x) == LET f[i \in 0 .. Digits(x)] == IF i = 0 THEN 0 ELSE 10 * f[i - 1] + x.pat[x.p + i - 1] - 48 IN f[Digits(x)]
ParseNumber(x) == IF Digits(x) > 9 THEN Fail(x) ELSE [x EXCEPT !.p = @ + Digits(x)]
Short(n) == n % (Infinity + 1)

\* What follows an element: [x, lo, hi], lo = -1 if it is not repeated.
Repetition(x) ==
  LET y == Skip(x)  n == ParseNumber(y)  m == Skip(n)
      R(z, lo, hi) == [x |-> z, lo |-> lo, hi |-> hi]
  IN  CASE Ch(x) = Sym.star -> R(y, 0, Infinity)
        [] Ch(x) = Sym.plus -> R(y, 1, Infinity)
        [] Ch(x) = Sym.quest -> R(y, 0, 1)
        [] Ch(x) = Sym.lbrace /\ ~IsDigit(Ch(y)) -> R(Fail(y), -1, 0)
        [] Ch(x) = Sym.lbrace /\ IsDigit(Ch(y)) /\ Ch(n) = Sym.rbrace -> R(m, Short(NumberAt(y)), Short(NumberAt(y)))
        [] Ch(x) = Sym.lbrace /\ IsDigit(Ch(y)) /\ Ch(n) = Sym.comma ->
             IF IsDigit(Ch(m)) THEN R(Expect(ParseNumber(m), Sym.rbrace), Short(NumberAt(y)), Short(NumberAt(m)))
             ELSE R(Expect(m, Sym.rbrace), Short(NumberAt(y)), Infinity)
        [] Ch(x) = Sym.lbrace /\ IsDigit(Ch(y)) /\ Ch(n) \notin {Sym.rbrace, Sym.comma} -> R(Fail(n), -1, 0)
        [] OTHER -> R(x, -1, 0)

Group(x) ==
  LET y == Skip(x)
      n == IF Ch(y) = Sym.quest THEN NewNode(Expect(Skip(y), Sym.colon), OP_NOCAPEXPR) ELSE NewNode(y, OP_EXPR)
      l == List(n)
  IN  Ret(Expect(Link(l, n.ret, "left", l.ret), Sym.rparen), n.ret)

Element(x) ==
  LET e == CASE Ch(x) = Sym.lparen -> Group(x)
             [] Ch(x) = Sym.lbracket -> Expect(Class(Skip(x)), Sym.rbracket)
             [] Ch(x) = Sym.dollar -> NewNode(Skip(x), OP_EOL)
             [] Ch(x) = Sym.dot -> NewNode(Skip(x), OP_DOT)
             [] OTHER -> CharNode(x)
      r == Repetition(e)
      n == NewNode(r.x, OP_GREEDY)
      g == IF r.lo = -1 THEN r.x ELSE Link(Link(n, n.ret, "left", e.ret), n.ret, "right", r.lo * (Infinity + 1) + r.hi)
      rest == Element(g)
  IN  IF x.err THEN x ELSE IF e.err THEN e
      ELSE IF g.err \/ Ch(g) \in {Sym.bar, Sym.rparen, Sym.star, Sym.plus, 0} THEN g
      ELSE Ret(Link(rest, g.ret, "next", rest.ret), g.ret)

List(x) ==
  LET b == NewNode(Skip(x), OP_BOL)
      e == IF Ch(x) = Sym.caret THEN LET r == Element(b) IN Ret(Link(r, b.ret, "next", r.ret), b.ret) ELSE Element(x)
      o == NewNode(Skip(e), OP_OR)
      r == List(o)
  IN  IF x.err THEN x
      ELSE IF e.err \/ Ch(e) # Sym.bar THEN e
      ELSE Ret(Link(Link(r, o.ret, "left", e.ret), o.ret, "right", r.ret), o.ret)

\* sqstd_rex_compile: the whole pattern is group 0, node 1.
Compile(pat) ==
  LET x == NewNode([pat |-> pat, p |-> 1, nodes |-> <<>>, room |-> Len(pat), nsub |-> 0, err |-> FALSE, ret |-> 0], OP_EXPR)
      l == List(x)
      y == Link(l, 1, "left", l.ret)
  IN  IF y.err \/ Ch(y) # 0 THEN Fail(y) ELSE y

-----------------------------------------------------------------------------
(* The matcher.  e is the compiled expression with the text; a position is     *)
(* 1 .. eol, 0 for no match.  m is what matching changes: the position s, the  *)
(* group to be captured next, and the captures, [begin, len] for each group.   *)

Eol(e) == Len(e.text) + 1
NULL(m) == [m EXCEPT !.s = 0]
Step(m) == [m EXCEPT !.s = @ + 1]
P0(node) == node.right \div (Infinity + 1)
P1(node) == node.right % (Infinity + 1)

MatchCClass(class, c) ==
  CASE class = 97 -> IsAlpha(c)
    [] class = 100 -> IsDigit(c)
    [] class = 119 -> IsAlpha(c) \/ IsDigit(c) \/ c = 95

RECURSIVE MatchClass(_, _, _)
MatchClass(e, n, c) ==
  LET node == e.nodes[n]
  IN  \/ CASE node.type = OP_RANGE -> c >= node.left /\ c <= node.right
           [] node.type = OP_CCLASS -> MatchCClass(node.left, c)
           [] OTHER -> c = node.type
      \/ node.next # 0 /\ MatchClass(e, node.next, c)

\* The end of the balanced text that starts at s, which opens one level.
MatchBalanced(e, node, s) ==
  LET level[i \in s .. Len(e.text)] ==
        IF i = s THEN 1
        ELSE level[i - 1] + (IF e.text[i] = node.right THEN -1 ELSE IF e.text[i] = node.left THEN 1 ELSE 0)
      zero == {i \in s + 1 .. Len(e.text) : level[i] = 0}
  IN  IF s > Len(e.text) \/ (s <= Len(e.text) /\ e.text[s] # node.left) \/ zero = {} THEN 0
      ELSE 1 + (CHOOSE i \in zero : \A j \in zero : i <= j)

Enough(node, count) ==
  \/ P0(node) = P1(node) /\ P0(node) = count
  \/ count >= P0(node) /\ P1(node) = Infinity
  \/ count >= P0(node) /\ count <= P1(node)

RECURSIVE MatchNode(_, _, _, _), Greedy(_, _, _, _, _), Alternative(_, _, _), Exprs(_, _, _, _)

\* OP_GREEDY after count matches, the last of which ended at m.s.
Greedy(e, n, m, next, count) ==
  LET node == e.nodes[n]
      stop == IF node.next # 0 THEN node.next ELSE next
      gnext == IF e.nodes[stop].next # 0 THEN e.nodes[stop].next
               ELSE IF next # 0 THEN e.nodes[next].next ELSE 0
      r == MatchNode(e, node.left, m, stop)
      looks == stop # 0 /\ (e.nodes[stop].type # OP_GREEDY \/ P0(e.nodes[stop]) # 0)
      ahead == IF looks THEN MatchNode(e, stop, r, gnext) ELSE NULL(r)
      on == [ahead EXCEPT !.s = r.s]
      Done(d, k) == IF Enough(node, k) THEN d ELSE NULL(d)
  IN  IF ~(count = Infinity \/ count < P1(node)) THEN Done(m, count)
      ELSE IF r.s = 0 THEN Done([r EXCEPT !.s = m.s], count)
      ELSE IF (ahead.s # 0 /\ Enough(node, count + 1)) \/ r.s >= Eol(e) THEN Done(on, count + 1)
      ELSE Greedy(e, n, on, next, count + 1)

\* The nodes from n on one after the other, as an alternative does it: nothing
\* is known of what follows.
Alternative(e, n, m) ==
  LET r == MatchNode(e, n, m, 0)
  IN  IF r.s = 0 \/ e.nodes[n].next = 0 THEN r ELSE Alternative(e, e.nodes[n].next, r)

\* The same inside a group, where each knows what follows.
Exprs(e, n, m, next) ==
  LET r == MatchNode(e, n, m, IF e.nodes[n].next # 0 THEN e.nodes[n].next ELSE next)
  IN  IF r.s = 0 \/ e.nodes[n].next = 0 THEN r ELSE Exprs(e, e.nodes[n].next, r, next)

\* Mutant: the second alternative goes on where the first one failed.
MatchOrAfter(e, node, m) ==
  LET l == Alternative(e, node.left, m) IN IF l.s # 0 THEN l ELSE Alternative(e, node.right, [l EXCEPT !.s = IF m.s < Eol(e) THEN m.s + 1 ELSE m.s])

MatchOr(e, node, m) ==
  LET l == Alternative(e, node.left, m) IN IF l.s # 0 THEN l ELSE Alternative(e, node.right, [l EXCEPT !.s = m.s])

\* Mutant: a group that fails keeps where it began.
CaptureFailedKeeping(m, g) == m

CaptureFailed(m, g) == [m EXCEPT !.caps[g + 1] = [begin |-> 0, len |-> 0]]

\* A group is captured only if its turn has come, and after it the counter is
\* what it was when the group was entered.
MatchGroup(e, node, m, next) ==
  LET g == m.cur
      captures == node.type # OP_NOCAPEXPR /\ node.right = g
      in == IF captures THEN [m EXCEPT !.caps[g + 1].begin = m.s, !.cur = g + 1] ELSE m
      r == Exprs(e, node.left, in, next)
      out == [r EXCEPT !.cur = in.cur]
  IN  CASE r.s = 0 -> IF captures THEN CaptureFailed(r, g) ELSE r
        [] r.s # 0 -> IF captures THEN [out EXCEPT !.caps[g + 1].len = r.s - r.caps[g + 1].begin] ELSE out

MatchNode(e, n, m, next) ==
  LET node == e.nodes[n]
      One(b) == IF b THEN Step(m) ELSE NULL(m)
      end == m.s = Eol(e)
  IN  CASE node.type = OP_GREEDY -> Greedy(e, n, m, next, 0)
        [] node.type = OP_OR -> MatchOr(e, node, m)
        [] node.type \in {OP_EXPR, OP_NOCAPEXPR} -> MatchGroup(e, node, m, next)
        [] node.type = OP_BOL -> IF m.s = 1 THEN m ELSE NULL(m)
        [] node.type = OP_EOL -> IF end THEN m ELSE NULL(m)
        [] node.type = OP_DOT -> One(~end)
        [] node.type \in {OP_CLASS, OP_NCLASS} ->
             One(~end /\ (MatchClass(e, node.left, e.text[m.s]) <=> node.type = OP_CLASS))
        [] node.type = OP_CCLASS -> One(~end /\ MatchCClass(node.left, e.text[m.s]))
        [] node.type = OP_MB -> [m EXCEPT !.s = MatchBalanced(e, node, m.s)]
        [] OTHER -> One(~end /\ e.text[m.s] = node.type)

NoCaptures(x) == [g \in 1 .. x.nsub |-> [begin |-> 0, len |-> 0]]
Against(x, text) == [nodes |-> x.nodes, text |-> text]

\* sqstd_rex_match: group 0 must match the whole text.
Match(x, text, caps) ==
  LET r == MatchNode(Against(x, text), 1, [s |-> 1, cur |-> 0, caps |-> caps], 0)
  IN  [ok |-> r.s = Len(text) + 1, begin |-> 1, end |-> r.s, caps |-> r.caps]

\* sqstd_rex_searchrange: the first position from which it matches, none of which
\* is the end of the text; captures are not cleared between attempts.
RECURSIVE SearchFrom(_, _, _)
SearchFrom(e, from, caps) ==
  LET r == MatchNode(e, 1, [s |-> from, cur |-> 0, caps |-> caps], 0)
  IN  IF r.s # 0 \/ from + 1 = Eol(e) THEN [ok |-> r.s # 0, begin |-> from, end |-> r.s, caps |-> r.caps]
      ELSE SearchFrom(e, from + 1, r.caps)
Search(x, text, caps) ==
  IF text = <<>> THEN [ok |-> FALSE, begin |-> 1, end |-> 0, caps |-> caps] ELSE SearchFrom(Against(x, text), 1, caps)
=============================================================================
