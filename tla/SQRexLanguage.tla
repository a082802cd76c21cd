---------------------------- MODULE SQRexLanguage ----------------------------
(* What a regular expression means: the reference for SQRex.  An expression   *)
(* is a sequence of alternatives, each a sequence of elements:                *)
(*   <<"chr", c>> <<"dot">> <<"bol">> <<"eol">> <<"cls", negated, ranges>>    *)
(*   <<"word">> <<"bal", b, e>> <<"rep", element, lo, hi>> <<"grp", expr>>    *)
(*   <<"ncg", expr>>                                                          *)
EXTENDS SQRex, SQFold

RECURSIVE ShowElement(_)
Show(expr) ==
  LET Alt(seq) == Fold(LAMBDA t, x : t \o ShowElement(x), <<>>, seq)
  IN  Fold(LAMBDA t, seq : t \o <<Sym.bar>> \o Alt(seq), Alt(expr[1]), Tail(expr))

ShowRange(r) == IF r[1] = r[2] THEN <<r[1]>> ELSE <<r[1], Sym.dash, r[2]>>
ShowRepetition(lo, hi) ==
  CASE lo = 0 /\ hi = Infinity -> <<Sym.star>>
    [] lo = 1 /\ hi = Infinity -> <<Sym.plus>>
    [] lo = 0 /\ hi = 1 -> <<Sym.quest>>
    [] lo > 1 /\ hi = Infinity -> <<Sym.lbrace, 48 + lo, Sym.comma, Sym.rbrace>>
    [] lo = hi -> <<Sym.lbrace, 48 + lo, Sym.rbrace>>
    [] OTHER -> <<Sym.lbrace, 48 + lo, Sym.comma, 48 + hi, Sym.rbrace>>

\* An element as it is written in a pattern.
ShowElement(x) ==
  CASE x[1] = "chr" -> <<x[2]>>
    [] x[1] = "dot" -> <<Sym.dot>>
    [] x[1] = "bol" -> <<Sym.caret>>
    [] x[1] = "eol" -> <<Sym.dollar>>
    [] x[1] = "word" -> <<Sym.esc, 119>>
    [] x[1] = "bal" -> <<Sym.esc, 109, x[2], x[3]>>
    [] x[1] = "cls" -> <<Sym.lbracket>> \o (IF x[2] THEN <<Sym.caret>> ELSE <<>>)
                       \o Fold(LAMBDA t, r : t \o ShowRange(r), <<>>, x[3]) \o <<Sym.rbracket>>
    [] x[1] = "rep" -> ShowElement(x[2]) \o ShowRepetition(x[3], x[4])
    [] x[1] = "grp" -> <<Sym.lparen>> \o Show(x[2]) \o <<Sym.rparen>>
    [] x[1] = "ncg" -> <<Sym.lparen, Sym.quest, Sym.colon>> \o Show(x[2]) \o <<Sym.rparen>>

\* Every end of a match that starts in the set S of positions of the text.
RECURSIVE ElementEnds(_, _, _)
SeqEnds(seq, text, S) == Fold(LAMBDA T, x : ElementEnds(x, text, T), S, seq)
Ends(expr, text, S) == UNION {SeqEnds(expr[i], text, S) : i \in DOMAIN expr}

Opens(x, text, s, e) ==
  LET Count(c, i) == Cardinality({j \in s .. i : text[j] = c})
  IN  /\ text[s] = x[2] /\ Count(x[2], e) = Count(x[3], e)
      /\ \A i \in s .. e - 1 : Count(x[2], i) > Count(x[3], i)

ElementEnds(x, text, S) ==
  LET In == S \cap (1 .. Len(text))
      times[k \in 0 .. Len(text) + 1] == IF k = 0 THEN S ELSE ElementEnds(x[2], text, times[k - 1])
      hi == IF x[4] > Len(text) + 1 THEN Len(text) + 1 ELSE x[4]
  IN  CASE x[1] = "chr" -> {s + 1 : s \in {s \in In : text[s] = x[2]}}
        [] x[1] = "dot" -> {s + 1 : s \in In}
        [] x[1] = "bol" -> S \cap {1}
        [] x[1] = "eol" -> S \cap {Len(text) + 1}
        [] x[1] = "word" -> {s + 1 : s \in {s \in In : IsAlpha(text[s]) \/ IsDigit(text[s]) \/ text[s] = 95}}
        [] x[1] = "cls" -> {s + 1 : s \in {s \in In : x[2] # (\E i \in DOMAIN x[3] : text[s] \in x[3][i][1] .. x[3][i][2])}}
        [] x[1] = "bal" -> {e + 1 : e \in {e \in 1 .. Len(text) : \E s \in In : s < e /\ Opens(x, text, s, e)}}
        [] x[1] = "rep" -> UNION {times[k] : k \in x[3] .. hi}
        [] x[1] \in {"grp", "ncg"} -> Ends(x[2], text, S)

\* The capturing groups in the order in which they are opened.
RECURSIVE GroupsIn(_)
Groups(expr) == Fold(LAMBDA g, seq : Fold(LAMBDA h, x : h \o GroupsIn(x), g, seq), <<>>, expr)
GroupsIn(x) ==
  CASE x[1] = "grp" -> <<x[2]>> \o Groups(x[2])
    [] x[1] = "ncg" -> Groups(x[2])
    [] x[1] = "rep" -> GroupsIn(x[2])
    [] OTHER -> <<>>
=============================================================================
