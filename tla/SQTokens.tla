------------------------------ MODULE SQTokens ------------------------------
(* What a text is made of: the reference for SQLexer, after the grammar of the *)
(* manual (doc/squirrel3.pdf, Literals and Operators).  A text is cut from the *)
(* left into the longest lexemes; a lexeme is a blank, a token, a broken one,  *)
(* or looks like a number that the grammar does not have, of which, and of     *)
(* what follows it, nothing is said.  Strings are left to MCSQAlgorithms,      *)
(* which writes them.                                                          *)
EXTENDS SQLexer

All(w, S) == \A i \in DOMAIN w : w[i] \in S
Begins(w, b) == Len(w) >= Len(b) /\ SubSeq(w, 1, Len(b)) = b

\* The operators and other tokens of the manual, those of attributes, and "...".
OperatorWords ==
  {<<c>> : c \in {"!", ">", "<", "+", "-", "/", "*", "%", "=", "&", "^", "|", "~", "{", "}", "[", "]", "(", ")", ".", ":", ";", ",", "?", "@"}}
  \cup {<<"!", "=">>, <<"|", "|">>, <<"=", "=">>, <<"&", "&">>, <<">", "=">>, <<"<", "=">>, <<"<", "=", ">">>, <<"+", "=">>,
        <<"-", "=">>, <<"/", "=">>, <<"*", "=">>, <<"%", "=">>, <<"+", "+">>, <<"-", "-">>, <<"<", "-">>, <<">", ">">>,
        <<"<", "<">>, <<">", ">", ">">>, <<":", ":">>, <<"<", "/">>, <<"/", ">">>, <<".", ".", ".">>}

WordWord(w) == w[1] \in Alphas \cup {"_"} /\ All(w, Alphas \cup DigitChars \cup {"_"})
OctalWord(w) == Len(w) > 1 /\ w[1] = "0" /\ All(w, OctalChars)
HexWord(w) == Len(w) > 2 /\ w[1] = "0" /\ w[2] \in {"x", "X"} /\ All(SubSeq(w, 3, Len(w)), XDigitChars)
AllDigits(w) == w # <<>> /\ All(w, DigitChars)
DecimalWord(w) == AllDigits(w) /\ (w[1] = "0" => w = <<"0">>)

\* Digits, a point, digits and an exponent: one of the last two may be missing.
\* The grammar has 00.1 too, which the lexer takes for an octal number and more.
Mantissa(w, n) == n \in 2 .. Len(w) /\ AllDigits(SubSeq(w, 1, n - 1)) /\ ~OctalWord(SubSeq(w, 1, 2)) /\ w[n] = "."
Power(w) == w # <<>> /\ w[1] \in {"e", "E"} /\ (AllDigits(Tail(w)) \/ (Len(w) > 1 /\ w[2] \in {"+", "-"} /\ AllDigits(SubSeq(w, 3, Len(w)))))
FloatWord(w) ==
  \E n, m \in DOMAIN w :
    LET digits == SubSeq(w, n + 1, m)  power == SubSeq(w, m + 1, Len(w))
    IN  /\ n <= m /\ Mantissa(w, n)
        /\ AllDigits(digits) \/ (digits = <<>> /\ Power(power))
        /\ power = <<>> \/ Power(power)

\* The number a word stands for, as the sum of its digits' values.
Worth(w, radix) ==
  LET Digit(c) == LET i == CHOOSE i \in 1 .. 22 : XDigits[i] = c IN IF i > 16 THEN i - 7 ELSE i - 1
      Sum[i \in 0 .. Len(w)] == IF i = 0 THEN 0 ELSE Sum[i - 1] + Digit(w[i]) * radix ^ (Len(w) - i)
  IN  Sum[Len(w)]
Fits(n) == n < 16 ^ MAX_HEX_DIGITS

NumberWord(w) ==
  \/ OctalWord(w) /\ Fits(Worth(w, 8))
  \/ HexWord(w) /\ Len(w) <= MAX_HEX_DIGITS + 2
  \/ DecimalWord(w) /\ Fits(Worth(w, 10))
  \/ FloatWord(w)

\* Like a number, and not in the grammar or not read as it has it: 0x, 08, 1., 1e1,
\* 1.1.1, 00.1 and numbers that do not fit.
OddWord(w) ==
  /\ w[1] \in DigitChars /\ ~NumberWord(w)
  /\ \/ w \in {<<"0", "x">>, <<"0", "X">>}
     \/ \A i \in DOMAIN w : \/ w[i] \in DigitChars \cup {".", "e", "E"}
                            \/ w[i] \in {"+", "-"} /\ w[i - 1] \in {"e", "E"}

LineComment(w) == (Begins(w, <<"#">>) \/ Begins(w, <<"/", "/">>)) /\ \A i \in DOMAIN w : w[i] # "\n"
Closings(w) == {i \in 3 .. Len(w) - 1 : w[i] = "*" /\ w[i + 1] = "/"}
BlockComment(w) == Begins(w, <<"/", "*">>) /\ Closings(w) = {Len(w) - 1}
BlankWord(w) == w \in {<<" ">>, <<"\t">>, <<"\r">>, <<"\n">>} \/ LineComment(w) \/ BlockComment(w)

\* What no token can begin with: it ends the compilation.
Exponent(w) ==
  \E n \in DOMAIN w : /\ FloatWord(SubSeq(w, 1, n)) /\ All(SubSeq(w, 1, n), DigitChars \cup {"."})
                      /\ SubSeq(w, n + 1, Len(w)) \in {<<"e">>, <<"E">>} \cup ({"e", "E"} \X {"+", "-"})
BrokenWord(w, last) ==
  \/ w = <<".", ".">> \/ w \in {<<c>> : c \in ControlChars}
  \/ Len(w) > 2 /\ OctalWord(SubSeq(w, 1, Len(w) - 1)) /\ w[Len(w)] \in {"8", "9"}
  \/ HexWord(w) /\ Len(w) > MAX_HEX_DIGITS + 2
  \/ Exponent(w)
  \/ last /\ Begins(w, <<"/", "*">>) /\ Closings(w) = {}

TokenWord(w) == w \in OperatorWords \/ WordWord(w) \/ NumberWord(w)

\* The lexemes from position i on, as pairs of positions, up to one that is none of blank and token.
RECURSIVE Lexemes(_, _)
Lexemes(text, i) ==
  LET Part(j) == SubSeq(text, i, j)
      Good(j) == BlankWord(Part(j)) \/ TokenWord(Part(j))
      ends == {j \in i .. Len(text) : Good(j) \/ BrokenWord(Part(j), j = Len(text)) \/ OddWord(Part(j))}
      end == CHOOSE j \in ends : \A k \in ends : k <= j
  IN  IF i > Len(text) THEN <<>>
      ELSE IF ~Good(end) THEN << <<i, end>> >>
      ELSE << <<i, end>> >> \o Lexemes(text, end + 1)

\* The token a word is, with its value.
TokenOf(w) ==
  CASE w \in OperatorWords -> <<"op", w>>
    [] w \in Keywords -> <<"keyword", w>>
    [] WordWord(w) /\ w \notin Keywords -> <<"identifier", w>>
    [] OctalWord(w) -> <<"int", <<"byte", Worth(w, 8)>> >>
    [] HexWord(w) -> <<"int", <<"byte", Worth(SubSeq(w, 3, Len(w)), 16)>> >>
    [] DecimalWord(w) -> <<"int", <<"byte", Worth(w, 10)>> >>
    [] FloatWord(w) -> <<"float", w>>

\* Newlines in the first n characters.
NewlinesBefore(text, n) == Cardinality({i \in 1 .. n : text[i] = "\n"})
=============================================================================
