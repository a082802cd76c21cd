------------------------------ MODULE SQLexer -------------------------------
(***************************************************************************)
(* The lexer (squirrel/sqlexer.cpp).  A text is a sequence of characters,  *)
(* each a string of length one.  The lexer's state l is the text with the  *)
(* position of _currdata, _currentline, _lasttokenline, _longstr,          *)
(* _curtoken, _prevtoken, the token with its value, and whether Error was  *)
(* called, which ends the compilation.  Columns are left out.              *)
(***************************************************************************)
EXTENDS Integers, Sequences, FiniteSets

CONSTANTS Alphas,           \* letters of texts, for scisalpha
          Keywords,         \* words of the table _keywords
          MAX_HEX_DIGITS    \* sizeof(SQInteger) * 2

ASSUME LexerAssumption == MAX_HEX_DIGITS \in Nat \ {0}

EOB == "EOB"                \* SQUIRREL_EOB
XDigits == <<"0", "1", "2", "3", "4", "5", "6", "7", "8", "9", "a", "b", "c", "d", "e", "f", "A", "B", "C", "D", "E", "F">>
XDigitChars == {XDigits[i] : i \in 1 .. 22}
DigitChars == {XDigits[i] : i \in 1 .. 10}
OctalChars == {XDigits[i] : i \in 1 .. 8}
ControlChars == {"\f"}      \* the one a text can have here that is no blank

CUR_CHAR(l) == IF l.p > Len(l.text) THEN EOB ELSE l.text[l.p]
NEXT(l) == [l EXCEPT !.p = @ + 1]
APPEND_CHAR(l, x) == [l EXCEPT !.long = Append(@, x)]
INIT_TEMP_STRING(l) == [l EXCEPT !.long = <<>>]
LexError(l) == [l EXCEPT !.err = TRUE, !.tok = "error"]
RETURN_TOKEN(l, t, v) ==
  [l EXCEPT !.prev = l.cur, !.cur = IF t = "op" /\ Len(v) = 1 THEN v[1] ELSE t, !.tok = t, !.val = v]

\* APPEND_CHAR(CUR_CHAR); NEXT(), once or while the character is one of S.
Take(l) == NEXT(APPEND_CHAR(l, CUR_CHAR(l)))
TakeWhile(l, S) ==
  LET n == Cardinality({i \in l.p .. Len(l.text) : \A j \in l.p .. i : l.text[j] \in S})
  IN  [l EXCEPT !.p = @ + n, !.long = @ \o SubSeq(l.text, l.p, l.p + n - 1)]
Peek(l, n) == SubSeq(l.text, l.p, IF l.p + n - 1 > Len(l.text) THEN Len(l.text) ELSE l.p + n - 1)

-----------------------------------------------------------------------------
(* Comments. *)

RECURSIVE LexBlockComment(_)
LexBlockComment(l) ==
  CASE CUR_CHAR(l) = "*" -> IF CUR_CHAR(NEXT(l)) = "/" THEN NEXT(NEXT(l)) ELSE LexBlockComment(NEXT(l))
    [] CUR_CHAR(l) = "\n" -> LexBlockComment(NEXT([l EXCEPT !.line = @ + 1]))
    [] CUR_CHAR(l) = EOB -> LexError(l)
    [] OTHER -> LexBlockComment(NEXT(l))

\* Mutant: the newline is taken for a part of the comment.
LexLineCommentWhole(l) ==
  LET n == Cardinality({i \in l.p + 1 .. Len(l.text) : \A j \in l.p + 1 .. i : l.text[j] # "\n"})
      m == [l EXCEPT !.p = @ + 1 + n]
  IN  IF CUR_CHAR(m) = "\n" THEN NEXT(m) ELSE m

LexLineComment(l) ==
  LET n == Cardinality({i \in l.p + 1 .. Len(l.text) : \A j \in l.p + 1 .. i : l.text[j] # "\n"})
  IN  [l EXCEPT !.p = @ + 1 + n]

-----------------------------------------------------------------------------
(* Strings and character constants.  A character of the text is <<"chr", c>>, *)
(* one that an escape names <<"esc", c>>, one it gives by its number           *)
(* <<"byte", n>>, the k-th of the encoding of a larger one <<"utf8", n, k>>.    *)

\* LexHexadecimal, LexInteger, LexOctal and scstrtoul: the digits, in the width of SQInteger.
NumberOf(digits, radix) ==
  LET Digit(c) == LET i == CHOOSE i \in 1 .. 22 : XDigits[i] = c IN IF i > 16 THEN i - 7 ELSE i - 1
      f[i \in 0 .. Len(digits)] == IF i = 0 THEN 0 ELSE f[i - 1] * radix + Digit(digits[i])
  IN  f[Len(digits)]
Wrapped(n) == n % (16 ^ MAX_HEX_DIGITS)

\* AddUTF8: one to four bytes, none for a number beyond Unicode.
Width(ch) == CASE ch < 128 -> 1 [] ch \in 128 .. 2047 -> 2 [] ch \in 2048 .. 65535 -> 3 [] ch \in 65536 .. 1114111 -> 4 [] OTHER -> 0
AddUTF8(l, ch) ==
  [l EXCEPT !.long = @ \o IF ch < 128 THEN << <<"byte", ch>> >> ELSE [k \in 1 .. Width(ch) |-> <<"utf8", ch, k>>]]

\* The digits that ProcessStringHexEscape takes, of at most max.
HexRun(l, max) == CHOOSE n \in 0 .. max : (\A i \in 1 .. n : CUR_CHAR([l EXCEPT !.p = @ + i - 1]) \in XDigitChars)
                                          /\ (n < max => CUR_CHAR([l EXCEPT !.p = @ + n]) \notin XDigitChars)
ProcessStringHexEscape(l, max) ==
  LET m == NEXT(l)
      n == HexRun(m, max)
      number == NumberOf(Peek(m, n), 16)
      after == [m EXCEPT !.p = @ + n]
  IN  IF n = 0 THEN LexError(m)
      ELSE IF CUR_CHAR(l) = "x" THEN APPEND_CHAR(after, <<"byte", number>>) ELSE AddUTF8(after, number)

Escapes == {"t", "a", "b", "n", "r", "v", "f", "0", "\\", "\"", "'"}

\* After a backslash.
Escaped(l) ==
  CASE CUR_CHAR(l) = "x" -> ProcessStringHexEscape(l, 2)
    [] CUR_CHAR(l) = "u" -> ProcessStringHexEscape(l, 4)
    [] CUR_CHAR(l) = "U" -> ProcessStringHexEscape(l, 8)
    [] CUR_CHAR(l) \in Escapes -> NEXT(APPEND_CHAR(l, <<"esc", CUR_CHAR(l)>>))
    [] OTHER -> LexError(l)

RECURSIVE StringBody(_, _, _)
StringBody(l, ndelim, verbatim) ==
  LET c == CUR_CHAR(l)
      taken == NEXT(APPEND_CHAR(l, <<"chr", c>>))
      escaped == Escaped(NEXT(l))
  IN  CASE l.err -> l
        [] ~l.err /\ c = ndelim ->
             IF verbatim /\ CUR_CHAR(NEXT(l)) = "\"" THEN StringBody(NEXT(taken), ndelim, verbatim) ELSE NEXT(l)
        [] ~l.err /\ c # ndelim ->
             CASE c = EOB \/ (c = "\n" /\ ~verbatim) -> LexError(l)
               [] c = "\n" /\ verbatim -> StringBody([taken EXCEPT !.line = @ + 1], ndelim, verbatim)
               [] c = "\\" /\ ~verbatim -> StringBody(escaped, ndelim, verbatim)
               [] OTHER -> StringBody(taken, ndelim, verbatim)

\* _nvalue = _longstr[0]: a char is signed.
SignExtended(x) == IF x[1] = "byte" /\ x[2] > 127 THEN <<"byte", x[2] - 256>> ELSE x

ReadString(l, ndelim, verbatim) ==
  LET m == StringBody(NEXT(INIT_TEMP_STRING(l)), ndelim, verbatim)
  IN  IF m.err \/ (ndelim = "'" /\ Len(m.long) # 1) THEN LexError(m)
      ELSE IF ndelim = "'" THEN RETURN_TOKEN(m, "int", SignExtended(m.long[1]))
      ELSE RETURN_TOKEN(m, "str", m.long)

-----------------------------------------------------------------------------
(* Numbers and words. *)

\* scstrtod of the C library: the longest beginning that is a number.
Strtod(s) ==
  LET Run(i, S) == Cardinality({j \in i .. Len(s) : \A k \in i .. j : s[k] \in S})
      whole == Run(1, DigitChars)
      point == IF Run(whole + 1, {"."}) > 0 THEN 1 + Run(whole + 2, DigitChars) ELSE 0
      sign == IF Run(whole + point + 2, {"+", "-"}) > 0 THEN 1 ELSE 0
      power == IF Run(whole + point + 1, {"e", "E"}) = 0 THEN 0 ELSE 1 + sign + Run(whole + point + 2 + sign, DigitChars)
  IN  SubSeq(s, 1, whole + point + power)

\* The loop of decimal numbers.
RECURSIVE NumberBody(_, _)
NumberBody(l, type) ==
  LET c == CUR_CHAR(l)
      e == Take(l)
      signed == IF CUR_CHAR(e) \in {"+", "-"} THEN Take(e) ELSE e
  IN  CASE c \in DigitChars -> NumberBody(Take(l), type)
        [] c = "." -> NumberBody(Take(l), "float")
        [] c \in {"e", "E"} -> IF CUR_CHAR(signed) \in DigitChars THEN NumberBody(Take(signed), "float") ELSE LexError(signed)
        [] OTHER -> IF type = "float" THEN RETURN_TOKEN(l, "float", Strtod(l.long))
                    ELSE RETURN_TOKEN(l, "int", <<"byte", Wrapped(NumberOf(l.long, 10))>>)

ReadNumber(l) ==
  LET m == NEXT(INIT_TEMP_STRING(l))
      octal == TakeWhile(m, OctalChars)
      hex == TakeWhile(NEXT(m), XDigitChars)
  IN  CASE CUR_CHAR(l) = "0" /\ CUR_CHAR(m) \in OctalChars ->
             IF CUR_CHAR(octal) \in DigitChars THEN LexError(octal)
             ELSE RETURN_TOKEN(octal, "int", <<"byte", Wrapped(NumberOf(octal.long, 8))>>)
        [] CUR_CHAR(l) = "0" /\ CUR_CHAR(m) \in {"x", "X"} ->
             IF Len(hex.long) > MAX_HEX_DIGITS THEN LexError(hex)
             ELSE RETURN_TOKEN(hex, "int", <<"byte", Wrapped(NumberOf(hex.long, 16))>>)
        [] OTHER -> NumberBody(Take(INIT_TEMP_STRING(l)), "int")

GetIDType(s) == IF s \in Keywords THEN "keyword" ELSE "identifier"
ReadID(l) ==
  LET m == TakeWhile(INIT_TEMP_STRING(l), Alphas \cup DigitChars \cup {"_"})
  IN  RETURN_TOKEN(m, GetIDType(m.long), m.long)

-----------------------------------------------------------------------------
(* Lex. *)

\* The characters the cases of the switch look for after the first one.
Twos == {<<"/", "=">>, <<"/", ">">>, <<"=", "=">>, <<"<", "=">>, <<"<", "-">>, <<"<", "<">>, <<"<", "/">>, <<">", "=">>,
         <<">", ">">>, <<"!", "=">>, <<".", ".">>, <<"&", "&">>, <<"|", "|">>, <<":", ":">>, <<"*", "=">>, <<"%", "=">>,
         <<"-", "=">>, <<"-", "-">>, <<"+", "=">>, <<"+", "+">>}
Threes == {<<"<", "=", ">">>, <<">", ">", ">">>, <<".", ".", ".">>}
LexOperator(l) ==
  LET n == IF Peek(l, 2) \notin Twos THEN 1 ELSE IF Peek(l, 3) \notin Threes THEN 2 ELSE 3
      s == Peek(l, n)
      m == [l EXCEPT !.p = @ + n]
  IN  IF s = <<".", ".">> \/ s[1] \in ControlChars THEN LexError(m) ELSE RETURN_TOKEN(m, "op", s)

\* The cases of Lex that go on with its loop.
Blank(l) ==
  CASE CUR_CHAR(l) = "\n" -> NEXT([l EXCEPT !.line = @ + 1, !.prev = l.cur, !.cur = "\n"])
    [] CUR_CHAR(l) = "#" -> LexLineComment(l)
    [] Peek(l, 2) = <<"/", "*">> -> LexBlockComment(NEXT(NEXT(l)))
    [] Peek(l, 2) = <<"/", "/">> -> LexLineComment(NEXT(l))
    [] OTHER -> NEXT(l)
IsBlank(l) == CUR_CHAR(l) \in {"\t", "\r", " ", "\n", "#"} \/ Peek(l, 2) \in {<<"/", "*">>, <<"/", "/">>}

RECURSIVE LexToken(_)
LexToken(l) ==
  LET c == CUR_CHAR(l)
  IN  CASE l.err -> l
        [] ~l.err /\ c = EOB -> [l EXCEPT !.tok = "end", !.val = <<>>]
        [] ~l.err /\ c # EOB /\ IsBlank(l) -> LexToken(Blank(l))
        [] ~l.err /\ c # EOB /\ ~IsBlank(l) ->
             CASE c = "@" /\ CUR_CHAR(NEXT(l)) = "\"" -> ReadString(NEXT(l), "\"", TRUE)
               [] c \in {"\"", "'"} -> ReadString(l, c, FALSE)
               [] c \in DigitChars -> ReadNumber(l)
               [] c \in Alphas \cup {"_"} -> ReadID(l)
               [] OTHER -> LexOperator(l)
Lex(l) == LexToken([l EXCEPT !.lasttokenline = l.line])

\* Init; _curtoken is not set.
NewLexer(text) ==
  [text |-> text, p |-> 1, line |-> 1, lasttokenline |-> 1, long |-> <<>>, prev |-> "none", cur |-> "unset",
   tok |-> "none", val |-> <<>>, err |-> FALSE]

\* The states after each Lex up to the end of the text or an error.
RECURSIVE LexAll(_)
LexAll(l) == LET m == Lex(l) IN IF m.tok \in {"end", "error"} THEN <<m>> ELSE <<m>> \o LexAll(m)
=============================================================================
