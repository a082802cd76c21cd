--------------------------- MODULE MCSQAlgorithms ---------------------------
(***************************************************************************)
(* The algorithms that answer without leaving anything behind, each run on *)
(* every small input and compared with a definition of what it should do:  *)
(* lookup through delegates, regular expressions, array.sort, closures in  *)
(* streams and the lexer.  job is the input, result what the algorithm made of it.    *)
(***************************************************************************)
EXTENDS SQAccess, SQRexLanguage, SQSort, SQSerial, SQTokens, TLC

CONSTANTS SortLen,           \* longest array that is sorted
          SortKeys           \* number of distinct elements

\* The algorithms and their references, by the names the modules give them.
CONSTANTS Getting(_, _, _, _), Setting(_, _, _, _, _), ShouldGet(_, _, _, _), ShouldSet(_, _, _, _, _),
          Compiling(_), Matching(_, _, _), Searching(_, _, _), Meaning(_, _, _),
          Saving(_), Writing(_, _), Reading(_)

VARIABLES job, result

vars == <<job, result>>

-----------------------------------------------------------------------------
(* Delegates: three objects, every way they can delegate, slots from these keys. *)

Kinds == {<<"table", "table", "table">>, <<"userdata", "table", "table">>}
Slots(K, v) == {[k \in D |-> v] : D \in SUBSET K}
Acyclic(d) == LET up[o \in 0 .. 3, i \in 0 .. 3] == IF i = 0 \/ o = 0 THEN o ELSE up[d[o], i - 1] IN \A o \in 1 .. 3 : up[o, 3] = 0
Heaps(mm) ==
  {<<[kind |-> ks[1], slots |-> s1, delegate |-> d[1]], [kind |-> ks[2], slots |-> s2, delegate |-> d[2]],
     [kind |-> ks[3], slots |-> s3, delegate |-> d[3]]>> :
     ks \in Kinds, s1 \in Slots({"a"}, 1), s2 \in Slots({"a", mm}, 2), s3 \in Slots({"a", mm}, 3),
     d \in {d \in [1 .. 3 -> {0, 2, 3}] : Acyclic(d)}}
WellKept(h) == \A o \in 1 .. 3 : h[o].kind = "userdata" => h[o].slots = [k \in {} |-> 1]
Outcomes == [1 .. 3 -> {"ok", "clean", "error"}]
Lookup ==
  \E h \in {h \in Heaps("_get") : WellKept(h)}, k \in {"a", "len"}, c \in Outcomes :
    job = [subject |-> "get", h |-> h, k |-> k, calls |-> c]
Assignment ==
  \E h \in {h \in Heaps("_set") : WellKept(h)}, c \in Outcomes : job = [subject |-> "set", h |-> h, k |-> "a", calls |-> c]

-----------------------------------------------------------------------------
(* Expressions over a and b, and the texts they are matched with. *)

A == 97
B == 98
Chr(c) == <<"chr", c>>
Rep(x, lo, hi) == <<"rep", x, lo, hi>>
Grp(x) == <<"grp", <<x>> >>
Or(x, y) == <<"grp", <<x, y>> >>
Singles == {Chr(A), Chr(B), <<"dot">>, <<"word">>, <<"bal", A, B>>, <<"cls", TRUE, << <<A, A>> >> >>, <<"cls", FALSE, << <<A, B>>, <<95, 95>> >> >>}
Bounds == {<<0, Infinity>>, <<1, Infinity>>, <<0, 1>>, <<2, 2>>, <<1, 2>>, <<2, Infinity>>}
Repeated(X) == {Rep(x, b[1], b[2]) : x \in X, b \in Bounds}
Simple == Singles \cup Repeated({Chr(A), Chr(B), <<"dot">>})
Grouped == {Grp(<<x>>) : x \in Simple} \cup {Grp(<<x, y>>) : x, y \in {Chr(A), Chr(B), Rep(Chr(A), 0, Infinity), Rep(Chr(B), 0, 1)}}
           \cup {Or(<<x>>, <<y, z>>) : x, y, z \in {Chr(A), Chr(B), Rep(Chr(A), 1, Infinity)}}
           \cup {<<"ncg", << <<Grp(<<Chr(A)>>), x>> >> >> : x \in Simple}
Elements == Simple \cup Grouped \cup Repeated({Grp(<<Chr(A), Chr(B)>>), Grp(<<Rep(Chr(A), 0, 1)>>), Or(<<Chr(A)>>, <<Chr(B), Chr(B)>>)})
Expressions ==
  {<< <<x>> >> : x \in Elements} \cup {<< <<x, y>> >> : x \in Elements, y \in Simple \cup {Grp(<<Chr(B)>>), <<"eol">>}}
  \cup {<< <<Rep(x, 0, Infinity), y, z>> >> : x \in {Chr(A), <<"dot">>, Grp(<<Chr(A)>>)}, y \in Simple, z \in {Chr(B), Grp(<<Chr(A)>>), Rep(Chr(B), 0, 1)}}
  \cup {<< <<x>>, <<y, Chr(A)>> >> : x \in Elements, y \in Singles}
  \cup {<< << <<"bol">>, x, <<"eol">> >> >> : x \in Elements}
Texts == UNION {[1 .. n -> {A, B}] : n \in 0 .. 3}
Searched == \E s \in {"match", "search"}, e \in Expressions, t \in Texts : job = [subject |-> s, expr |-> e, text |-> t]

-----------------------------------------------------------------------------
(* Sorts: an array, whether the comparison orders it, and whether it has been resized. *)

Arrays == UNION {[0 .. n - 1 -> 1 .. SortKeys] : n \in 2 .. SortLen}
SizeOf(a) == Cardinality(DOMAIN a)
Sorting ==
  \E func \in BOOLEAN :
    \/ \E a \in Arrays : job = [subject |-> "sort", before |-> a, ordered |-> TRUE, resized |-> FALSE, q |-> StartSort(a, SizeOf(a), func)]
    \/ \E n \in 2 .. SortLen : \E a \in {[i \in 0 .. n - 1 |-> i + 1]} :
         job = [subject |-> "sort", before |-> a, ordered |-> FALSE, resized |-> FALSE, q |-> StartSort(a, n, func)]
Sign(x) == IF x < 0 THEN -1 ELSE IF x > 0 THEN 1 ELSE 0

-----------------------------------------------------------------------------
(* Closures, with what may be cut off or spoilt of their streams. *)

Str(s) == <<"str">> \o s
Plain(lits, pars, outs, locs, lines, defs, funs) ==
  [sourcename |-> Str(<<7>>), name |-> <<"null">>, literals |-> lits, parameters |-> pars, outervalues |-> outs,
   localvarinfos |-> locs, lineinfos |-> lines, defaultparams |-> defs, instructions |-> <<40, 41>>, functions |-> funs,
   stacksize |-> 3, bgenerator |-> 0, varparams |-> 1]
Outer(n) == [type |-> n, src |-> <<"int", 2>>, name |-> Str(<<5, 6>>)]
LocalVar == [name |-> Str(<<5>>), pos |-> 1, start_op |-> 2, end_op |-> 3]
Inner == {Plain(l, p, o, <<LocalVar>>, <<1, 2>>, <<>>, <<>>) :
            l \in {<<>>, <<Str(<<>>), <<"int", 4>> >>}, p \in {<<>>, <<Str(<<1>>)>>}, o \in {<<>>, <<Outer(0), Outer(1)>>}}
Protos == Inner \cup {Plain(<< <<"bool", 1>>, <<"null">> >>, <<Str(<<1>>)>>, <<>>, locs, <<>>, defs, funs) :
                        locs \in {<<>>, <<LocalVar, LocalVar>>}, defs \in {<<>>, <<0>>},
                        funs \in {<<>>} \cup {<<f>> : f \in Inner} \cup {<<f, g>> : f, g \in Inner}}
\* A closure of the function, with values for its default parameters.
ClosureOf(f) == [function |-> f, defaultparams |-> [i \in DOMAIN f.defaultparams |-> <<"int", 9>>]]
Streaming == \E f \in Protos : job = [subject |-> "stream", c |-> ClosureOf(f)]

-----------------------------------------------------------------------------
(* Texts: short ones over small alphabets, and strings put together of pieces. *)

MCKeywords == {<<"i", "n">>}
Words(S, n) == UNION {[1 .. k -> S] : k \in 1 .. n}
LexTexts ==
  Words({"/", "*", "\n", "a", " ", "#"}, 5) \cup Words({"<", "=", ">", "-", "/", ".", "+", "a"}, 4)
  \cup Words({"0", "1", "8", ".", "e", "x", "+", "a"}, 5) \cup Words({"i", "n", "_", "1", "\n", "}", "\t"}, 4)
  \cup Words({"!", "=", "|", "&", ":", "%", "@", "(", "^", "?", "\f", "*", "-"}, 3)
Lexed == \E t \in LexTexts : job = [subject |-> "lex", text |-> t]

\* How a piece of a string is written, and what it stands for.
Bytes(bs) == [i \in DOMAIN bs |-> <<"byte", bs[i]>>]
Piece(w, v) == [written |-> w, stands |-> v, ok |-> TRUE]
BrokenPiece(w) == [written |-> w, stands |-> <<>>, ok |-> FALSE]
Unicode(u, digits, n, width) ==
  Piece(<<"\\", u>> \o digits, IF n < 128 THEN Bytes(<<n>>) ELSE [k \in 1 .. width |-> <<"utf8", n, k>>])
EscapePieces == {Piece(<<"\\", c>>, << <<"esc", c>> >>) : c \in {"n", "0", "\"", "\\", "'"}}
PlainPieces ==
  EscapePieces \cup
  {Piece(<<"a">>, << <<"chr", "a">> >>), Piece(<<"@">>, << <<"chr", "@">> >>),
   Piece(<<"\\", "x", "4", "1">>, Bytes(<<65>>)), Piece(<<"\\", "x", "f", "F">>, Bytes(<<255>>)),
   Unicode("u", <<"0", "0", "7", "f">>, 127, 1), Unicode("u", <<"0", "0", "8", "0">>, 128, 2),
   Unicode("u", <<"0", "7", "f", "f">>, 2047, 2), Unicode("u", <<"0", "8", "0", "0">>, 2048, 3),
   Unicode("u", <<"f", "f", "f", "f">>, 65535, 3), Unicode("U", <<"0", "0", "0", "1", "0", "0", "0", "0">>, 65536, 4),
   Unicode("U", <<"0", "0", "1", "0", "f", "f", "f", "f">>, 1114111, 4), Unicode("U", <<"0", "0", "1", "1", "0", "0", "0", "0">>, 1114112, 0),
   BrokenPiece(<<"\n">>), BrokenPiece(<<"\\", "q">>), BrokenPiece(<<"\\", "x", "g">>), BrokenPiece(<<"\\", "u", "g">>)}
VerbatimPieces ==
  {Piece(<<"a">>, << <<"chr", "a">> >>), Piece(<<"\n">>, << <<"chr", "\n">> >>), Piece(<<"\\">>, << <<"chr", "\\">> >>),
   Piece(<<"\"", "\"">>, << <<"chr", "\"">> >>), Piece(<<"'">>, << <<"chr", "'">> >>)}
Quoted ==
  \E q \in {"'", "\"", "@"} : \E n \in 0 .. 2 : \E ps \in [1 .. n -> IF q = "@" THEN VerbatimPieces ELSE PlainPieces], closed \in BOOLEAN :
    job = [subject |-> "string", quote |-> q, pieces |-> ps, closed |-> closed]
Written(ps) == Concat([i \in DOMAIN ps |-> ps[i].written])
StringText(j) ==
  LET mark == IF j.quote = "@" THEN "\"" ELSE j.quote
  IN  (IF j.quote = "@" THEN <<"@">> ELSE <<>>) \o <<mark>> \o Written(j.pieces) \o IF j.closed THEN <<mark, ";", "a">> ELSE <<>>

-----------------------------------------------------------------------------
(* The runs. *)

None == [none |-> TRUE]

RunGet == job.subject = "get" /\ result = None /\ result' = Getting(job.h, 1, job.k, job.calls) /\ UNCHANGED job
RunSet == job.subject = "set" /\ result = None /\ result' = Setting(job.h, 1, job.k, "new", job.calls) /\ UNCHANGED job

RunRex ==
  /\ job.subject \in {"match", "search"} /\ result = None
  /\ \E x \in {Compiling(Show(job.expr))} :
       result' = [err |-> x.err, groups |-> x.nsub, fits |-> Len(x.nodes) <= x.room,
                  found |-> IF job.subject = "match" THEN Matching(x, job.text, NoCaptures(x)) ELSE Searching(x, job.text, NoCaptures(x))]
  /\ UNCHANGED job

RunSift == job.subject = "sort" /\ job.q.pc = "sift" /\ job' = [job EXCEPT !.q = SiftHead(@)] /\ UNCHANGED result
Comparing == job.subject = "sort" /\ job.q.pc \in {"children", "down"}
RunCompare ==
  /\ Comparing /\ Readable(job.q)
  /\ \E c \in {Compared(job.q)}, ret \in -1 .. 1 :
       /\ job.ordered => ret = Sign(job.q.arr[c[1]] - job.q.arr[c[2]])
       /\ job' = [job EXCEPT !.q = Answered(@, ret)]
  /\ UNCHANGED result
RunFailing ==
  /\ Comparing /\ Readable(job.q) /\ ~job.ordered
  /\ job' = [job EXCEPT !.q = CompareFailed(@)] /\ UNCHANGED result
\* The comparison calls a script, which takes elements away or adds one.
RunResizing ==
  /\ Comparing /\ Readable(job.q) /\ ~job.ordered
  /\ \E n \in 0 .. job.q.size + 1, ret \in -1 .. 1 :
       n # SizeOf(job.q.arr) /\ job' = [job EXCEPT !.q = CompareResized(@, n, ret), !.resized = TRUE]
  /\ UNCHANGED result
RunReadingOutside == Comparing /\ ~Readable(job.q) /\ job' = [job EXCEPT !.q = ReadOutside(@)] /\ UNCHANGED result

\* The host's stream has room for all of it or breaks off somewhere.
RunStream ==
  /\ job.subject = "stream" /\ result = None
  /\ \E full \in {Len(Saving(job.c))} : \E room \in 0 .. full :
       \E w \in {Writing(job.c, room)} :
         result' = [whole |-> room = full, spoilt |-> FALSE, wrote |-> w.ok, read |-> Reading(w.stream)]
  /\ UNCHANGED job
\* A tag is not the one that was written.
RunSpoilt ==
  /\ job.subject = "stream" /\ result = None /\ job.c.function.outervalues = <<>>
  /\ \E s \in {Saving(job.c)} : \E i \in DOMAIN s :
       /\ s[i][1] = "tag"
       /\ result' = [whole |-> TRUE, spoilt |-> TRUE, wrote |-> TRUE, read |-> Reading([s EXCEPT ![i] = Tag("spoilt")])]
  /\ UNCHANGED job

RunLex == job.subject = "lex" /\ result = None /\ result' = [calls |-> LexAll(NewLexer(job.text))] /\ UNCHANGED job
RunString == job.subject = "string" /\ result = None /\ result' = [calls |-> LexAll(NewLexer(StringText(job)))] /\ UNCHANGED job

Init == (Lookup \/ Assignment \/ Searched \/ Sorting \/ Streaming \/ Lexed \/ Quoted) /\ result = None
Next == RunGet \/ RunSet \/ RunRex \/ RunSift \/ RunCompare \/ RunFailing \/ RunResizing \/ RunReadingOutside \/ RunStream \/ RunSpoilt \/ RunLex \/ RunString
Spec == Init /\ [][Next]_vars

-----------------------------------------------------------------------------
(* A slot is read from, and written to, the nearest object of the chain of    *)
(* delegates that has it; metamethods answer only if none has (SQVM::Get,     *)
(* Set and their fall backs), and nothing else changes.                       *)
LookupsRight ==
  /\ job.subject = "get" /\ result # None => result = ShouldGet(job.h, 1, job.k, job.calls)
  /\ job.subject = "set" /\ result # None => result = ShouldSet(job.h, 1, job.k, "new", job.calls)

Straight(expr) ==
  Len(expr) = 1 /\ \A i \in DOMAIN expr[1] : expr[1][i][1] \notin {"rep", "grp", "ncg"}

(* What sqstd_rex_match and sqstd_rex_search report is a match of the         *)
(* expression, although the matcher never goes back; without repetitions and  *)
(* groups the first match is found; and a pattern compiles within the room    *)
(* that is allocated for its nodes.                                           *)
MatchesSound ==
  job.subject \in {"match", "search"} /\ result # None =>
    /\ ~result.err /\ result.fits
    /\ result.found.ok => result.found.end \in Meaning(job.expr, job.text, {result.found.begin})
    /\ job.subject = "search" /\ Straight(job.expr) =>
         \A s \in DOMAIN job.text :
           (~result.found.ok \/ s < result.found.begin) => Meaning(job.expr, job.text, {s}) = {}

(* A captured group lies where that group matches, although it was captured   *)
(* in an attempt, or while looking ahead, that came to nothing                *)
(* (OP_EXPR of sqstd_rex_matchnode).                                          *)
CapturesSound ==
  job.subject \in {"match", "search"} /\ result # None =>
    \E gs \in {Groups(job.expr)} :
      /\ result.groups = Len(gs) + 1
      /\ \A g \in DOMAIN gs : \E c \in {result.found.caps[g + 1]} :
           c.begin = 0 \/ c.begin + c.len \in Meaning(gs[g], job.text, {c.begin})

Permuted(a, b) == \A x \in 1 .. SortLen + SortKeys : Cardinality({i \in DOMAIN a : a[i] = x}) = Cardinality({i \in DOMAIN b : b[i] = x})

(* array.sort compares elements of the array only and loses none, whatever    *)
(* the comparison answers and a compare function does to the array's size;    *)
(* it sorts if the comparison orders the elements, and never blames it then   *)
(* (_hsort and _hsort_sift_down).  Without a compare function nothing notices *)
(* that a script's _cmp resizes the array (sqbaselib.cpp:786): of that sort,  *)
(* which may read and write outside of the array, nothing is said.            *)
SortsRight ==
  job.subject = "sort" /\ (job.q.func \/ ~job.resized) =>
    /\ Permuted(job.before, job.q.arr) /\ job.q.pc # "undefined"
    /\ job.q.pc \in {"children", "down"} => Readable(job.q)
    /\ job.ordered => job.q.pc # "inconsistent"
    /\ job.ordered /\ job.q.pc = "done" => \A i \in 1 .. SizeOf(job.before) - 1 : job.q.arr[i - 1] <= job.q.arr[i]

(* The function of a closure that was written is read back as it was, with    *)
(* null for the values of its default parameters; of a closure that was       *)
(* written in part, or with another tag, nothing is read (sq_writeclosure and *)
(* sq_readclosure); a closure with outer values is never written.             *)
StreamsRight ==
  job.subject = "stream" /\ result # None =>
    \E f \in {job.c.function} :
      /\ ~result.spoilt => (result.wrote <=> result.whole /\ f.outervalues = <<>>)
      /\ result.read.ok <=> result.wrote /\ ~result.spoilt
      /\ result.read.pushed =
           IF ~result.read.ok THEN <<>>
           ELSE << [job.c EXCEPT !.defaultparams = [i \in DOMAIN @ |-> <<"null">>]] >>

\* The k-th lexeme that is no blank, or the end of the text, is what the k-th call of Lex gave.
CallRight(text, segs, words, k, outs) ==
  LET l == outs[k]
      at == words[k]
      before == IF k = 1 THEN 0 ELSE words[k - 1][2]
  IN  /\ ~l.err /\ <<l.tok, l.val>> = TokenOf(SubSeq(text, at[1], at[2])) /\ l.p = at[2] + 1
      /\ l.line = 1 + NewlinesBefore(text, at[2]) /\ l.lasttokenline = 1 + NewlinesBefore(text, before)
      /\ k > 1 => (l.prev = "\n" <=> \E s \in DOMAIN segs : segs[s][1] > before /\ segs[s][2] < at[1] /\ text[segs[s][1]] = "\n")
TextRight(text, outs) ==
  \E segs \in {Lexemes(text, 1)} :
    LET Kept(s) == ~BlankWord(SubSeq(text, s[1], s[2]))
        words == SelectSeq(segs, Kept)
        n == Len(words)
        last == SubSeq(text, words[n][1], words[n][2])
        broken == n > 0 /\ BrokenWord(last, words[n][2] = Len(text))
        odd == n > 0 /\ ~broken /\ ~TokenWord(last)
    IN  /\ broken => Len(outs) = n /\ outs[n].tok = "error"
        /\ ~broken /\ ~odd => Len(outs) = n + 1 /\ outs[n + 1].tok = "end"
        /\ \A k \in 1 .. IF broken \/ odd THEN n - 1 ELSE n : CallRight(text, segs, words, k, outs)

\* The value of a character constant: a char is signed.
CharValue(x) == IF x[1] = "byte" /\ x[2] \in 128 .. 255 THEN <<"byte", x[2] - 256>> ELSE x

(* Lex gives the longest lexemes of a text with their values, fails exactly   *)
(* on broken ones, counts the lines it has passed, inside comments and        *)
(* strings too, and tells the compiler by _prevtoken whether a line ended     *)
(* before a token (SQLexer::Lex, ReadString, ReadNumber).  Nothing is said    *)
(* from a word on that looks like a number and is not in the manual's grammar.*)
TokensRight ==
  /\ job.subject = "lex" /\ result # None => TextRight(job.text, result.calls)
  /\ job.subject = "string" /\ result # None =>
       LET stands == Concat([i \in DOMAIN job.pieces |-> job.pieces[i].stands])
           good == job.closed /\ (\A i \in DOMAIN job.pieces : job.pieces[i].ok) /\ (job.quote = "'" => Len(stands) = 1)
           l == result.calls[1]
       IN  IF ~good THEN l.err
           ELSE /\ ~l.err /\ l.p = Len(StringText(job)) - 1 /\ l.line = 1 + NewlinesBefore(l.text, Len(l.text))
                /\ IF job.quote = "'" THEN l.tok = "int" /\ l.val = CharValue(stands[1]) ELSE l.tok = "str" /\ l.val = stands
                /\ Len(result.calls) = 4 /\ result.calls[3].tok = "identifier"
=============================================================================
