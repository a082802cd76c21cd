------------------------------ MODULE MCSQCode ------------------------------
(* Programs for SQExecute: families of small ones that put the constructs of *)
(* the language inside each other.                                           *)
EXTENDS SQExecute, SQCompiler, SQLanguage

V(n) == <<"name", n>>
K(n) == <<"int", n>>
Fn(f, as) == <<"call", V(f), as, <<>> >>
In == Fn("in", <<>>)
X == V("x")
Do(e) == <<"expr", e>>
Out(e) == Do(Fn("out", <<e>>))
Set(p, e) == <<"assign", "=", p, e>>
Plus(a, b) == <<"bin", "ADD", 0, a, b>>
Less(a, b) == <<"bin", "CMP", 3, a, b>>
Local(n, e) == <<"local", n, e>>
B(ss) == <<"block", ss>>
If(c, s) == <<"if", c, s, <<>> >>
Lambda(ps, e) == <<"fun", ps, e, <<>>, TRUE>>
Fun(ps, ss) == <<"fun", ps, B(ss), <<>>, FALSE>>
P(n) == <<n, <<>> >>

\* local x = 1, f = null before; x and what f makes of its variable after.
Main(ss) == << Local("x", K(1)), Local("f", <<>>) >> \o ss
            \o << Out(X), If(V("f"), B(<<Out(Fn("f", <<>>)), Out(Fn("f", <<>>))>>)) >>

\* f captures a variable of the block around.
Capture == << Local("z", X), Do(Set(V("f"), Lambda(<<>>, <<"pre", V("z"), 1>>))) >>

Brk == If(In, <<"break">>)
Cont == If(In, <<"continue">>)
Ret == If(In, <<"return", X>>)
Thr == If(In, <<"throw", X>>)
Inc == Do(<<"post", X, 1>>)
Plain == << <<Out(X), Inc>>, <<B(Capture)>> >>
Ending == << <<Ret, Inc>>, <<Inc, Thr, Out(K(9))>> >>
Leaving == << <<Brk, Inc>>, <<Cont, Out(X), Inc>>, <<B(<<Inc, Brk>>), Out(X)>> >>

\* All results of Op on the elements of s: one each, or equally many.
Map(Op(_), s) == [i \in DOMAIN s |-> Op(s[i])]
Flat(Op(_), s) ==
  LET k == Len(Op(s[1])) IN [n \in 1 .. Len(s) * k |-> Op(s[(n - 1) \div k + 1])[((n - 1) % k) + 1]]

\* Loops around a body, whose block may capture before it jumps.
Loops(b) ==
  << <<"while", In, b>>, <<"do", b, In>>,
     <<"for", Local("i", K(0)), Less(V("i"), K(2)), <<"post", V("i"), 1>>, b>>,
     <<"for", Set(X, K(0)), Less(X, K(3)), Set(X, Plus(X, K(2))), b>>,
     <<"for", <<>>, In, <<>>, b>>,
     <<"foreach", "i", "v", <<"array", <<K(7), X>> >>, b>> >>

\* Other statements around bodies.
Around(b) ==
  << <<"if", In, b, B(<<Inc>>)>>, <<"if", Less(X, K(2)), B(<<Inc>>), b>>,
     <<"switch", X, << <<K(1), <<b>> >>, <<K(2), <<Inc>> >> >>, <<Out(K(8))>> >>,
     <<"switch", X, << <<K(1), <<Inc, Brk>> >>, <<V("g"), <<Out(K(5))>> >> >>, <<b>> >>,
     <<"try", b, "e", B(<<Out(V("e"))>>)>>,
     <<"try", B(<<Do(Set(X, Plus(X, <<"null">>)))>>), "e", b>> >>

\* A body inside a function that is called: with an argument and a default.
Called(b) ==
  << << <<"localfun", "h", <<P("x"), <<"d", X>> >>, b, <<>> >>, Out(Fn("h", <<K(2)>>)) >>,
     << <<"function", <<"h">>, <<P("x"), P("vargv")>>, b, <<>> >>, Out(Fn("h", <<K(2), K(3)>>)) >>,
     << Local("r", <<"fun", <<>>, b, <<>>, FALSE>>), Out(Fn("r", <<>>)) >> >>

LoopsOf(ss) == Loops(B(ss))
AroundOf(ss) == Around(B(ss))
Nested1 == Map(B, Plain \o Ending) \o Flat(LoopsOf, Plain \o Leaving)
           \o Flat(LoopsOf, << Capture \o <<Brk>>, Capture \o <<Cont, Inc>> >>)
           \o Flat(AroundOf, Plain \o Ending)
Nested2 == Flat(LAMBDA s : Loops(B(<<s, Out(X)>>)), Flat(AroundOf, Leaving \o Ending))
           \o Flat(LAMBDA s : Around(B(<<s, Out(X)>>)), Nested1)
Functions == Flat(LAMBDA ss : Called(B(ss \o <<Out(X)>>)), Plain \o Ending \o Map(LAMBDA s : <<s>>, Nested1))

\* Expressions, in each place that folds its instructions in its own way.
T == V("t")
F0 == Fn("f", <<>>)
Atoms == << K(2), X, V("g"), In, <<"dot", T, "a">>, <<"index", V("a"), K(1)>> >>
Pairs(Op(_, _), s, t) == Flat(LAMBDA x : Map(LAMBDA y : Op(x, y), t), s)
Exprs ==
  Pairs(Plus, Append(Atoms, F0), Atoms) \o Pairs(Less, Append(Atoms, F0), <<K(2), X>>)
  \o Pairs(LAMBDA l, r : <<"and", l, r>>, <<In, Less(X, K(2)), F0>>, <<X, In, Less(K(0), X), K(0)>>)
  \o Pairs(LAMBDA l, r : <<"or", l, r>>, <<In, Less(X, K(2)), F0>>, <<X, In, Less(K(0), X), K(0)>>)
  \o Pairs(LAMBDA c, r : <<"cond", c, r[1], r[2]>>, <<In, <<"un", "NOT", In>>, Less(X, V("g"))>>,
           Pairs(LAMBDA a, b : <<a, b>>, <<X, K(3), Set(X, K(4))>>, <<In, V("g"), <<"un", "NEG", X>> >>))
  \o Pairs(LAMBDA p, r : <<"assign", r[1], p, r[2]>>,
           <<X, V("g"), <<"dot", T, "a">>, <<"index", V("a"), K(0)>>, <<"dot", T, "n">> >>,
           Pairs(LAMBDA o, e : <<o, e>>, <<"=", "ADD">>, <<K(2), X, F0, <<"cond", In, K(1), X>> >>))
  \o Pairs(LAMBDA k, p : <<k, p, 1>>, <<"pre", "post">>, <<X, V("g"), <<"dot", T, "a">>, <<"index", V("a"), X>> >>)
  \o << <<"assign", "NEWSLOT", <<"dot", T, "n">>, X>>, <<"delete", <<"dot", T, "a">> >>,
        <<"bin", "EXISTS", 0, <<"str", "a">>, T>>, <<"bin", "EQ", 0, X, K(1)>>,
        <<"bin", "NE", 0, <<"str", "a">>, <<"str", "b">> >>, <<"bin", "EQ", 0, <<"dot", T, "s">>, <<"str", "b">> >>,
        <<"call", <<"dot", T, "m">>, <<X, F0>>, <<>> >>, <<"index", <<"array", <<X, F0, X>> >>, K(1)>>,
        <<"call", Lambda(<<P("p")>>, Plus(V("p"), X)), <<K(3)>>, <<>> >>, <<"root", "g">>, Fn("g", <<>>) >>
Context(s) ==
  << Local("x", K(1)), Local("f", Lambda(<<>>, <<"assign", "ADD", X, K(1)>>)),
     Local("a", <<"array", <<K(1), X, <<"bool", TRUE>>, <<"str", "b">> >> >>),
     Local("t", <<"table", << <<<<"str", "a">>, X>>, <<<<"str", "s">>, <<"str", "b">> >>,
                              <<<<"str", "m">>, Fun(<<P("p"), P("q")>>,
                                  << <<"return", Plus(V("p"), <<"dot", V("this"), "a">>)>> >>)>> >> >>) >>
  \o s \o << Out(X), Out(V("g")), Out(<<"dot", T, "a">>), Out(<<"index", V("a"), K(0)>>) >>
InPlaces(e) ==
  << <<Out(e)>>, <<Local("r", e), Out(V("r"))>>, <<If(e, Out(K(6)))>>, <<Do(e)>>,
     <<Local("h", Fun(<<>>, <<Local("y", X), <<"return", e>> >>)), Out(Fn("h", <<>>))>> >>
Expressions == Map(Context, Flat(InPlaces, Exprs))

\* Recursion, tail calls, variables captured through two functions.
Rec(e) == << <<"function", <<"h">>, <<P("n"), P("k")>>,
               B(<<If(Less(V("n"), K(1)), <<"return", V("k")>>), <<"return", e>>>>), <<>> >>,
             Out(Fn("h", <<K(3), K(0)>>)) >>
Down == Plus(V("n"), K(-1))
Deep == << Rec(Fn("h", <<Down, Plus(V("k"), V("n"))>>)),
          Rec(Plus(V("n"), Fn("h", <<Down, V("k")>>))),
          Rec(Fn("h", <<Down, Lambda(<<>>, V("n"))>>)),
          << Local("fs", <<"array", <<<<"null">>, <<"null">>>>>>),
             <<"for", Local("i", K(0)), Less(V("i"), K(2)), <<"post", V("i"), 1>>,
               B(<<Local("j", V("i")),
                   Do(Set(<<"index", V("fs"), V("i")>>,
                          Fun(<<>>, <<<<"return", Lambda(<<>>, Plus(<<"pre", V("j"), 1>>, K(0)))>>>>)))>>)>>,
             Local("p", <<"call", <<"index", V("fs"), K(0)>>, <<>>, <<>>>>), Local("q", <<"call", <<"index", V("fs"), K(1)>>, <<>>, <<>>>>),
             Out(Fn("p", <<>>)), Out(Fn("q", <<>>)), Out(Fn("p", <<>>)) >>,
          << Local("c", K(0)), <<"localfun", "up", <<>>, B(<<Do(<<"assign", "ADD", V("c"), K(1)>>), <<"return", V("c")>>>>), <<>>>>,
             <<"function", <<"h">>, <<P("n")>>, B(<<Local("w", V("n")), Local("s", Lambda(<<>>, <<"post", V("w"), 1>>)),
                If(Less(V("n"), K(3)), <<"return", Fn("h", <<Plus(V("n"), Fn("s", <<>>))>>)>>), Do(Fn("s", <<>>)), <<"return", Plus(V("w"), K(0))>>>>), <<>>>>,
             Out(Fn("up", <<>>)), Out(Fn("h", <<K(1)>>)), Out(Fn("up", <<>>)), Out(V("c")) >>,
          << <<"const", << <<"C", K(4)>> >> >>, Local("x", V("C")), Out(Plus(X, V("C"))), Out(<<"un", "NEG", V("C")>>) >>,
          << Local("t", <<"table", << <<<<"str", "v">>, K(6)>> >> >>),
             Local("m", <<"fun", << <<"p", K(1)>> >>, B(<<<<"return", Plus(V("v"), V("p"))>>>>), T, FALSE>>), Out(Fn("m", <<>>)), Out(Fn("m", <<K(2)>>)),
             <<"try", B(<<Out(Fn("m", <<K(1), K(2)>>))>>), "e", Out(V("e"))>> >> >>

ToRun == Map(LAMBDA s : Main(<<s>>), Nested1 \o Nested2) \o Map(Main, Functions) \o Expressions \o Deep

\* Programs of which only the code is looked at.
Class(parent, attrs, body) == <<"class", parent, attrs, body>>
Field(k, v, static, attrs) == << <<"str", k>>, v, static, attrs>>
Attr == << << <<"str", "d">>, K(1)>> >>
ToCompile == <<
  << <<"classdecl", V("A"), Class(<<>>, Attr, <<Field("v", K(1), TRUE, Attr), Field("m", Fun(<<>>, <<>>), FALSE, <<>>)>>)>>,
     <<"classdecl", V("D"), Class(V("A"), <<>>, <<Field("m", Fun(<<>>, <<<<"return", <<"call", <<"dot", <<"base">>, "m">>, <<>>, <<>>>>>>>>), FALSE, <<>>)>>)>>,
     Out(<<"bin", "INSTANCEOF", 0, Fn("D", <<>>), V("A")>>) >>,
  << <<"function", <<"gen">>, <<P("n")>>, B(<<<<"foreach", "i", "v", V("n"), B(<<<<"yield", V("v")>>>>)>>, <<"yield", <<>>>>>>), <<>>>>,
     Out(<<"un", "RESUME", Fn("gen", <<<<"array", <<K(1)>>>>>>)>>) >>,
  << Do(<<"rawcall", <<V("out"), V("this"), K(1)>>>>), Do(<<"call", V("in"), <<K(1)>>, << <<<<"str", "a">>, K(2)>>, <<<<"str", "b">>, X>> >>>>),
     Do(<<"un", "CLONE", <<"table", <<>>>>>>), Do(<<"un", "TYPEOF", V("this")>>), Do(<<"un", "BWNOT", K(1)>>),
     Do(<<"bin", "BITW", 1, K(1), <<"bin", "DIV", 0, K(4), <<"bin", "MOD", 0, K(3), K(2)>>>>>>) >>,
  << <<"function", <<"A", "m">>, <<>>, B(<<>>), <<>>>>, <<"empty">>, Do(<<"comma", <<In, X, K(1)>>>>) >> >>

\* function h(i, n) { for(; i < n; ) { i += 1; in(); } out(i); }  h(0, 1)
LoopFirst ==
  << <<"function", <<"h">>, <<P("i"), P("n")>>,
       B(<< <<"for", <<>>, Less(V("i"), V("n")), <<>>, B(<<Do(<<"assign", "ADD", V("i"), K(1)>>), Do(In)>>)>>,
            Out(V("i")) >>), <<>> >>,
     Do(Fn("h", <<K(0), K(1)>>)) >>

MCLoopFirst(kind) == IF kind = "run" THEN <<LoopFirst>> ELSE <<>>
MCPrograms(kind) == IF kind = "run" THEN ToRun ELSE ToCompile
=============================================================================
