----------------------------- MODULE SQLanguage -----------------------------
(***************************************************************************)
(* What a program means, read off its syntax tree: every execution of a    *)
(* declaration makes a new variable, every variable has a place of its     *)
(* own, a closure holds on to the variables it names.  No registers, no    *)
(* jumps, no traps.  Behaviour is the reference the compiler and the       *)
(* machine are checked against.                                            *)
(***************************************************************************)
EXTENDS SQValues, SequencesExt

-----------------------------------------------------------------------------
(* What an expression or a statement comes to: a kind of completion, a value, *)
(* the state afterwards.  env is [vars, this], vars a sequence of names with  *)
(* the places of their variables in store.                                    *)

Done(k, v, st) == [k |-> k, v |-> v, st |-> st]
Ok(v, st) == Done("ok", v, st)
Lift(r, st) == Done(IF r.ok THEN "ok" ELSE "throw", r.v, st)
Then(r, F(_)) == IF r.k = "ok" THEN F(r) ELSE r

Place(env, name) ==
  LET at == SelectLastInSeq(env.vars, LAMBDA x : x[1] = name)
  IN  IF at = 0 THEN 0 ELSE env.vars[at][2]
Bind(env, name, st) == [env EXCEPT !.vars = Append(@, <<name, Len(st.store) + 1>>)]
Stored(st, v) == [st EXCEPT !.store = Append(@, v)]

\* A key this lacks is looked for in the root table.
Home(env, name, st) == IF Slot(st.heap, env.this, StrV(name)).ok THEN env.this ELSE Root

RECURSIVE Eval(_, _, _), Apply(_, _, _, _), Exec(_, _, _), Loop(_, _, _)

EvalAll(es, env, st) ==
  Fold(LAMBDA r, e : Then(r, LAMBDA x : Then(Eval(e, env, x.st), LAMBDA y : Ok(Append(x.v, y.v), y.st))),
           Ok(<<>>, st), es)

\* The object and key of a place that is no variable.
ObjectAndKey(e, env, st) ==
  CASE e[1] = "name" -> Ok(<<Home(env, e[2], st), StrV(e[2])>>, st)
    [] e[1] = "dot" -> Then(Eval(e[2], env, st), LAMBDA o : Ok(<<o.v, StrV(e[3])>>, o.st))
    [] e[1] = "index" -> EvalAll(<<e[2], e[3]>>, env, st)
    [] e[1] = "root" -> Ok(<<Root, StrV(e[2])>>, st)
IsVariable(e, env) == e[1] = "name" /\ Place(env, e[2]) # 0

\* The value of place e is replaced by Change(old).v; the result is new or old.
Update(e, env, st, Change(_), old) ==
  IF IsVariable(e, env)
  THEN LET p == Place(env, e[2])
           c == Change(st.store[p])
       IN  IF c.ok THEN Ok(IF old THEN st.store[p] ELSE c.v, [st EXCEPT !.store[p] = c.v]) ELSE Lift(c, st)
  ELSE Then(ObjectAndKey(e, env, st), LAMBDA ok :
         LET was == Slot(ok.st.heap, ok.v[1], ok.v[2])
             c == Change(was.v)
         IN  IF ~was.ok THEN Lift(was, ok.st)
             ELSE IF ~c.ok THEN Lift(c, ok.st)
             ELSE Ok(IF old THEN was.v ELSE c.v, [ok.st EXCEPT !.heap = WithSlot(@, ok.v[1], ok.v[2], c.v)]))

\* An assignment: object and key are evaluated before the value.
Assigned(op, e, val, env, st) ==
  LET New(x, v) == IF op = "=" THEN Good(v) ELSE Arith(op, x, v)
  IN  IF IsVariable(e, env)
      THEN Then(Eval(val, env, st), LAMBDA v : Update(e, env, v.st, LAMBDA x : New(x, v.v), FALSE))
      ELSE Then(ObjectAndKey(e, env, st), LAMBDA ok : Then(Eval(val, env, ok.st), LAMBDA v :
             LET was == Slot(v.st.heap, ok.v[1], ok.v[2])
                 new == New(was.v, v.v)
             IN  IF op = "NEWSLOT" THEN Ok(v.v, [v.st EXCEPT !.heap = WithSlot(@, ok.v[1], ok.v[2], v.v)])
                 ELSE IF ~was.ok THEN Lift(was, v.st)
                 ELSE IF ~new.ok THEN Lift(new, v.st)
                 ELSE Ok(new.v, [v.st EXCEPT !.heap = WithSlot(@, ok.v[1], ok.v[2], new.v)])))

Operate(op, op3, l, r, st) ==
  CASE op \in {"ADD", "SUB", "MUL"} -> Lift(Arith(op, l, r), st)
    [] op = "CMP" -> Lift(Compare(op3, l, r), st)
    [] op = "EQ" -> Ok(BoolV(l = r), st)
    [] op = "NE" -> Ok(BoolV(l # r), st)
    [] op = "EXISTS" -> Ok(BoolV(Slot(st.heap, r, l).ok), st)

\* Default values and the environment are evaluated where the function is made.
MakeFunction(params, body, bound, lambda, env, st) ==
  Then(EvalAll((IF bound = <<>> THEN <<>> ELSE <<bound>>) \o
               SelectSeq([i \in DOMAIN params |-> params[i][2]], LAMBDA d : d # <<>>), env, st), LAMBDA r :
    LET b == IF bound = <<>> THEN NullV ELSE r.v[1]
        ds == IF bound = <<>> THEN r.v ELSE Tail(r.v)
    IN  IF bound # <<>> /\ b[1] \notin {"tab", "arr"} THEN Lift(Bad, r.st)
        ELSE Ok(<<"clo", Len(r.st.clos) + 1>>,
                [r.st EXCEPT !.clos = Append(@, [params |-> params, body |-> body, env |-> env, lambda |-> lambda,
                                                 defaults |-> ds, bound |-> b])]))

Eval(e, env, st) ==
  CASE e[1] \in {"int", "bool", "null", "str"} -> Ok(e, st)
    [] e[1] = "name" ->
         IF IsVariable(e, env) THEN Ok(st.store[Place(env, e[2])], st)
         ELSE IF e[2] \in DOMAIN st.consts THEN Ok(st.consts[e[2]], st)
         ELSE Lift(Slot(st.heap, Home(env, e[2], st), StrV(e[2])), st)
    [] e[1] \in {"dot", "index", "root"} ->
         Then(ObjectAndKey(e, env, st), LAMBDA ok : Lift(Slot(ok.st.heap, ok.v[1], ok.v[2]), ok.st))
    [] e[1] = "bin" ->
         Then(EvalAll(<<e[4], e[5]>>, env, st), LAMBDA r : Operate(e[2], e[3], r.v[1], r.v[2], r.st))
    [] e[1] \in {"and", "or"} ->
         Then(Eval(e[2], env, st), LAMBDA x : IF IsFalse(x.v) = (e[1] = "and") THEN x ELSE Eval(e[3], env, x.st))
    [] e[1] = "cond" ->
         Then(Eval(e[2], env, st), LAMBDA x : Eval(IF IsFalse(x.v) THEN e[4] ELSE e[3], env, x.st))
    [] e[1] = "un" ->
         Then(Eval(e[3], env, st), LAMBDA x : IF e[2] = "NOT" THEN Ok(BoolV(IsFalse(x.v)), x.st) ELSE Lift(Negate(x.v), x.st))
    [] e[1] = "assign" -> Assigned(e[2], e[3], e[4], env, st)
    [] e[1] \in {"pre", "post"} ->
         Update(e[2], env, st, LAMBDA x : Arith("ADD", x, IntV(e[3])), e[1] = "post")
    [] e[1] = "delete" ->
         Then(ObjectAndKey(e[2], env, st), LAMBDA ok :
           LET was == Slot(ok.st.heap, ok.v[1], ok.v[2])
           IN  IF was.ok THEN Ok(was.v, [ok.st EXCEPT !.heap = WithoutSlot(@, ok.v[1], ok.v[2])]) ELSE Lift(was, ok.st))
    [] e[1] = "array" ->
         \* the array exists before its elements are evaluated
         Then(EvalAll(e[2], env, [st EXCEPT !.heap = Append(@, <<>>)]), LAMBDA r :
           Ok(<<"arr", Len(st.heap) + 1>>, [r.st EXCEPT !.heap[Len(st.heap) + 1] = r.v]))
    [] e[1] = "table" ->
         LET t == <<"tab", Len(st.heap) + 1>>
             Add(r, s) == Then(r, LAMBDA x : Then(EvalAll(<<s[1], s[2]>>, env, x.st), LAMBDA y :
                            Ok(t, [y.st EXCEPT !.heap = WithSlot(@, t, y.v[1], y.v[2])])))
         IN  Fold(Add, Ok(t, [st EXCEPT !.heap = Append(@, NoSlots)]), e[2])
    [] e[1] = "fun" -> MakeFunction(e[2], e[3], e[4], e[5], env, st)
    [] e[1] = "call" ->
         LET method == e[2][1] \in {"dot", "index"}
             f == IF method
                  THEN Then(ObjectAndKey(e[2], env, st), LAMBDA ok :
                         Then(Lift(Slot(ok.st.heap, ok.v[1], ok.v[2]), ok.st), LAMBDA x : Ok(<<x.v, ok.v[1]>>, x.st)))
                  ELSE Then(Eval(e[2], env, st), LAMBDA x : Ok(<<x.v, env.this>>, x.st))
         IN  Then(f, LAMBDA x : Then(EvalAll(e[3], env, x.st), LAMBDA a : Apply(x.v[1], x.v[2], a.v, a.st)))

\* A call: the parameters are new variables, missing arguments the last defaults.
Apply(f, this, args, st) ==
  IF f = <<"nat", "out">> THEN Ok(NullV, [st EXCEPT !.trace = Append(@, Shown(args[1]))])
  ELSE IF f = <<"nat", "in">>
  THEN IF st.inputs = <<>> THEN Done("halt", NullV, st)
       ELSE Ok(BoolV(Head(st.inputs)), [st EXCEPT !.inputs = Tail(@)])
  ELSE IF f[1] # "clo" THEN Lift(Bad, st)
  ELSE LET c == st.clos[f[2]]
           var == c.params # <<>> /\ Last(c.params)[1] = "vargv"
           need == IF var THEN Len(c.params) - 1 ELSE Len(c.params)
           missing == need - Len(args)
           all == IF var THEN Append(SubSeq(args, 1, need), <<"arr", Len(st.heap) + 1>>)
                  ELSE args \o SubSeq(c.defaults, Len(c.defaults) - missing + 1, Len(c.defaults))
           self == IF c.bound = NullV THEN this ELSE c.bound
           names == <<"this">> \o [i \in DOMAIN c.params |-> c.params[i][1]]
           env == [vars |-> c.env.vars \o [i \in DOMAIN names |-> <<names[i], Len(st.store) + i>>], this |-> self]
           in == [st EXCEPT !.store = @ \o <<self>> \o all,
                            !.heap = IF var THEN Append(@, SubSeq(args, need + 1, Len(args))) ELSE @]
           r == IF c.lambda THEN Eval(c.body, env, in) ELSE Exec(c.body, env, in)
       IN  IF (missing < 0 /\ ~var) \/ missing > Len(c.defaults) THEN Lift(Bad, st)
           ELSE IF r.k = "ok" /\ ~c.lambda THEN Ok(NullV, r.st)
           ELSE IF r.k = "return" THEN Ok(r.v, r.st) ELSE Done(r.k, r.v, r.st)

-----------------------------------------------------------------------------
(* Statements carry the environment on; a block's declarations end with it. *)

Leave(r, env) == [k |-> r.k, v |-> r.v, st |-> r.st, env |-> env]

ExecAll(ss, env, st) ==
  Fold(LAMBDA r, s : IF r.k = "ok" THEN Exec(s, r.env, r.st) ELSE r, Leave(Ok(NullV, st), env), ss)

\* A loop [test, step, body] whose test comes first unless late.
Loop(l, env, st) ==
  LET test == IF l.test = <<>> \/ l.late THEN Ok(BoolV(TRUE), st) ELSE Eval(l.test, env, st)
      body == Exec(l.body, env, test.st)
      again == IF l.step # <<>> THEN Eval(l.step, env, body.st)
               ELSE IF l.late THEN Eval(l.test, env, body.st) ELSE Ok(NullV, body.st)
  IN  IF test.k # "ok" THEN test
      ELSE IF IsFalse(test.v) THEN Ok(NullV, test.st)
      ELSE IF body.k = "break" THEN Ok(NullV, body.st)
      ELSE IF body.k \notin {"ok", "continue"} THEN body
      ELSE IF again.k # "ok" THEN again
      ELSE IF l.late /\ IsFalse(again.v) THEN Ok(NullV, again.st)
      ELSE Loop(l, env, again.st)

Each(s, env, st, elems) ==
  LET i == Len(st.store) + 1
      in == Bind(Bind(env, s[2], st), s[3], Stored(st, NullV))
      Turn(r, n) ==
        IF r.k # "ok" THEN r
        ELSE LET b == Exec(s[5], in, [r.st EXCEPT !.store[i] = IntV(n - 1), !.store[i + 1] = elems[n]])
             IN  IF b.k = "continue" THEN Ok(NullV, b.st) ELSE b
      r == Fold(Turn, Ok(NullV, Stored(Stored(st, NullV), NullV)), [n \in DOMAIN elems |-> n])
  IN  IF r.k = "break" THEN Ok(NullV, r.st) ELSE r

\* Cases are tried in order; from the one that matches on, all blocks are run.
Choice(s, env, st) ==
  LET First(v, st0) ==
        Fold(LAMBDA r, k : IF r.k # "ok" \/ r.hit THEN r
                               ELSE LET x == Eval(k[1], env, r.st)
                                    IN  [k |-> x.k, v |-> x.v, st |-> x.st, hit |-> x.k = "ok" /\ x.v = v,
                                         n |-> r.n + 1],
                 [k |-> "ok", v |-> NullV, st |-> st0, hit |-> FALSE, n |-> 0], s[3])
      Run(f) ==
        LET from == IF f.hit THEN f.n ELSE Len(s[3]) + 1
            bodies == [i \in DOMAIN s[3] |-> s[3][i][2]] \o <<s[4]>>
        IN  Fold(LAMBDA r, b : IF r.k = "ok" THEN Exec(<<"block", b>>, env, r.st) ELSE r,
                     Ok(NullV, f.st), SubSeq(bodies, from, Len(bodies)))
      r == Then(Eval(s[2], env, st), LAMBDA v : LET f == First(v.v, v.st)
                                                IN  IF f.k = "ok" THEN Run(f) ELSE Done(f.k, f.v, f.st))
  IN  IF r.k = "break" THEN Ok(NullV, r.st) ELSE r

Exec(s, env, st) ==
  CASE s[1] = "empty" -> Leave(Ok(NullV, st), env)
    [] s[1] = "expr" -> Leave(Eval(s[2], env, st), env)
    [] s[1] = "block" -> Leave(ExecAll(s[2], env, st), env)
    [] s[1] = "local" ->
         LET r == IF s[3] = <<>> THEN Ok(NullV, st) ELSE Eval(s[3], env, st)
         IN  IF r.k = "ok" THEN Leave(Ok(NullV, Stored(r.st, r.v)), Bind(env, s[2], r.st)) ELSE Leave(r, env)
    [] s[1] = "localfun" ->
         LET r == MakeFunction(s[3], s[4], s[5], FALSE, env, st)
         IN  IF r.k = "ok" THEN Leave(Ok(NullV, Stored(r.st, r.v)), Bind(env, s[2], r.st)) ELSE Leave(r, env)
    [] s[1] = "function" ->
         LET r == MakeFunction(s[3], s[4], s[5], FALSE, env, st)
         IN  IF r.k = "ok" THEN Leave(Ok(NullV, [r.st EXCEPT !.heap = WithSlot(@, env.this, StrV(s[2][1]), r.v)]), env)
             ELSE Leave(r, env)
    [] s[1] = "if" ->
         Leave(Then(Eval(s[2], env, st), LAMBDA x :
                 IF ~IsFalse(x.v) THEN Exec(s[3], env, x.st)
                 ELSE IF s[4] = <<>> THEN Ok(NullV, x.st) ELSE Exec(s[4], env, x.st)), env)
    [] s[1] = "while" -> Leave(Loop([test |-> s[2], step |-> <<>>, body |-> s[3], late |-> FALSE], env, st), env)
    [] s[1] = "do" -> Leave(Loop([test |-> s[3], step |-> <<>>, body |-> s[2], late |-> TRUE], env, st), env)
    [] s[1] = "for" ->
         LET i == CASE s[2] = <<>> -> Leave(Ok(NullV, st), env)
                    [] s[2] # <<>> /\ s[2][1] = "local" -> Exec(s[2], env, st)
                    [] OTHER -> Leave(Eval(s[2], env, st), env)
         IN  Leave(IF i.k = "ok"
                   THEN Loop([test |-> s[3], step |-> s[4], body |-> s[5], late |-> FALSE], i.env, i.st) ELSE i, env)
    [] s[1] = "foreach" ->
         Leave(Then(Eval(s[4], env, st), LAMBDA x :
                 IF x.v[1] # "arr" THEN Lift(Bad, x.st) ELSE Each(s, env, x.st, x.st.heap[x.v[2]])), env)
    [] s[1] = "switch" -> Leave(Choice(s, env, st), env)
    [] s[1] = "try" ->
         LET b == Exec(s[2], env, st)
         IN  Leave(IF b.k = "throw" THEN Exec(s[4], Bind(env, s[3], b.st), Stored(b.st, b.v)) ELSE b, env)
    [] s[1] = "throw" -> Leave(Then(Eval(s[2], env, st), LAMBDA x : Done("throw", x.v, x.st)), env)
    [] s[1] = "return" ->
         Leave(Then(IF s[2] = <<>> THEN Ok(NullV, st) ELSE Eval(s[2], env, st), LAMBDA x : Done("return", x.v, x.st)), env)
    [] s[1] = "const" ->
         Leave(Ok(NullV, [st EXCEPT !.consts = Fold(LAMBDA c, k : [x \in DOMAIN c \cup {k[1]} |-> IF x = k[1] THEN k[2] ELSE c[x]], @, s[2])]), env)
    [] s[1] \in {"break", "continue"} -> Leave(Done(s[1], NullV, st), env)

\* What the host sees of program ss when in() gives these answers.
Behaviour(ss, inputs) ==
  LET st == [store |-> <<Root, NullV>>, heap |-> <<RootTable, <<>>>>, clos |-> <<>>, consts |-> NoSlots,
             trace |-> <<>>, inputs |-> inputs]
      r == ExecAll(ss, [vars |-> << <<"this", 1>>, <<"vargv", 2>> >>, this |-> Root], st)
  IN  [trace |-> r.st.trace,
       status |-> CASE r.k \in {"ok", "return"} -> "done" [] r.k = "throw" -> "uncaught" [] r.k = "halt" -> "blocked"]
=============================================================================
