----------------------------- MODULE SQCompiler -----------------------------
(***************************************************************************)
(* The compiler, squirrel/sqcompiler.cpp: one operator per function of the *)
(* parser, from a syntax tree to the instructions it emits.  A tree stands *)
(* for the tokens it is written with, so Lex and Expect are left out, and  *)
(* the look-ahead that NeedGet takes (_token) is the parameter nt, the     *)
(* token after the expression.  The compiler's state c is the chain of     *)
(* function states c.fss (the last is _fs), _scope, _es, the table of      *)
(* constants and whether Error was called, which ends the compilation.     *)
(***************************************************************************)
EXTENDS SQFuncState

F(c) == Last(c.fss)
With(c, fs) == [c EXCEPT !.fss[Len(c.fss)] = fs, !.err = @ \/ fs.error]
Error(c) == [c EXCEPT !.err = TRUE]

Push(c) == With(c, PushTarget(F(c)))
Pop(c) == With(c, PopTarget(F(c)))
Top(c) == TopTarget(F(c))
Pos(c) == GetCurrentPos(F(c))
Snooze(c) == With(c, SnoozeOpt(F(c)))
Emit(c, op, a0, a1, a2, a3) == With(c, AddInstruction(F(c), Instr(op, a0, a1, a2, a3), Len(c.fss) > 1))
\* AddInstruction(op, PushTarget(), ...)
EmitPush(c, op, a1, a2, a3) == LET p == Push(c) IN Emit(p, op, Top(p), a1, a2, a3)
\* AddInstruction(op, r, ...) whose result is register r, unless it is there already
MoveTo(c, trg, src) == IF trg = src THEN c ELSE Emit(c, "MOVE", trg, src, 0, 0)
Patch(c, pos, val) == With(c, SetInstructionParam(F(c), pos, 1, val))
LoadConstant(c, cons) ==
  EmitPush(With(c, WithConstant(F(c), cons)), "LOAD", GetConstant(F(c), cons), 0, 0)

\* BEGIN_SCOPE, END_SCOPE, END_SCOPE_NO_CLOSE around a construct that began in c.
BeginScope(c) == [c EXCEPT !.scope = [outers |-> F(c).outers, stacksize |-> GetStackSize(F(c))]]
EndScopeNoClose(c, old) == [With(c, SetStackSize(F(c), c.scope.stacksize)) EXCEPT !.scope = old.scope]
EndScope(c, old) ==
  LET f == SetStackSize(F(c), c.scope.stacksize)
      d == With(c, f)
  IN  [IF GetStackSize(F(c)) # c.scope.stacksize /\ f.outers # F(c).outers
       THEN Emit(d, "CLOSE", 0, c.scope.stacksize, 0, 0) ELSE d EXCEPT !.scope = old.scope]

\* RESOLVE_OUTERS: what was captured since the innermost scope began is closed.
ResolveOuters(c) ==
  IF CountOuters(F(c), c.scope.stacksize) > 0
  THEN Emit(c, "CLOSE", 0, c.scope.stacksize, 0, 0) ELSE c

\* BEGIN_BREAKBLE_BLOCK and END_BREAKBLE_BLOCK around a loop that began in c.
BeginBreakable(c) ==
  With(c, [F(c) EXCEPT !.breaktargets = Append(@, 0), !.continuetargets = Append(@, 0)])
EndBreakable(c, old, target) ==
  LET nb == Len(F(c).breaks) - Len(F(old).breaks)
      nc == Len(F(c).continues) - Len(F(old).continues)
      f == ResolveBreaks(ResolveContinues(F(c), nc, target), nb)
  IN  With(c, [f EXCEPT !.breaktargets = Front(@), !.continuetargets = Front(@)])

\* Mutant: a break out of a try block leaves its trap open.
OpenTrapReturns(fs, n) == [fs EXCEPT !.traps = @ + n]

\* Traps of a try statement: return counts them all, break and continue those
\* opened since the loop began.
OpenTrap(fs, n) ==
  [fs EXCEPT !.traps = @ + n,
             !.breaktargets = IF @ = <<>> THEN @ ELSE [@ EXCEPT ![Len(@)] = @ + n],
             !.continuetargets = IF @ = <<>> THEN @ ELSE [@ EXCEPT ![Len(@)] = @ + n]]

-----------------------------------------------------------------------------
(* Expressions.  _es says how the expression parsed last can be used. *)

NoExpr == [etype |-> "EXPR", epos |-> -1, donot_get |-> FALSE]
Es(c, etype) == [c EXCEPT !.es.etype = etype]

\* Whether the value is wanted, or only the place it is in.
NeedGet(c, nt) ==
  nt \notin {"=", "(", "++"} /\ (~c.es.donot_get \/ nt = ".")

EmitDerefOp(c, op) ==
  LET v == Pop(c)
      k == Pop(v)
  IN  EmitPush(Pop(k), op, Top(k), Top(v), Top(c))

Emit2ArgsOP(c, op, p3) ==
  LET k == Pop(c) IN EmitPush(Pop(k), op, Top(k), Top(c), p3)

\* a += b by the kind of a.
EmitCompoundArith(c, op, etype, pos) ==
  CASE etype = "LOCAL" ->
         LET p == Pop(c)
             q == Pop(p)
             d == With(q, PushTargetAt(F(q), Top(p)))
         IN  Snooze(Emit(d, op, Top(p), Top(c), Top(p), 0))
    [] etype \in {"OBJECT", "BASE"} ->
         LET v == Pop(c)
             k == Pop(v)
         IN  EmitPush(Pop(k), "COMPARITH", Top(k) * 65536 + Top(c), Top(v), ArithChar(op))
    [] etype = "OUTER" ->
         LET t == Push(c)
             g == Emit(Emit(t, "GETOUTER", Top(t), pos, 0, 0), op, Top(t), Top(c), Top(t), 0)
         IN  EmitPush(Pop(Pop(g)), "SETOUTER", pos, Top(t), 0)

RECURSIVE Expression(_, _), LogicalOrExp(_, _, _), PrefixedExpr(_, _, _), Factor(_, _, _)
RECURSIVE Statement(_, _, _), CreateFunction(_, _, _, _, _)

\* CommaExpr: the values of all but the last are given up.
CommaExpr(c, es) ==
  Fold(LAMBDA d, e : Expression(Pop(d), e), Expression(c, Head(es)), Tail(es))

\* Sub-expressions are parsed with a fresh _es.
Invoke(c, e) == [LogicalOrExp([c EXCEPT !.es = NoExpr], e, "op") EXCEPT !.es = c.es]

\* Assignment e = <<"assign", op, place, value>>.
Assign(c, e) ==
  LET l == LogicalOrExp(c, e[3], "=")
      ds == l.es.etype
      r == Expression(l, e[4])
      src == Pop(r)
  IN  CASE ds \in {"EXPR", "BASE"} -> Error(l)
        [] e[2] = "NEWSLOT" -> IF ds = "OBJECT" THEN EmitDerefOp(r, "NEWSLOT") ELSE Error(r)
        [] e[2] = "=" /\ ds = "LOCAL" -> Emit(src, "MOVE", Top(src), Top(r), 0, 0)
        [] e[2] = "=" /\ ds = "OBJECT" -> EmitDerefOp(r, "SET")
        [] e[2] = "=" /\ ds = "OUTER" -> EmitPush(src, "SETOUTER", l.es.epos, Top(r), 0)
        [] OTHER -> EmitCompoundArith(r, e[2], ds, l.es.epos)

\* e = <<"cond", condition, first, second>>.
Conditional(c, e) ==
  LET x == LogicalOrExp(c, e[2], "op")
      z == Emit(Pop(x), "JZ", Top(x), 0, 0, 0)
      t == Push(z)
      a == Expression(t, e[3])
      m == MoveTo(Pop(a), Top(t), Top(a))
      j == Emit(m, "JMP", 0, 0, 0, 0)
      b == Expression(j, e[4])
      n == MoveTo(Pop(b), Top(t), Top(b))
  IN  Snooze(Patch(Patch(n, Pos(j), Pos(n) - Pos(j)), Pos(z), Pos(m) - Pos(z) + 1))

Expression(c, e) ==
  IF c.err THEN c ELSE
  LET d == [c EXCEPT !.es = NoExpr]
  IN  [CASE e[1] = "assign" -> Assign(d, e)
         [] e[1] = "cond" -> Conditional(d, e)
         [] OTHER -> LogicalOrExp(d, e, "op") EXCEPT !.es = c.es]

\* e = <<"and" or "or", first, second>>: the second is skipped if the first decides.
ShortCircuit(c, op, e) ==
  LET x == LogicalOrExp(c, e[2], "op")
      t == Push(Pop(x))
      o == Emit(t, op, Top(t), 0, Top(x), 0)
      y == Snooze(Invoke(MoveTo(o, Top(t), Top(x)), e[3]))
      m == Snooze(MoveTo(Pop(y), Top(t), Top(y)))
  IN  Es(Patch(m, Pos(o), Pos(m) - Pos(o)), "EXPR")

\* BIN_EXP and the levels of precedence: e = <<"bin", op, op3, left, right>>.
BinExp(c, e) ==
  LET r == Invoke(LogicalOrExp(c, e[4], "op"), e[5])
      l == Pop(r)
  IN  Es(EmitPush(Pop(l), e[2], Top(r), Top(l), e[3]), "EXPR")

LogicalOrExp(c, e, nt) ==
  CASE e[1] = "or" -> ShortCircuit(c, "OR", e)
    [] e[1] = "and" -> ShortCircuit(c, "AND", e)
    [] e[1] = "bin" -> BinExp(c, e)
    [] OTHER -> PrefixedExpr(c, e, nt)

\* A key is on top of its object: through base the value is fetched at once.
Deref(c, nt) ==
  IF c.es.etype = "BASE"
  THEN LET g == Emit2ArgsOP(c, "GET", 0)
       IN  [g EXCEPT !.es.etype = "EXPR", !.es.epos = Top(g)]
  ELSE Es(IF NeedGet(c, nt) THEN Emit2ArgsOP(c, "GET", 0) ELSE c, "OBJECT")

\* e++ and e-- on the value e left in c, diff as a character.
PostIncDec(c, diff) ==
  CASE c.es.etype = "EXPR" \/ (c.es.etype \in {"OBJECT", "BASE"} /\ c.es.donot_get) -> Error(c)
    [] c.es.etype \in {"OBJECT", "BASE"} -> Emit2ArgsOP(c, "PINC", diff)
    [] c.es.etype = "LOCAL" -> EmitPush(Pop(c), "PINCL", Top(c), 0, diff)
    [] c.es.etype = "OUTER" ->
         LET t1 == Push(c)
             t2 == Push(t1)
             g == Emit(t2, "GETOUTER", Top(t2), c.es.epos, 0, 0)
             i == Emit(g, "PINCL", Top(t1), Top(t2), 0, diff)
         IN  Pop(Emit(i, "SETOUTER", Top(t2), c.es.epos, Top(t2), 0))

MoveIfCurrentTargetIsLocal(c) ==
  IF IsLocal(F(c), Top(c)) THEN EmitPush(Pop(c), "MOVE", Top(c), 0, 0) ELSE c

\* The slots of f(args) { key = value, ... } go into the result of the call.
SetSlots(c, slots) ==
  LET Slot(d, s) ==
        LET v == Expression(Expression(d, s[1]), s[2])
            k == Pop(v)
        IN  Emit(Pop(k), "SET", NoTarget, Top(c), Top(k), Top(v))
  IN  Fold(Slot, c, slots)

\* Arguments, on top of the closure and this; rawcall has both among them.
FunctionCallArgs(c, args, raw) ==
  LET a == Fold(LAMBDA d, e : MoveIfCurrentTargetIsLocal(Expression(d, e)), c, args)
      nargs == Len(args) + IF raw THEN -1 ELSE 1
      b == Fold(LAMBDA d, i : Pop(d), a, [i \in 1 .. nargs - 1 |-> i])
      clo == Pop(b)
  IN  IF raw /\ Len(args) < 2 THEN Error(a)
      ELSE EmitPush(Pop(clo), "CALL", Top(clo), Top(b), nargs)

\* The place of the closure and this, by what is called.
PrepareCall(c) ==
  CASE c.es.etype = "OBJECT" ->
         LET t == Pop(c)
             clo == Push(Pop(t))
             this == Push(clo)
         IN  Emit(this, "PREPCALL", Top(clo), Top(c), Top(t), Top(this))
    [] c.es.etype = "OUTER" -> EmitPush(EmitPush(c, "GETOUTER", c.es.epos, 0, 0), "MOVE", 0, 0, 0)
    [] OTHER -> EmitPush(c, "MOVE", 0, 0, 0)

PrefixedExpr(c, e, nt) ==
  CASE e[1] = "dot" -> Deref(LoadConstant(PrefixedExpr(c, e[2], "."), e[3]), nt)
    [] e[1] = "index" -> Deref(Expression(PrefixedExpr(c, e[2], "."), e[3]), nt)
    [] e[1] = "post" -> PostIncDec(PrefixedExpr(c, e[2], "++"), e[3])
    [] e[1] = "call" ->
         SetSlots(FunctionCallArgs(Es(PrepareCall(PrefixedExpr(c, e[2], "(")), "EXPR"), e[3], FALSE), e[4])
    [] OTHER -> Factor(c, e, nt)

EmitLoadConst(c, v) ==
  CASE v[1] = "int" -> EmitPush(c, "LOADINT", v[2], 0, 0)
    [] v[1] = "bool" -> EmitPush(c, "LOADBOOL", IF v[2] THEN 1 ELSE 0, 0, 0)
    [] v[1] = "null" -> EmitPush(c, "LOADNULLS", 1, 0, 0)
    [] v[1] = "str" -> LoadConstant(c, v[2])

\* A name is a variable of the function, of an enclosing one, a constant, or a
\* slot of this, in this order.
Name(c, id, nt) ==
  LET pos == GetLocalVariable(F(c), id)
      out == GetOuterVariable(c.fss, Len(c.fss), id)
      d == [c EXCEPT !.fss = out.fss]
      consts == SelectSeq(c.consts, LAMBDA k : k[1] = id)
      slot == LoadConstant(With(c, PushTargetAt(F(c), 0)), id)
  IN  CASE pos # -1 ->
             [With(c, PushTargetAt(F(c), pos)) EXCEPT !.es.etype = "LOCAL", !.es.epos = pos]
        [] pos = -1 /\ out.pos # -1 ->
             IF NeedGet(c, nt)
             THEN LET g == EmitPush(d, "GETOUTER", out.pos, 0, 0) IN [g EXCEPT !.es.epos = Top(g)]
             ELSE [d EXCEPT !.es.etype = "OUTER", !.es.epos = out.pos]
        [] pos = -1 /\ out.pos = -1 /\ consts # <<>> -> Es(EmitLoadConst(c, Last(consts)[2]), "EXPR")
        [] OTHER -> Es(IF NeedGet(c, nt) THEN Emit2ArgsOP(slot, "GET", 0) ELSE slot, "OBJECT")

\* ++e, --e and delete e look at the place, not at the value.
PrefixIncDec(c, e, diff) ==
  LET p == PrefixedExpr([c EXCEPT !.es.donot_get = TRUE], e, "op")
      t == Push(p)
      r == CASE p.es.etype = "EXPR" -> Error(p)
             [] p.es.etype \in {"OBJECT", "BASE"} -> Emit2ArgsOP(p, "INC", diff)
             [] p.es.etype = "LOCAL" -> Emit(p, "INCL", Top(p), Top(p), 0, diff)
             [] p.es.etype = "OUTER" ->
                  Emit(Emit(Emit(t, "GETOUTER", Top(t), p.es.epos, 0, 0),
                            "INCL", Top(t), Top(t), 0, diff),
                       "SETOUTER", Top(t), p.es.epos, Top(t), 0)
  IN  [r EXCEPT !.es = c.es]

DeleteExpr(c, e) ==
  LET p == PrefixedExpr([c EXCEPT !.es.donot_get = TRUE], e, "op")
  IN  [IF p.es.etype \in {"OBJECT", "BASE"} THEN Emit2ArgsOP(p, "DELETE", 0) ELSE Error(p)
         EXCEPT !.es = c.es]

UnaryOP(c, op, e) == LET p == PrefixedExpr(c, e, "op") IN EmitPush(Pop(p), op, Top(p), 0, 0)

ArrayLiteral(c, es) ==
  LET a == EmitPush(c, "NEWOBJ", 0, 0, 1)
      Element(d, e) == LET v == Expression(d, e)
                           p == Pop(v)
                       IN  Emit(p, "APPENDARRAY", Top(p), Top(v), 0, 0)
  IN  Patch(Fold(Element, a, es), Pos(a), Len(es))

\* Slots of a table or class on top: <<key, value>>, in a class
\* <<key, value, static, attributes>>.
ParseTableOrClass(c, slots, class) ==
  LET Attributes(d, as) ==
        LET t == EmitPush(d, "NEWOBJ", 0, 0, 0)
            Attribute(x, s) == LET v == Expression(Expression(x, s[1]), s[2])
                               k == Pop(v)
                           IN  Emit(Pop(k), "NEWSLOT", NoTarget, Top(t), Top(k), Top(v))
        IN  Patch(Fold(Attribute, t, as), Pos(t), Len(as))
      Member(d, s) ==
        LET hasattrs == class /\ s[4] # <<>>
            a == IF hasattrs THEN Attributes(d, s[4]) ELSE d
            v == Expression(Expression(a, s[1]), s[2])
            k == Pop(v)
            r == IF hasattrs THEN Pop(Pop(k)) ELSE Pop(k)
            flags == (IF hasattrs THEN 1 ELSE 0) + IF s[3] THEN 2 ELSE 0
            \* assert((hasattrs && (attrs == key-1)) || !hasattrs)
            checked == IF ~hasattrs \/ Top(Pop(k)) = Top(k) - 1 THEN r
                       ELSE With(r, [F(r) EXCEPT !.failed = TRUE])
        IN  IF class THEN Emit(checked, "NEWSLOTA", flags, Top(r), Top(k), Top(v))
            ELSE Emit(checked, "NEWSLOT", NoTarget, Top(r), Top(k), Top(v))
      d == Fold(Member, c, slots)
  IN  IF class THEN d ELSE Patch(d, Pos(c), Len(slots))

\* e = <<"class", base or <<>>, attributes, slots>>.
ClassExp(c, e) ==
  LET b == IF e[2] = <<>> THEN c ELSE Expression(c, e[2])
      a == IF e[3] = <<>> THEN b
           ELSE ParseTableOrClass(EmitPush(b, "NEWOBJ", 0, 0, 0), e[3], FALSE)
      r == IF e[3] = <<>> THEN a ELSE Pop(a)
      s == IF e[2] = <<>> THEN r ELSE Pop(r)
  IN  ParseTableOrClass(EmitPush(s, "NEWOBJ", IF e[2] = <<>> THEN -1 ELSE Top(b),
                                 IF e[3] = <<>> THEN -1 ELSE Top(a), 2), e[4], TRUE)

\* e = <<"fun", parameters, body, environment or <<>>, lambda>>.
FunctionExp(c, e) ==
  LET b == IF e[4] = <<>> THEN c ELSE Expression(c, e[4])
      bound == IF e[4] = <<>> THEN NoTarget ELSE Top(b)
      f == CreateFunction(b, e[2], e[3], bound, e[5])
  IN  EmitPush(f, "CLOSURE", Len(F(f).functions) - 1, bound, 0)

Factor(c, e, nt) ==
  CASE e[1] = "name" -> Name(c, e[2], nt)
    [] e[1] = "base" -> LET b == EmitPush(c, "GETBASE", 0, 0, 0)
                        IN  [b EXCEPT !.es.etype = "BASE", !.es.epos = Top(b)]
    [] e[1] = "root" -> Deref(LoadConstant(Es(EmitPush(c, "LOADROOT", 0, 0, 0), "OBJECT"), e[2]), nt)
    [] e[1] \in {"int", "bool", "null", "str"} -> Es(EmitLoadConst(c, e), "EXPR")
    [] e[1] = "array" -> Es(ArrayLiteral(c, e[2]), "EXPR")
    [] e[1] = "table" -> Es(ParseTableOrClass(EmitPush(c, "NEWOBJ", 0, 0, 0), e[2], FALSE), "EXPR")
    [] e[1] = "fun" -> Es(FunctionExp(c, e), "EXPR")
    [] e[1] = "class" -> Es(ClassExp(c, e), "EXPR")
    [] e[1] = "un" -> Es(UnaryOP(c, e[2], e[3]), "EXPR")
    [] e[1] = "rawcall" -> Es(FunctionCallArgs(c, e[2], TRUE), "EXPR")
    [] e[1] = "pre" -> Es(PrefixIncDec(c, e[2], e[3]), "EXPR")
    [] e[1] = "delete" -> Es(DeleteExpr(c, e[2]), "EXPR")
    [] e[1] = "comma" -> Es(CommaExpr(c, e[2]), "EXPR")

-----------------------------------------------------------------------------
(* Functions. *)

\* Parameters are <<name, default or <<>>>>, "..." is written as the name vargv;
\* defaults are evaluated where the function is created.  A bound environment was pushed before them.
CreateFunction(c, params, body, bound, lambda) ==
  LET Param(s, p) ==
        LET child == AddParameter(s.child, p[1])
            d == Expression(s.c, p[2])
        IN  IF p[1] = "vargv"
            THEN [c |-> IF s.child.defaultparams = <<>> THEN s.c ELSE Error(s.c),
                  child |-> [child EXCEPT !.varparams = TRUE]]
            ELSE IF p[2] = <<>> THEN [s EXCEPT !.child = child, !.c = IF s.child.defaultparams = <<>> THEN @ ELSE Error(@)]
            ELSE [c |-> d, child |-> AddDefaultParam(child, Top(d))]
      s == Fold(Param, [c |-> c, child |-> AddParameter(NewFuncState, "this")], params)
      popped == Fold(LAMBDA d, i : Pop(d), IF bound # NoTarget THEN Pop(s.c) ELSE s.c, s.child.defaultparams)
      in == [popped EXCEPT !.fss = Append(@, s.child)]
      b == IF lambda
           THEN LET x == Expression(in, body) IN Emit(Pop(x), "RETURN", 1, Top(x), 0, 0)
           ELSE Statement(in, body, FALSE)
      end == Emit(b, "RETURN", -1, 0, 0, 0)
      out == [end EXCEPT !.fss = Front(@)]
  IN  With(out, [F(out) EXCEPT !.functions = Append(@, BuildProto(SetStackSize(F(end), 0)))])

-----------------------------------------------------------------------------
(* Statements. *)

Statements(c, ss) == Fold(LAMBDA d, s : Statement(d, s, TRUE), c, ss)

Block(c, ss, closeframe) ==
  LET b == Statements(BeginScope(c), ss)
  IN  IF closeframe THEN EndScope(b, c) ELSE EndScopeNoClose(b, c)

\* s = <<"local", name, value or <<>>>> and <<"localfun", name, parameters, body, environment>>.
\* The environment of a local function is pushed and never popped.
LocalDeclStatement(c, s) ==
  LET env == IF s[5] = <<>> THEN c ELSE Expression(c, s[5])
      f == CreateFunction(env, s[3], s[4], NoTarget, FALSE)
      v == IF s[1] = "localfun"
           THEN EmitPush(f, "CLOSURE", Len(F(f).functions) - 1, IF s[5] = <<>> THEN NoTarget ELSE Top(env), 0)
           ELSE IF s[3] = <<>> THEN EmitPush(c, "LOADNULLS", 1, 0, 0)
           ELSE LET x == Expression(c, s[3])
                    p == Push(Pop(x))
                IN  MoveTo(p, Top(p), Top(x))
      d == Pop(v)
  IN  With(d, PushLocalVariable(F(d), s[2]))

IfBlock(c, s) == IF s[1] = "block" THEN Block(c, s[2], TRUE) ELSE Statement(c, s, TRUE)

\* Mutant: the jump over the else branch is not counted.
IfStatementShort(c, s) ==
  LET x == Expression(c, s[2])
      z == Emit(Pop(x), "JZ", Top(x), 0, 0, 0)
      a == IfBlock(z, s[3])
      j == Emit(a, "JMP", 0, 0, 0, 0)
      b == IfBlock(j, s[4])
  IN  IF s[4] = <<>> THEN Patch(a, Pos(z), Pos(a) - Pos(z))
      ELSE Patch(Patch(b, Pos(j), Pos(b) - Pos(j)), Pos(z), Pos(a) - Pos(z))

\* s = <<"if", condition, then, else or <<>>>>.
IfStatement(c, s) ==
  LET x == Expression(c, s[2])
      z == Emit(Pop(x), "JZ", Top(x), 0, 0, 0)
      a == IfBlock(z, s[3])
      j == Emit(a, "JMP", 0, 0, 0, 0)
      b == IfBlock(j, s[4])
  IN  IF s[4] = <<>> THEN Patch(a, Pos(z), Pos(a) - Pos(z))
      ELSE Patch(Patch(b, Pos(j), Pos(b) - Pos(j)), Pos(z), Pos(a) - Pos(z) + 1)

\* s = <<"while", condition, body>>.
WhileStatement(c, s) ==
  LET x == Expression(c, s[2])
      l == BeginBreakable(x)
      z == Emit(Pop(l), "JZ", Top(l), 0, 0, 0)
      b == EndScope(Statement(BeginScope(z), s[3], TRUE), z)
      j == Emit(b, "JMP", 0, Pos(c) - Pos(b) - 1, 0, 0)
  IN  EndBreakable(Patch(j, Pos(z), Pos(j) - Pos(z)), x, Pos(c))

\* s = <<"do", body, condition>>.
DoWhileStatement(c, s) ==
  LET l == BeginBreakable(c)
      b == EndScope(Statement(BeginScope(l), s[2], TRUE), l)
      x == Expression(b, s[3])
      z == Emit(Pop(x), "JZ", Top(x), 1, 0, 0)
      j == Emit(z, "JMP", 0, Pos(c) - Pos(z) - 1, 0, 0)
  IN  EndBreakable(j, c, Pos(b))

\* s = <<"for", init, condition, step, body>>.  The step is compiled where it is
\* written, taken out, and added again after the body.
ForStatement(c, s) ==
  LET i == CASE s[2] = <<>> -> BeginScope(c)
             [] s[2][1] = "local" -> LocalDeclStatement(BeginScope(c), s[2])
             [] OTHER -> Pop(Expression(BeginScope(c), s[2]))
      start == Snooze(i)
      x == Expression(start, s[3])
      z == IF s[3] = <<>> THEN start ELSE Emit(Pop(x), "JZ", Top(x), 0, 0, 0)
      jzpos == IF s[3] = <<>> THEN -1 ELSE Pos(z)
      e == IF s[4] = <<>> THEN Snooze(z) ELSE Pop(Expression(Snooze(z), s[4]))
      step == SubSeq(F(e).instrs, Pos(z) + 2, Pos(e) + 1)
      l == BeginBreakable(Snooze(With(e, PopInstructions(F(e), Len(step)))))
      b == Statement(l, s[5], TRUE)
      t == Fold(LAMBDA d, k : Emit(d, k.op, k.a0, k.a1, k.a2, k.a3), b, step)
      j == Emit(t, "JMP", 0, Pos(start) - Pos(t) - 1, 0, 0)
      p == IF jzpos > 0 THEN Patch(j, jzpos, Pos(j) - jzpos) ELSE j
  IN  EndScope(EndBreakable(p, e, Pos(b)), c)

\* s = <<"foreach", index, value, container, body>>.
ForEachStatement(c, s) ==
  LET x == Expression(BeginScope(c), s[4])
      Var(d, name) == LET v == With(d, PushLocalVariable(F(d), name))
                      IN  Emit(v, "LOADNULLS", GetStackSize(F(v)) - 1, 1, 0, 0)
      v == Var(Var(Var(x, s[2]), s[3]), "@ITERATOR@")
      idx == GetStackSize(F(v)) - 3
      f == Emit(v, "FOREACH", Top(x), 0, idx, 0)
      l == BeginBreakable(Emit(f, "POSTFOREACH", Top(x), 0, idx, 0))
      b == Statement(l, s[5], TRUE)
      j == Emit(b, "JMP", 0, Pos(v) - Pos(b) - 1, 0, 0)
      p == Patch(Patch(j, Pos(f), Pos(j) - Pos(f)), Pos(f) + 1, Pos(j) - Pos(f))
  IN  EndScope(Pop(EndBreakable(p, v, Pos(f) - 1)), c)

\* s = <<"switch", value, cases, default or <<>>>>, a case is <<value, statements>>.
SwitchStatement(c, s) ==
  LET x == Expression(c, s[2])
      o == With(x, [F(x) EXCEPT !.breaktargets = Append(@, 0)])
      Case(st, k) ==
        LET first == st.next = -1
            j == IF first THEN st.c ELSE Emit(st.c, "JMP", 0, 0, 0, 0)
            skip == IF first THEN st.skip ELSE Pos(j)
            n == IF first THEN j ELSE Patch(j, st.next, Pos(j) - st.next)
            v == Expression(n, k[1])
            local == IsLocal(F(v), Top(v))
            q == IF local THEN Push(Pop(v)) ELSE Pop(v)
            eq == IF local THEN Top(q) ELSE Top(v)
            z == Emit(Emit(q, "EQ", eq, Top(v), Top(x), 0), "JZ", eq, 0, 0, 0)
            r == IF local THEN Pop(z) ELSE z
            t == IF skip = -1 THEN r ELSE Patch(r, skip, Pos(r) - skip)
        IN  [c |-> Block(t, k[2], TRUE), next |-> Pos(t), skip |-> skip]
      cs == Fold(Case, [c |-> o, next |-> -1, skip |-> -1], s[3])
      e == IF cs.next = -1 THEN cs.c ELSE Patch(cs.c, cs.next, Pos(cs.c) - cs.next)
      d == Pop(Block(e, s[4], TRUE))
      f == ResolveBreaks(F(d), Len(F(d).breaks) - Len(F(c).breaks))
  IN  With(d, [f EXCEPT !.breaktargets = Front(@)])

\* s = <<"function", path, parameters, body, environment>>, path of one or more names.
FunctionStatement(c, s) ==
  LET Step(d, id) == LoadConstant(Emit2ArgsOP(d, "GET", 0), id)
      p == Fold(Step, LoadConstant(With(c, PushTargetAt(F(c), 0)), Head(s[2])), Tail(s[2]))
  IN  Pop(EmitDerefOp(FunctionExp(p, <<"fun", s[3], s[4], s[5], FALSE>>), "NEWSLOT"))

\* s = <<"classdecl", place, class expression>>.
ClassStatement(c, s) ==
  LET p == PrefixedExpr([c EXCEPT !.es.donot_get = TRUE], s[2], "op")
  IN  [IF p.es.etype \in {"OBJECT", "BASE"}
       THEN Pop(EmitDerefOp(ClassExp(p, s[3]), "NEWSLOT")) ELSE Error(p) EXCEPT !.es = c.es]

\* s = <<"try", body, exception variable, handler>>.
TryCatchStatement(c, s) ==
  LET t == With(Emit(c, "PUSHTRAP", 0, 0, 0, 0),
                OpenTrap(F(Emit(c, "PUSHTRAP", 0, 0, 0, 0)), 1))
      b == EndScope(Statement(BeginScope(t), s[2], TRUE), t)
      p == Emit(b, "POPTRAP", 1, 0, 0, 0)
      j == Emit(With(p, OpenTrap(F(p), -1)), "JMP", 0, 0, 0, 0)
      k == BeginScope(Patch(j, Pos(t), Pos(j) - Pos(t)))
      v == With(k, SetInstructionParam(PushLocalVariable(F(k), s[3]), Pos(t), 0, GetStackSize(F(k))))
      h == Statement(v, s[4], TRUE)
  IN  EndScope(With(h, SetInstructionParams(F(h), Pos(j), 0, Pos(h) - Pos(j), 0, 0)), c)

\* s = <<"return" or "yield", value or <<>>>>: a return leaves every open try block.
ReturnStatement(c, s, op) ==
  LET n == F(c).traps
      Left(d) == IF op = "RETURN" /\ n > 0 THEN Emit(d, "POPTRAP", n, 0, 0, 0) ELSE d
      g == With(c, [F(c) EXCEPT !.bgenerator = @ \/ op = "YIELD"])
      x == Left(Expression(g, s[2]))
      r == With(x, [F(x) EXCEPT !.returnexp = Pos(g) + 1])
      y == Left(g)
  IN  IF s[2] # <<>> THEN Emit(Pop(r), op, 1, Top(r), GetStackSize(F(Pop(r))), 0)
      ELSE Emit(With(y, [F(y) EXCEPT !.returnexp = -1]), op, NoTarget, 0, GetStackSize(F(y)), 0)

\* break and continue: traps opened since the loop began are closed, then what
\* was captured since the innermost scope began, then the jump.
BreakStatement(c) ==
  LET t == F(c).breaktargets
      p == IF t # <<>> /\ Last(t) > 0 THEN Emit(c, "POPTRAP", Last(t), 0, 0, 0) ELSE c
      j == Emit(ResolveOuters(p), "JMP", 0, -1234, 0, 0)
  IN  IF t = <<>> THEN Error(c) ELSE With(j, [F(j) EXCEPT !.breaks = Append(@, Pos(j))])
ContinueStatement(c) ==
  LET t == F(c).continuetargets
      p == IF t # <<>> /\ Last(t) > 0 THEN Emit(c, "POPTRAP", Last(t), 0, 0, 0) ELSE c
      j == Emit(ResolveOuters(p), "JMP", 0, -1234, 0, 0)
  IN  IF t = <<>> THEN Error(c) ELSE With(j, [F(j) EXCEPT !.continues = Append(@, Pos(j))])

\* const and enum declare names for the rest of the source; an enum's members
\* are declared as if each were a constant of its own.
ConstStatement(c, s) == [c EXCEPT !.consts = @ \o s[2]]

Statement(c, s, closeframe) ==
  IF c.err THEN c ELSE Snooze(
  CASE s[1] = "empty" -> c
    [] s[1] = "if" -> IfStatement(c, s)
    [] s[1] = "while" -> WhileStatement(c, s)
    [] s[1] = "do" -> DoWhileStatement(c, s)
    [] s[1] = "for" -> ForStatement(c, s)
    [] s[1] = "foreach" -> ForEachStatement(c, s)
    [] s[1] = "switch" -> SwitchStatement(c, s)
    [] s[1] \in {"local", "localfun"} -> LocalDeclStatement(c, s)
    [] s[1] = "return" -> ReturnStatement(c, s, "RETURN")
    [] s[1] = "yield" -> ReturnStatement(c, s, "YIELD")
    [] s[1] = "break" -> BreakStatement(c)
    [] s[1] = "continue" -> ContinueStatement(c)
    [] s[1] = "function" -> FunctionStatement(c, s)
    [] s[1] = "classdecl" -> ClassStatement(c, s)
    [] s[1] = "const" -> ConstStatement(c, s)
    [] s[1] = "block" -> Block(c, s[2], closeframe)
    [] s[1] = "try" -> TryCatchStatement(c, s)
    [] s[1] = "throw" -> LET x == Expression(c, s[2]) IN Emit(Pop(x), "THROW", Top(x), 0, 0, 0)
    [] s[1] = "expr" -> LET x == Expression(c, s[2]) IN With(x, DiscardTarget(F(x))))

\* Compile: the main function with its parameters this and vargv.
Compile(ss) ==
  LET main == [AddParameter(AddParameter(NewFuncState, "this"), "vargv") EXCEPT !.varparams = TRUE]
      c == [fss |-> <<main>>, scope |-> [outers |-> 0, stacksize |-> 0], es |-> NoExpr,
            consts |-> <<>>, err |-> FALSE]
      b == Statements(c, ss)
      r == Emit(With(b, SetStackSize(F(b), 2)), "RETURN", NoTarget, 0, 0, 0)
  IN  [err |-> b.err, proto |-> BuildProto(SetStackSize(F(r), 0))]
=============================================================================
