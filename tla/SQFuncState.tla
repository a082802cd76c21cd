---------------------------- MODULE SQFuncState ----------------------------
(***************************************************************************)
(* The state of the function being compiled, SQFuncState of                *)
(* squirrel/sqfuncstate.cpp: registers (_vlocals), the stack of targets,   *)
(* the instructions with the optimiser that folds a new instruction into   *)
(* the last one, jumps to be resolved, traps and captured variables.       *)
(* Positions are those of the code, from 0.  Line information and the      *)
(* dump of a function are left out.                                        *)
(***************************************************************************)
EXTENDS SQFold, SequencesExt, FiniteSets

Null == "null"              \* OT_NULL, the name of a register without variable
MAX_FUNC_STACKSIZE == 255
MAX_LITERALS == 2147483647
NoTarget == 255             \* 0xFF, the argument for "no register"

\* SQInstruction: arg0, arg2 and arg3 are unsigned characters.
Instr(op, a0, a1, a2, a3) ==
  [op |-> op, a0 |-> a0 % 256, a1 |-> a1, a2 |-> a2 % 256, a3 |-> a3 % 256]

\* The constructor.  failed records that an assertion of the code failed, error that
\* Error was called, which ends the compilation.
NewFuncState ==
  [vlocals |-> <<>>, targets |-> <<>>, stacksize |-> 0, instrs |-> <<>>, opt |-> TRUE,
   traps |-> 0, outers |-> 0, returnexp |-> 0, bgenerator |-> FALSE, varparams |-> FALSE,
   breaks |-> <<>>, continues |-> <<>>, breaktargets |-> <<>>, continuetargets |-> <<>>,
   outervalues |-> <<>>, functions |-> <<>>, literals |-> <<>>, nparams |-> 0,
   defaultparams |-> <<>>, failed |-> FALSE, error |-> FALSE]

\* An arithmetic operator as the character COMPARITH carries.
ArithChar(op) == CASE op = "ADD" -> 43 [] op = "SUB" -> 45 [] op = "MUL" -> 42 [] op = "DIV" -> 47 [] op = "MOD" -> 37

GetCurrentPos(fs) == Len(fs.instrs) - 1
GetInstruction(fs, pos) == fs.instrs[pos + 1]
GetStackSize(fs) == Len(fs.vlocals)
SnoozeOpt(fs) == [fs EXCEPT !.opt = FALSE]
PopInstructions(fs, n) == [fs EXCEPT !.instrs = SubSeq(@, 1, Len(@) - n)]

\* Literals are numbered as they are met; a literal is found again by its value.
\* GetConstant is the number, WithConstant the state afterwards.
GetConstant(fs, cons) ==
  IF \E i \in DOMAIN fs.literals : fs.literals[i] = cons
  THEN (CHOOSE i \in DOMAIN fs.literals : fs.literals[i] = cons) - 1
  ELSE Len(fs.literals)
WithConstant(fs, cons) ==
  IF \E i \in DOMAIN fs.literals : fs.literals[i] = cons
  THEN fs
  ELSE [fs EXCEPT !.literals = Append(@, cons), !.error = @ \/ Len(fs.literals) + 1 > MAX_LITERALS]

SetInstructionParams(fs, pos, a0, a1, a2, a3) ==
  [fs EXCEPT !.instrs[pos + 1] = Instr(@.op, a0, a1, a2, a3)]
SetInstructionParam(fs, pos, arg, val) ==
  [fs EXCEPT !.instrs[pos + 1] =
     CASE arg = 0 -> [@ EXCEPT !.a0 = val % 256]
       [] arg = 1 -> [@ EXCEPT !.a1 = val]
       [] arg = 2 -> [@ EXCEPT !.a2 = val % 256]
       [] arg = 3 -> [@ EXCEPT !.a3 = val % 256]]

-----------------------------------------------------------------------------
(* Registers and targets. *)

\* Mutant: the last register is not reserved.
GrownShort(fs) == [fs EXCEPT !.stacksize = IF Len(fs.vlocals) > @ + 1 THEN Len(fs.vlocals) - 1 ELSE @]

\* The registers a function needs are the most that were in use at once.
Grown(fs) == [fs EXCEPT !.stacksize = IF Len(fs.vlocals) > @ THEN Len(fs.vlocals) ELSE @]

\* A register without variable; too many locals are noticed here only, and before
\* the size is raised.
AllocStackPos(fs) ==
  Grown([fs EXCEPT !.vlocals = Append(@, [name |-> Null, outer |-> FALSE]),
                   !.error = @ \/ (Len(fs.vlocals) >= fs.stacksize /\ fs.stacksize > MAX_FUNC_STACKSIZE)])

PushTarget(fs) ==
  [AllocStackPos(fs) EXCEPT !.targets = Append(@, Len(fs.vlocals))]
PushTargetAt(fs, n) == [fs EXCEPT !.targets = Append(@, n)]

TopTarget(fs) == Last(fs.targets)

\* A target that is no variable gives its register back: the last one, whatever
\* its own position.
PopTarget(fs) ==
  IF fs.targets = <<>> \/ TopTarget(fs) >= Len(fs.vlocals)
  THEN [fs EXCEPT !.failed = TRUE]
  ELSE [fs EXCEPT !.targets = Front(@),
                  !.vlocals = IF fs.vlocals[TopTarget(fs) + 1].name = Null THEN Front(@) ELSE @]

\* How many registers from stacksize on hold captured variables.
CountOuters(fs, stacksize) ==
  Cardinality({i \in stacksize + 1 .. Len(fs.vlocals) : fs.vlocals[i].outer})

\* Registers from n on are given up; _outers counts down once per variable.
SetStackSize(fs, n) ==
  IF Len(fs.vlocals) <= n THEN fs
  ELSE [fs EXCEPT !.outers = @ - CountOuters(fs, n), !.vlocals = SubSeq(@, 1, n)]

IsLocal(fs, pos) == pos < Len(fs.vlocals) /\ fs.vlocals[pos + 1].name # Null

PushLocalVariable(fs, name) ==
  Grown([fs EXCEPT !.vlocals = Append(@, [name |-> name, outer |-> FALSE])])

\* The innermost variable of that name, -1 if there is none.
GetLocalVariable(fs, name) ==
  LET found == {i \in DOMAIN fs.vlocals : fs.vlocals[i].name = name}
  IN  IF found = {} THEN -1 ELSE (CHOOSE i \in found : \A j \in found : j <= i) - 1

MarkLocalAsOuter(fs, pos) == [fs EXCEPT !.vlocals[pos + 1].outer = TRUE, !.outers = @ + 1]

AddParameter(fs, name) == [PushLocalVariable(fs, name) EXCEPT !.nparams = @ + 1]
AddDefaultParam(fs, trg) == [fs EXCEPT !.defaultparams = Append(@, trg)]

\* GetOuterVariable on the chain of function states fss, from the outermost to
\* the one at d: the position, -1 if there is none, and the chain afterwards.
RECURSIVE GetOuterVariable(_, _, _)
GetOuterVariable(fss, d, name) ==
  LET known == {i \in DOMAIN fss[d].outervalues : fss[d].outervalues[i].name = name}
      Capture(chain, pos, kind) ==
        [fss |-> [chain EXCEPT ![d].outervalues = Append(@, [name |-> name, src |-> pos, kind |-> kind])],
         pos |-> Len(fss[d].outervalues)]
  IN  IF known # {} THEN [fss |-> fss, pos |-> (CHOOSE i \in known : TRUE) - 1]
      ELSE IF d = 1 THEN [fss |-> fss, pos |-> -1]
      ELSE LET pos == GetLocalVariable(fss[d - 1], name)
               up == GetOuterVariable(fss, d - 1, name)
           IN  IF pos # -1
               THEN Capture([fss EXCEPT ![d - 1] = MarkLocalAsOuter(@, pos)], pos, "otLOCAL")
               ELSE IF up.pos # -1 THEN Capture(up.fss, up.pos, "otOUTER")
               ELSE [fss |-> up.fss, pos |-> -1]

-----------------------------------------------------------------------------
(* Instructions. *)

\* A result nobody uses is not stored.
DiscardTarget(fs) ==
  LET f == PopTarget(fs)
      n == Len(f.instrs)
  IN  IF /\ n > 0 /\ f.opt
         /\ f.instrs[n].op \in {"SET", "NEWSLOT", "SETOUTER", "CALL"}
         /\ f.instrs[n].a0 = TopTarget(fs)
      THEN [f EXCEPT !.instrs[n].a0 = NoTarget]
      ELSE f

\* AppendArrayType: what APPENDARRAY appends; 0 is AAT_STACK.
AppendArrayType(op) == CASE op = "LOAD" -> 1 [] op = "LOADINT" -> 2 [] op = "LOADBOOL" -> 4
ResultOps == {"GET", "ADD", "SUB", "MUL", "DIV", "MOD", "BITW", "LOADINT", "LOADFLOAT", "LOADBOOL", "LOAD"}

\* AddInstruction.  Unless the optimiser is snoozing, instruction i may replace
\* the last instruction pi by one that does both.  parent says that the function
\* has a parent: the main function makes no tail calls.
AddInstruction(fs, i, parent) ==
  LET n == Len(fs.instrs)
      pi == fs.instrs[n]
      temp == ~IsLocal(fs, pi.a0)
      Merged(j) == [fs EXCEPT !.instrs[n] = j]
      Pushed(j) == [fs EXCEPT !.instrs = Append(@, j), !.opt = TRUE]
  IN  IF n = 0 \/ ~fs.opt THEN Pushed(i) ELSE
      CASE i.op = "JZ" /\ pi.op = "CMP" /\ pi.a1 < 255 ->
             Merged([pi EXCEPT !.op = "JCMP", !.a0 = pi.a1, !.a1 = i.a1])
        [] i.op \in {"SET", "NEWSLOT"} /\ i.a0 = i.a3 -> Pushed([i EXCEPT !.a0 = NoTarget])
        [] i.op = "SETOUTER" /\ i.a0 = i.a2 -> Pushed([i EXCEPT !.a0 = NoTarget])
        [] /\ i.op = "RETURN" /\ parent /\ i.a0 # MAX_FUNC_STACKSIZE
           /\ pi.op = "CALL" /\ fs.returnexp < n - 1 ->
             [Pushed(i) EXCEPT !.instrs[n].op = "TAILCALL"]
        [] i.op = "RETURN" /\ pi.op = "CLOSE" -> Merged(i)
        [] i.op = "GET" /\ pi.op = "LOAD" /\ pi.a0 = i.a2 /\ temp ->
             Merged(Instr("GETK", i.a0, pi.a1, i.a1, pi.a3))
        [] i.op = "PREPCALL" /\ pi.op = "LOAD" /\ pi.a0 = i.a1 /\ temp ->
             Merged(Instr("PREPCALLK", i.a0, pi.a1, i.a2, i.a3))
        [] /\ i.op = "APPENDARRAY" /\ pi.op \in {"LOAD", "LOADINT", "LOADBOOL"}
           /\ pi.a0 = i.a1 /\ temp ->
             Merged(Instr("APPENDARRAY", i.a0, pi.a1, AppendArrayType(pi.op), MAX_FUNC_STACKSIZE))
        [] i.op = "MOVE" /\ pi.op \in ResultOps /\ pi.a0 = i.a1 ->
             [Merged([pi EXCEPT !.a0 = i.a0]) EXCEPT !.opt = FALSE]
        [] i.op = "MOVE" /\ pi.op = "MOVE" -> Merged(Instr("DMOVE", pi.a0, pi.a1, i.a0, i.a1))
        [] i.op = "LOAD" /\ pi.op = "LOAD" /\ i.a1 < 256 ->
             Merged(Instr("DLOAD", pi.a0, pi.a1, i.a0, i.a1))
        [] i.op \in {"EQ", "NE"} /\ pi.op = "LOAD" /\ pi.a0 = i.a1 /\ temp ->
             Merged(Instr(i.op, i.a0, pi.a1, i.a2, MAX_FUNC_STACKSIZE))
        [] i.op = "LOADNULLS" /\ pi.op = "LOADNULLS" /\ pi.a0 + pi.a1 = i.a0 ->
             Merged([pi EXCEPT !.a1 = @ + 1])
        [] OTHER -> Pushed(i)

\* Jumps that leave a loop are set once its end is known.
ResolveBreaks(fs, n) ==
  LET last == SubSeq(fs.breaks, Len(fs.breaks) - n + 1, Len(fs.breaks))
  IN  [Fold(LAMBDA f, pos : SetInstructionParams(f, pos, 0, GetCurrentPos(f) - pos, 0, 0), fs, last)
         EXCEPT !.breaks = SubSeq(@, 1, Len(@) - n)]
ResolveContinues(fs, n, target) ==
  LET last == SubSeq(fs.continues, Len(fs.continues) - n + 1, Len(fs.continues))
  IN  [Fold(LAMBDA f, pos : SetInstructionParams(f, pos, 0, target - pos, 0, 0), fs, last)
         EXCEPT !.continues = SubSeq(@, 1, Len(@) - n)]

\* BuildProto: what the machine gets of a function.
BuildProto(fs) ==
  [instrs |-> fs.instrs, literals |-> fs.literals, functions |-> fs.functions,
   outervalues |-> fs.outervalues, nparams |-> fs.nparams, stacksize |-> fs.stacksize,
   bgenerator |-> fs.bgenerator, varparams |-> fs.varparams, defaultparams |-> fs.defaultparams,
   failed |-> \/ fs.failed \/ fs.breaks # <<>> \/ fs.continues # <<>> ]
=============================================================================
