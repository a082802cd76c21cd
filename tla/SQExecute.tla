----------------------------- MODULE SQExecute -----------------------------
(***************************************************************************)
(* The machine that runs what SQCompiler emits: SQVM::Execute with its     *)
(* value stack, frames, exception traps, closures and the outers that      *)
(* capture variables (squirrel/sqvm.cpp).  One Execute runs the main       *)
(* function of a program; native functions are in(), which the host        *)
(* answers with either boolean, and out(v), which it observes.  Classes    *)
(* are the subject of SQClass, delegates and metamethods that of SQAccess, *)
(* generators and nested calls of Execute that of SQVMExec: programs with  *)
(* them are only compiled here.                                            *)
(***************************************************************************)
EXTENDS SQFuncState, SQValues

CONSTANTS Programs(_),      \* sequences of programs, of those to run and those to compile only
          Code(_),          \* what the compiler makes of a program: SQCompiler!Compile
          Meaning(_, _),    \* what a program means to a host: SQLanguage!Behaviour
          MaxInputs,        \* bound: answers of in(), after which the host stops the program
          InitialStack,     \* size of the value stack at the start
          MinStackOverhead  \* MIN_STACK_OVERHEAD

ASSUME ExecuteAssumption ==
  MaxInputs \in Nat /\ InitialStack \in Nat \ {0} /\ MinStackOverhead \in Nat

VARIABLES prog,             \* which program
          ci,               \* call stack, _callsstack
          stk, base, top,   \* _stack, _stackbase, _top; stk holds position p at p + 1
          gen,              \* how often the stack was reallocated: pointers into it carry it
          etraps, traps,    \* _etraps and the count of Execute
          outers,           \* every SQOuter: valptr into the stack while open, value when closed
          openouters,       \* _openouters, by descending position
          clos, heap,       \* closures; tables and arrays
          trace, inputs,    \* what out and in exchanged with the host
          status            \* run, done, uncaught, blocked (in has no answer), compiled

stack == <<stk, base, top, gen>>
frames == <<ci, etraps, traps>>
captured == <<outers, openouters>>
host == <<trace, inputs>>
vars == <<prog, stack, frames, captured, clos, heap, host, status>>

Sources == Programs("run") \o Programs("compile")
Codes == SubSeq([i \in 1 .. Len(Sources) |-> Code(Sources[i])], 1, Len(Sources))

\* The function a closure was made of, by the path of indexes that leads to it.
Proto(path) == Fold(LAMBDA p, k : p.functions[k], Codes[prog].proto, path)

Frame == Last(ci)
Closure == clos[Frame.clo]
Function == Proto(Closure.fn)
I == Function.instrs[Frame.ip + 1]

\* The instruction to execute, if it is one of ops.
At(ops) == IF status = "run" /\ I.op \in ops THEN {I} ELSE {}
STK(a) == stk[base + a + 1]
Literal(k) == <<"str", Function.literals[k + 1]>>
Signed(a) == IF a > 127 THEN a - 256 ELSE a
Stop(s) == status' = s /\ UNCHANGED <<prog, stack, frames, captured, clos, heap, host>>

Go(jump) == ci' = [ci EXCEPT ![Len(ci)].ip = @ + 1 + jump]
Put(a, v) == stk' = [stk EXCEPT ![base + a + 1] = v]
PutUnless(a, v) == stk' = IF a = NoTarget THEN stk ELSE [stk EXCEPT ![base + a + 1] = v]
StayedPut == UNCHANGED <<prog, base, top, gen, etraps, traps, status>>

-----------------------------------------------------------------------------
(* Frames, outers and exceptions. *)

\* What LeaveFrame and exceptions do to the part of the stack they give up.
Nulled(s, from, to) == [p \in 1 .. Len(s) |-> IF p - 1 \in from .. to THEN NullV ELSE s[p]]

\* CloseOuters: the list down to position i is emptied, each outer taking its
\* value with it.
CloseOuters(o, s, i) ==
  LET below == SelectInSeq(o.open, LAMBDA k : o.outers[k].idx < i)
      n == IF below = 0 THEN Len(o.open) ELSE below - 1
      closed == {o.open[j] : j \in 1 .. n}
  IN  [outers |-> [k \in DOMAIN o.outers |->
                     IF k \in closed
                     THEN [open |-> FALSE, idx |-> 0, gen |-> 0, value |-> s[o.outers[k].idx + 1]]
                     ELSE o.outers[k]],
       open |-> SubSeq(o.open, n + 1, Len(o.open))]

Outers == [outers |-> outers, open |-> openouters]
Captured(new) == \E o \in {new} : outers' = o.outers /\ openouters' = o.open

\* FindOuter: the open outer of position i, or a new one in its place of the list.
FindOuter(o, i) ==
  LET at == SelectInSeq(o.open, LAMBDA k : o.outers[k].idx <= i)
      new == Len(o.outers) + 1
  IN  IF at # 0 /\ o.outers[o.open[at]].idx = i THEN [o |-> o, k |-> o.open[at]]
      ELSE [o |-> [outers |-> Append(o.outers, [open |-> TRUE, idx |-> i, gen |-> gen, value |-> NullV]),
                   open |-> InsertAt(o.open, IF at = 0 THEN Len(o.open) + 1 ELSE at, new)],
            k |-> new]

\* Mutant: the stack moves and the outers keep their pointers.
RelocateNothing(os, open, g) == os

\* RelocateOuters: open outers point into the new stack.
RelocateOuters(os, open, g) ==
  [k \in DOMAIN os |-> IF k \in Range(open) THEN [os[k] EXCEPT !.gen = g] ELSE os[k]]

\* When EnterFrame makes the value stack larger.
Outgrown(s, newtop) == newtop + MinStackOverhead > Len(s)

\* EnterFrame on stack s: a new frame, or the current one again for a tail call.
EnterFrame(s, o, newbase, newtop, clo, target, tailcall) ==
  LET grow == Outgrown(s, newtop)
  IN  /\ ci' = IF tailcall THEN [ci EXCEPT ![Len(ci)].clo = clo, ![Len(ci)].ip = 0]
               ELSE Append([ci EXCEPT ![Len(ci)].ip = @ + 1],
                           [clo |-> clo, ip |-> 0, prevstkbase |-> newbase - base,
                            prevtop |-> top - base, target |-> target, etraps |-> 0])
      /\ base' = newbase
      /\ top' = IF tailcall /\ top > newtop THEN top ELSE newtop
      /\ stk' = IF grow THEN s \o [p \in 1 .. newtop + 4 * MinStackOverhead - Len(s) |-> NullV] ELSE s
      /\ gen' = IF grow THEN gen + 1 ELSE gen
      /\ outers' = IF grow THEN RelocateOuters(o.outers, o.open, gen + 1) ELSE o.outers
      /\ openouters' = o.open

\* LeaveFrame from frame f, whose registers are those of stack s.
LeaveFrame(s, f) ==
  LET b == base - f.prevstkbase
  IN  /\ base' = b
      /\ top' = b + f.prevtop
      /\ stk' = Nulled(s, b + f.prevtop, top)
      /\ Captured(CloseOuters(Outers, s, base))

\* Where the registers of frame d start.
BaseOf(d) == base - Fold(LAMBDA sum, f : sum + f.prevstkbase, 0, SubSeq(ci, d + 1, Len(ci)))

\* exception_trap: frames without a trap are left, the first with one goes on at
\* its handler; the outers of its own try block stay as they are.
Raise(err) ==
  \/ (\A d \in DOMAIN ci : ci[d].etraps = 0) /\ Stop("uncaught")
  \/ \E d \in {n \in DOMAIN ci : ci[n].etraps > 0 /\ \A m \in n + 1 .. Len(ci) : ci[m].etraps = 0} :
     \E et \in {Last(etraps)} :
       /\ ci' = [SubSeq(ci, 1, d) EXCEPT ![d].ip = et.ip, ![d].etraps = @ - 1]
       /\ stk' = Nulled([stk EXCEPT ![et.base + et.extarget + 1] = err], et.top, top)
       /\ base' = et.base
       /\ top' = et.top
       /\ etraps' = Front(etraps)
       /\ traps' = traps - 1
       /\ Captured(IF d = Len(ci) THEN Outers ELSE CloseOuters(Outers, stk, BaseOf(d + 1)))
       /\ UNCHANGED <<prog, gen, clos, heap, host, status>>

-----------------------------------------------------------------------------
(* Instructions that only move and compute. *)

Load ==
  \E i \in At({"LOAD", "LOADINT", "DLOAD", "MOVE"}) :
  /\ stk' = CASE i.op = "LOAD" -> [stk EXCEPT ![base + i.a0 + 1] = Literal(i.a1)]
              [] i.op = "LOADINT" -> [stk EXCEPT ![base + i.a0 + 1] = IntV(i.a1)]
              [] i.op = "DLOAD" -> [stk EXCEPT ![base + i.a0 + 1] = Literal(i.a1), ![base + i.a2 + 1] = Literal(i.a3)]
              [] i.op = "MOVE" -> [stk EXCEPT ![base + i.a0 + 1] = STK(i.a1)]
  /\ Go(0) /\ StayedPut /\ UNCHANGED <<captured, clos, heap, host>>

LoadMore ==
  \E i \in At({"LOADBOOL", "LOADNULLS", "LOADROOT", "DMOVE"}) :
  /\ stk' = CASE i.op = "LOADBOOL" -> [stk EXCEPT ![base + i.a0 + 1] = BoolV(i.a1 = 1)]
              [] i.op = "LOADNULLS" -> Nulled(stk, base + i.a0, base + i.a0 + i.a1 - 1)
              [] i.op = "LOADROOT" -> [stk EXCEPT ![base + i.a0 + 1] = Root]
              [] i.op = "DMOVE" -> LET s == [stk EXCEPT ![base + i.a0 + 1] = STK(i.a1)]
                                   IN  [s EXCEPT ![base + i.a2 + 1] = s[base + i.a3 + 1]]
  /\ Go(0) /\ StayedPut /\ UNCHANGED <<captured, clos, heap, host>>

\* arg2 is the left operand; EQ and NE may take a literal on the right.
Compute ==
  \E i \in At({"ADD", "SUB", "MUL", "EQ", "NE"}) :
  \E right \in {IF i.op \in {"EQ", "NE"} /\ i.a3 # 0 THEN Literal(i.a1) ELSE STK(i.a1)} :
  \E r \in {CASE i.op \in {"ADD", "SUB", "MUL"} -> Arith(i.op, STK(i.a2), right)
              [] i.op = "EQ" -> Good(BoolV(STK(i.a2) = right))
              [] i.op = "NE" -> Good(BoolV(STK(i.a2) # right))} :
    IF r.ok THEN /\ Put(i.a0, r.v) /\ Go(0) /\ StayedPut
                 /\ UNCHANGED <<captured, clos, heap, host>>
    ELSE Raise(r.v)

Test ==
  \E i \in At({"CMP", "NEG", "NOT"}) :
  \E r \in {CASE i.op = "CMP" -> Compare(i.a3, STK(i.a2), STK(i.a1))
              [] i.op = "NEG" -> Negate(STK(i.a1))
              [] i.op = "NOT" -> Good(BoolV(IsFalse(STK(i.a1))))} :
    IF r.ok THEN /\ Put(i.a0, r.v) /\ Go(0) /\ StayedPut
                 /\ UNCHANGED <<captured, clos, heap, host>>
    ELSE Raise(r.v)

\* INCL leaves the register it counts alone apart from that; PINCL also keeps
\* the old value.
Increment ==
  \E i \in At({"INCL", "PINCL"}) :
  /\ LET r == Arith("ADD", STK(i.a1), IntV(Signed(i.a3)))
         s == IF i.op = "PINCL" THEN [stk EXCEPT ![base + i.a0 + 1] = STK(i.a1)] ELSE stk
     IN  IF r.ok THEN /\ stk' = [s EXCEPT ![base + i.a1 + 1] = r.v] /\ Go(0) /\ StayedPut
                      /\ UNCHANGED <<captured, clos, heap, host>>
         ELSE Raise(r.v)

Jump ==
  \E i \in At({"JMP", "JZ", "JCMP"}) :
  /\ LET cmp == Compare(i.a3, STK(i.a2), STK(i.a0))
         taken == CASE i.op = "JMP" -> TRUE
                    [] i.op = "JZ" -> IsFalse(STK(i.a0))
                    [] i.op = "JCMP" -> IsFalse(cmp.v)
     IN  IF i.op = "JCMP" /\ ~cmp.ok THEN Raise(cmp.v)
         ELSE /\ Go(IF taken THEN i.a1 ELSE 0)
              /\ StayedPut /\ UNCHANGED <<stk, captured, clos, heap, host>>

\* The jump is taken with the value that decided.
AndOr ==
  \E i \in At({"AND", "OR"}) :
  \E taken \in {IsFalse(STK(i.a2)) = (i.op = "AND")} :
    /\ stk' = IF taken THEN [stk EXCEPT ![base + i.a0 + 1] = STK(i.a2)] ELSE stk
    /\ Go(IF taken THEN i.a1 ELSE 0)
    /\ StayedPut /\ UNCHANGED <<captured, clos, heap, host>>

-----------------------------------------------------------------------------
(* Objects: slots of tables, elements of arrays. *)

\* Get falls back to the root table for a key that this (register 0) lacks.
Fetch(o, k, selfidx) ==
  LET r == Slot(heap, o, k) IN IF ~r.ok /\ selfidx = 0 THEN Slot(heap, Root, k) ELSE r
StoreIn(o, k, selfidx) == IF selfidx = 0 /\ ~Slot(heap, o, k).ok THEN Root ELSE o

GetOp ==
  \E i \in At({"GET", "GETK", "PREPCALL", "PREPCALLK", "EXISTS"}) :
  \E obj \in {IF i.op \in {"GET", "EXISTS"} THEN i.a1 ELSE i.a2} :
  \E key \in {CASE i.op \in {"GETK", "PREPCALLK"} -> Literal(i.a1)
                [] i.op \in {"GET", "EXISTS"} -> STK(i.a2)
                [] i.op = "PREPCALL" -> STK(i.a1)} :
  \E r \in {IF i.op = "EXISTS" THEN Good(BoolV(Slot(heap, STK(obj), key).ok))
            ELSE Fetch(STK(obj), key, obj)} :
  \E s \in {IF i.op \in {"PREPCALL", "PREPCALLK"} THEN [stk EXCEPT ![base + i.a3 + 1] = STK(obj)] ELSE stk} :
    IF r.ok THEN /\ stk' = [s EXCEPT ![base + i.a0 + 1] = r.v] /\ Go(0) /\ StayedPut
                 /\ UNCHANGED <<captured, clos, heap, host>>
    ELSE Raise(r.v)

\* SET needs the slot to exist, NEWSLOT makes it, DELETE takes it away.
SetOp ==
  \E i \in At({"SET", "NEWSLOT", "DELETE"}) :
  /\ LET o == IF i.op = "SET" THEN StoreIn(STK(i.a1), STK(i.a2), i.a1) ELSE STK(i.a1)
         old == Slot(heap, o, STK(i.a2))
     IN  CASE i.op \in {"SET", "DELETE"} /\ ~old.ok -> Raise(old.v)
           [] i.op = "DELETE" /\ old.ok ->
                /\ heap' = WithoutSlot(heap, o, STK(i.a2)) /\ Put(i.a0, old.v)
                /\ Go(0) /\ StayedPut /\ UNCHANGED <<captured, clos, host>>
           [] OTHER ->
                /\ heap' = WithSlot(heap, o, STK(i.a2), STK(i.a3)) /\ PutUnless(i.a0, STK(i.a3))
                /\ Go(0) /\ StayedPut /\ UNCHANGED <<captured, clos, host>>

\* DerefInc: COMPARITH, INC and PINC change a slot by a value.
DerefInc ==
  \E i \in At({"COMPARITH", "INC", "PINC"}) :
  \E self \in {IF i.op = "COMPARITH" THEN i.a1 \div 65536 ELSE i.a1} :
  \E val \in {IF i.op = "COMPARITH" THEN STK(i.a1 % 65536) ELSE IntV(Signed(i.a3))} :
  \E op \in {o \in {"ADD", "SUB", "MUL"} : IF i.op = "COMPARITH" THEN ArithChar(o) = i.a3 ELSE o = "ADD"} :
  \E old \in {Fetch(STK(self), STK(i.a2), self)} :
  \E new \in {Arith(op, old.v, val)} :
    IF old.ok /\ new.ok
    THEN /\ heap' = WithSlot(heap, StoreIn(STK(self), STK(i.a2), self), STK(i.a2), new.v)
         /\ Put(i.a0, IF i.op = "PINC" THEN old.v ELSE new.v)
         /\ Go(0) /\ StayedPut /\ UNCHANGED <<captured, clos, host>>
    ELSE Raise(Failure)

NewObj ==
  \E i \in At({"NEWOBJ"}) :
  /\ heap' = Append(heap, IF i.a3 = 1 THEN <<>> ELSE NoSlots)
  /\ Put(i.a0, <<IF i.a3 = 1 THEN "arr" ELSE "tab", Len(heap) + 1>>)
  /\ Go(0) /\ StayedPut /\ UNCHANGED <<captured, clos, host>>

AppendArray ==
  \E i \in At({"APPENDARRAY"}) :
  /\ LET v == CASE i.a2 = 0 -> STK(i.a1) [] i.a2 = 1 -> Literal(i.a1)
                [] i.a2 = 2 -> IntV(i.a1) [] i.a2 = 4 -> BoolV(i.a1 = 1)
     IN  heap' = [heap EXCEPT ![STK(i.a0)[2]] = Append(@, v)]
  /\ Go(0) /\ StayedPut /\ UNCHANGED <<stk, captured, clos, host>>

\* FOREACH_OP over an array: the iterator is the next index.
Foreach ==
  \E i \in At({"FOREACH"}) :
  /\ LET elems == heap[STK(i.a0)[2]]
         it == STK(i.a2 + 2)
         n == IF it = NullV THEN 0 ELSE it[2]
     IN  IF STK(i.a0)[1] # "arr" THEN Raise(Failure)
         ELSE IF n >= Len(elems) THEN Go(i.a1) /\ StayedPut /\ UNCHANGED <<stk, captured, clos, heap, host>>
         ELSE /\ stk' = [stk EXCEPT ![base + i.a2 + 1] = IntV(n), ![base + i.a2 + 2] = elems[n + 1],
                                    ![base + i.a2 + 3] = IntV(n + 1)]
              /\ Go(1) /\ StayedPut /\ UNCHANGED <<captured, clos, heap, host>>

-----------------------------------------------------------------------------
(* Closures and captured variables. *)

\* CLOSURE_OP.
MakeClosure ==
  \E i \in At({"CLOSURE"}) :
  /\ LET p == Function.functions[i.a1 + 1]
         Capture(s, v) ==
           IF v.kind = "otLOCAL"
           THEN LET f == FindOuter(s.o, base + v.src) IN [o |-> f.o, ks |-> Append(s.ks, f.k)]
           ELSE [s EXCEPT !.ks = Append(@, Closure.outervalues[v.src + 1])]
         c == Fold(Capture, [o |-> Outers, ks |-> <<>>], p.outervalues)
         bound == IF i.a2 = NoTarget THEN NullV ELSE STK(i.a2)
     IN  IF i.a2 # NoTarget /\ bound[1] \notin {"tab", "arr"} THEN Raise(Failure)
         ELSE /\ clos' = Append(clos, [fn |-> Append(Closure.fn, i.a1 + 1), outervalues |-> c.ks, env |-> bound,
                                       defaultparams |-> [k \in DOMAIN p.defaultparams |-> STK(p.defaultparams[k])]])
              /\ Captured(c.o)
              /\ Put(i.a0, <<"clo", Len(clos) + 1>>)
              /\ Go(0) /\ StayedPut /\ UNCHANGED <<heap, host>>

OuterValue(k) == IF outers[k].open THEN stk[outers[k].idx + 1] ELSE outers[k].value

GetOuter ==
  \E i \in At({"GETOUTER"}) :
  /\ Put(i.a0, OuterValue(Closure.outervalues[i.a1 + 1]))
  /\ Go(0) /\ StayedPut /\ UNCHANGED <<captured, clos, heap, host>>

SetOuter ==
  \E i \in At({"SETOUTER"}) :
  /\ LET k == Closure.outervalues[i.a1 + 1]
         s == IF outers[k].open THEN [stk EXCEPT ![outers[k].idx + 1] = STK(i.a2)] ELSE stk
     IN  /\ outers' = IF outers[k].open THEN outers ELSE [outers EXCEPT ![k].value = STK(i.a2)]
         /\ stk' = IF i.a0 = NoTarget THEN s ELSE [s EXCEPT ![base + i.a0 + 1] = STK(i.a2)]
  /\ Go(0) /\ StayedPut /\ UNCHANGED <<openouters, clos, heap, host>>

Close ==
  \E i \in At({"CLOSE"}) :
  /\ Captured(CloseOuters(Outers, stk, base + i.a1))
  /\ Go(0) /\ StayedPut /\ UNCHANGED <<stk, clos, heap, host>>

-----------------------------------------------------------------------------
(* Calls. *)

\* StartCall on stack s: the arguments a closure gets, default values and the
\* array of further arguments included, or none if their number is wrong.
Arguments(s, c, p, need, nargs, sb) ==
  LET ndef == Len(p.defaultparams)
      Env(t) == IF c.env = NullV THEN t ELSE [t EXCEPT ![sb + 1] = c.env]
  IN  CASE p.varparams /\ nargs >= need ->
             [ok |-> TRUE, heap |-> Append(heap, SubSeq(s, sb + need + 1, sb + nargs)),
              s |-> Env([Nulled(s, sb + need, sb + nargs - 1) EXCEPT ![sb + need + 1] = <<"arr", Len(heap) + 1>>])]
        [] ~p.varparams /\ nargs <= need /\ need - nargs <= ndef ->
             [ok |-> TRUE, heap |-> heap,
              s |-> Env([i \in DOMAIN s |-> IF i - 1 \in sb + nargs .. sb + need - 1
                                            THEN c.defaultparams[ndef - need + i - sb] ELSE s[i]])]
        [] OTHER -> [ok |-> FALSE, heap |-> heap, s |-> s]

StartCall(s, o, c, target, nargs, sb, tailcall) ==
  \E k \in {clos[c]} : \E p \in {Proto(k.fn)} :
  \E need \in {IF p.varparams THEN p.nparams - 1 ELSE p.nparams} :
  \E a \in {Arguments(s, k, p, need, nargs, sb)} :
    IF ~a.ok THEN Raise(Failure)
    ELSE /\ EnterFrame(a.s, o, sb, sb + p.stacksize, c, target, tailcall)
         /\ heap' = a.heap
         /\ UNCHANGED <<prog, etraps, traps, clos, host, status>>

\* A TAILCALL of what is not a closure is a CALL.
Call ==
  \E i \in At({"CALL"}) :
  /\ STK(i.a1)[1] = "clo"
  /\ StartCall(stk, Outers, STK(i.a1)[2], i.a0, i.a3, base + i.a2, FALSE)

\* The frame is used again: its outers are closed and the arguments moved down.
TailCall ==
  \E i \in At({"TAILCALL"}) :
  \E s \in {[p \in DOMAIN stk |-> IF p - 1 \in base .. base + i.a3 - 1 THEN stk[p + i.a2] ELSE stk[p]]} :
  \E o \in {CloseOuters(Outers, stk, base)} :
  /\ STK(i.a1)[1] = "clo"
  /\ StartCall(s, o, STK(i.a1)[2], Frame.target, i.a3, base, TRUE)

\* The native functions in and out, and whatever cannot be called.
CallNative ==
  \E i \in At({"CALL", "TAILCALL"}) :
  /\ STK(i.a1) = <<"nat", "in">> /\ Len(inputs) < MaxInputs
  /\ \E b \in BOOLEAN : inputs' = Append(inputs, b) /\ PutUnless(i.a0, BoolV(b))
  /\ Go(0) /\ StayedPut /\ UNCHANGED <<captured, clos, heap, trace>>

CallNativeBlocked ==
  \E i \in At({"CALL", "TAILCALL"}) : STK(i.a1) = <<"nat", "in">> /\ Len(inputs) = MaxInputs /\ Stop("blocked")

CallNativeOut ==
  \E i \in At({"CALL", "TAILCALL"}) :
  /\ STK(i.a1) = <<"nat", "out">>
  /\ trace' = Append(trace, Shown(STK(i.a2 + 1)))
  /\ PutUnless(i.a0, NullV)
  /\ Go(0) /\ StayedPut /\ UNCHANGED <<captured, clos, heap, inputs>>

CallNothing == \E i \in At({"CALL", "TAILCALL"}) : STK(i.a1)[1] \notin {"clo", "nat"} /\ Raise(Failure)

\* Return: the value goes to the caller's register before the frame is left.
Return ==
  \E i \in At({"RETURN"}) :
  /\ LET f == Frame
         dest == base - f.prevstkbase + f.target + 1
         v == IF i.a0 = NoTarget THEN NullV ELSE STK(i.a1)
     IN  IF Len(ci) = 1 THEN Stop("done")
         ELSE /\ LeaveFrame(IF f.target = NoTarget THEN stk ELSE [stk EXCEPT ![dest] = v], f)
              /\ ci' = Front(ci)
              /\ UNCHANGED <<prog, gen, etraps, traps, clos, heap, host, status>>

PushTrap ==
  \E i \in At({"PUSHTRAP"}) :
  /\ etraps' = Append(etraps, [top |-> top, base |-> base, ip |-> Frame.ip + 1 + i.a1, extarget |-> i.a0])
  /\ traps' = traps + 1
  /\ ci' = [ci EXCEPT ![Len(ci)].ip = @ + 1, ![Len(ci)].etraps = @ + 1]
  /\ UNCHANGED <<prog, stack, captured, clos, heap, host, status>>

PopTrap ==
  \E i \in At({"POPTRAP"}) :
  /\ etraps' = SubSeq(etraps, 1, Len(etraps) - i.a0)
  /\ traps' = traps - i.a0
  /\ ci' = [ci EXCEPT ![Len(ci)].ip = @ + 1, ![Len(ci)].etraps = @ - i.a0]
  /\ UNCHANGED <<prog, stack, captured, clos, heap, host, status>>

Throw == \E i \in At({"THROW"}) : Raise(STK(i.a0))

-----------------------------------------------------------------------------

\* The host has called the main function: this is the root table, vargv empty.
Init ==
  /\ prog \in DOMAIN Sources
  /\ heap = <<RootTable, <<>>>>
  /\ clos = <<[fn |-> <<>>, outervalues |-> <<>>, env |-> NullV, defaultparams |-> <<>>]>>
  /\ ci = <<[clo |-> 1, ip |-> 0, prevstkbase |-> 0, prevtop |-> 0, target |-> NoTarget, etraps |-> 0]>>
  /\ base = 0 /\ top = Codes[prog].proto.stacksize
  /\ stk = [p \in 1 .. InitialStack |-> IF p = 1 THEN Root ELSE IF p = 2 THEN <<"arr", 2>> ELSE NullV]
  /\ gen = 0 /\ etraps = <<>> /\ traps = 0 /\ outers = <<>> /\ openouters = <<>>
  /\ trace = <<>> /\ inputs = <<>>
  /\ status = IF prog <= Len(Programs("run")) THEN "run" ELSE "compiled"

Next ==
  \/ Load \/ LoadMore \/ Compute \/ Test \/ Increment \/ Jump \/ AndOr \/ GetOp \/ SetOp \/ DerefInc \/ NewObj \/ AppendArray
  \/ Foreach \/ MakeClosure \/ GetOuter \/ SetOuter \/ Close \/ Call \/ TailCall
  \/ CallNative \/ CallNativeBlocked \/ CallNativeOut \/ CallNothing \/ Return
  \/ PushTrap \/ PopTrap \/ Throw

Spec == Init /\ [][Next]_vars

-----------------------------------------------------------------------------
(* Properties. *)

\* The types of the machine's state.
TypeOK ==
  /\ prog \in DOMAIN Sources
  /\ status \in {"run", "done", "uncaught", "blocked", "compiled"}
  /\ base \in 0 .. Len(stk) /\ top \in base .. Len(stk)
  /\ gen \in Nat /\ traps \in Nat
  /\ \A d \in DOMAIN ci : ci[d].clo \in DOMAIN clos /\ ci[d].ip \in 0 .. Len(Proto(clos[ci[d].clo].fn).instrs)
  /\ inputs \in UNION {[1 .. n -> BOOLEAN] : n \in 0 .. MaxInputs}

\* When a program has ended, the host has seen exactly what its text means for
\* the answers it gave: registers, folded instructions, jumps, traps, captured
\* variables and reused frames do not show.
BehavesAsWritten ==
  status \in {"done", "uncaught", "blocked"} => [trace |-> trace, status |-> status] = Meaning(Sources[prog], inputs)

\* The registers an instruction names.
Registers(i) ==
  CASE i.op \in {"LOAD", "LOADINT", "LOADBOOL", "LOADROOT", "GETBASE", "GETOUTER", "THROW", "JZ"} -> {i.a0}
    [] i.op \in {"CMP", "ADD", "SUB", "MUL", "DIV", "MOD", "BITW", "GET", "DELETE", "EXISTS", "INSTANCEOF",
                 "INC", "PINC"} -> {i.a0, i.a1, i.a2}
    [] i.op \in {"EQ", "NE"} -> {i.a0, i.a2} \cup IF i.a3 = 0 THEN {i.a1} ELSE {}
    [] i.op \in {"MOVE", "NEG", "NOT", "BWNOT", "CLONE", "TYPEOF", "RESUME", "INCL", "PINCL"} -> {i.a0, i.a1}
    [] i.op = "DMOVE" -> {i.a0, i.a1, i.a2, i.a3}
    [] i.op \in {"DLOAD", "JCMP", "GETK", "AND", "OR"} -> {i.a0, i.a2}
    [] i.op = "LOADNULLS" -> {i.a0 + i.a1 - 1}
    [] i.op = "PREPCALL" -> {i.a0, i.a1, i.a2, i.a3}
    [] i.op = "PREPCALLK" -> {i.a0, i.a2, i.a3}
    [] i.op \in {"SET", "NEWSLOT"} -> {i.a1, i.a2, i.a3} \cup IF i.a0 = NoTarget THEN {} ELSE {i.a0}
    [] i.op = "NEWSLOTA" -> {i.a1, i.a2, i.a3}
    [] i.op = "SETOUTER" -> {i.a2} \cup IF i.a0 = NoTarget THEN {} ELSE {i.a0}
    [] i.op \in {"CALL", "TAILCALL"} -> {i.a1, i.a2 + i.a3 - 1} \cup IF i.a0 = NoTarget THEN {} ELSE {i.a0}
    [] i.op \in {"FOREACH", "POSTFOREACH"} -> {i.a0, i.a2 + 2}
    [] i.op \in {"RETURN", "YIELD"} -> IF i.a0 = NoTarget THEN {} ELSE {i.a1}
    [] OTHER -> {}

Jumps == {"JMP", "JZ", "JCMP", "AND", "OR", "PUSHTRAP", "FOREACH"}

RECURSIVE WellFormed(_)
WellFormed(p) ==
  /\ ~p.failed
  /\ Last(p.instrs).op = "RETURN"
  /\ \A n \in DOMAIN p.instrs :
       LET i == p.instrs[n]
       IN  /\ i.op \in Jumps => n + i.a1 \in 0 .. Len(p.instrs) - 1
           /\ \A r \in Registers(i) : r < p.stacksize
           /\ i.op \in {"LOAD", "GETK", "PREPCALLK"} => i.a1 < Len(p.literals)
           /\ i.op = "CLOSURE" => i.a1 < Len(p.functions)
           /\ i.op \in {"GETOUTER", "SETOUTER"} => i.a1 < Len(p.outervalues)
  /\ \A k \in DOMAIN p.functions : WellFormed(p.functions[k])

\* What the compiler emits for an accepted program stays inside the function:
\* every jump was resolved and lands on an instruction, every register is one
\* that _stacksize reserves, the stack of targets was never popped wrongly.
CodeWellFormed == (status = "compiled" \/ Frame.ip = 0) => ~Codes[prog].err /\ WellFormed(Codes[prog].proto)

\* Traps are counted alike by frames, by _etraps and by Execute, belong to the
\* frame they were pushed in, and a function returns with none of its own open.
TrapsBalanced ==
  /\ Len(etraps) = traps
  /\ Fold(LAMBDA n, f : n + f.etraps, 0, ci) = traps
  /\ Frame.etraps > 0 => Last(etraps).base = base
  /\ At({"RETURN", "TAILCALL"}) # {} => Frame.etraps = 0

\* The list of open outers is sorted without duplicates, is all the open ones,
\* and each points into the stack as it is now, below its top, which the stack has
\* grown in time to hold.
OutersCurrent ==
  /\ TypeOK
  /\ \A j \in 1 .. Len(openouters) - 1 : outers[openouters[j]].idx > outers[openouters[j + 1]].idx
  /\ {k \in DOMAIN outers : outers[k].open} = Range(openouters)
  /\ \A k \in Range(openouters) : outers[k].gen = gen /\ outers[k].idx < top
=============================================================================
