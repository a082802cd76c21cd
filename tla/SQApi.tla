------------------------------- MODULE SQApi --------------------------------
(***************************************************************************)
(* The value stack as the host sees it: the functions of sqapi.cpp that    *)
(* push, pop, read and write values, calls of native functions             *)
(* (SQVM::CallNative, EnterFrame, LeaveFrame) with everything a native     *)
(* function may do in between, and the closures of the GObject wrapper     *)
(* (src/vm.c), which run the host's function through a trampoline.         *)
(*                                                                         *)
(* A value is <<type, what>>.  Objects live in heap (see SQAccess),        *)
(* native closures in closures.  The host keeps the contract of the API:   *)
(* indices lie in the current frame, values are popped that are there, a   *)
(* call passes "this", a function that says it returns a value has one.    *)
(***************************************************************************)
EXTENDS SQAccess, SequencesExt

CONSTANTS Names,        \* strings the host pushes
          Checks,       \* values for sq_setparamscheck
          Scenes        \* bounds: records [uses, objs, closures, depth, room, steps, heap]

VARIABLES stack, top, base,   \* _stack, _top, _stackbase
          calls,              \* frames of the native functions under way
          heap, closures,
          lasterror,
          scene, steps        \* bounds of this behaviour, operations so far

vars == <<stack, top, base, calls, heap, closures, lasterror, scene, steps>>

Null == <<"null", 0>>
String(k) == <<"string", k>>
Object(h, o) == <<h[o].kind, o>>
Closure(c) == <<"closure", c>>
Pointer(c) == <<"pointer", c>>        \* the SquirrelClosureData made with closure c
Error == String("error")              \* any message

Type(v) == v[1]
IsKey(v) == Type(v) \in {"null", "string"}
KeyOf(v) == IF v = Null THEN "null" ELSE v[2]
Unused == "unused"                    \* a node without a key: no string of the host

MaxStack == Len(scene.heap) + scene.room

\* A scene starts with tables and userdata that hold nothing but null, without a
\* cycle of delegates, and has room for one value beside them.
ASSUME SceneAssumption ==
  /\ Unused \notin Names
  /\ \A s \in Scenes :
       /\ s.room \in Nat \ {0} /\ s.heap \in Seq(ToSet(s.heap))
       /\ \A o \in DOMAIN s.heap :
            LET x == s.heap[o]
            IN  /\ x = [kind |-> x.kind, slots |-> x.slots, delegate |-> x.delegate]
                /\ x.kind \in {"table", "userdata"} /\ x.delegate \in 0 .. Len(s.heap)
                /\ \A k \in DOMAIN x.slots : x.slots[k] = Null
                /\ o \notin Delegates(s.heap, o)

-----------------------------------------------------------------------------
(* The stack: slots 0 .. MaxStack - 1, those from base to top - 1 in use. *)

Indices == (1 .. top - base) \cup {-i : i \in 1 .. top - base}

\* stack_get: from the base for a positive index, from the top for a negative one.
Slot(idx) == IF idx >= 0 THEN base + idx - 1 ELSE top + idx
At(idx) == stack[Slot(idx)]

Frame(from, to) == [i \in 1 .. to - from |-> stack[from + i - 1]]

\* SQVM::Pop(n): every slot given up is nulled.
Popped(st, t, n) == [i \in DOMAIN st |-> IF i >= t - n /\ i < t THEN Null ELSE st[i]]

Pop(n) == stack' = Popped(stack, top, n) /\ top' = top - n

Push(v) == /\ top < MaxStack
           /\ stack' = [stack EXCEPT ![top] = v]
           /\ top' = top + 1

SameStack == UNCHANGED <<stack, top>>
SameRest == UNCHANGED <<base, calls, scene>>
SameData == UNCHANGED <<heap, closures>>

\* sq_throwerror, Raise_Error: only the error is kept.
Throw == lasterror' = Error
NoError == UNCHANGED lasterror

\* A function that fails before it changes anything.
Refuse == Throw /\ SameStack /\ SameData

-----------------------------------------------------------------------------
(* Values on the stack. *)

PushNull == Push(Null) /\ NoError /\ SameData /\ SameRest

PushString == \E k \in Names : Push(String(k)) /\ NoError /\ SameData /\ SameRest

SqPush == \E idx \in Indices : Push(At(idx)) /\ NoError /\ SameData /\ SameRest

NewObject(kind) ==
  /\ Len(heap) < scene.objs
  /\ heap' = Append(heap, [kind |-> kind, slots |-> <<>>, delegate |-> 0])
  /\ Push(<<kind, Len(heap) + 1>>)
  /\ NoError /\ UNCHANGED closures /\ SameRest

NewTable == NewObject("table")
NewUserData == NewObject("userdata")

SqPop == \E n \in 1 .. top - base : Pop(n) /\ NoError /\ SameData /\ SameRest

\* sq_settop pops or pushes nulls; newtop lies in the frame.
SetTop ==
  \E newtop \in 0 .. MaxStack - base :
    /\ stack' = [i \in DOMAIN stack |->
         IF (i >= base + newtop /\ i < top) \/ (i >= top /\ i < base + newtop) THEN Null ELSE stack[i]]
    /\ top' = base + newtop
    /\ NoError /\ SameData /\ SameRest

\* SQVM::Remove: the values above, and the slot at the top with them, move down
\* one slot; the slots the model has no room for are null.
SqRemove ==
  \E idx \in Indices :
    /\ stack' = [i \in DOMAIN stack |-> CASE i >= Slot(idx) /\ i < top -> IF i + 1 < MaxStack THEN stack[i + 1] ELSE Null
                                          [] i = top -> Null
                                          [] OTHER -> stack[i]]
    /\ top' = top - 1
    /\ NoError /\ SameData /\ SameRest

ThrowObject == top > base /\ lasterror' = At(-1) /\ Pop(1) /\ SameData /\ SameRest

ResetError == lasterror' = Null /\ SameStack /\ SameData /\ SameRest

GetLastError == Push(lasterror) /\ NoError /\ SameData /\ SameRest

-----------------------------------------------------------------------------
(* Slots.  A metamethod that is called leaves the stack as it was; ends says *)
(* how it ends.                                                             *)

Ends == {"ok", "clean", "error"}
AllEnd(end) == [o \in DOMAIN heap |-> end]

IsObject(v) == Type(v) \in {"table", "userdata"}

\* A key and a value on top; fewer values in the frame are refused.
SqNewSlot ==
  /\ \E idx \in Indices :
       CASE top - base < 3 -> Refuse
         [] top - base >= 3 /\ Type(At(idx)) # "table" -> SameStack /\ SameData /\ NoError
         [] top - base >= 3 /\ Type(At(idx)) = "table" /\ At(-2) = Null -> Refuse
         [] OTHER -> /\ IsKey(At(-2))
                     /\ \E end \in Ends : \E d \in {NewSlot(heap, At(idx)[2], KeyOf(At(-2)), At(-1), AllEnd(end))} :
                          /\ heap' = d.h
                          /\ IF d.r = "ok" THEN NoError ELSE Throw
                     /\ Pop(2) /\ UNCHANGED closures
  /\ SameRest

\* The value found takes the place of the key.
Replace(v) == stack' = [stack EXCEPT ![top - 1] = v] /\ UNCHANGED top

Taken(pushval, v) == IF pushval THEN Replace(v) ELSE Pop(1)

SqDeleteSlot ==
  /\ \E idx \in Indices, pushval \in BOOLEAN :
       IF top - base < 2 \/ Type(At(idx)) # "table" \/ At(-1) = Null THEN Refuse
       ELSE /\ IsKey(At(-1))
            /\ \E end \in Ends : \E d \in {DeleteSlot(heap, At(idx)[2], KeyOf(At(-1)), AllEnd(end))} :
                 /\ heap' = d.h
                 /\ IF d.r = "ok" THEN Taken(pushval, d.v) /\ NoError ELSE Pop(1) /\ Throw
            /\ UNCHANGED closures
  /\ SameRest

RawDeleteSlot ==
  /\ \E idx \in Indices, pushval \in BOOLEAN :
       IF top - base < 2 \/ Type(At(idx)) # "table" THEN Refuse
       ELSE LET o == At(idx)[2]
                k == KeyOf(At(-1))
            IN  /\ IsKey(At(-1))
                /\ heap' = [heap EXCEPT ![o].slots = Without(@, k)]
                /\ Taken(pushval, IF Has(heap, o, k) THEN heap[o].slots[k] ELSE Null)
                /\ NoError /\ UNCHANGED closures
  /\ SameRest

\* The objects Set tries for o.
Tried(o) == {o} \cup Delegates(heap, o)

\* A delegate that has no such slot has raised its error by the time a metamethod
\* is called.
Raised(o, k) == heap[o].kind = "table" /\ \A x \in Tried(o) : ~Has(heap, x, k)

\* SQTable::Set finds any node without a key for null.  The value stays there,
\* unread, until the node is used or the table rehashed.
SetUnusedNode(o) ==
  /\ heap[o].kind = "table" /\ At(-2) = Null
  /\ \E x \in Tried(o) : heap' = [heap EXCEPT ![x].slots = With(@, Unused, At(-1))]
  /\ Pop(2) /\ NoError /\ UNCHANGED closures

\* A failure leaves key and value on the stack.
SetSlot(o) ==
  \E end \in Ends : \E d \in {Set(heap, o, KeyOf(At(-2)), At(-1), AllEnd(end))} :
    /\ heap' = d.h /\ UNCHANGED closures
    /\ IF d.r = "ok" THEN Pop(2) ELSE SameStack
    /\ IF d.r = "ok" /\ ~Raised(o, KeyOf(At(-2))) THEN NoError ELSE Throw

SqSet ==
  /\ top - base >= 2 /\ IsKey(At(-2))
  /\ \E idx \in Indices :
       \/ ~IsObject(At(idx)) /\ Refuse
       \/ IsObject(At(idx)) /\ (SetUnusedNode(At(idx)[2]) \/ SetSlot(At(idx)[2]))
  /\ SameRest

\* Key and value are popped whatever happens: arrays and instances, which keep
\* them, are left out.
RawSet ==
  /\ top - base >= 2 /\ IsKey(At(-2))
  /\ \E idx \in Indices :
       IF At(-2) = Null \/ Type(At(idx)) # "table" THEN UNCHANGED heap /\ Throw
       ELSE heap' = [heap EXCEPT ![At(idx)[2]].slots = With(@, KeyOf(At(-2)), At(-1))] /\ NoError
  /\ Pop(2) /\ UNCHANGED closures /\ SameRest

\* Strings and functions have default delegates too, with some of the names.
HasMethod(v, k) == Type(v) \in {"string", "closure", "default"} /\ k \in DefaultDelegate

\* The value replaces the key; a failure pops the key.
SqGet ==
  /\ top > base /\ IsKey(At(-1))
  /\ \E idx \in Indices :
       \/ ~IsObject(At(idx)) /\ Pop(1) /\ Throw
       \/ HasMethod(At(idx), KeyOf(At(-1))) /\ Replace(<<"default", KeyOf(At(-1))>>) /\ NoError
       \/ /\ IsObject(At(idx))
          /\ \E end \in Ends : \E g \in {Get(heap, At(idx)[2], KeyOf(At(-1)), AllEnd(end))} :
               IF g.r = "ok" THEN Replace(g.v) /\ NoError ELSE Pop(1) /\ Throw
  /\ SameData /\ SameRest

RawGet ==
  /\ top > base /\ IsKey(At(-1))
  /\ \E idx \in Indices :
       IF Type(At(idx)) = "table" /\ Has(heap, At(idx)[2], KeyOf(At(-1)))
       THEN Replace(heap[At(idx)[2]].slots[KeyOf(At(-1))]) /\ NoError
       ELSE Pop(1) /\ Throw
  /\ SameData /\ SameRest

Clear ==
  /\ \E idx \in Indices :
       IF Type(At(idx)) # "table" THEN Refuse
       ELSE /\ heap' = [heap EXCEPT ![At(idx)[2]].slots = <<>>]
            /\ SameStack /\ NoError /\ UNCHANGED closures
  /\ SameRest

SqClone ==
  /\ top < MaxStack
  /\ \E idx \in Indices :
       IF ~IsObject(At(idx)) THEN Refuse
       ELSE /\ \E end \in Ends : \E d \in {Clone(heap, At(idx)[2], AllEnd(end))} :
                 /\ Len(d.h) <= scene.objs
                 /\ heap' = d.h
                 /\ IF d.r = "ok" THEN Push(<<"table", d.v>>) /\ NoError ELSE SameStack /\ Throw
            /\ UNCHANGED closures
  /\ SameRest

-----------------------------------------------------------------------------
(* Delegates. *)

\* The result of SetDelegate is looked at for tables only.
SqSetDelegate ==
  /\ top > base
  /\ \E idx \in Indices :
       LET mt == IF At(-1) = Null THEN 0 ELSE At(-1)[2]
           o == At(idx)[2]
       IN  IF ~IsObject(At(idx)) \/ Type(At(-1)) \notin {"null", "table"} THEN Refuse
           ELSE IF Type(At(idx)) = "table" /\ ~MayDelegate(heap, o, mt) THEN Refuse
           ELSE heap' = SetDelegate(heap, o, mt) /\ Pop(1) /\ NoError /\ UNCHANGED closures
  /\ SameRest

GetDelegate ==
  /\ \E idx \in Indices :
       IF ~IsObject(At(idx)) THEN Refuse
       ELSE LET mt == heap[At(idx)[2]].delegate
            IN  Push(IF mt = 0 THEN Null ELSE Object(heap, mt)) /\ NoError /\ SameData
  /\ SameRest

-----------------------------------------------------------------------------
(* Native closures: outers is _outervalues.  History: given, the host's free *)
(* variables by number, and data, the closure whose data its function needs. *)

\* sq_newclosure pops its free variables from the top down.
NewClosure(values) == Reverse(values)

\* squirrel_vm_new_closure takes the free variables off and puts them back over
\* the pointer to the function and its data.
WithData(values, c) == LET freevars == Reverse(values) IN <<Pointer(c)>> \o Reverse(freevars)

\* sq_newclosure by the libraries, squirrel_vm_new_closure by a host of the wrapper.
MakeClosure ==
  \E nfreevars \in 0 .. top - base, wrapped \in BOOLEAN :
    LET c == Len(closures) + 1
        values == Frame(top - nfreevars, top)
    IN  /\ c <= scene.closures /\ top - nfreevars < MaxStack
        /\ closures' = Append(closures,
             [outers |-> NewClosure(IF wrapped THEN WithData(values, c) ELSE values), wrapped |-> wrapped,
              nparamscheck |-> 0, env |-> Null, given |-> Reverse(values), data |-> c])
        /\ stack' = [Popped(stack, top, nfreevars) EXCEPT ![top - nfreevars] = Closure(c)]
        /\ top' = top - nfreevars + 1
        /\ NoError /\ UNCHANGED heap /\ SameRest

SetParamsCheck ==
  /\ top > base
  /\ \E n \in Checks :
       IF Type(At(-1)) # "closure" THEN Refuse
       ELSE /\ closures' = [closures EXCEPT ![At(-1)[2]].nparamscheck = n]
            /\ SameStack /\ NoError /\ UNCHANGED heap
  /\ SameRest

\* sq_bindenv pushes a copy of the closure in place of its environment, to which it
\* keeps a weak reference only.
BindEnv ==
  /\ top > base
  /\ \E idx \in Indices :
       IF Type(At(idx)) # "closure" \/ Type(At(-1)) # "table" THEN Refuse
       ELSE /\ Len(closures) < scene.closures
            /\ closures' = Append(closures, [closures[At(idx)[2]] EXCEPT !.env = At(-1)])
            /\ stack' = [stack EXCEPT ![top - 1] = Closure(Len(closures) + 1)]
            /\ NoError /\ UNCHANGED <<top, heap>>
  /\ SameRest

\* A number past the last free variable, or no closure, pushes nothing.
GetFreeVariable ==
  \E idx \in Indices :
    /\ Type(At(idx)) = "closure"
    /\ \E nval \in DOMAIN closures[At(idx)[2]].outers : Push(closures[At(idx)[2]].outers[nval])
    /\ NoError /\ SameData /\ SameRest

\* The host knows how many free variables it gave: the pointer of a wrapped
\* closure is one more.
SetFreeVariable ==
  /\ top > base
  /\ \E idx \in Indices :
       IF Type(At(idx)) # "closure" \/ closures[At(idx)[2]].outers = <<>> THEN Refuse
       ELSE /\ \E nval \in DOMAIN closures[At(idx)[2]].given :
                 closures' = [closures EXCEPT ![At(idx)[2]].outers[nval] = At(-1), ![At(idx)[2]].given[nval] = At(-1)]
            /\ Pop(1) /\ NoError /\ UNCHANGED heap
  /\ SameRest

-----------------------------------------------------------------------------
(* Calls. *)

\* A positive check is the exact number of arguments, a negative one the least.
ParamsFit(nc, nargs) ==
  CASE nc.nparamscheck > 0 -> nargs = nc.nparamscheck
    [] nc.nparamscheck < 0 -> nargs >= -nc.nparamscheck
    [] OTHER -> TRUE

\* What a value keeps alive.  A value in a node without a key does so until the node
\* is used again, and clones do not have it: unread says whether these count.
Holds(v, unread) ==
  CASE Type(v) = "closure" -> ToSet(closures[v[2]].outers)
    [] IsObject(v) -> LET x == heap[v[2]]
                      IN  {x.slots[k] : k \in IF unread THEN DOMAIN x.slots ELSE DOMAIN x.slots \ {Unused}}
                            \cup (IF x.delegate = 0 THEN {} ELSE {Object(heap, x.delegate)})
    [] OTHER -> {}

Allocated == {Object(heap, o) : o \in DOMAIN heap} \cup {Closure(c) : c \in DOMAIN closures}
Roots == {stack[i] : i \in DOMAIN stack} \cup {lasterror} \cup {Closure(calls[i].closure) : i \in DOMAIN calls}

\* What reference counting leaves alive: the stack, the last error, the functions
\* that run, and what others that are alive refer to, cycles too.
Alive(unread) ==
  UNION {S \in SUBSET Allocated : \A v \in S : v \in Roots \/ \E w \in S : v \in Holds(w, unread)}

\* _env->_obj is null once the table has been released.
EnvObj(nc, unread) == IF nc.env \in Alive(unread) THEN nc.env ELSE Null

\* Mutant: the argument is passed if the environment is gone.
EnteredIfAlive(nc, obj, newbase, nargs) ==
  [i \in DOMAIN stack |->
     CASE i = newbase /\ obj # Null -> obj
       [] i >= newbase + nargs /\ i < newbase + nargs + Len(nc.outers) -> nc.outers[i - newbase - nargs + 1]
       [] OTHER -> stack[i]]

\* The frame of closure c: arguments, then free variables; the environment obj, if
\* one is bound, replaces the first argument.
Entered(nc, obj, newbase, nargs) ==
  [i \in DOMAIN stack |->
     CASE i = newbase /\ nc.env # Null -> obj
       [] i >= newbase + nargs /\ i < newbase + nargs + Len(nc.outers) -> nc.outers[i - newbase - nargs + 1]
       [] OTHER -> stack[i]]

\* CallNative up to the host's function.  squirrel_exec_native_closure takes the
\* pointer off the top before it runs that function.
CallNative(c, nargs, retval, callback) ==
  LET nc == closures[c]
      newbase == top - nargs
      newtop == top + Len(nc.outers)
      used == IF nc.wrapped THEN newtop - 1 ELSE newtop
  IN  /\ newtop <= MaxStack
      /\ \E unread \in BOOLEAN : \E obj \in {EnvObj(nc, unread)} : \E st \in {Entered(nc, obj, newbase, nargs)} :
           /\ stack' = Popped(st, newtop, newtop - used)
           /\ calls' = Append(calls,
                [closure |-> c, prevstkbase |-> newbase - base, prevtop |-> top - base, nargs |-> nargs,
                 retval |-> retval, callback |-> callback, below |-> Frame(0, newbase),
                 served |-> /\ nc.wrapped => st[newtop - 1] = Pointer(nc.data)
                            /\ [i \in 1 .. used - newbase |-> st[newbase + i - 1]]
                                 = (IF nc.env = Null THEN Frame(newbase, top)
                                    ELSE <<obj>> \o Frame(newbase + 1, top)) \o nc.given])
      /\ top' = used /\ base' = newbase
      /\ NoError /\ UNCHANGED <<heap, closures, scene>>

\* A call failed with error err: the arguments are popped; run_callback pushes the
\* error and asks for it as a string, which raises another if it is none and leaves
\* the message it prints unset.
CallFailed(st, t, nargs, callback, err) ==
  IF callback
  THEN /\ stack' = [Popped(st, t, nargs) EXCEPT ![t - nargs] = err] /\ top' = t - nargs + 1
       /\ lasterror' = IF Type(err) = "string" THEN err ELSE Error
  ELSE stack' = Popped(st, t, nargs) /\ top' = t - nargs /\ lasterror' = err

\* sq_call, and squirrel_vm_run_callback, which always asks for the result.
SqCall ==
  \E nargs \in 1 .. top - base - 1, retval, callback \in BOOLEAN :
    LET f == At(-(nargs + 1))
    IN  /\ callback => retval
        /\ IF Type(f) = "closure" /\ Len(calls) < scene.depth /\ ParamsFit(closures[f[2]], nargs)
           THEN CallNative(f[2], nargs, retval, callback)
           ELSE CallFailed(stack, top, nargs, callback, Error) /\ SameData /\ SameRest

\* Mutant: what the callee has left above the caller's values stays.
LeftStackKept(oldtop) == stack

\* LeaveFrame nulls what the callee has left above the caller's values.
LeftStack(oldtop) == [i \in DOMAIN stack |-> IF i >= oldtop /\ i <= top THEN Null ELSE stack[i]]

\* Mutant: sq_call leaves the arguments of a call that fails.
ReturnKeeping ==
  /\ calls # <<>>
  /\ LET f == Last(calls)
         oldtop == base - f.prevstkbase + f.prevtop
     IN  stack' = LeftStack(oldtop) /\ top' = oldtop /\ NoError
  /\ base' = base - Last(calls).prevstkbase
  /\ calls' = Front(calls)
  /\ UNCHANGED <<heap, closures, scene>>

\* The host's function returns: -1 for an error, 0 for null, 1 for the value on top.
Return ==
  /\ calls # <<>>
  /\ \E ret \in {-1, 0, 1} :
       LET f == Last(calls)
           oldtop == base - f.prevstkbase + f.prevtop
           res == IF ret = 1 THEN stack[top - 1] ELSE Null
           t == oldtop - f.nargs
       IN  /\ ret = 1 => top > base
           /\ IF ret < 0 THEN CallFailed(LeftStack(oldtop), oldtop, f.nargs, f.callback, lasterror)
              ELSE /\ NoError
                   /\ stack' = IF f.retval THEN [Popped(LeftStack(oldtop), oldtop, f.nargs) EXCEPT ![t] = res]
                               ELSE Popped(LeftStack(oldtop), oldtop, f.nargs)
                   /\ top' = IF f.retval THEN t + 1 ELSE t
  /\ base' = base - Last(calls).prevstkbase
  /\ calls' = Front(calls)
  /\ UNCHANGED <<heap, closures, scene>>

-----------------------------------------------------------------------------
\* The host starts with the objects of its scene on the stack.
Init ==
  /\ scene \in Scenes
  /\ heap = scene.heap
  /\ stack = [i \in 0 .. MaxStack - 1 |-> IF i < Len(heap) THEN Object(heap, i + 1) ELSE Null]
  /\ top = Len(heap) /\ base = 0
  /\ calls = <<>> /\ closures = <<>> /\ lasterror = Null /\ steps = 0

Values == PushString \/ SqPush \/ SqPop
Order == PushNull \/ SetTop
Errors == ThrowObject \/ ResetError \/ GetLastError
Slots == SqNewSlot \/ SqDeleteSlot \/ RawDeleteSlot \/ SqSet \/ RawSet \/ SqGet \/ RawGet \/ Clear
Objects == NewTable \/ NewUserData \/ SqClone \/ SqSetDelegate \/ GetDelegate
Functions == MakeClosure \/ SetParamsCheck \/ BindEnv \/ GetFreeVariable \/ SetFreeVariable \/ SqCall \/ Return

Operation ==
  \/ Values
  \/ "order" \in scene.uses /\ Order
  \/ {"order", "remove"} \cap scene.uses # {} /\ SqRemove
  \/ "errors" \in scene.uses /\ Errors
  \/ "slots" \in scene.uses /\ Slots
  \/ "objects" \in scene.uses /\ Objects
  \/ "functions" \in scene.uses /\ Functions

Next == steps < scene.steps /\ steps' = steps + 1 /\ Operation

Spec == Init /\ [][Next]_vars

-----------------------------------------------------------------------------
(* Properties. *)

\* The collector marks the whole stack, so a value left behind above _top stays
\* alive for ever: whatever calls, removals and errors have done, the slots above
\* the top are null.
DeadSlotsNull == \A i \in DOMAIN stack : i >= top => stack[i] = Null

\* SetDelegate's test for a cycle: no order of sq_setdelegate, sq_clone and new
\* objects makes a table its own delegate, on which Get would not end.
DelegatesAcyclic == \A o \in DOMAIN heap : o \notin Delegates(heap, o)

\* The host's function is run with its own data and sees the arguments of the call,
\* and then its free variables by number, whether it runs through the trampoline or
\* not, after bindenv and setfreevariable too; if an environment is bound it comes
\* first, or null once nothing but weak references to it are left.
FunctionsServed == \A i \in DOMAIN calls : calls[i].served

\* When a native function returns, its caller's frame is as it was, the arguments
\* replaced by nothing or, if it was asked for, by one value: whatever the function
\* pushed, popped, called or left behind, and whether it failed.
CallsBalanced ==
  [][Len(calls') < Len(calls) =>
       LET f == Last(calls)
           now == Frame(0, top)'
       IN  /\ base' = base - f.prevstkbase
           /\ f.below = SubSeq(now, 1, Len(f.below))
           /\ Len(now) \in IF f.retval THEN {Len(f.below), Len(f.below) + 1} ELSE {Len(f.below)}]_vars
=============================================================================
