------------------------------- MODULE SQHeap -------------------------------
(***************************************************************************)
(* The object heap of the virtual machine: reference counts, weak          *)
(* references, the doubly linked chain of collectable objects, and the     *)
(* mark-and-sweep collector that breaks cycles (squirrel/sqobject.h,       *)
(* sqobject.cpp, sqstate.cpp, the Release methods of sqclass.h, sqarray.h, *)
(* sqtable.h and sqclosure.h).                                             *)
(*                                                                         *)
(* Every place that counts as one reference is a slot: the roots (stacks,  *)
(* registry, refs table), the fields of objects, the collector's locals t  *)
(* and nx, and the reference SQInstance::Release holds on the instance     *)
(* while its release hook runs.  Releasing is small-step: work is the C++  *)
(* call stack of Release methods under way, because a release hook is host *)
(* code that runs in the middle of it.                                     *)
(***************************************************************************)
EXTENDS Integers, FiniteSets, Sequences

CONSTANTS Ids,      \* collectable objects
          WIds,     \* SQWeakRef objects
          Fields,   \* the SQObjectPtr members of an object
          Roots,    \* the slots that are not in a collectable object
          OuterRoots,  \* those of _openouters, which RunMark does not visit
          LocalRoots,  \* SQObjectPtr locals of C++ functions that call a script,
                       \* such as array.map's result: RunMark cannot visit them
          KeptSlots,   \* the members that Finalize leaves to the destructor
          Keeps,       \* <<o, p>>: o may have p in such a member
          Hooked,   \* the instances that have a release hook
          HookOps,  \* what release hooks called by a sweep or by sq_close do that
                    \* they had better not do: see README
          Hidden,   \* function prototypes and outers, not given to scripts
          Nil

ASSUME HeapAssumption ==
  /\ IsFiniteSet(Ids) /\ IsFiniteSet(WIds) /\ IsFiniteSet(Fields) /\ IsFiniteSet(Roots)
  /\ Ids \cap WIds = {} /\ Nil \notin Ids \cup WIds
  /\ Hooked \subseteq Ids /\ Hidden \subseteq Ids
  /\ OuterRoots \subseteq Roots /\ LocalRoots \subseteq Roots
  /\ "pin" \notin Fields
  /\ HookOps \subseteq {"new", "deref", "late"}

\* A generator keeps its closure, a closure its prototype and base class, a
\* prototype the prototypes of its functions: that goes round in no circle.
ASSUME KeepsAssumption ==
  /\ KeptSlots \subseteq Ids \X Fields /\ Keeps \subseteq Ids \X Ids
  /\ \A S \in SUBSET Ids : S # {} => \E p \in S : \A o \in S : <<o, p>> \notin Keeps

Objs == Ids \cup WIds

RootSlots == {"root"} \X Roots
OuterSlots == {"root"} \X OuterRoots
\* The roots of RunMark: the root VM's stack and registers, the refs table, the
\* registry, the constant table and the default delegates.
VisitedSlots == RootSlots \ {"root"} \X (OuterRoots \cup LocalRoots)
FieldSlots == Ids \X Fields
T == <<"gc", "t">>
NX == <<"gc", "nx">>
Pin(o) == <<o, "pin">>
PinSlots == Ids \X {"pin"}
Slots == RootSlots \cup FieldSlots \cup {T, NX} \cup PinSlots

ASSUME SlotsDistinct ==
  /\ RootSlots \cap FieldSlots = {}
  /\ T \notin RootSlots \cup FieldSlots /\ NX \notin RootSlots \cup FieldSlots
  /\ \A o \in Ids : Pin(o) \notin RootSlots \cup FieldSlots \cup {T, NX}

VARIABLES alive,     \* allocated objects
          rc,        \* _uiRef without MARK_FLAG
          mark,      \* objects with MARK_FLAG
          slot,      \* what every slot refers to
          weakref,   \* SQRefCounted::_weakref of an object
          wobj,      \* SQWeakRef::_obj of a weak reference
          chain,     \* the chain an object is linked in: "none", "gc", "t"
          nxt, prv,  \* _next and _prev
          head,      \* _gc_chain and the collector's tchain
          work,      \* Release calls under way, innermost last
          phase,     \* where the collector is
          cur,       \* ResurrectUnreachable's local t
          closing,   \* sq_close was called
          dropped,   \* the roots sq_close is done with
          garbage    \* the objects unreachable when the sweep began

vars == <<alive, rc, mark, slot, weakref, wobj, chain, nxt, prv, head, work, phase, cur, closing, dropped, garbage>>
chainVars == <<chain, nxt, prv, head>>
gcVars == <<mark, phase, cur, closing, dropped, garbage>>

-----------------------------------------------------------------------------
(* Chain operations. *)

AddToChain(c, o) ==
  /\ chain' = [chain EXCEPT ![o] = c]
  /\ nxt' = [nxt EXCEPT ![o] = head[c]]
  /\ prv' = [x \in Ids |-> IF x = o THEN Nil ELSE IF x = head[c] THEN o ELSE prv[x]]
  /\ head' = [head EXCEPT ![c] = o]

\* next, prev and head after o is taken out of chain c.
NextWithout(o) == [x \in Ids |-> IF x = o THEN Nil
                                 ELSE IF x = prv[o] THEN nxt[o] ELSE nxt[x]]
\* Mutant: _next->_prev is left alone.
PrevWithoutRelinking(o) == [prv EXCEPT ![o] = Nil]
PrevWithout(o) == [x \in Ids |-> IF x = o THEN Nil
                                 ELSE IF x = nxt[o] THEN prv[o] ELSE prv[x]]
HeadWithout(c, o) == [head EXCEPT ![c] = IF prv[o] = Nil THEN nxt[o] ELSE @]

RemoveFromChain(c, o) ==
  /\ chain' = [chain EXCEPT ![o] = "none"]
  /\ nxt' = NextWithout(o)
  /\ prv' = PrevWithout(o)
  /\ head' = HeadWithout(c, o)

\* S has the successor of each of its members along the links n.
Along(n, S) == \A x \in S : n[x] # Nil => n[x] \in S
\* x, if it is an object, and everything behind it along the links n.
After(n, x) == {o \in Ids : \A S \in SUBSET Ids : Along(n, S) /\ (x \in Ids => x \in S) => o \in S}

\* END_MARK: out of _gc_chain, in at the head of tchain.
MoveToTChain(o) ==
  LET h == HeadWithout("gc", o)
  IN  /\ chain' = [chain EXCEPT ![o] = "t"]
      /\ nxt' = [NextWithout(o) EXCEPT ![o] = h["t"]]
      /\ prv' = [x \in Ids |-> IF x # o /\ x = h["t"] THEN o ELSE PrevWithout(o)[x]]
      /\ head' = [h EXCEPT !["t"] = o]

-----------------------------------------------------------------------------
(* References. *)

Same(x, y) == IF x = y THEN 1 ELSE 0

\* The counts after slot s is given the value v: addref new, release old.
Counts(s, v) == [o \in Objs |-> rc[o] + Same(v, o) - Same(slot[s], o)]

\* Releasing the old value of s runs its Release: the count reached zero, and
\* MARK_FLAG is not there to keep it from comparing equal to zero.
Drops(s, v) == /\ slot[s] # Nil
               /\ Counts(s, v)[slot[s]] = 0
               /\ slot[s] \notin mark

Frame(o, st) == [o |-> o, st |-> st]
Top == work[Len(work)]
Pop == SubSeq(work, 1, Len(work) - 1)
Push(o) == Append(work, Frame(o, IF o \in Hooked THEN "enter" ELSE "destroy"))

\* Mutant: SQWeakRef::Release does not reset its target's _weakref.
AssignForgettingWeakRef(s, v, al, wo, wr) ==
  LET old == slot[s]
      w == IF Drops(s, v) /\ old \in WIds THEN {old} ELSE {}
  IN  /\ slot' = [slot EXCEPT ![s] = v]
      /\ rc' = Counts(s, v)
      /\ alive' = al \ w
      /\ wobj' = [x \in WIds |-> IF x \in w THEN Nil ELSE wo[x]]
      /\ weakref' = wr
      /\ work' = IF Drops(s, v) /\ old \in Ids THEN Push(old) ELSE work

\* SQObjectPtr::operator= and Null: s takes the value v, given what is allocated
\* and how weak references are tied by then.  A weak reference that drops is
\* freed at once (SQWeakRef::Release); for a collectable object Release begins.
AssignIn(s, v, al, wo, wr) ==
  LET old == slot[s]
      w == IF Drops(s, v) /\ old \in WIds THEN {old} ELSE {}
  IN  /\ slot' = [slot EXCEPT ![s] = v]
      /\ rc' = Counts(s, v)
      /\ alive' = al \ w
      /\ wobj' = [x \in WIds |-> IF x \in w THEN Nil ELSE wo[x]]
      /\ weakref' = [o \in Ids |-> IF wr[o] \in w THEN Nil ELSE wr[o]]
      /\ work' = IF Drops(s, v) /\ old \in Ids THEN Push(old) ELSE work

Assign(s, v) == AssignIn(s, v, alive, wobj, weakref)

-----------------------------------------------------------------------------
(* The program: script and host code, in a release hook too. *)

InHook == work # <<>> /\ Top.st = "hook"
Running == (phase = "run" /\ work = <<>>) \/ InHook
\* A hook that a sweep has called, of a collection or of sq_close.
HookInSweep == InHook /\ phase \notin {"run", "close"}

Dying(o) == \E i \in DOMAIN work : work[i].o = o /\ work[i].st # "hook"

\* The roots the program can name: in sq_close those that are still there.
Named == RootSlots \ (IF "late" \in HookOps THEN {} ELSE dropped)
\* What the roots R refer to.
HeldBy(R) == {slot[r] : r \in R} \cap Ids
\* The slots the program can name: roots and fields of objects it holds.  An
\* outer on the list of open outers is made there (FindOuter), captured by
\* closures and dropped (CloseOuters); the list is not written otherwise, and
\* the outer has no value of its own while it is open.
Held == HeldBy(Named \ OuterSlots)
Accessible == Named \cup {s \in FieldSlots : s[1] \in Held}
Writable == Accessible \ OuterSlots

\* s may be given v: prototypes and outers are put in members only, and what a
\* member that Finalize leaves may refer to depends on the object's type.
Takes(s, v) == /\ v \in Hidden => s \in FieldSlots
               /\ s \in KeptSlots /\ v \in Ids => <<s[1], v>> \in Keeps

\* Create and ADD_TO_CHAIN(&_gc_chain, this).
New(o, s) ==
  /\ Running /\ (HookInSweep => "new" \in HookOps)
  /\ o \in Ids \ alive /\ s \in Named
  /\ s \in OuterSlots => o \in Hidden /\ slot[s] = Nil
  /\ AddToChain("gc", o)
  /\ AssignIn(s, o, alive \cup {o}, wobj, weakref)
  /\ UNCHANGED gcVars

\* Copy a value from one slot to another.  A closure captures open outers of the
\* frame that makes it only; a hook's frames have none from before the sweep.
Store(src, dst) ==
  /\ Running /\ (HookInSweep => src \notin OuterSlots)
  /\ src \in Accessible /\ dst \in Writable /\ src # dst
  /\ Takes(dst, slot[src])
  /\ Assign(dst, slot[src])
  /\ UNCHANGED <<chainVars, gcVars>>

\* Null
Clear(dst) ==
  /\ Running
  /\ dst \in Accessible /\ slot[dst] # Nil
  /\ Assign(dst, Nil)
  /\ UNCHANGED <<chainVars, gcVars>>

\* GetWeakRef: the one weak reference of the object in src, made if needed.
MakeWeak(src, dst, w) ==
  /\ Running
  /\ src \in Accessible /\ dst \in Writable /\ slot[src] \in Ids \ Hidden
  /\ LET o == slot[src]
     IN  IF weakref[o] # Nil
         THEN w = weakref[o] /\ Assign(dst, w)
         ELSE /\ w \in WIds \ alive
              /\ AssignIn(dst, w, alive \cup {w}, [wobj EXCEPT ![w] = o],
                          [weakref EXCEPT ![o] = w])
  /\ UNCHANGED <<chainVars, gcVars>>

\* _realval: the target of a weak reference, null when it is gone.  Code that
\* runs in a hook does not ask for an object whose destructor has begun.
Deref(src, dst) ==
  /\ Running /\ (HookInSweep => "deref" \in HookOps)
  /\ src \in Accessible /\ dst \in Writable /\ slot[src] \in WIds
  /\ ~Dying(wobj[slot[src]])
  /\ Takes(dst, wobj[slot[src]])
  /\ Assign(dst, wobj[slot[src]])
  /\ UNCHANGED <<chainVars, gcVars>>

-----------------------------------------------------------------------------
(* Release of a collectable object: hook, destructor, free. *)

\* Mutant: no _uiRef++ around the hook.
HookEnterUnpinned ==
  /\ work # <<>> /\ Top.st = "enter"
  /\ work' = Append(Pop, Frame(Top.o, "hook"))
  /\ UNCHANGED <<alive, rc, slot, weakref, wobj, chainVars, gcVars>>

\* SQInstance::Release: _uiRef++ around the hook, which may keep the instance.
HookEnter ==
  /\ work # <<>> /\ Top.st = "enter"
  /\ slot' = [slot EXCEPT ![Pin(Top.o)] = Top.o]
  /\ rc' = Counts(Pin(Top.o), Top.o)
  /\ work' = Append(Pop, Frame(Top.o, "hook"))
  /\ UNCHANGED <<alive, weakref, wobj, chainVars, gcVars>>

\* Mutant: the hook is called again until somebody keeps the instance.
HookReturnAgain ==
  /\ InHook
  /\ slot' = [slot EXCEPT ![Pin(Top.o)] = Nil]
  /\ rc' = Counts(Pin(Top.o), Nil)
  /\ work' = IF rc[Top.o] = 1 THEN Append(Pop, Frame(Top.o, "enter")) ELSE Pop
  /\ UNCHANGED <<alive, weakref, wobj, chainVars, gcVars>>

HookReturn ==
  /\ InHook
  /\ slot' = [slot EXCEPT ![Pin(Top.o)] = Nil]
  /\ rc' = Counts(Pin(Top.o), Nil)
  /\ work' = IF rc[Top.o] = 1 THEN Append(Pop, Frame(Top.o, "destroy")) ELSE Pop
  /\ UNCHANGED <<alive, weakref, wobj, chainVars, gcVars>>

Destroying == work # <<>> /\ Top.st = "destroy"
FieldsOf(o) == {s \in FieldSlots : s[1] = o /\ slot[s] # Nil}

\* A member's destructor.
DestroyField ==
  /\ Destroying
  /\ \E s \in FieldsOf(Top.o) : Assign(s, Nil)
  /\ UNCHANGED <<chainVars, gcVars>>

\* REMOVE_FROM_CHAIN, which classes do before, between or after their members.
DestroyUnlink ==
  /\ Destroying /\ chain[Top.o] # "none" /\ Top.o \notin mark
  /\ RemoveFromChain("gc", Top.o)
  /\ UNCHANGED <<alive, rc, slot, weakref, wobj, work, gcVars>>

\* ~SQRefCounted clears the weak reference's target; the memory is freed.
DestroyFree ==
  /\ Destroying /\ FieldsOf(Top.o) = {} /\ chain[Top.o] = "none"
  /\ alive' = alive \ {Top.o}
  /\ wobj' = [w \in WIds |-> IF w = weakref[Top.o] THEN Nil ELSE wobj[w]]
  /\ weakref' = [weakref EXCEPT ![Top.o] = Nil]
  /\ work' = Pop
  /\ UNCHANGED <<rc, slot, chainVars, gcVars>>

-----------------------------------------------------------------------------
(* The collector: RunMark, then CollectGarbage or ResurrectUnreachable. *)

StartCollect ==
  /\ phase = "run" /\ work = <<>>
  /\ phase' = "mark"
  /\ UNCHANGED <<alive, rc, mark, slot, weakref, wobj, chainVars, work, cur, closing, dropped, garbage>>

\* Objects that are marked and whose own slots are being visited.
Grey == {o \in mark : chain[o] = "gc"}
Visiting == VisitedSlots \cup {s \in FieldSlots : s[1] \in Grey}

\* START_MARK; MarkObject does nothing for a weak reference.
MarkVisit ==
  /\ phase = "mark"
  /\ \E s \in Visiting : /\ slot[s] \in Ids \ mark
                         /\ mark' = mark \cup {slot[s]}
  /\ UNCHANGED <<alive, rc, slot, weakref, wobj, chainVars, work, phase, cur, closing, dropped, garbage>>

\* Mutant: END_MARK before the members have been marked.
MarkEndEarly ==
  /\ phase = "mark"
  /\ \E o \in Grey : MoveToTChain(o)
  /\ UNCHANGED <<alive, rc, mark, slot, weakref, wobj, work, phase, cur, closing, dropped, garbage>>

\* END_MARK once everything the object refers to has been visited.
MarkEnd ==
  /\ phase = "mark"
  /\ \E o \in Grey :
       /\ \A s \in FieldsOf(o) : slot[s] \in mark \cup WIds
       /\ MoveToTChain(o)
  /\ UNCHANGED <<alive, rc, mark, slot, weakref, wobj, work, phase, cur, closing, dropped, garbage>>

MarkDone == /\ phase = "mark"
            /\ Grey = {}
            /\ \A s \in VisitedSlots : slot[s] \notin Ids \ mark

\* t = _gc_chain; t->_uiRef++
BeginSweep(ph, v) ==
  /\ slot' = [slot EXCEPT ![T] = v]
  /\ rc' = Counts(T, v)
  /\ phase' = ph
  /\ garbage' = {o \in Ids : chain[o] = "gc"}

\* Mutant: the marked chain is swept.
StartSweepMarked ==
  /\ MarkDone
  /\ BeginSweep(IF head["t"] = Nil THEN "unmark" ELSE "finalize", head["t"])
  /\ UNCHANGED <<alive, mark, weakref, wobj, chainVars, work, cur, closing, dropped>>

StartSweep ==
  /\ MarkDone
  /\ BeginSweep(IF head["gc"] = Nil THEN "unmark" ELSE "finalize", head["gc"])
  /\ UNCHANGED <<alive, mark, weakref, wobj, chainVars, work, cur, closing, dropped>>

Sweeping(ph) == phase = ph /\ work = <<>>

\* t->Finalize() nulls the members one by one, but for those it leaves.
Unfinalized(o) == FieldsOf(o) \ KeptSlots
FinalizeField ==
  /\ Sweeping("finalize")
  /\ \E s \in Unfinalized(slot[T]) : Assign(s, Nil)
  /\ UNCHANGED <<chainVars, gcVars>>

\* Mutant: nx is not pinned.
TakeNextUnpinned ==
  /\ Sweeping("finalize") /\ Unfinalized(slot[T]) = {}
  /\ slot' = [slot EXCEPT ![NX] = nxt[slot[T]]]
  /\ phase' = "release"
  /\ UNCHANGED <<alive, rc, mark, weakref, wobj, chainVars, work, cur, closing, dropped, garbage>>

\* Mutant: nx is t itself.
TakeNextSame ==
  /\ Sweeping("finalize") /\ Unfinalized(slot[T]) = {}
  /\ slot' = [slot EXCEPT ![NX] = slot[T]]
  /\ rc' = Counts(NX, slot[T])
  /\ phase' = "release"
  /\ UNCHANGED <<alive, mark, weakref, wobj, chainVars, work, cur, closing, dropped, garbage>>

\* nx = t->_next; if(nx) nx->_uiRef++
TakeNext ==
  /\ Sweeping("finalize") /\ Unfinalized(slot[T]) = {}
  /\ slot' = [slot EXCEPT ![NX] = nxt[slot[T]]]
  /\ rc' = Counts(NX, nxt[slot[T]])
  /\ phase' = "release"
  /\ UNCHANGED <<alive, mark, weakref, wobj, chainVars, work, cur, closing, dropped, garbage>>

\* if(--t->_uiRef == 0) t->Release()
ReleaseT ==
  /\ Sweeping("release")
  /\ Assign(T, Nil)
  /\ phase' = "advance"
  /\ UNCHANGED <<chainVars, mark, cur, closing, dropped, garbage>>

\* t = nx
Advance ==
  /\ Sweeping("advance")
  /\ slot' = [slot EXCEPT ![T] = slot[NX], ![NX] = Nil]
  /\ phase' = IF slot[NX] # Nil THEN "finalize"
              ELSE IF closing THEN "closed" ELSE "unmark"
  /\ UNCHANGED <<alive, rc, mark, weakref, wobj, chainVars, work, cur, closing, dropped, garbage>>

\* UnMark along tchain; _gc_chain = tchain.
EndSweep ==
  /\ Sweeping("unmark")
  /\ mark' = {o \in mark : chain[o] # "t"}
  /\ chain' = [o \in Ids |-> IF chain[o] = "t" THEN "gc" ELSE chain[o]]
  /\ head' = [gc |-> head["t"], t |-> Nil]
  /\ phase' = "run"
  /\ UNCHANGED <<alive, rc, slot, weakref, wobj, nxt, prv, work, cur, closing, dropped, garbage>>

\* The array of the resurrected objects is made after _gc_chain = tchain.  It
\* is pushed at the end in the code; nothing can run in between.
StartResurrect(arr, s) ==
  /\ MarkDone /\ head["gc"] # Nil
  /\ arr \in Ids \ alive /\ s \in VisitedSlots /\ slot[s] = Nil
  /\ Cardinality({o \in Ids \ Hidden : chain[o] = "gc"}) <= Cardinality({arr} \X Fields \ KeptSlots)
  /\ AddToChain("t", arr)
  /\ AssignIn(s, arr, alive \cup {arr}, wobj, weakref)
  /\ phase' = "append" /\ cur' = head["gc"]
  /\ garbage' = {o \in Ids : chain[o] = "gc"}
  /\ UNCHANGED <<mark, closing, dropped>>

\* Mutant: every second object is skipped.
ResurrectNextSkipping ==
  /\ phase = "append" /\ cur # Nil
  /\ cur' = IF nxt[cur] = Nil THEN Nil ELSE nxt[nxt[cur]]
  /\ IF cur \in Hidden \/ nxt[cur] = Nil THEN UNCHANGED <<alive, rc, slot, weakref, wobj, work>>
     ELSE \E arr \in Ids, f \in Fields :
            /\ chain[arr] = "t" /\ arr \notin mark /\ <<arr, f>> \notin KeptSlots /\ slot[<<arr, f>>] = Nil
            /\ Assign(<<arr, f>>, cur)
  /\ UNCHANGED <<mark, chainVars, phase, closing, dropped, garbage>>

\* One object of the unreachable chain; prototypes and outers are left out.
ResurrectNext ==
  /\ phase = "append" /\ cur # Nil
  /\ cur' = nxt[cur]
  /\ IF cur \in Hidden THEN UNCHANGED <<alive, rc, slot, weakref, wobj, work>>
     ELSE \E arr \in Ids, f \in Fields :
            /\ chain[arr] = "t" /\ arr \notin mark /\ <<arr, f>> \notin KeptSlots /\ slot[<<arr, f>>] = Nil
            /\ Assign(<<arr, f>>, cur)
  /\ UNCHANGED <<mark, chainVars, phase, closing, dropped, garbage>>

\* The last of the unreachable chain is linked to the head of the other one.
EndResurrect ==
  /\ phase = "append" /\ cur = Nil
  /\ \E last \in After(nxt, head["gc"]) :
       /\ chain[last] = "gc" /\ nxt[last] = Nil
       /\ nxt' = [nxt EXCEPT ![last] = head["t"]]
       /\ prv' = [prv EXCEPT ![head["t"]] = last]
  /\ head' = [head EXCEPT !["t"] = Nil]
  /\ chain' = [o \in Ids |-> IF chain[o] = "t" THEN "gc" ELSE chain[o]]
  /\ mark' = {}
  /\ phase' = "run"
  /\ UNCHANGED <<alive, rc, slot, weakref, wobj, work, cur, closing, dropped, garbage>>

-----------------------------------------------------------------------------
(* sq_close: ~SQSharedState drops the roots and sweeps what is left. *)

StartClose ==
  /\ phase = "run" /\ work = <<>>
  /\ phase' = "close" /\ closing' = TRUE
  /\ UNCHANGED <<alive, rc, mark, slot, weakref, wobj, chainVars, work, cur, dropped, garbage>>

\* Each of the roots is nulled in its turn, with the object that has it.
CloseRoot ==
  /\ Sweeping("close")
  /\ \E s \in RootSlots \ dropped : Assign(s, Nil) /\ dropped' = dropped \cup {s}
  /\ UNCHANGED <<chainVars, mark, phase, cur, closing, garbage>>

\* Mutant: sq_close leaves cycles to nobody.
CloseWithoutSweep ==
  /\ Sweeping("close") /\ dropped = RootSlots
  /\ phase' = "closed"
  /\ UNCHANGED <<alive, rc, slot, mark, weakref, wobj, chainVars, work, cur, closing, dropped, garbage>>

CloseSweep ==
  /\ Sweeping("close") /\ dropped = RootSlots
  /\ BeginSweep(IF head["gc"] = Nil THEN "closed" ELSE "finalize", head["gc"])
  /\ UNCHANGED <<alive, mark, weakref, wobj, chainVars, work, cur, closing, dropped>>
-----------------------------------------------------------------------------
Init ==
  /\ alive = {} /\ mark = {} /\ garbage = {} /\ dropped = {}
  /\ rc = [o \in Objs |-> 0]
  /\ slot = [s \in Slots |-> Nil]
  /\ weakref = [o \in Ids |-> Nil] /\ wobj = [w \in WIds |-> Nil]
  /\ chain = [o \in Ids |-> "none"]
  /\ nxt = [o \in Ids |-> Nil] /\ prv = [o \in Ids |-> Nil]
  /\ head = [gc |-> Nil, t |-> Nil]
  /\ work = <<>> /\ phase = "run" /\ cur = Nil /\ closing = FALSE

Mutate == \/ \E o \in Ids, s \in RootSlots : New(o, s)
          \/ \E src, dst \in Slots : Store(src, dst) \/ Deref(src, dst)
          \/ \E dst \in Slots : Clear(dst)
          \/ \E src, dst \in Slots, w \in WIds : MakeWeak(src, dst, w)

Releasing == HookEnter \/ DestroyField \/ DestroyUnlink \/ DestroyFree

Collect == \/ MarkVisit \/ MarkEnd
           \/ StartSweep \/ FinalizeField \/ TakeNext \/ ReleaseT \/ Advance \/ EndSweep
           \/ \E arr \in Ids, s \in RootSlots : StartResurrect(arr, s)
           \/ ResurrectNext \/ EndResurrect
           \/ CloseRoot \/ CloseSweep

Next == Mutate \/ Releasing \/ HookReturn \/ StartCollect \/ Collect \/ StartClose

\* C++ code that has begun runs on; a release hook of the host returns, and
\* does not run for ever, whatever it makes, drops and so calls meanwhile.
Fairness == /\ WF_vars(Releasing) /\ WF_vars(Collect)
            /\ \A o \in Hooked : SF_vars(HookReturn /\ Top.o = o)

Spec == Init /\ [][Next]_vars
FairSpec == Spec /\ Fairness

-----------------------------------------------------------------------------
(* Properties. *)

Values == Objs \cup {Nil}
Phases == {"run", "mark", "finalize", "release", "advance", "unmark", "append", "close", "closed"}

\* Every part of the heap's state has its type.
ObjectsOK ==
  /\ alive \subseteq Objs
  /\ rc \in [Objs -> Nat]
  /\ slot \in [Slots -> Values]
  /\ weakref \in [Ids -> WIds \cup {Nil}] /\ wobj \in [WIds -> Ids \cup {Nil}]
  /\ work \in Seq([o : Ids, st : {"enter", "hook", "destroy"}])
ChainsOK ==
  /\ chain \in [Ids -> {"none", "gc", "t"}]
  /\ nxt \in [Ids -> Ids \cup {Nil}] /\ prv \in [Ids -> Ids \cup {Nil}]
  /\ head \in [{"gc", "t"} -> Ids \cup {Nil}]
CollectorOK ==
  /\ mark \subseteq Ids /\ garbage \subseteq Ids /\ dropped \subseteq RootSlots
  /\ phase \in Phases /\ cur \in Ids \cup {Nil} /\ closing \in BOOLEAN
TypeOK == ObjectsOK /\ ChainsOK /\ CollectorOK

Refs(o) == {s \in Slots : slot[s] = o}

\* _uiRef is the number of slots that refer to the object, the collector's
\* and a running release hook's own references included.
RefCountExact == \A o \in Objs : rc[o] = Cardinality(Refs(o))

\* Nothing refers to a freed object: no slot, no weak reference, no link of a
\* chain the collector follows.
NoDangling ==
  /\ \A s \in Slots : slot[s] # Nil => slot[s] \in alive
  /\ \A w \in WIds : wobj[w] # Nil => wobj[w] \in alive
  /\ \A o \in Ids : /\ weakref[o] # Nil => weakref[o] \in alive
                    /\ nxt[o] # Nil => nxt[o] \in alive

\* A weak reference and its target name each other until one of them is gone:
\* a weak reference is null exactly when its target has been freed.
Paired(al, wo, wr) ==
  /\ \A w \in WIds, o \in Ids : wo[w] = o <=> wr[o] = w
  /\ \A w \in WIds : wo[w] # Nil => w \in al
  /\ \A o \in Ids : wr[o] # Nil => o \in al
WeakRefsPaired == Paired(alive, wobj, weakref)

(* The inductive invariant behind the theorems of SQHeapProofs. *)

SlotsAlive == \A s \in Slots : slot[s] # Nil => slot[s] \in alive

\* The Release calls under way are of different objects, all still allocated;
\* nothing refers to one whose destructor runs, and the reference taken around
\* a hook is there while the hook runs.
WorkInv ==
  \A i \in DOMAIN work :
    /\ work[i].o \in alive
    /\ \A j \in DOMAIN work : work[i].o = work[j].o => i = j
    /\ work[i].st # "hook" => rc[work[i].o] = 0
    /\ work[i].st = "hook" => slot[Pin(work[i].o)] = work[i].o

\* The links of the chains, as each object sees them.
Linked ==
  /\ \A o \in Ids :
       /\ chain[o] = "none" => nxt[o] = Nil /\ prv[o] = Nil
       /\ nxt[o] # Nil => prv[nxt[o]] = o /\ chain[nxt[o]] = chain[o]
       /\ prv[o] # Nil => nxt[prv[o]] = o
  /\ \A c \in {"gc", "t"} : head[c] # Nil => chain[head[c]] = c /\ prv[head[c]] = Nil

\* Only allocated objects are linked, and only marked ones in tchain.
Chained ==
  \A o \in Ids : /\ chain[o] # "none" => o \in alive
                 /\ chain[o] = "t" => o \in mark \/ phase = "append"

\* What the collector's locals are in each of its phases.
PhaseInv ==
  /\ phase \in {"mark", "append"} => work = <<>>
  /\ phase = "advance" => slot[T] = Nil
  /\ phase \in {"finalize", "release"} => slot[T] \in Ids
  /\ slot[NX] \in Ids \cup {Nil}
  /\ cur # Nil => phase = "append" /\ chain[cur] # "none"

\* The inductive invariant: types, exact counts, live slots, the Release calls
\* under way, weak references, the links of the chains and the collector's
\* locals, as the code of CollectGarbage and Release leaves them at every step.
IInv == /\ TypeOK /\ RefCountExact /\ SlotsAlive /\ WorkInv
        /\ WeakRefsPaired /\ Linked /\ Chained /\ PhaseInv

Successors(S) == {slot[s] : s \in {x \in FieldSlots : x[1] \in S}} \cap Ids
Closed(R, S) == HeldBy(R) \cup Successors(S) \subseteq S
\* The objects that are reached from the roots R: the least set that has what
\* they refer to and whatever its members refer to.
ReachableFrom(R) == {o \in Ids : \A S \in SUBSET Ids : Closed(R, S) => o \in S}
\* What RunMark can find, and what the program can reach, C++ locals too.
Reachable == ReachableFrom(VisitedSlots)
Live == ReachableFrom(RootSlots \ OuterSlots)

\* When marking is done exactly the objects that the visited roots reach carry
\* the flag.
MarksExact == MarkDone => mark = Reachable

\* The sweep never finalizes an object the program can reach, whatever hooks
\* store, drop and make weak references to between its steps.
SweepSparesLive == phase \in {"finalize", "release"} => slot[T] \notin Live

\* When a collection is over, what it found unreachable has been freed.
GarbageFreed == phase = "unmark" => garbage \cap alive = {}

\* ResurrectUnreachable frees nothing and hands every unreachable object,
\* prototypes and outers aside, to the program again.
ResurrectedReachable == phase = "append" /\ cur = Nil => garbage \ Hidden \subseteq Reachable

\* What a pass over the heap finds unreachable it frees, or resurrects, all of it.
GarbageHandled == GarbageFreed /\ ResurrectedReachable

\* sqstate.cpp:198 assert(_gc_chain==NULL): after sq_close the chain is empty,
\* and nothing is left allocated.
CloseEmpties == phase = "closed" => head["gc"] = Nil /\ alive = {}

\* doc/squirrel3.pdf on collectgarbage: "runs the garbage collector and returns
\* the number of reference cycles found (and deleted)".  When the sweep is over
\* no object is left that only unreachable objects refer to.
NoCycleLeft == phase = "unmark" =>
  alive \cap Ids \subseteq Reachable \cup {slot[s] : s \in OuterSlots}

\* A collection that has begun ends.
CollectionEnds == phase = "mark" ~> phase = "run"
\* sq_close ends.
CloseEnds == closing ~> phase = "closed"
=============================================================================
