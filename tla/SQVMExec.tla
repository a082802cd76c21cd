------------------------------ MODULE SQVMExec ------------------------------
(***************************************************************************)
(* Control in one virtual machine (squirrel/sqvm.cpp, SQGenerator in       *)
(* sqobject.cpp, the calls of sqapi.cpp): the call stack of frames, the    *)
(* stack of exception traps, generators that take their frame and traps    *)
(* off these stacks and put them back, and the C stack on which Execute    *)
(* and native functions call each other.  A script's values are left out:  *)
(* which instruction comes next, and what the host does, is any choice.    *)
(***************************************************************************)
EXTENDS Integers, Sequences, SequencesExt

CONSTANTS Gens,            \* generator objects
          None,
          MaxNativeCalls,  \* MAX_NATIVE_CALLS
          MaxCalls,        \* bound on the frames explored
          MaxTraps,        \* bound on the try blocks open in one frame
          MovedAt,         \* sizes of the call stack at which GrowCallStack may move it:
                           \* some of 4, 8, 16, ...
          ForeachInTry,    \* foreach may resume a generator that yielded in a try block
          MixedResume,     \* scripts may resume a generator the host has resumed
          FlagsAnywhere    \* natives that scripts did not call directly may suspend
                           \* the vm and make tail calls

ASSUME ExecAssumption ==
  /\ MaxNativeCalls \in Nat /\ MaxCalls \in Nat /\ MaxTraps \in Nat
  /\ None \notin Gens /\ MovedAt \subseteq Nat
  /\ {ForeachInTry, MixedResume, FlagsAnywhere} \subseteq BOOLEAN

VARIABLES calls,     \* _callsstack
          etraps,    \* _etraps
          cstack,    \* Execute and native functions under way, innermost last
          gens,      \* the generators
          nnative,   \* _nnativecalls
          susp,      \* _suspended, _suspended_root, _suspended_traps
          failed     \* an assertion on traps failed

vars == <<calls, etraps, cstack, gens, nnative, susp, failed>>

-----------------------------------------------------------------------------
(* Frames and stack positions. *)

Frame(fn, root, et, g, base) ==
  [fn |-> fn, root |-> root, etraps |-> et, gen |-> g, base |-> base]
Cur == Last(calls)

\* _stackbase, the base of a called function (inside the caller's frame) and
\* _top, where the frame of a resumed generator goes.
StackBase == IF calls = <<>> THEN 0 ELSE Cur.base
CallBase == StackBase + 1
TopBase == StackBase + 2

Room == Len(calls) < MaxCalls

(* The C stack: via says who called, state where an Execute is. *)

Exec(via, traps, state) == [k |-> "exec", via |-> via, traps |-> traps, state |-> state]
Native(via) == [k |-> "native", via |-> via, traps |-> 0, state |-> "run"]
Here == Last(cstack)

Executing == cstack # <<>> /\ Here.k = "exec" /\ Here.state = "run"
Throwing == cstack # <<>> /\ Here.k = "exec" /\ Here.state # "run"
InNative == cstack # <<>> /\ Here.k = "native"
Idle == cstack = <<>> /\ ~susp.on
MayCallAPI == InNative \/ Idle

\* SQ_THROW in the innermost Execute.
Thrown(cs) == [cs EXCEPT ![Len(cs)].state = "raised"]
\* What becomes of cs when a call it made fails: an instruction throws, the host's
\* and a native's call returns SQ_ERROR, what CallErrorHandler's call returns is not
\* looked at.  A metamethod may also fail unnoticed: _get and _set that throw null
\* fall back, and _OP_MOD does not look at what ARITH_OP returns.
FailTo(cs, via) == (IF via \in {"op", "meta"} THEN {Thrown(cs)} ELSE {cs})
                     \cup (IF via = "meta" THEN {cs} ELSE {})
\* traps of the innermost Execute moves by n.
CountTraps(n) == [cstack EXCEPT ![Len(cstack)].traps = @ + n]

-----------------------------------------------------------------------------
(* Calls. *)

\* A script calls a script closure (StartCall, EnterFrame).  A tail call keeps
\* the frame and changes nothing here.
OpCall ==
  /\ Executing /\ Room
  /\ calls' = Append(calls, Frame("script", FALSE, 0, None, CallBase))
  /\ UNCHANGED <<etraps, cstack, gens, nnative, susp, failed>>

\* Execute(ET_CALL) of a script closure.
ExecuteCall(via) ==
  IF nnative + 1 > MaxNativeCalls
  THEN cstack' \in FailTo(cstack, via) /\ UNCHANGED <<calls, nnative>>
  ELSE /\ Room
       /\ nnative' = nnative + 1
       /\ calls' = Append(calls, Frame("script", TRUE, 0, None, CallBase))
       /\ cstack' = Append(cstack, Exec(via, 0, "run"))

\* CallNative up to the call of the native function.
CallNative(via) ==
  IF nnative + 1 > MaxNativeCalls
  THEN cstack' \in FailTo(cstack, via) /\ UNCHANGED <<calls, nnative>>
  ELSE /\ Room
       /\ nnative' = nnative + 1
       /\ calls' = Append(calls, Frame("native", FALSE, 0, None, CallBase))
       /\ cstack' = Append(cstack, Native(via))

\* A script calls a native closure.
OpCallNative ==
  /\ Executing /\ CallNative("op")
  /\ UNCHANGED <<etraps, gens, susp, failed>>

\* An instruction runs a metamethod or a native constructor.
OpMeta ==
  /\ Executing /\ (ExecuteCall("meta") \/ CallNative("meta"))
  /\ UNCHANGED <<etraps, gens, susp, failed>>

\* sq_call by a native function or by the host.
ApiCall ==
  /\ MayCallAPI /\ (ExecuteCall("api") \/ CallNative("api"))
  /\ UNCHANGED <<etraps, gens, susp, failed>>

\* Calling a generator function: the frame is entered, yielded and left.  Execute
\* then knows by ci == prevci that no frame is left to run; when EnterFrame made
\* the call stack grow and it moved, prevci is stale and Execute goes on with the
\* frame of its caller.
OpCallGenerator(g, via) ==
  /\ IF via = "api" THEN MayCallAPI ELSE Executing
  /\ via = "op" \/ nnative < MaxNativeCalls
  /\ Room /\ gens[g].st = "none"
  /\ gens' = [gens EXCEPT ![g] = [st |-> "suspended", traps |-> <<>>, etraps |-> 0, root |-> FALSE]]
  /\ \E stale \in {FALSE, via # "op" /\ calls # <<>> /\ Len(calls) \in MovedAt} :
       IF stale
       THEN /\ nnative' = nnative + 1
            /\ calls' = [calls EXCEPT ![Len(calls)].root = TRUE]
            /\ cstack' = Append(cstack, Exec(via, 0, "run"))
       ELSE UNCHANGED <<calls, cstack, nnative>>
  /\ UNCHANGED <<etraps, susp, failed>>

-----------------------------------------------------------------------------
(* Traps, and returns from script functions. *)

PushTrap ==
  /\ Executing /\ Cur.etraps < MaxTraps
  /\ etraps' = Append(etraps, Cur.base)
  /\ calls' = [calls EXCEPT ![Len(calls)].etraps = @ + 1]
  /\ cstack' = CountTraps(1)
  /\ UNCHANGED <<gens, nnative, susp, failed>>

PopTrap ==
  /\ Executing /\ Cur.etraps > 0
  /\ etraps' = Front(etraps)
  /\ calls' = [calls EXCEPT ![Len(calls)].etraps = @ - 1]
  /\ cstack' = CountTraps(-1)
  /\ UNCHANGED <<gens, nnative, susp, failed>>

\* Return and LeaveFrame; from a root frame Execute returns, asserting traps = 0.
Return(cs) ==
  /\ calls' = Front(calls)
  /\ IF Cur.root
     THEN /\ cstack' = Front(cs) /\ nnative' = nnative - 1
          /\ failed' = (failed \/ Last(cs).traps # 0)
     ELSE cstack' = cs /\ UNCHANGED <<nnative, failed>>

\* Mutant: a generator whose frame is left is not killed.
KillNothing(fr) == gens

\* The state of the generator of frame fr once it is killed.
Kill(fr) == IF fr.gen = None THEN gens ELSE [gens EXCEPT ![fr.gen].st = "dead"]

\* The compiler closes the open try blocks before a return.
OpReturn ==
  /\ Executing /\ Cur.etraps = 0
  /\ gens' = Kill(Cur)
  /\ Return(cstack)
  /\ UNCHANGED <<etraps, susp>>

-----------------------------------------------------------------------------
(* Generators. *)

\* SQGenerator::Yield: the frame's traps move over one by one, topmost first,
\* their positions relative to the frame.
OpYield ==
  /\ Executing /\ Cur.gen # None
  /\ LET n == Cur.etraps
         kept == Len(etraps) - n
     IN  /\ gens' = [gens EXCEPT ![Cur.gen] =
                       [st |-> "suspended", etraps |-> n, root |-> Cur.root,
                        traps |-> @.traps \o [i \in 1 .. n |-> etraps[Len(etraps) + 1 - i] - Cur.base]]]
         /\ etraps' = SubSeq(etraps, 1, kept)
         /\ Return(CountTraps(-n))
  /\ UNCHANGED susp

\* Mutant: the positions of the traps stay relative.
ResumeRelative(g, root) ==
  LET n == gens[g].etraps
      t == gens[g].traps
  IN  /\ Room
      /\ calls' = Append(calls, Frame("script", root, n, g, TopBase))
      /\ etraps' = etraps \o [i \in 1 .. n |-> t[Len(t) + 1 - i]]
      /\ gens' = [gens EXCEPT ![g].st = "running", ![g].traps = SubSeq(t, 1, Len(t) - n)]

\* SQGenerator::Resume of a suspended generator: frame and traps come back,
\* positions relative to the new frame.
Resume(g, root) ==
  LET n == gens[g].etraps
      t == gens[g].traps
  IN  /\ Room
      /\ calls' = Append(calls, Frame("script", root, n, g, TopBase))
      /\ etraps' = etraps \o [i \in 1 .. n |-> t[Len(t) + 1 - i] + TopBase]
      /\ gens' = [gens EXCEPT ![g].st = "running", ![g].traps = SubSeq(t, 1, Len(t) - n)]

\* Whether a script may resume g in this model (see the constants).
ScriptMayResume(g) == MixedResume \/ ~gens[g].root

\* A generator that runs or is dead raises an error.
OpResume(g) ==
  /\ Executing /\ gens[g].st # "none"
  /\ IF gens[g].st # "suspended"
     THEN cstack' = Thrown(cstack) /\ UNCHANGED <<calls, etraps, gens>>
     ELSE /\ ScriptMayResume(g) /\ Resume(g, gens[g].root)
          /\ cstack' = CountTraps(gens[g].etraps)
  /\ UNCHANGED <<nnative, susp, failed>>

\* foreach over a generator; a dead one ends the loop and changes nothing.
OpForeach(g) ==
  /\ Executing
  /\ \/ /\ gens[g].st = "running"
        /\ cstack' = Thrown(cstack) /\ UNCHANGED <<calls, etraps, gens>>
     \/ /\ gens[g].st = "suspended" /\ ScriptMayResume(g)
        /\ ForeachInTry \/ gens[g].etraps = 0
        /\ Resume(g, gens[g].root)
        /\ UNCHANGED cstack
  /\ UNCHANGED <<nnative, susp, failed>>

\* sq_resume, Execute(ET_RESUME_GENERATOR).  What Resume returns is not looked
\* at, so the host has to ask for the status of the generator before.
ApiResume(g) ==
  /\ MayCallAPI /\ gens[g].st = "suspended" /\ nnative < MaxNativeCalls
  /\ Resume(g, TRUE)
  /\ nnative' = nnative + 1
  /\ cstack' = Append(cstack, Exec("api", gens[g].etraps, "run"))
  /\ UNCHANGED <<susp, failed>>

-----------------------------------------------------------------------------
(* Exceptions. *)

OpThrow ==
  /\ Executing
  /\ cstack' = Thrown(cstack)
  /\ UNCHANGED <<calls, etraps, gens, nnative, susp, failed>>

\* CallErrorHandler: traps = 0 says that nothing catches the exception here.
\* Metamethods and handlers are called with raiseerror = SQFalse; the caller of
\* the API may not ask for the handler either, and there may be none.
CallErrorHandler ==
  /\ Throwing /\ Here.state = "raised" /\ Here.traps = 0 /\ Here.via = "api"
  /\ Room /\ nnative < MaxNativeCalls
  /\ nnative' = nnative + 1
  /\ LET cs == [cstack EXCEPT ![Len(cstack)].state = "unwinding"]
     IN  \/ /\ cstack' = Append(cs, Exec("handler", 0, "run"))
            /\ calls' = Append(calls, Frame("script", TRUE, 0, None, CallBase))
         \/ /\ cstack' = Append(cs, Native("handler"))
            /\ calls' = Append(calls, Frame("native", FALSE, 0, None, CallBase))
  /\ UNCHANGED <<etraps, gens, susp, failed>>

\* The innermost frame catches: its last trap gives the stack base back.
Catch ==
  /\ Throwing /\ Cur.etraps > 0
  /\ calls' = [calls EXCEPT ![Len(calls)].etraps = @ - 1, ![Len(calls)].base = Last(etraps)]
  /\ etraps' = Front(etraps)
  /\ cstack' = [cstack EXCEPT ![Len(cstack)].traps = @ - 1, ![Len(cstack)].state = "run"]
  /\ UNCHANGED <<gens, nnative, susp, failed>>

\* The innermost frame does not: it is left, and at a root frame Execute fails.
Unwind ==
  /\ Throwing /\ Cur.etraps = 0
  /\ gens' = Kill(Cur)
  /\ calls' = Front(calls)
  /\ IF Cur.root
     THEN nnative' = nnative - 1 /\ cstack' \in FailTo(Front(cstack), Here.via)
     ELSE /\ cstack' = [cstack EXCEPT ![Len(cstack)].state = "unwinding"]
          /\ UNCHANGED nnative
  /\ UNCHANGED <<etraps, susp, failed>>

-----------------------------------------------------------------------------
(* The end of a native function, in CallNative. *)

NativeReturn ==
  /\ InNative
  /\ calls' = Front(calls) /\ nnative' = nnative - 1
  /\ cstack' \in {Front(cstack)} \cup FailTo(Front(cstack), Here.via)
  /\ UNCHANGED <<etraps, gens, susp, failed>>

\* Suspend allows it with one Execute and one native function under way; the
\* CALL instruction then leaves Execute, the other callers of CallNative do not
\* look at the flag.
NativeSuspend ==
  /\ InNative /\ ~susp.on /\ nnative = 2
  /\ FlagsAnywhere \/ Here.via = "op"
  /\ calls' = Front(calls)
  /\ IF Here.via = "op"
     THEN /\ cstack' = Front(Front(cstack)) /\ nnative' = nnative - 2
          /\ susp' = [on |-> TRUE, root |-> Last(Front(calls)).root, traps |-> Last(Front(cstack)).traps]
     ELSE /\ cstack' = Front(cstack) /\ nnative' = nnative - 1
          /\ UNCHANGED susp
  /\ UNCHANGED <<etraps, gens, failed>>

\* sq_tailcall: the native's frame becomes the closure's and stays.
NativeTailCall ==
  /\ InNative /\ ~Cur.root
  /\ FlagsAnywhere \/ Here.via = "op"
  /\ calls' = [calls EXCEPT ![Len(calls)].fn = "script"]
  /\ cstack' = Front(cstack) /\ nnative' = nnative - 1
  /\ UNCHANGED <<etraps, gens, susp, failed>>

\* Mutant: the frame woken becomes a root frame, as that of a resumed generator.
WakeUpAsRoot(state) ==
  /\ susp.on /\ cstack = <<>> /\ nnative < MaxNativeCalls
  /\ nnative' = nnative + 1
  /\ cstack' = <<Exec("api", susp.traps, state)>>
  /\ calls' = [calls EXCEPT ![Len(calls)].root = TRUE]
  /\ susp' = [susp EXCEPT !.on = FALSE]
  /\ UNCHANGED <<etraps, gens, failed>>

\* Mutant: the traps counted before the suspension are forgotten.
WakeUpUncounted(state) ==
  /\ susp.on /\ cstack = <<>> /\ nnative < MaxNativeCalls
  /\ nnative' = nnative + 1
  /\ cstack' = <<Exec("api", 0, state)>>
  /\ calls' = [calls EXCEPT ![Len(calls)].root = susp.root]
  /\ susp' = [susp EXCEPT !.on = FALSE]
  /\ UNCHANGED <<etraps, gens, failed>>

\* sq_wakeupvm, with throwerror too, while nothing else runs on the vm.
WakeUp(state) ==
  /\ susp.on /\ cstack = <<>> /\ nnative < MaxNativeCalls
  /\ nnative' = nnative + 1
  /\ cstack' = <<Exec("api", susp.traps, state)>>
  /\ calls' = [calls EXCEPT ![Len(calls)].root = susp.root]
  /\ susp' = [susp EXCEPT !.on = FALSE]
  /\ UNCHANGED <<etraps, gens, failed>>

-----------------------------------------------------------------------------
Init ==
  /\ calls = <<>> /\ etraps = <<>> /\ cstack = <<>> /\ nnative = 0
  /\ gens = [g \in Gens |-> [st |-> "none", traps |-> <<>>, etraps |-> 0, root |-> FALSE]]
  /\ susp = [on |-> FALSE, root |-> FALSE, traps |-> -1]
  /\ failed = FALSE

Next ==
  \/ OpCall \/ OpCallNative \/ OpMeta \/ ApiCall
  \/ PushTrap \/ PopTrap \/ OpReturn \/ OpYield
  \/ \E g \in Gens : OpResume(g) \/ OpForeach(g) \/ ApiResume(g)
  \/ \E g \in Gens, via \in {"op", "meta", "api"} : OpCallGenerator(g, via)
  \/ OpThrow \/ CallErrorHandler \/ Catch \/ Unwind
  \/ NativeReturn \/ NativeSuspend \/ NativeTailCall
  \/ WakeUp("run") \/ WakeUp("raised")

Spec == Init /\ [][Next]_vars

-----------------------------------------------------------------------------
(* Properties. *)

FrameType == [fn : {"script", "native"}, root : BOOLEAN, etraps : Nat,
              gen : Gens \cup {None}, base : Nat]
EntryType == [k : {"exec", "native"}, via : {"op", "meta", "api", "handler"},
              traps : Int, state : {"run", "raised", "unwinding"}]

\* The state has its type; _nnativecalls stays within MAX_NATIVE_CALLS.
TypeOK ==
  /\ calls \in Seq(FrameType) /\ cstack \in Seq(EntryType) /\ etraps \in Seq(Nat)
  /\ gens \in [Gens -> [st : {"none", "running", "suspended", "dead"}, traps : Seq(Int),
                        etraps : Nat, root : BOOLEAN]]
  /\ nnative \in 0 .. MaxNativeCalls
  /\ susp \in [on : BOOLEAN, root : BOOLEAN, traps : Int]
  /\ failed \in BOOLEAN

\* An Execute or a native function on the C stack starts with frame f.
IsStart(f) == f.root \/ f.fn = "native"
Starts(cl) == {i \in DOMAIN cl : IsStart(cl[i])}

\* Running totals of d, which start anew at the positions in from.
Totals(d, from) ==
  LET t[i \in 0 .. Len(d)] == IF i = 0 THEN 0 ELSE (IF i \in from THEN 0 ELSE t[i - 1]) + d[i]
  IN  t

\* For the frames cl: Owner says how many starts there are up to a frame, so which
\* entry of the C stack runs it; Open and Below count the traps open in it and in
\* the frames beneath it, as far down as its owner's first frame or the bottom.
Owner(cl) == Totals([i \in 1 .. Len(cl) |-> IF IsStart(cl[i]) THEN 1 ELSE 0], {})
TrapsOf(cl) == [i \in 1 .. Len(cl) |-> cl[i].etraps]
Open(cl) == Totals(TrapsOf(cl), Starts(cl))
Below(cl) == Totals(TrapsOf(cl), {})

\* Who runs the frames: the C stack, or the Execute that sq_wakeupvm will start.
Runners == IF susp.on THEN <<Exec("api", susp.traps, "run")>> \o cstack ELSE cstack

\* The call stack and the C stack fit: from the bottom, every Execute under
\* way has its root frame and every native function its own frame, in the same
\* order, _nnativecalls counts them, and a suspended machine keeps one root
\* frame for the Execute that sq_wakeupvm will start.  MAX_NATIVE_CALLS is kept.
CallsMatch ==
  /\ TypeOK
  /\ Owner(calls)[Len(calls)] = Len(Runners)
  /\ calls # <<>> => IsStart(calls[1])
  /\ \A i \in Starts(calls) : calls[i].fn = "native" <=> Runners[Owner(calls)[i]].k = "native"
  /\ nnative = Len(cstack)

\* The local variable traps of every Execute under way is the number of try
\* blocks open in the frames it runs, through calls, yields, resumes, throws,
\* suspension and wake-up.
TrapsCounted ==
  \A i \in DOMAIN calls :
    (i = Len(calls) \/ IsStart(calls[i + 1])) =>
      Runners[Owner(calls)[i]].traps = Open(calls)[i]

\* The traps on the trap stack are those of the frames on the call stack, in
\* order, and each holds the stack base of its frame: whoever catches goes on
\* with its own stack, also after a generator has moved.
TrapsBelong ==
  /\ Len(etraps) = Below(calls)[Len(calls)]
  /\ \A i \in DOMAIN calls :
       \A j \in 1 .. calls[i].etraps : etraps[Below(calls)[i - 1] + j] = calls[i].base

\* A generator runs exactly when one frame is its frame, and a suspended one
\* holds all the traps its frame had open.
GeneratorsConsistent ==
  \A g \in Gens :
    LET frames == {i \in DOMAIN calls : calls[i].gen = g}
    IN  /\ gens[g].st = "running" <=> frames # {}
        /\ \A i, j \in frames : i = j
        /\ gens[g].st = "suspended" => gens[g].traps = [i \in 1 .. gens[g].etraps |-> 0]

\* sqvm.cpp:883 and 1033 assert(traps==0): when an Execute returns from its
\* root frame no trap is counted.
RootReturnsTrapFree == ~failed
=============================================================================
