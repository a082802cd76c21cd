# A TLA+ model of squirrel_gobject

squirrel_gobject is a GObject wrapper (`src/src/vm.c`, `src/inc/squirrel-0.1.h`) around the
Squirrel 3 scripting language, whose compiler, virtual machine and standard library it
carries in `src/Squirrel3`. This directory models the virtual machine, the compiler that feeds
it, and the parts of the library and the wrapper that have a state or an algorithm of their
own; it checks small instances with TLC, and with TLAPS it proves properties of tables, of the
heap and its collector, of the call stack, of classes, of the embedding API and of the host's
references, for every instance.

Line numbers refer to `src/Squirrel3/squirrel/` unless another path is given. Asserts are
active in the build described by `meson.build`, which compiles with `_SQ64` and with the
garbage collector.

## 1. Inventory

| component | state | operations | what makes it correct |
|---|---|---|---|
| tables, `sqtable.*` | node array, `_firstfree`, `_usednodes` | `NewSlot`, `Set`, `Get`, `Remove`, `Clear`, `Clone`, `Next`, `Rehash` | behaves like a partial function; every key stays reachable; lookups end; traversal is complete |
| host references, `RefTable` in `sqstate.cpp` | buckets, nodes, free list | `AddRef`, `Release`, `GetRefCount`, `Resize` | counts are the host's ledger; no node is lost or used twice |
| reference counting, `sqobject.*` | `_uiRef`, `_weakref`, `SQWeakRef::_obj` | assignment of `SQObjectPtr`, `Release`, `GetWeakRef` | counts exact, nothing freed is referred to, weak references become null with their target |
| garbage collector, `sqstate.cpp`, `Mark` in `sqobject.cpp` | `_gc_chain`, `tchain`, `MARK_FLAG` | `CollectGarbage`, `ResurrectUnreachable`, `~SQSharedState` | marks exactly the reachable objects, frees exactly the rest, and the chain never loses an object |
| execution, `sqvm.*` | `_callsstack`, `_etraps`, `_nnativecalls`, `_suspended*`, locals of `Execute` | `Execute`, `StartCall`, `Return`, `CallNative`, `Suspend`, exception handling, generators | frames, traps and the C stack stay in step |
| closures and outers | `_openouters`, `SQOuter` | `FindOuter`, `CloseOuters`, `RelocateOuters` | one outer per variable, pointers follow the stack |
| strings, `SQStringTable` | buckets | `Add`, `Remove`, `Resize` | one object per string |
| classes and instances, `sqclass.*` | `_members`, `_methods`, `_defaultvalues`, `_locked` | `NewSlot`, `CreateInstance`, `Clone`, `Lock`, member handles | an index belongs to one member; instances fit their class; handles go on naming their field |
| property access, `sqvm.cpp` | delegates, metamethods | `Get`, `Set`, `NewSlot`, `DeleteSlot`, `SetDelegate` | the nearest object that has the slot answers; lookups end |
| arrays, userdata | vectors, memory | insert, remove, resize, sort | bounds; a sort loses nothing whatever the compare function does |
| API, `sqapi.cpp` | the value stack | 150 functions | a call leaves its caller's stack as it was |
| lexer, `sqlexer.cpp` | current character, line, last tokens | `Lex` | the longest tokens, and where lines end |
| compiler, `SQFuncState` | token, register stack, instructions | parse and emit | what runs is what was written |
| serialisation | stream | `Save`, `Load` | reads back what was written, and nothing of a broken stream |
| regular expressions, `sqstdrex.cpp` | graph of nodes, captures | compile, match, search | what is reported is a match |
| rest of the base and standard library | streams, blobs | functions for scripts | |
| wrapper, `src/src/vm.c` | closure data | one call of the API per function | the host's function sees its arguments, variables and data |

The machine is single threaded: a Squirrel thread is a second `SQVM` that runs inside a call of
the first. What makes it hard is code that runs in the middle of other code. Release hooks of the
host run inside an assignment, inside the sweep and inside `sq_close`. Metamethods, native
functions and error handlers run inside an instruction and may call back, yield, suspend or throw.
Generators take frames off the stack and put them back under another `Execute`. A table is changed
while a loop traverses it, an array while it is sorted. The compiler emits in one pass and patches
what it emitted, and an optimiser rewrites the last instruction under it. `PROJECT.json` lists the
hazards at their lines.

Components interact as follows. The value stack, the frames, tables and objects hold
`SQObjectPtr`s, so every instruction moves reference counts; a count of zero runs `Release`
at once. The collector starts from the root machine, the host's `RefTable`, the registry and
the default delegates. `Execute` calls native functions, which call the API, which calls
`Execute`. The wrapper calls the API and nothing else.

## 2. Modules

| module | models | state and actions |
|---|---|---|
| `SQMap` | what a table promises | a partial function `map`; one action per operation |
| `SQTable` | `sqtable.h`, `sqtable.cpp` | `tb` is the node array with `firstfree` and `used`; `hash` is `HashObj`; `iter` is a script's traversal. `NewSlot`, `Set`, `RemoveKey`, `Clear`, `Clone`, `Next` |
| `SQLinks` | the walks of `SQTable::_Get` and `RefTable::Get` | `NodesFrom`: the nodes along the next pointers of an array |
| `SQRefTable` | `RefTable` | `rt` holds buckets, nodes, free list; `held` is the host's ledger. `AddRef`, `Release`, `GetRefCount` |
| `SQHeap` | counting, weak references, collector, `sq_close` | see below |
| `SQFacts` | | lemmas: induction over sets of naturals, sequences as stacks, lists threaded through an array |
| `SQHeapProofs` | | theorems about counts, weak references and dangling pointers in `SQHeap` |
| `SQHeapSweepProofs` | | theorems about the mark and the sweep of `SQHeap` |
| `SQTableProofs`, `SQVMExecProofs`, `SQClassProofs`, `SQApiProofs`, `SQRefTableProofs` | | theorems about these modules |
| `SQVMExec` | control in one machine | see below |
| `SQFuncState` | `SQFuncState` | operators on a record: registers, targets, instructions, jumps, traps, captured variables |
| `SQCompiler` | `SQCompiler` | one operator per function of the parser, from a syntax tree to instructions |
| `SQExecute` | `SQVM::Execute` on compiled code | value stack, frames, traps, outers, closures; one action per group of instructions |
| `SQLanguage` | what a program means | `Behaviour`, the reference for the two above |
| `SQValues` | values, tables and arrays of programs | operators: comparison, arithmetic, access |
| `SQAccess` | `Get`, `Set`, `NewSlot`, `DeleteSlot`, `SetDelegate` | operators on a heap of tables and userdata |
| `SQClass` | `SQClass`, `SQInstance`, member handles | `cls`, `inst`, `handles`; one action per operation |
| `SQApi` | the API's stack, native calls, the wrapper's closures | `stack`, `top`, `base`, `calls`, `heap`, `closures`, `lasterror`; one action per function |
| `SQSort` | `array.sort` | one operator per step of the heap sort, between two calls of the compare function |
| `SQSerial` | closures in streams | writing and reading of every part, in the order of the code |
| `SQRex` | `sqstdrex.cpp` | parser, matcher, search |
| `SQRexLanguage` | what an expression means | `Ends`, the reference for `SQRex` |
| `SQLexer` | `sqlexer.cpp` | operators on the lexer's record: comments, strings, numbers, words, `Lex` |
| `SQTokens` | what a text is made of | `Lexemes` and `TokenOf`, the reference for `SQLexer` |
| `SQFold` | | a fold over sequences |
| `MC*` | | instances for TLC; `MCSQCode` has the programs, `MCSQAlgorithms` the inputs of the pure algorithms |

`SQCompiler` composes with `SQExecute` (which runs its output) in `MCSQCode`; `SQApi` builds on
`SQAccess`; `SQTable` implements `SQMap`; `SQHeap` carries the open outers of `SQExecute` as
roots.

**SQTable.** A pointer to a node is its index. `Place` is the middle of `NewSlot`, from the
main position to `mp->key = key`; `TryNewSlot` adds the search for a free place; when there is
none, `NewSlotResult` is the rehash and the second attempt. `Reinsert` is the loop of `Rehash`
over the old array, node by node, and that of `Clone` over the original; the action for the
code's `Remove` is `RemoveKey`. `NodesFrom` cuts a walk after as many
steps as there are nodes, and the invariant says that this never matters: `Inv` conjoins the
types, that every key is reachable from its main position, that chains are acyclic and that
`firstfree` is a free node. A hash code is any number; the code's mask is the
remainder by the size, a power of two. `tb.nested` records that a rehash met a full array,
where the code would rehash again inside it; `NoNestedRehash` says that it does not happen. A
traversal whose nodes changed place is given up by the model (`Become`), because `Next`
promises nothing then.

**SQRefTable.** `failed` records that an assertion of the code failed. `QueryAny` lets the
host ask for counts of objects it does not hold. `Inv`: types, every node in exactly one list
or free, no list with a cycle (`ListsEnd`), counts equal the ledger. `List` is a walk of at
most as many steps as there are nodes; `Ends` says that it did not stop for want of steps.

**SQHeap.** Every place that counts as a reference is a slot: roots, fields of objects, the
collector's locals `t` and `nx`, and the reference that `SQInstance::Release` holds while its
hook runs. `work` is the stack of `Release` calls under way, so that hooks and nested releases
interleave with everything that the caller has not done yet. An object goes through `enter`
and `hook` if it has a release hook, then `destroy`: members are dropped one by one, the
object leaves its chain (classes do this at different points, so the order is free), and its
memory goes. Marking is the recursion of the `Mark` functions as a set of grey objects, in any
order. The sweep is one action per statement of `CollectGarbage`, and the same actions serve
`~SQSharedState`. The chains are the real doubly linked lists with their two heads; `chain` is
a ghost variable, as `garbage` is. Two kinds of roots count and are not visited by `RunMark`
(`VisitedSlots` are the others): `OuterRoots` are slots of `_openouters`, `LocalRoots` are
`SQObjectPtr` locals of C++ functions that call a script, such as the result of `array.map`.
`KeptSlots` are the members that `Finalize` leaves to the destructor (in `SQClosure`,
`SQFunctionProto` and `SQGenerator`), `Keeps` what they may refer to, which goes round in no
circle (`KeepsAssumption`). `dropped` are the roots `sq_close` is done with.

A hook runs in the middle of a release, of a sweep or of `sq_close`, and may store, move, drop
and keep references and make weak ones in each. `HookOps` is what a hook called by a sweep or by
`sq_close` had better not do: `"new"`, create objects; `"deref"`, take the target of a weak
reference; `"late"`, use roots that `sq_close` has dropped. Run `heap` lets hooks do all of them,
`heap_hooks` none. What the model assumes of every host: a hook does not start a collection, and
code in a hook does not ask a weak reference for an object whose destructor has begun. Raw
pointers with manual counting (`_delegate`, `_members`, `_base`) are slots like the others.

**SQVMExec.** `calls` is `_callsstack`, `etraps` the trap stack, `gens` the generators with the
frame and traps they keep while suspended, and `cstack` the C stack: one entry per `Execute` and
per native function under way. `traps` in an entry is the local variable of that `Execute`. A base
position stands for `_stackbase`: called functions start inside their caller's frame, resumed
generators at `_top`, so positions differ between the place a generator was suspended at and the
one it is resumed at. The script's next instruction and the host's next call are any of the
actions. `FailTo` says what each kind of caller may do with a failure: a failing metamethod
throws, or goes unnoticed (`_get` and `_set` that throw null fall back, `_OP_MOD` ignores the
result of `ARITH_OP`). After a call of a generator function `Execute` compares `ci` with the
pointer it saved before; `MovedAt` are the sizes of the call stack at which `GrowCallStack` moves
it and the saved pointer is stale. Three constants widen the environment: `ForeachInTry` (the run
`vm_foreach`), `MixedResume` and `FlagsAnywhere` (section 4). The model assumes that the host asks
for a generator's status before `sq_resume`, that it does not call into a suspended machine except
to wake it, and that the compiler closes open try blocks before `return`, which `code` checks
(`TrapsBalanced`). `sq_notifyallexceptions` is off.

**SQFuncState, SQCompiler.** The compiler is one pass without a syntax tree of its own: each
parsing function emits as it reads. The model starts from a tree that stands for the tokens,
so `Lex` and `Expect` disappear and the one token of look-ahead that decides what is emitted
(`NeedGet`) is a parameter. Everything else is kept: the stack of targets, which
registers are locals, deferred dereferencing (`_es`), `AddInstruction` with every rule of its
optimiser, jump lists for break and continue, POPTRAPs, `ResolveBreaks`, CLOSE for captured
locals, the for statement that cuts its step out of the instruction stream and appends it
after the body. Arguments of instructions have the width of `SQInstruction`. An assertion of
the code that fails sets `failed`; too many locals and too many literals are errors (`error`,
`err`), which the programs of the run stay below.

**SQExecute.** Runs the main function of a program of `Programs("run")` under the code the
compiler made of it. The value stack is a sequence with a number `gen` that changes when it is
reallocated; an open outer holds the position and the `gen` it was made with, as the pointer in
the code does. Programs talk to the host through `in()`, which the host answers with either
boolean, and `out(v)`. After `MaxInputs` answers the host stops the program; what was observed
until then is compared. `InitialStack` is small so that calls make the stack grow.
Programs of `Programs("compile")` (classes, generators, bitwise operators) are compiled and
their code checked, not run: what their instructions do is the subject of `SQClass` and
`SQVMExec`.

**SQClass.** A class is its members (`<<"field", i>>` or `<<"method", i>>` by key, the tag bits
of `MEMBER_TYPE_*`), the two vectors, metamethods, `constructoridx`, `locked` and `udsize`. A
derived class starts from copies. An instance is a block of values sized when it is made. The
model keeps `NewSlot`'s order of tests: a locked class still takes static members, an existing
field of the class itself only changes its default, the limit comes next. A handle is used on
any instance and any class, whichever it was got for; an index outside of the vector sets
`stray`. `inherited` are the handles a class took over when it was derived: those of a base that
are good for it.

**SQAccess.** What a metamethod does when it is called is a parameter: it answers, throws null
(which means "not found") or throws. `ExpectedGet` and `ExpectedSet` are the reference: the
nearest object on the chain of delegates, metamethods and the default delegate only after it.

**SQApi.** A frame is the part of the stack from `base` to `top`; slots above are kept, since
whether they are null is a property. A native function under way may do everything the host may.
`calls` remembers what lay below (`below`) and whether the function saw what it should (`served`),
both only for the properties. A bound environment is a weak reference: a call passes null once
nothing on the stack, in an object or in a closure holds it (`EnvObj`, `Alive`). Strings and
functions answer through their default delegates. `sq_set` with a null key may find a node without
a key (`Unused`), and leaves a value there that nobody reads; the model leaves open for how long
that value counts (`unread`). `squirrel_vm_run_callback` gives the host a message only if the
error is a string. The host keeps the API's contract: indices in the frame, values popped that are
there.

**SQSort, SQSerial, SQRex.** Operators that follow the code's control; the compare function, the
stream and the pattern and text are the inputs. `SQSort` stops before each call of the compare
function, which may answer anything or fail. A resize of the array by a compare function is
detected and is such a failure; with the default comparison, `ObjCmp`, a script's `_cmp` may resize
the array unnoticed, and the sort is `"undefined"` as soon as it reads or swaps outside of it. In
`SQSerial` a closure is a function with the default values it has captured, which are null when
it is read back; a stream may be cut anywhere, or one of its tags spoilt.

**SQLexer.** A text is a sequence of characters; the operators keep the code's names. `NumberOf`
is the three conversions of digits, in the width of `SQInteger` (`MAX_HEX_DIGITS`, 2 in the run,
so that numbers overflow). A character constant is a `char`, so bytes from 128 are negative.
`SQTokens` knows no switch and no state: it cuts a text into the longest lexemes of the manual's
grammar. There are words that begin like a number and that the grammar does not have (`OddWord`);
the lexer reads each of them in a way of its own (section 4), and nothing is said of it. Strings
are compared with the pieces they were written from.

## 3. Runs

Every passing run finishes within three minutes on two cores.

| run | bounds | shows |
|---|---|---|
| `table` | 5 keys in two classes of equal hash codes, codes from {0,3,5,7}, sizes 4 and 8; a traversal for one choice of codes | `Inv`, right answers (with `NewSlot`'s exception, section 4), no nested rehash, complete traversal under removals and changes, refinement of `SQMap` |
| `reftable` | 5 objects, codes {0,3}, two references each, sizes 4 and 8 | `Inv`, assertions |
| `heap` | 2 objects of one field, one with a release hook, 1 weak reference, 2 roots of which one is a C++ local; hooks that do everything in `HookOps` | `NoDangling`, `IInv`, counts, weak references and marks |
| `heap_hooks` | 3 objects of one field, one with a release hook, one a prototype or outer, a member that `Finalize` leaves; 2 roots; careful hooks | a sweep spares what is live, garbage is freed or resurrected, `sq_close` empties the heap; both end |
| `vm_exec` | 2 generators, 4 frames, 3 native calls, one try block per frame, a call stack that does not move | frames, traps and C stack stay in step |
| `code` | families of programs (below), 2 answers of the host, an initial stack of 12 | programs behave as written; code, traps and outers are well formed |
| `classes` | 2 classes, 2 instances, 1 handle, 2 keys, at most 2 members, 7 operations | members, layouts, constructors, handles |
| `algorithms` | 3 objects and every way they delegate; about 5000 expressions on texts of up to 3 characters; arrays of up to 5, comparisons that fail or resize; functions nested once, streams cut anywhere or with a tag spoilt; texts of up to 5 characters, strings of up to 2 pieces | lookups, matches, captures, sorts, streams and tokens agree with their references |
| `api` | four kinds of scenes of 5 or 6 calls, native functions nested 2 deep | balance of calls, dead slots, delegates, closures of the wrapper |
| `heap_outers` | 3 objects, 1 open outer | violation: the chain's head is lost |
| `vm_foreach` | 1 generator | violation: traps that are not counted |
| `code_for` | one program | violation: a loop that does not stop |

Why the bounds are enough. *Tables*: codes 0, 3, 5 and 7 collide modulo 4 (3 and 7), modulo 8 not
at all, and put main positions above and below the first free place, which is what decides whether
a colliding node is moved; three keys of one code make a chain with a middle. Five keys fill four
nodes and force growth, removals then force shrinking. *Heap*: three objects (`heap_hooks`) make
cycles of every length up to three, with one object left outside and with a hook in front of, in
or behind the cycle. Where hooks may do everything (`heap`) two objects and a weak reference are
what the machine can explore; the theorems of section 5 cover the rest. Two roots are enough to
move a reference from one to the other. *Execution*: four frames hold a script, two generators one
inside the other and an error handler. `MaxNativeCalls` is 3 instead of 100 so that the limit is
met. *Programs*: bodies that jump, throw, return and capture, inside every loop and every other
statement, two deep and inside functions; every pair of operand kinds in every place that folds
instructions differently (argument, initialiser, condition, statement, return); recursion and tail
calls deep enough to move the stack under open outers. *Classes*: `constructor` and one metamethod
name have all the special treatment `NewSlot` gives, a plain name has a part of it;
`MEMBER_MAX_COUNT` is 2 instead of 2^24 - 1 so that the limit is met. *Expressions*: each element
alone, before and after each simple one, in groups, alternatives and repetitions. `Infinity` (9)
stands for 0xFFFF and exceeds every text. `MaxHeld`, `MaxCalls`, `MaxTraps`, `MaxSteps` and the
scenes only bound the exploration.

Symmetry: keys and host objects of equal hash code, and generators, are interchangeable. No
liveness is checked with symmetry.
Deadlock is checked where the system goes on for ever (`table`, `reftable`, `vm_exec`); a closed
heap, a program that has ended, an answered job and a used up bound have no next step.

Fairness is assumed in `heap_hooks` only. C++ code that has begun runs on: weak fairness of
the steps of `Release` and of the collector. A hook of the host returns: strong fairness of
`HookReturn`, because hooks may nest, which disables it in between. The program itself is not
fair; it need not ever collect.

## 4. Disagreements

Shown by a run:

* `heap_outers`: `SQVM::Mark` (`sqobject.cpp:561`) does not visit `_openouters`. A collection
  while an outer is open, captured by no reachable closure, leaves the outer allocated but out
  of the chain; closing it sets `_gc_chain` to its `_next`. The manual (`doc/squirrel3.pdf`)
  says that cycles found are deleted.
* `vm_foreach`: `foreach` over a generator does not count the traps that come back (575).
* `code_for`: `ForStatement` patches its exit jump only if it is not instruction 0
  (`sqcompiler.cpp:1206`), so a function that starts with `for(; i < n; )` never leaves the loop
  by its condition.

Met while modelling. The passing runs do not show them: a constant or the choice of inputs leaves
the case out, or the property says nothing of it, or it states what the code does.

* `SQTable::NewSlot` answers false for a new key that takes the last place: the second attempt
  finds the key that `Rehash` has inserted (`sqtable.cpp:172`-173). The comment at `sqtable.h:97`
  says "returns true if a new slot has been created"; `AnswersRight` states the exception.
* A collection does not see the `SQObjectPtr` locals of functions of the base library that call
  a script (`sqbaselib.cpp:479`, 508, 689, 745; `RunMark`, `sqstate.cpp:244`). In
  `[1,2,3].map(function(x){ collectgarbage(); return x; })` the sweep empties the result while it
  is being filled, and takes it out of the chain. With `LocalRoots = {2}` and no `HookOps`,
  `SweepSparesLive` fails; the theorems about sweeps assume `CarefulHost` (section 5).
* An object that a release hook creates during a sweep goes to the head of `_gc_chain`, behind the
  sweep's back, and `_gc_chain = tchain` forgets it (`sqstate.cpp:348`); one that a hook takes from
  a weak reference is emptied when the sweep comes to it; what a hook puts in a root that
  `sq_close` has already cleared is left behind.
* After a call of a generator function `Execute` tests `ci == prevci` (`sqvm.cpp:712`); when the
  call stack has grown (`GrowCallStack`, `sqvm.h:122`, at 4, 8, ... frames) `prevci` points into
  freed memory. With `MovedAt = {4}` and `MaxCalls = 5`, `CallsMatch` and
  `RootReturnsTrapFree` fail: a metamethod that is a generator function, called from the fourth
  frame inside a try block, reaches the assertion at 883.
* The default comparison of `array.sort` (`sqbaselib.cpp:786`) may call a script's `_cmp`; no test
  for a resize follows, and the sort goes on outside of the array.
* `SQTable::Set` finds an empty node for a null key (197), although "null cannot be used as
  index" (`sqvm.cpp:1497`).
* `GetRefCount` adds (436), `Resize` asserts `t->refs != 0` (480); with `QueryAny` TRUE,
  `AssertionsHold` fails.
* A generator resumed by `sq_resume` stays a root frame (`sqobject.cpp:182`); with `MixedResume`
  TRUE, `RootReturnsTrapFree` fails.
* `Suspend` takes `_nnativecalls == 2` for a direct call (517); with `FlagsAnywhere` TRUE a
  native metamethod's suspension is dropped. A native tail call through `Call` leaves a frame
  behind (1242).
* Compiler: `break` and `continue` close the outers of the innermost scope only
  (`sqcompiler.cpp:40`, 252, 262); the step of a for loop is appended again through
  `AddInstruction` (1201), which may fold it across a jump's target; a comma expression may be
  folded with an unrelated comparison (`sqfuncstate.cpp:455`), and `return (f(), x)` becomes a
  tail call (474); an exception caught in the frame it was thrown in does not close outers
  captured in the try block (`sqvm.cpp:1099`); `local function f[env]()` leaves a target behind
  (`sqcompiler.cpp:1049`); a local variable as left operand is read after the right operand's
  side effects.
* Classes: when a base gets a field after a class was derived from it, the handle of that field
  indexes another field of the derived class, or nothing (`sqapi.cpp:1447`-1460, no test); a
  handle of a method goes on naming the base's method in a derived class that overrides it (1447),
  although the manual says handles "respect inheritance rules".
* Arithmetic: the overflow test of division compares with the 32-bit `INT_MIN` (`sqvm.cpp:75`);
  `_OP_MOD` ignores the result of `ARITH_OP` (876), so that a script goes on after its `_modulo` has
  failed; a `_get` or `_set` that throws null counts as not found.
* Calls: `Execute` ignores the result of `Resume` (719); `EnterFrame` can fail with the frame
  pushed (1691).
* API: `sq_newslot` ignores the failure of `NewSlot` (873); `sq_set` and `sq_rawset` pop
  differently on failure; `sq_setparamscheck` sets the count before the type mask fails (434);
  a `sq_set` that succeeds may leave an index error in `_lasterror`; a closure that is read back
  has null default parameters (`sqobject.cpp:391`).
* Lexer: `0x` without digits is 0, `1.2.3` is 1.2, `08` is 8, `1.` and `1e1` are floats
  (`sqlexer.cpp:501`, 525), none of which the manual's grammar has; `00.1`, which it has,
  is read as the octal number `00`, a dot and 1; `'\xff'` is -1 (437); a decimal number too large
  wraps (455); `_curtoken` is not set at the start, so that `_prevtoken` of the first token is
  whatever it was (the compiler does not look).
* Regular expressions: captures of a repetition's look-ahead or of a later group may be missing;
  `_matches` is not cleared between searches; the empty pattern allocates no node
  (`sqstdrex.cpp:79`); `\b` reads past the text.
* Wrapper: `squirrel_vm_move` swaps its machines (`vm.c:194`); `squirrel_vm_run_callback` leaves
  the result or the error on the stack (877) and the message unset if the error is not a string
  (882); the closure's data is the last of its free
  variables, after those the host gave; `sq_setfreevariable` can overwrite it, after which the
  trampoline's pointer is not set (222).

## 5. Proofs

Each theorem holds for every value of the constants that satisfies the assumptions of the
module and the hypotheses named here. The inductive invariants were first checked by TLC, but
for those of `SQTable` and `SQRefTable`, which quantify over lists and ranks: TLC checks what they
imply, and checked the parts of the former that can be evaluated (`Settled` and `Above`).

### Tables: `SQTableProofs`

For any finite set of keys, any values, any hash codes, any initial sizes and however large the
array grows, with no hypothesis: `TableShape`, `TableAnswers`, `RehashNotNested` and
`TraversalYieldsAll` are `Inv`, `AnswersRight`, `NoNestedRehash` and `TraversalComplete`, and
`TableImplementsMap` is the refinement of `SQMap`. `TableAnswers` says exactly when `NewSlot`
answers true: for a new key, unless it takes the last place (section 4). The assumptions are those
of `SQTable`: keys are finite in number and not null, a hash code is a natural number, a size an
integer.

The inductive invariant `TInv` says that the table is `Good` and that the traversal has yielded
exactly the present keys before its position (`IterOK`). `Inv` is not inductive: it does not say
why the next insertion keeps the chains apart. `Good` adds

* `Ranked`: some number falls along every link. So a chain is a list (`ChainIsList`), and
  relinking needs only a new rank, where following pointers would need induction. `Reach`, the
  nodes of a chain, is a least closed set.
* `Settled`: if a node holds a key away from its main position, no key has its main position
  there. It is what makes moving that node safe: no search starts at it, and relinking its
  predecessor is enough.
* `Above`: every linked node lies above `_firstfree`. So the place handed out is not in a chain,
  although a removed node may be one without a key: `IsFree` alone does not tell.
* `Single`, `Distinct`, `Reached`: no two links to a node, no two nodes with a key, every key on
  the chain of its main position.

`PutTaking`, `PutLinking` and `PutMoving` show for each of the three outcomes of `Place` that all
of this holds again, with one more node in use and the other pairs of key and value as they were.
`RehashSizeFits` is the arithmetic of the three sizes: each leaves room for the keys counted and
for the one that a `NewSlot` under way has placed and not counted. That room is found needs
`Packed`: in an array that only ever received keys every node above `_firstfree` is used, so that
a search that fails means a full array. `ReinsertGood` follows the loop node by node. The
refinement speaks of the pairs (`Pair`) only: every operation says which pairs there are
afterwards (`NewSlotGood`, `SetGood`, `RemoveGood`, `ClearGood`, `CloneGood`), and `StoredMap`,
`WithoutMap` and `SameMap` read the mapping off them.

### Heap: `SQHeapProofs`

For every finite set of objects, weak references, fields and roots, whatever outers are open and
whatever C++ locals refer to, and with hooks that do everything in `HookOps`: `Invariance` is
`Spec => []IInv`; `Typing`, `CountsExact`, `WeakRefsSafe` and `NeverDangling` are `TypeOK`,
`RefCountExact`, `WeakRefsPaired` and `NoDangling`.

They rest on `HeapAssumption` and `SlotsDistinct`, which say that the sets are finite and the
kinds of slots distinct. `NoDangling` is not inductive. That a freed object is not referred to
follows from exact counts and from "an object in its destructor has count zero"
(`WorkInv`): the count is the cardinality of the set of slots that refer to it, so count zero
means no slot (`ZeroMeansUnreferenced`). That `nxt` is allocated needs the links of the chains
(`Linked`, `Chained`). That `t` and `nx` are objects in the phases that use them is `PhaseInv`.
Weak references need `Paired` because `SQWeakRef::Release` finds its target through `_obj`.
The central lemma is `CountsStayExact`: giving a slot a new value changes the cardinality of
two of these sets by one; `AssignKeeps` builds every assignment of the model on it. `NextInv`
has one lemma per action. `IInv` is also an invariant of the run `heap`.

### Collector: `SQHeapSweepProofs`

* `MarksExactHolds`, for every host: when the marking is over, `mark` is `Reachable`. `Reachable` is
  the least set that has what the visited roots refer to and is closed under fields, so both
  inclusions are direct: nothing grey or marked is unreachable (`Marking`), and a finished `mark`
  is closed.
* `SweepSparesLiveHolds`, for a `CarefulHost` (`LocalRoots = {}` and `HookOps = {}`): the object the
  sweep finalizes is not reachable, although hooks store, move and drop references meanwhile.
  `mark` stays closed during the sweep: a hook reaches only what is marked, or what the sweep
  itself holds and has emptied. Both parts of the hypothesis are needed (section 4).

Their invariant is `MarkInv`: `IInv` with `Listed` (an allocated object is in a chain until its
destructor takes it out), `Marked`, `Phased` (which locals each phase uses), `Marking` and
`Sweep`; `MarkInvariance` proves it for every host, the part that needs care under that condition.

For a `CarefulHost`, if no outer is open (`OuterRoots = {}`), by `SweepInvariance`:

* `GarbageHandledHolds`: what a collection found unreachable is freed when the sweep ends; what
  `ResurrectUnreachable` found is in the array when it has walked the chain.
* `CloseEmptiesHolds`: after `sq_close` the chain is empty and nothing is allocated. Objects that
  `Finalize` leaves references in are released one by the other; `KeepsAssumption` gives the one
  that nothing keeps (`NothingLeft`).

The hypothesis on outers is needed: an open outer that the mark did not visit is left out of the
chain (`heap_outers`). The invariant `SweepInv` adds `Connected` (every member of a chain can be
walked to from its head), `Tidy` (a freed object has no fields, a pin belongs to a hook that runs,
a weak reference nothing refers to is freed), `Swept` (what the cursor has passed has no fields,
and is being released if nothing refers to it) and `Resurrecting` (what is in front of the cursor
is in the array). A walk is the least set closed under `nxt`, so the proofs follow a chain without
induction.

### Calls, traps and generators: `SQVMExecProofs`

`StackInvariant` is the inductive invariant, for any number of generators, any depth of calls
and of native calls; from it `CallsMatchHolds`, `TrapsBelongHolds` and
`GeneratorsConsistentHolds`. The properties count from the bottom: `Owner` which entry of the C
stack runs a frame, `Open` the traps an `Execute` has open up to a frame, `Below` where the
traps of a frame begin. `Running` says for every frame that it fits its owner (`Fits`), that its
traps are in place (`Belong`), that instructions are executed by an `Execute` (`Callers`), and
for every generator that it runs in one frame at most and keeps its traps while suspended
(`GenOK`). What a step does is to the top of the stacks; the counts below it stay, by induction
over the frames. A suspended machine satisfies `Running` with the `Execute` that `sq_wakeupvm`
will start. The hypotheses are
`~MixedResume` and `~FlagsAnywhere`, two uses of the API that section 4 lists as breaking the
code, and `StableCalls`: a generator function called through `Execute` (as a metamethod, by the
host) does not meet a call stack that has to move, so that `ci == prevci` is not stale.
`TrapsCountedHolds` and `RootReturnsTrapFreeHolds` need `~ForeachInTry` as well: with it the
properties are false (`vm_foreach`). So, among the behaviours modelled, these four are the only
ways to a wrong count.

### Classes: `SQClassProofs`

`MembersIndexedHolds`, `ValuesFitHolds`, `ConstructorFoundHolds`, `HandlesReachFieldHolds` and the
action property `LayoutFrozenHolds`, for any names, metamethods, functions, values and number of
classes, with no hypothesis. `HandlesReachField` speaks of every class derived from the handle's
that took the member over, and of the instances of all these (`MembersReached`). The four
invariants are inductive together with `BasesLocked`: the bases of a locked class are locked.
`Lock` walks the bases, so the proof of `CreateInstance` shows by induction that `Lineage` has
every one of them; `NewSlot` is proved once for a single class record (`ClassOK`, `Keeps`) and
lifted.

### API: `SQApiProofs`

`ApiInvariant`, `DeadSlotsNullHolds`, `DelegatesAcyclicHolds`, `FunctionsServedHolds` and the action
property `CallsBalancedHolds`, for any scene that satisfies `SceneAssumption` (it starts with tables
and userdata whose slots are null and whose delegates have no cycle, and has room for one more
value on the stack), any depth and number of operations.
The invariant says that the frames lie on each other, that what was below each is still there,
and that every value on the stack, in an object or in a closure names something that exists.
That a function is served allows for an environment that is gone: null comes first then.
`DelegatesAcyclic` needs that `SetDelegate` refuses a delegate from which the object itself is
reached; `Delegates` is a least closed set like `Reachable`.

### References of the host: `SQRefTableProofs`

For any finite set of objects, any hash codes and any size the table grows to:

* `TableStaysSound`, with no hypothesis: types, `NodesPartitioned`, and the count that a lookup
  finds is what the host holds. So `Release` always finds the object, even if the host asks for
  counts of objects it does not hold.
* `CountsMatchLedger` is `Inv` and `AssertionsNeverFail` is `AssertionsHold`, under `~QueryAny`.
  The hypothesis is needed: a query adds a node with count zero, against the first part of
  `CountsAreLedger` and the assertion in `Resize` (section 4).

The inductive invariant `RInv` says that the table is `Sound`. A list is a sequence of distinct
nodes that its links run through (`Strung`); the free list has the nodes without object, the
list of a bucket those whose object hashes to it. `ListPush`, `ListPop` and `ListDrop` are what
`Add` and `Unlink` do to one list, `ListKept` says that the others stay, and `WalkIs` that the
model's walk finds the sequence. `Sound` also needs that no object has two nodes and that free
nodes are clean: `Add` does not set the count. `Resize` is followed node by node: after i nodes
of the old array the new one is sound and has the objects of the first i nodes, with their
counts (`ResizeSound`). `Ledger` and `Positive` then speak only of which object has which count
(`Counted`).

### Checked by TLC only

* Liveness: `CollectionEnds` and `CloseEnds`.
* `SQFuncState`, `SQCompiler`, `SQExecute`, `SQLanguage`, `SQRex`, `SQSerial` and `SQLexer` use
  RECURSIVE operators, as the code recurses, which the prover does not take; so the properties of
  `code` and of `algorithms`, whose inputs are enumerated, stay with TLC.

Recursive functions over numbers can be proved about: `SQFacts` has induction in the form of a
set (`SetInduction`, `StrongInduction`), which needs no operator as parameter.

## 6. Not modelled, and plan

Not modelled: the string table (characters); streams, blobs and files (positions
in host memory and files); the functions of the base library other than `sort`, each a check
of arguments around one call; `sqstdmath`, `sqstdsystem`, `sqstdaux`, `sqmem`, `sqdebug`, `sq.c`
and `minimal.c`, which format text or call the C library; the debug hook; floats and the width
of integers.

Left, the most important first:

1. A composition of `SQExecute` and `SQVMExec`: generators with a value stack, `EnterFrame`'s
   failure inside a metamethod.
2. Hooks that start a collection inside a sweep.
3. `SQStringTable` and blobs.
