------------------------- MODULE SQHeapSweepProofs -------------------------
(***************************************************************************)
(* What the collector marks, what it spares and what it frees, for every   *)
(* heap.  SQHeapProofs proves that counts and links are right; here an     *)
(* invariant on top of IInv says where marked objects are, what the part   *)
(* of the chain that has been swept looks like, and that the chains lose   *)
(* nothing.                                                                *)
(***************************************************************************)
EXTENDS SQHeapProofs

SweepPhases == {"finalize", "release", "advance", "unmark"}

\* What the theorems on the sweep suppose: no C++ function with a reference in a
\* local is under way when the collector runs, and release hooks called by a
\* sweep make no object, read no weak reference and leave the roots alone that
\* sq_close is done with.  Outside a sweep they may do all of that.
CarefulHost == LocalRoots = {} /\ HookOps = {}

(* Releases and marks, for any host and with any open outers. *)

InWork(o) == \E i \in DOMAIN work : work[i].o = o
Destroyed(o) == \E i \in DOMAIN work : work[i].o = o /\ work[i].st = "destroy"

\* Only a destructor takes an object out of its chain.
Listed == \A o \in alive \cap Ids : chain[o] # "none" \/ Destroyed(o)

\* MARK_FLAG keeps an object from being released, and outside the marking
\* phase the marked objects are those of tchain.
Marked ==
  /\ \A o \in mark : chain[o] # "none" /\ ~InWork(o)
  /\ phase # "mark" => \A o \in mark : chain[o] = "t"
  /\ closing \/ phase \in {"run", "close", "closed"} => mark = {}

\* Which phases belong to sq_close, and which leave the collector's locals
\* null or have no release under way.
Phased ==
  /\ closing => phase \in {"close", "finalize", "release", "advance", "closed"}
  /\ phase \in {"close", "closed"} => closing
  /\ phase \in {"mark", "append", "release", "unmark", "closed"} => work = <<>>
  /\ phase \notin {"finalize", "release"} => slot[T] = Nil
  /\ phase \notin {"release", "advance"} => slot[NX] = Nil

\* While marking: what is marked is reachable, and what a finished object
\* refers to is marked.
Marking ==
  phase = "mark" =>
    /\ mark \subseteq Reachable
    /\ \A s \in FieldSlots : s[1] \in mark /\ chain[s[1]] = "t" /\ slot[s] \in Ids
                               => slot[s] \in mark

\* While sweeping: the visited roots and the marked objects refer to marked
\* objects only, the collector's locals to others; in sq_close the roots it is
\* done with stay null.
Sweep ==
  /\ slot[T] \notin mark /\ slot[NX] \notin mark
  /\ CarefulHost /\ phase \in SweepPhases /\ ~closing =>
       /\ \A s \in VisitedSlots : slot[s] \in Ids => slot[s] \in mark
       /\ \A s \in FieldSlots : s[1] \in mark /\ slot[s] \in Ids => slot[s] \in mark
  /\ ~closing => dropped = {}
  /\ closing /\ phase # "close" => dropped = RootSlots
  /\ CarefulHost => \A s \in dropped : slot[s] = Nil

\* The invariant on marks.
MarkParts == Listed /\ Marked /\ Phased /\ Marking /\ Sweep
MarkInv == IInv /\ MarkParts

(* The chains and the swept part, for a careful host with no outer open. *)

\* An object in a chain is found from the chain's head.
Connected == \A o \in Ids : chain[o] # "none" => o \in After(nxt, head[chain[o]])

\* Freed objects have no fields, a pin belongs to a hook that runs, a weak
\* reference that nothing refers to is freed, and kept members have their kind.
Tidy ==
  /\ \A s \in FieldSlots : s[1] \notin alive => slot[s] = Nil
  /\ \A o \in Ids : slot[Pin(o)] = Nil \/ (slot[Pin(o)] = o /\ InWork(o))
  /\ \A w \in WIds \cap alive : rc[w] # 0
  /\ \A s \in KeptSlots : slot[s] \in Ids => <<s[1], slot[s]>> \in Keeps

\* o has been finalized, and has been released if nothing refers to it.
Emptied(o) == /\ \A s \in FieldSlots \ KeptSlots : s[1] = o => slot[s] = Nil
              /\ rc[o] = 0 => InWork(o)
\* What the sweep has passed when x is what it goes on with.
Passed(x) == \A o \in Ids : chain[o] = "gc" /\ o \notin After(nxt, x) => Emptied(o)

Swept ==
  /\ phase = "finalize" => Passed(slot[T])
  /\ phase = "release" =>
       /\ \A s \in FieldSlots \ KeptSlots : s[1] = slot[T] => slot[s] = Nil
       /\ \A o \in Ids : chain[o] = "gc" /\ o \notin After(nxt, slot[NX]) /\ o # slot[T] => Emptied(o)
  /\ phase = "advance" => Passed(slot[NX])
  /\ phase \in {"unmark", "closed"} => \A o \in Ids : chain[o] # "gc"
  /\ phase \in SweepPhases => garbage \cap mark = {}

VisitedHeld == HeldBy(VisitedSlots)

\* ResurrectUnreachable: what is in front of cur is in the array.
Resurrecting ==
  phase = "append" =>
    /\ \A a \in Ids : chain[a] = "t" /\ a \notin mark => a \in VisitedHeld
    /\ \A o \in garbage \ Hidden :
         o \in After(nxt, cur) \/ \E s \in FieldSlots : s[1] \in VisitedHeld /\ slot[s] = o

\* The invariant on the chains.
SweepParts == Connected /\ Tidy /\ Swept /\ Resurrecting
SweepInv == MarkInv /\ SweepParts

(***************************************************************************)
(* Reachability.                                                           *)
(***************************************************************************)

\* The objects reached from R are a closed set, and in every closed set.
LEMMA ReachedLeast ==
  ASSUME NEW R
  PROVE  /\ ReachableFrom(R) \subseteq Ids /\ Closed(R, ReachableFrom(R))
         /\ \A S \in SUBSET Ids : Closed(R, S) => ReachableFrom(R) \subseteq S
<1>. DEFINE Q == ReachableFrom(R)
<1>1. \A S \in SUBSET Ids : Closed(R, S) => Q \subseteq S
  BY DEF ReachableFrom
<1>2. ASSUME NEW o \in HeldBy(R) \cup Successors(Q), NEW S \in SUBSET Ids, Closed(R, S)
      PROVE  o \in S
  <2>1. Q \subseteq S
    BY <1>1, <1>2
  <2>2. Successors(Q) \subseteq Successors(S)
    BY <2>1 DEF Successors
  <2>. QED  BY <1>2, <2>2 DEF Closed
<1>3. HeldBy(R) \cup Successors(Q) \subseteq Ids
  BY DEF HeldBy, Successors
<1>4. ASSUME NEW o \in HeldBy(R) \cup Successors(Q) PROVE o \in Q
  <2>1. o \in Ids
    BY <1>3, <1>4
  <2>2. \A S \in SUBSET Ids : Closed(R, S) => o \in S
    BY <1>2, <1>4
  <2>. QED  BY <2>1, <2>2 DEF ReachableFrom
<1>5. Closed(R, Q)
  BY <1>4 DEF Closed
<1>. QED  BY <1>1, <1>5 DEF ReachableFrom

LEMMA ReachableLeast ==
  /\ Reachable \subseteq Ids /\ Closed(VisitedSlots, Reachable)
  /\ \A S \in SUBSET Ids : Closed(VisitedSlots, S) => Reachable \subseteq S
  BY ReachedLeast DEF Reachable

\* What is reachable depends on the slots only.
LEMMA ReachableFrame == slot' = slot => Reachable' = Reachable
<1>. SUFFICES ASSUME slot' = slot PROVE Reachable' = Reachable
  OBVIOUS
<1>1. HeldBy(VisitedSlots)' = HeldBy(VisitedSlots)
  BY DEF HeldBy
<1>2. \A S \in SUBSET Ids : Successors(S)' = Successors(S)
  BY DEF Successors
<1>3. \A S \in SUBSET Ids : Closed(VisitedSlots, S)' = Closed(VisitedSlots, S)
  BY <1>1, <1>2 DEF Closed
<1>. QED  BY <1>3 DEF Reachable, ReachableFrom

\* A careful host's roots, open outers aside, are all visited.
LEMMA CarefulRoots ==
  ASSUME CarefulHost
  PROVE  /\ VisitedSlots = RootSlots \ OuterSlots /\ Named = RootSlots \ dropped
         /\ HookInSweep => \A o, s : ~New(o, s) /\ ~Deref(o, s)
<1>1. VisitedSlots = RootSlots \ OuterSlots
  BY DEF CarefulHost, VisitedSlots, OuterSlots
<1>2. Named = RootSlots \ dropped
  BY DEF CarefulHost, Named
<1>. QED  BY <1>1, <1>2 DEF CarefulHost, New, Deref

(***************************************************************************)
(* What an assignment does to the releases under way.                      *)
(***************************************************************************)

\* An assignment begins at most one Release: of the old value, not marked.
LEMMA AssignWork ==
  ASSUME ObjectsOK, NEW s \in Slots, NEW v, NEW al, NEW wo, NEW wr,
         AssignIn(s, v, al, wo, wr)
  PROVE  /\ \A o \in Ids : InWork(o) => InWork(o)'
         /\ \A o \in Ids : Destroyed(o) => Destroyed(o)'
         /\ \A o \in Ids : InWork(o)' => InWork(o) \/ (o = slot[s] /\ o \notin mark)
         /\ \A o \in Ids \ mark : o = slot[s] /\ rc'[o] = 0 => InWork(o)'
         /\ work = <<>> /\ slot[s] = Nil => work' = <<>>
<1>1. work \in Seq(FrameSet)
  BY DEF ObjectsOK, FrameSet
<1>2. CASE Drops(s, v) /\ slot[s] \in Ids
  <2>1. work' = Push(slot[s])
    BY <1>2 DEF AssignIn
  <2>2. /\ \A i \in DOMAIN work : Push(slot[s])[i] = work[i]
        /\ Push(slot[s])[Len(work) + 1].o = slot[s]
        /\ DOMAIN Push(slot[s]) = DOMAIN work \cup {Len(work) + 1}
    BY <1>1, <1>2, PushFacts
  <2>3. slot[s] \notin mark /\ slot[s] # Nil
    BY <1>2 DEF Drops
  <2>4. \A o \in Ids : InWork(o) => InWork(o)'
    BY <2>1, <2>2 DEF InWork
  <2>5. \A o \in Ids : Destroyed(o) => Destroyed(o)'
    BY <2>1, <2>2 DEF Destroyed
  <2>6. \A o \in Ids : InWork(o)' => InWork(o) \/ o = slot[s]
    BY <2>1, <2>2 DEF InWork
  <2>7. \A o \in Ids : o = slot[s] => InWork(o)'
    BY <2>1, <2>2 DEF InWork
  <2>. QED  BY <2>3, <2>4, <2>5, <2>6, <2>7
<1>3. CASE ~(Drops(s, v) /\ slot[s] \in Ids)
  <2>1. work' = work
    BY <1>3 DEF AssignIn
  <2>2. rc' = Counts(s, v)
    BY DEF AssignIn
  <2>3. ~(slot[s] \in Ids \ mark /\ rc'[slot[s]] = 0)
    BY <1>3, <2>2, HeapAssumption DEF Drops
  <2>. QED  BY <2>1, <2>3 DEF InWork, Destroyed
<1>. QED  BY <1>2, <1>3

\* No object is in an empty stack of releases.
LEMMA NoWork == work = <<>> => \A o \in Ids : ~InWork(o) /\ ~Destroyed(o)
  BY DEF InWork, Destroyed

\* A referenced object is in a chain.
LEMMA ReferencedListed ==
  ASSUME IInv, Listed, NEW x \in Slots, slot[x] \in Ids
  PROVE  chain[slot[x]] # "none"
<1>1. ~Dying(slot[x]) /\ slot[x] \in alive
  BY ReferencedNotDying, HeapAssumption DEF IInv, TypeOK, Core
<1>2. ~Destroyed(slot[x])
  BY <1>1 DEF Dying, Destroyed
<1>. QED  BY <1>1, <1>2 DEF Listed

(***************************************************************************)
(* Every step keeps the invariant on marks.                                *)
(***************************************************************************)

\* What a careful host's code can name is no root that sq_close is done with.
LEMMA NamedNotDropped ==
  ASSUME CarefulHost, CollectorOK, NEW s \in Accessible
  PROVE  s \notin dropped
<1>1. Named = RootSlots \ dropped /\ dropped \subseteq RootSlots
  BY CarefulRoots DEF CollectorOK
<1>. QED  BY <1>1, SlotsDistinct DEF Accessible

\* Outside a collection there is nothing to keep but the chains' members.
LEMMA RunKeepsMarks ==
  ASSUME Listed', phase' = "run", mark' = {}, ~closing', dropped' = {}, slot'[T] = Nil, slot'[NX] = Nil
  PROVE  MarkParts'
  BY DEF MarkParts, Marked, Phased, Marking, Sweep, SweepPhases

\* The program, in a release hook too.
LEMMA RunFacts ==
  ASSUME MarkInv, phase = "run"
  PROVE  mark = {} /\ ~closing /\ dropped = {} /\ slot[T] = Nil /\ slot[NX] = Nil
  BY DEF MarkInv, MarkParts, Marked, Phased, Sweep

\* A write to a root or a field keeps what the sweep needs of the slots, if a
\* careful host's writes in a sweep put nothing that is not marked.
LEMMA WriteKeepsSlots ==
  ASSUME MarkInv, NEW s \in RootSlots \cup FieldSlots, NEW v,
         slot' = [slot EXCEPT ![s] = v],
         UNCHANGED <<mark, phase, closing>>,
         dropped' = dropped \/ (phase = "close" /\ v = Nil /\ dropped' = dropped \cup {s}),
         CarefulHost /\ phase \in SweepPhases /\ ~closing /\ v \in Ids => v \in mark,
         CarefulHost /\ s \in dropped => v = Nil
  PROVE  Sweep' /\ slot'[T] = slot[T] /\ slot'[NX] = slot[NX]
<1>1. s \in Slots /\ s # T /\ s # NX
  BY SlotFacts
<1>2. slot \in [Slots -> Values]
  BY DEF MarkInv, IInv, TypeOK, ObjectsOK
<1>4. slot'[T] = slot[T] /\ slot'[NX] = slot[NX]
  BY <1>1, <1>2, SlotFacts
<1>5. phase = "close" => closing
  BY DEF MarkInv, MarkParts, Phased
<1>6. slot'[T] \notin mark' /\ slot'[NX] \notin mark'
  BY <1>4 DEF MarkInv, MarkParts, Sweep
<1>7. ASSUME CarefulHost, phase \in SweepPhases, ~closing, NEW x \in VisitedSlots, slot'[x] \in Ids
      PROVE  slot'[x] \in mark
  <2>1. x \in Slots
    BY SlotFacts DEF VisitedSlots
  <2>2. slot[x] \in Ids => slot[x] \in mark
    BY <1>7 DEF MarkInv, MarkParts, Sweep
  <2>. QED  BY <1>1, <1>2, <1>7, <2>1, <2>2
<1>8. ASSUME CarefulHost, phase \in SweepPhases, ~closing, NEW x \in FieldSlots, x[1] \in mark, slot'[x] \in Ids
      PROVE  slot'[x] \in mark
  BY <1>1, <1>2, <1>8, SlotFacts DEF MarkInv, MarkParts, Sweep
<1>9. /\ ~closing => dropped' = {}
      /\ closing /\ phase # "close" => dropped' = RootSlots
  BY <1>5 DEF MarkInv, MarkParts, Sweep
<1>10. ASSUME CarefulHost, NEW x \in dropped' PROVE slot'[x] = Nil
  <2>1. dropped' \subseteq dropped \cup {s} /\ dropped \subseteq RootSlots
    BY DEF MarkInv, IInv, TypeOK, CollectorOK
  <2>2. x = s => v = Nil
    BY <1>10
  <2>3. x # s => x \in dropped /\ x \in Slots
    BY <1>10, <2>1, SlotFacts
  <2>4. x # s => slot[x] = Nil
    BY <1>10, <2>3 DEF MarkInv, MarkParts, Sweep
  <2>. QED  BY <1>1, <1>2, <2>2, <2>3, <2>4
<1>. QED  BY <1>4, <1>6, <1>7, <1>8, <1>9, <1>10 DEF Sweep, SweepPhases

LEMMA WriteKeepsMarks ==
  ASSUME MarkInv, NEW s \in RootSlots \cup FieldSlots, NEW v, NEW al, NEW wo, NEW wr,
         AssignIn(s, v, al, wo, wr), al \cap Ids = alive \cap Ids,
         UNCHANGED <<chainVars, mark, phase, cur, closing, garbage>>,
         dropped' = dropped \/ (phase = "close" /\ v = Nil /\ dropped' = dropped \cup {s}),
         phase \notin {"mark", "append", "release", "unmark", "closed"},
         CarefulHost /\ phase \in SweepPhases /\ ~closing /\ v \in Ids => v \in mark,
         CarefulHost /\ s \in dropped => v = Nil
  PROVE  MarkParts'
<1>1. s \in Slots
  BY SlotFacts
<1>3. /\ \A o \in Ids : Destroyed(o) => Destroyed(o)'
      /\ \A o \in Ids : InWork(o)' => InWork(o) \/ (o = slot[s] /\ o \notin mark)
  BY <1>1, AssignWork DEF MarkInv, IInv, TypeOK
<1>2. slot' = [slot EXCEPT ![s] = v]
  BY DEF AssignIn
<1>4. Sweep' /\ slot'[T] = slot[T] /\ slot'[NX] = slot[NX]
  BY <1>2, WriteKeepsSlots
<1>5. alive' \cap Ids = alive \cap Ids
  BY HeapAssumption DEF AssignIn
<1>6. Listed'
  BY <1>3, <1>5 DEF MarkInv, MarkParts, Listed, chainVars
<1>7. Marked'
  BY <1>3 DEF MarkInv, MarkParts, Marked, IInv, TypeOK, CollectorOK, chainVars
<1>8. Phased' /\ Marking'
  BY <1>4 DEF MarkInv, MarkParts, Phased, Marking
<1>. QED  BY <1>4, <1>6, <1>7, <1>8 DEF MarkParts

\* Code of the program runs in a hook or when the collector does not.
LEMMA RunningPhases ==
  ASSUME MarkInv, Running
  PROVE  /\ phase \notin {"mark", "append", "release", "unmark", "closed"}
         /\ phase \in SweepPhases => HookInSweep
         /\ phase \in {"run", "close"} => ~HookInSweep
  BY DEF Running, HookInSweep, InHook, MarkInv, MarkParts, Phased, SweepPhases

LEMMA NewKeepsMarks ==
  ASSUME MarkInv, NEW o \in Ids, NEW s \in RootSlots, New(o, s)
  PROVE  MarkParts'
<1>1. /\ phase \notin {"mark", "append", "release", "unmark", "closed"}
      /\ phase \in SweepPhases => HookInSweep
      /\ UNCHANGED gcVars
  BY RunningPhases DEF New
<1>2. /\ chain' = [chain EXCEPT ![o] = "gc"]
      /\ alive' \cap Ids = (alive \cap Ids) \cup {o}
  BY AllocKeeps DEF New, MarkInv
<1>3. /\ \A x \in Ids : Destroyed(x) => Destroyed(x)'
      /\ \A x \in Ids : InWork(x)' => InWork(x) \/ (x = slot[s] /\ x \notin mark)
  BY SlotFacts, AssignWork DEF New, MarkInv, IInv, TypeOK
<1>4. Listed'
  BY <1>2, <1>3 DEF MarkInv, MarkParts, Listed, IInv, TypeOK, ChainsOK
<1>5. o \notin mark /\ mark \subseteq Ids
  BY DEF New, MarkInv, IInv, TypeOK, CollectorOK, Chained, MarkParts, Marked
<1>6. slot' = [slot EXCEPT ![s] = o]
  BY DEF New, AssignIn
<1>7. Sweep' /\ slot'[T] = slot[T] /\ slot'[NX] = slot[NX]
  <2>1. CarefulHost => phase \notin SweepPhases
    BY <1>1, CarefulRoots
  <2>2. s \in Accessible
    BY DEF New, Accessible
  <2>3. CarefulHost => s \notin dropped
    BY <2>2, NamedNotDropped DEF MarkInv, IInv, TypeOK
  <2>. QED  BY <1>1, <1>6, <2>1, <2>3, WriteKeepsSlots DEF gcVars
<1>8. Marked'
  BY <1>1, <1>2, <1>3, <1>5 DEF MarkInv, MarkParts, Marked, IInv, TypeOK, ChainsOK, gcVars
<1>9. Phased' /\ Marking'
  BY <1>1, <1>7 DEF MarkInv, MarkParts, Phased, Marking, gcVars
<1>. QED  BY <1>4, <1>7, <1>8, <1>9 DEF MarkParts

LEMMA StoreKeepsMarks ==
  ASSUME MarkInv, NEW src \in Slots, NEW dst \in Slots, Store(src, dst)
  PROVE  MarkParts'
<1>1. /\ dst \in RootSlots \cup FieldSlots /\ src \in RootSlots \cup FieldSlots
      /\ AssignIn(dst, slot[src], alive, wobj, weakref)
      /\ UNCHANGED <<chainVars, gcVars>>
  BY AccessibleSlots DEF Store, Assign
<1>2. /\ phase \notin {"mark", "append", "release", "unmark", "closed"}
      /\ phase \in SweepPhases => HookInSweep
  BY RunningPhases DEF Store
<1>3. CarefulHost => dst \notin dropped
  BY NamedNotDropped DEF Store, Writable, MarkInv, IInv, TypeOK
<1>4. ASSUME CarefulHost, phase \in SweepPhases, ~closing, slot[src] \in Ids
      PROVE  slot[src] \in mark
  <2>1. src \notin OuterSlots /\ src \in Accessible
    BY <1>2, <1>4 DEF Store
  <2>2. Named = RootSlots /\ VisitedSlots = RootSlots \ OuterSlots
    BY <1>4, CarefulRoots DEF MarkInv, MarkParts, Sweep
  <2>3. CASE src \in RootSlots
    BY <1>4, <2>1, <2>2, <2>3 DEF MarkInv, MarkParts, Sweep
  <2>4. CASE src \in FieldSlots /\ src \notin RootSlots
    <3>1. src[1] \in HeldBy(VisitedSlots)
      BY <2>1, <2>2, <2>4 DEF Accessible, Held
    <3>2. src[1] \in mark
      BY <1>4, <3>1 DEF HeldBy, MarkInv, MarkParts, Sweep
    <3>. QED  BY <1>4, <2>4, <3>2 DEF MarkInv, MarkParts, Sweep
  <2>. QED  BY <1>1, <2>3, <2>4
<1>5. UNCHANGED <<chainVars, mark, phase, cur, closing, garbage>> /\ dropped' = dropped
  BY <1>1 DEF gcVars
<1>. QED  BY <1>1, <1>2, <1>3, <1>4, <1>5, WriteKeepsMarks

LEMMA ClearKeepsMarks ==
  ASSUME MarkInv, NEW dst \in Slots, Clear(dst)
  PROVE  MarkParts'
<1>1. /\ dst \in RootSlots \cup FieldSlots
      /\ AssignIn(dst, Nil, alive, wobj, weakref)
      /\ UNCHANGED <<chainVars, mark, phase, cur, closing, garbage>> /\ dropped' = dropped
  BY AccessibleSlots DEF Clear, Assign, gcVars
<1>2. phase \notin {"mark", "append", "release", "unmark", "closed"}
  BY RunningPhases DEF Clear
<1>3. Nil \notin Ids
  BY HeapAssumption
<1>. QED  BY <1>1, <1>2, <1>3, WriteKeepsMarks

LEMMA DerefKeepsMarks ==
  ASSUME MarkInv, NEW src \in Slots, NEW dst \in Slots, Deref(src, dst)
  PROVE  MarkParts'
<1>1. /\ dst \in RootSlots \cup FieldSlots
      /\ AssignIn(dst, wobj[slot[src]], alive, wobj, weakref)
      /\ UNCHANGED <<chainVars, mark, phase, cur, closing, garbage>> /\ dropped' = dropped
  BY AccessibleSlots DEF Deref, Assign, gcVars
<1>2. /\ phase \notin {"mark", "append", "release", "unmark", "closed"}
      /\ phase \in SweepPhases => HookInSweep
  BY RunningPhases DEF Deref
<1>3. CarefulHost => dst \notin dropped
  BY NamedNotDropped DEF Deref, Writable, MarkInv, IInv, TypeOK
<1>4. CarefulHost => phase \notin SweepPhases
  BY <1>2, CarefulRoots
<1>. QED  BY <1>1, <1>2, <1>3, <1>4, WriteKeepsMarks

LEMMA MakeWeakKeepsMarks ==
  ASSUME MarkInv, NEW src \in Slots, NEW dst \in Slots, NEW w \in WIds,
         MakeWeak(src, dst, w)
  PROVE  MarkParts'
<1>1. /\ dst \in RootSlots \cup FieldSlots /\ w \notin Ids
      /\ UNCHANGED <<chainVars, mark, phase, cur, closing, garbage>> /\ dropped' = dropped
  BY AccessibleSlots, HeapAssumption DEF MakeWeak, gcVars
<1>2. PICK al, wo, wr : AssignIn(dst, w, al, wo, wr) /\ al \cap Ids = alive \cap Ids
  BY HeapAssumption DEF MakeWeak, Assign
<1>3. phase \notin {"mark", "append", "release", "unmark", "closed"}
  BY RunningPhases DEF MakeWeak
<1>4. CarefulHost => dst \notin dropped
  BY NamedNotDropped DEF MakeWeak, Writable, MarkInv, IInv, TypeOK
<1>. QED  BY <1>1, <1>2, <1>3, <1>4, WriteKeepsMarks

\* Releases.
LEMMA NullWriteKeepsMarks ==
  ASSUME MarkInv, NEW s \in RootSlots \cup FieldSlots, Assign(s, Nil),
         UNCHANGED <<chainVars, gcVars>>,
         phase \notin {"mark", "append", "release", "unmark", "closed"}
  PROVE  MarkParts'
<1>1. Nil \notin Ids /\ AssignIn(s, Nil, alive, wobj, weakref)
  BY HeapAssumption DEF Assign
<1>2. UNCHANGED <<chainVars, mark, phase, cur, closing, garbage>> /\ dropped' = dropped
  BY DEF gcVars
<1>. QED  BY <1>1, <1>2, WriteKeepsMarks

LEMMA DestroyFieldKeepsMarks ==
  ASSUME MarkInv, DestroyField
  PROVE  MarkParts'
<1>1. PICK s \in FieldSlots : Assign(s, Nil)
  BY DEF DestroyField, FieldsOf
<1>2. phase \notin {"mark", "append", "release", "unmark", "closed"}
  BY DEF DestroyField, Destroying, MarkInv, MarkParts, Phased
<1>. QED  BY <1>1, <1>2, NullWriteKeepsMarks DEF DestroyField

LEMMA FinalizeFieldKeepsMarks ==
  ASSUME MarkInv, FinalizeField
  PROVE  MarkParts'
<1>1. PICK s \in FieldSlots : Assign(s, Nil)
  BY DEF FinalizeField, Unfinalized, FieldsOf
<1>. QED  BY <1>1, NullWriteKeepsMarks DEF FinalizeField, Sweeping

LEMMA CloseRootKeepsMarks ==
  ASSUME MarkInv, CloseRoot
  PROVE  MarkParts'
<1>1. PICK s \in RootSlots : Assign(s, Nil) /\ dropped' = dropped \cup {s}
  BY DEF CloseRoot
<1>2. Nil \notin Ids /\ AssignIn(s, Nil, alive, wobj, weakref) /\ phase = "close"
  BY <1>1, HeapAssumption DEF Assign, CloseRoot, Sweeping
<1>3. UNCHANGED <<chainVars, mark, phase, cur, closing, garbage>>
  BY DEF CloseRoot
<1>. QED  BY <1>1, <1>2, <1>3, WriteKeepsMarks

\* The slots that the invariant on marks reads.
LEMMA MarksFrame ==
  ASSUME MarkInv, UNCHANGED <<mark, chain, phase, closing, dropped>>,
         \A s \in Slots : slot'[s] = slot[s] \/ \E o \in Ids : s = Pin(o),
         \A o \in Ids : InWork(o)' => InWork(o),
         \A o \in alive' \cap Ids : o \in alive /\ (Destroyed(o) => Destroyed(o)'),
         work # <<>>
  PROVE  MarkParts'
<1>1. \A s \in RootSlots \cup FieldSlots \cup {T, NX} : s \in Slots /\ slot'[s] = slot[s]
  BY SlotFacts
<1>2. Listed'
  BY DEF MarkInv, MarkParts, Listed
<1>3. Marked'
  BY DEF MarkInv, MarkParts, Marked, IInv, TypeOK, CollectorOK
<1>4. Phased' /\ Marking'
  BY <1>1 DEF MarkInv, MarkParts, Phased, Marking
<1>5. Sweep'
  <2>1. VisitedSlots \subseteq RootSlots /\ dropped \subseteq RootSlots
    BY DEF VisitedSlots, MarkInv, IInv, TypeOK, CollectorOK
  <2>. QED  BY <1>1, <2>1 DEF MarkInv, MarkParts, Sweep, SweepPhases
<1>. QED  BY <1>2, <1>3, <1>4, <1>5 DEF MarkParts

LEMMA HookEnterKeepsMarks ==
  ASSUME MarkInv, HookEnter
  PROVE  MarkParts'
<1>. DEFINE n == Len(work)
<1>1. work \in Seq(FrameSet) /\ work # <<>> /\ Top.st = "enter" /\ Top = work[n]
  BY DEF HookEnter, MarkInv, IInv, TypeOK, ObjectsOK, FrameSet, Top
<1>2. Top \in FrameSet /\ n \in DOMAIN work /\ Top.o \in Ids
  BY <1>1, PopFacts DEF FrameSet
<1>3. Frame(Top.o, "hook") \in FrameSet
  BY <1>2 DEF Frame, FrameSet
<1>4. /\ DOMAIN work' = DOMAIN work
      /\ \A i \in DOMAIN work : work'[i] = IF i = n THEN Frame(Top.o, "hook") ELSE work[i]
  BY <1>1, <1>3, ReplaceFacts DEF HookEnter
<1>5. \A i \in DOMAIN work : work'[i].o = work[i].o /\ (work[i].st = "destroy" => work'[i] = work[i])
  BY <1>1, <1>4 DEF Frame
<1>6. \A o \in Ids : (InWork(o)' => InWork(o)) /\ (Destroyed(o) => Destroyed(o)')
  BY <1>4, <1>5 DEF InWork, Destroyed
<1>7. \A s \in Slots : slot'[s] = slot[s] \/ \E o \in Ids : s = Pin(o)
  BY <1>2 DEF HookEnter, MarkInv, IInv, TypeOK, ObjectsOK
<1>. QED  BY <1>1, <1>6, <1>7, MarksFrame DEF HookEnter, chainVars, gcVars

LEMMA HookReturnKeepsMarks ==
  ASSUME MarkInv, HookReturn
  PROVE  MarkParts'
<1>. DEFINE n == Len(work)
<1>1. work \in Seq(FrameSet) /\ work # <<>> /\ Top.st = "hook" /\ Top = work[n]
  BY DEF HookReturn, InHook, MarkInv, IInv, TypeOK, ObjectsOK, FrameSet, Top
<1>2. Top \in FrameSet /\ n \in DOMAIN work /\ Top.o \in Ids
  BY <1>1, PopFacts DEF FrameSet
<1>3. Frame(Top.o, "destroy") \in FrameSet
  BY <1>2 DEF Frame, FrameSet
<1>4. /\ DOMAIN work' \subseteq DOMAIN work
      /\ \A i \in DOMAIN work' : work'[i].o = work[i].o
      /\ \A i \in DOMAIN work : i # n => i \in DOMAIN work' /\ work'[i] = work[i]
  <2>1. CASE rc[Top.o] = 1
    <3>1. work' = Append(Pop, Frame(Top.o, "destroy"))
      BY <2>1 DEF HookReturn
    <3>. QED  BY <3>1, <1>1, <1>3, ReplaceFacts DEF Frame
  <2>2. CASE rc[Top.o] # 1
    <3>1. work' = Pop
      BY <2>2 DEF HookReturn
    <3>. QED  BY <3>1, <1>1, PopFacts
  <2>. QED  BY <2>1, <2>2
<1>5. \A i \in DOMAIN work : work[i].st = "destroy" => i # n
  BY <1>1
<1>6. \A o \in Ids : (InWork(o)' => InWork(o)) /\ (Destroyed(o) => Destroyed(o)')
  BY <1>4, <1>5 DEF InWork, Destroyed
<1>7. \A s \in Slots : slot'[s] = slot[s] \/ \E o \in Ids : s = Pin(o)
  BY <1>2 DEF HookReturn, MarkInv, IInv, TypeOK, ObjectsOK
<1>. QED  BY <1>1, <1>6, <1>7, MarksFrame DEF HookReturn, chainVars, gcVars

LEMMA DestroyUnlinkKeepsMarks ==
  ASSUME MarkInv, DestroyUnlink
  PROVE  MarkParts'
<1>. DEFINE o == Top.o
<1>1. work \in Seq(FrameSet) /\ work # <<>> /\ Top.st = "destroy" /\ o \notin mark
  BY DEF DestroyUnlink, Destroying, MarkInv, IInv, TypeOK, ObjectsOK, FrameSet
<1>2. o \in Ids /\ Destroyed(o)
  BY <1>1, PopFacts DEF FrameSet, Destroyed, Top
<1>3. chain' = [chain EXCEPT ![o] = "none"] /\ chain \in [Ids -> {"none", "gc", "t"}]
  BY DEF DestroyUnlink, RemoveFromChain, MarkInv, IInv, TypeOK, ChainsOK
<1>4. UNCHANGED <<alive, slot, work, gcVars>>
  BY DEF DestroyUnlink
<1>5. \A x \in Ids : InWork(x)' = InWork(x) /\ Destroyed(x)' = Destroyed(x)
  BY <1>4 DEF InWork, Destroyed
<1>6. Listed'
  BY <1>2, <1>3, <1>4, <1>5 DEF MarkInv, MarkParts, Listed
<1>7. Marked'
  BY <1>1, <1>2, <1>3, <1>4, <1>5 DEF MarkInv, MarkParts, Marked, IInv, TypeOK, CollectorOK, gcVars
<1>8. Phased' /\ Marking' /\ Sweep'
  BY <1>1, <1>4 DEF MarkInv, MarkParts, Phased, Marking, Sweep, gcVars
<1>. QED  BY <1>6, <1>7, <1>8 DEF MarkParts

LEMMA DestroyFreeKeepsMarks ==
  ASSUME MarkInv, DestroyFree
  PROVE  MarkParts'
<1>. DEFINE o == Top.o
            n == Len(work)
<1>1. work \in Seq(FrameSet) /\ work # <<>> /\ Top = work[n] /\ work' = Pop
  BY DEF DestroyFree, Destroying, MarkInv, IInv, TypeOK, ObjectsOK, FrameSet, Top
<1>2. /\ DOMAIN work' = DOMAIN work \ {n}
      /\ \A i \in DOMAIN work' : work'[i] = work[i]
  BY <1>1, PopFacts
<1>3. \A x \in Ids : /\ InWork(x)' => InWork(x)
                     /\ x # o /\ Destroyed(x) => Destroyed(x)'
  BY <1>1, <1>2 DEF InWork, Destroyed
<1>4. alive' = alive \ {o} /\ UNCHANGED <<slot, chainVars, gcVars>>
  BY DEF DestroyFree
<1>. QED  BY <1>1, <1>3, <1>4, MarksFrame DEF chainVars, gcVars

\* The collector.
LEMMA StartKeepsMarks ==
  ASSUME MarkInv, StartCollect \/ StartClose
  PROVE  MarkParts'
<1>1. /\ phase = "run" /\ work = <<>> /\ phase' \in {"mark", "close"}
      /\ phase' = "close" <=> closing'
      /\ UNCHANGED <<alive, mark, slot, work, chain, dropped>>
  BY RunFacts DEF StartCollect, StartClose, chainVars
<1>2. mark = {} /\ dropped = {} /\ slot[T] = Nil /\ slot[NX] = Nil
  BY <1>1, RunFacts
<1>3. Listed'
  BY <1>1 DEF MarkInv, MarkParts, Listed, Destroyed
<1>4. Marked' /\ Phased' /\ Marking'
  BY <1>1, <1>2 DEF Marked, Phased, Marking
<1>5. Sweep'
  BY <1>1, <1>2 DEF Sweep, SweepPhases
<1>. QED  BY <1>3, <1>4, <1>5 DEF MarkParts

LEMMA MarkVisitKeepsMarks ==
  ASSUME MarkInv, MarkVisit
  PROVE  MarkParts'
<1>1. phase = "mark" /\ UNCHANGED <<alive, slot, work, chain, phase, closing, dropped>>
  BY DEF MarkVisit, chainVars
<1>2. PICK s \in Visiting : slot[s] \in Ids \ mark /\ mark' = mark \cup {slot[s]}
  BY DEF MarkVisit
<1>3. work = <<>> /\ slot[T] = Nil /\ slot[NX] = Nil /\ ~closing /\ mark \subseteq Ids
  BY <1>1 DEF MarkInv, MarkParts, Phased, IInv, TypeOK, CollectorOK
<1>4. s \in Slots /\ (s \in VisitedSlots \/ (s \in FieldSlots /\ s[1] \in mark))
  BY <1>2, SlotFacts DEF Visiting, Grey, VisitedSlots
<1>5. slot[s] \in Reachable
  <2>1. Closed(VisitedSlots, Reachable) /\ mark \subseteq Reachable
    BY <1>1, ReachableLeast DEF MarkInv, MarkParts, Marking
  <2>2. CASE s \in VisitedSlots
    BY <1>2, <2>1, <2>2 DEF Closed, HeldBy
  <2>3. CASE s \in FieldSlots /\ s[1] \in mark
    BY <1>2, <2>1, <2>3 DEF Closed, Successors
  <2>. QED  BY <1>4, <2>2, <2>3
<1>6. chain[slot[s]] = "gc"
  <2>1. chain[slot[s]] # "none"
    BY <1>2, <1>4, ReferencedListed DEF MarkInv, MarkParts
  <2>. QED  BY <1>1, <1>2, <2>1 DEF MarkInv, IInv, TypeOK, ChainsOK, Chained
<1>7. Listed'
  BY <1>1 DEF MarkInv, MarkParts, Listed, Destroyed
<1>8. Marked'
  <2>1. \A o \in mark' : chain'[o] # "none" /\ ~InWork(o)'
    BY <1>1, <1>2, <1>3, <1>6 DEF MarkInv, MarkParts, Marked, InWork
  <2>. QED  BY <1>1, <1>3, <2>1 DEF Marked
<1>9. Phased' /\ Sweep'
  BY <1>1, <1>2, <1>3, HeapAssumption DEF MarkInv, MarkParts, Phased, Sweep, SweepPhases
<1>10. Marking'
  <2>1. mark' \subseteq Reachable'
    BY <1>1, <1>2, <1>5, ReachableFrame DEF MarkInv, MarkParts, Marking
  <2>2. \A x \in FieldSlots : x[1] \in mark' /\ chain[x[1]] = "t" => x[1] \in mark
    BY <1>2, <1>6
  <2>. QED  BY <1>1, <1>2, <2>1, <2>2 DEF MarkInv, MarkParts, Marking
<1>. QED  BY <1>7, <1>8, <1>9, <1>10 DEF MarkParts

LEMMA MarkEndKeepsMarks ==
  ASSUME MarkInv, MarkEnd
  PROVE  MarkParts'
<1>1. phase = "mark" /\ UNCHANGED <<alive, mark, slot, work, phase, closing, dropped>>
  BY DEF MarkEnd
<1>2. PICK o \in Grey : (\A s \in FieldsOf(o) : slot[s] \in mark \cup WIds) /\ MoveToTChain(o)
  BY DEF MarkEnd
<1>3. o \in Ids /\ o \in mark /\ chain \in [Ids -> {"none", "gc", "t"}]
  BY <1>2 DEF Grey, MarkInv, IInv, TypeOK, CollectorOK, ChainsOK
<1>4. chain' = [chain EXCEPT ![o] = "t"]
  BY <1>2 DEF MoveToTChain
<1>5. Listed'
  BY <1>1, <1>3, <1>4 DEF MarkInv, MarkParts, Listed, Destroyed
<1>6. Marked'
  BY <1>1, <1>3, <1>4 DEF MarkInv, MarkParts, Marked, InWork, IInv, TypeOK, CollectorOK
<1>7. Phased' /\ Sweep'
  BY <1>1 DEF MarkInv, MarkParts, Phased, Sweep, SweepPhases
<1>8. Marking'
  <2>1. \A s \in FieldSlots : s[1] = o /\ slot[s] \in Ids => slot[s] \in mark
    BY <1>2, HeapAssumption DEF FieldsOf
  <2>2. \A s \in FieldSlots : s[1] \in Ids
    BY DEF FieldSlots
  <2>. QED  BY <1>1, <1>3, <1>4, <2>1, <2>2, ReachableFrame DEF MarkInv, MarkParts, Marking
<1>. QED  BY <1>5, <1>6, <1>7, <1>8 DEF MarkParts

\* When marking is done the marked objects are those of tchain, and everything
\* that the roots and they refer to is marked.
LEMMA MarkDoneFacts ==
  ASSUME MarkInv, MarkDone
  PROVE  /\ work = <<>> /\ ~closing /\ dropped = {} /\ phase = "mark" /\ slot[T] = Nil /\ slot[NX] = Nil
         /\ \A o \in mark : o \in Ids /\ chain[o] = "t"
         /\ \A s \in VisitedSlots : slot[s] \in Ids => slot[s] \in mark
         /\ \A s \in FieldSlots : s[1] \in mark /\ slot[s] \in Ids => slot[s] \in mark
<1>1. phase = "mark" /\ Grey = {} /\ \A s \in VisitedSlots : slot[s] \notin Ids \ mark
  BY DEF MarkDone
<1>2. work = <<>> /\ ~closing /\ dropped = {} /\ slot[T] = Nil /\ slot[NX] = Nil
  BY <1>1 DEF MarkInv, MarkParts, Phased, Sweep
<1>3. \A o \in mark : o \in Ids /\ chain[o] = "t"
  BY <1>1 DEF Grey, MarkInv, MarkParts, Marked, IInv, TypeOK, ChainsOK, CollectorOK
<1>. QED  BY <1>1, <1>2, <1>3 DEF MarkInv, MarkParts, Marking

LEMMA BeginSweepKeepsMarks ==
  ASSUME MarkInv, StartSweep \/ CloseSweep
  PROVE  MarkParts'
<1>. DEFINE h == head["gc"]
<1>1. /\ slot' = [slot EXCEPT ![T] = h]
      /\ phase' = "finalize" \/ (phase' = (IF closing THEN "closed" ELSE "unmark") /\ h = Nil)
      /\ UNCHANGED <<alive, mark, chain, work, closing, dropped>>
      /\ work = <<>> /\ slot[NX] = Nil
  <2>1. CASE StartSweep
    BY <2>1, MarkDoneFacts DEF StartSweep, BeginSweep, chainVars
  <2>2. CASE CloseSweep
    BY <2>2 DEF CloseSweep, BeginSweep, chainVars, Sweeping, MarkInv, MarkParts, Phased
  <2>. QED  BY <2>1, <2>2
<1>2. slot \in [Slots -> Values] /\ T \in Slots /\ NX \in Slots /\ T # NX /\ T \notin RootSlots \cup FieldSlots
  BY SlotFacts DEF MarkInv, IInv, TypeOK, ObjectsOK
<1>3. slot'[T] = h /\ slot'[NX] = Nil /\ \A s \in Slots : s # T => slot'[s] = slot[s]
  BY <1>1, <1>2
<1>4. h = Nil \/ (h \in Ids /\ chain[h] = "gc")
  BY DEF MarkInv, IInv, TypeOK, ChainsOK, Linked
<1>5. Listed'
  BY <1>1 DEF MarkInv, MarkParts, Listed, Destroyed
<1>6. CASE StartSweep
  <2>1. ~closing /\ MarkDone /\ phase' # "mark" /\ phase' \notin {"run", "close", "closed"}
    BY <1>1, <1>6, MarkDoneFacts DEF StartSweep
  <2>2. Marked'
    BY <1>1, <2>1, MarkDoneFacts DEF MarkInv, MarkParts, Marked, InWork
  <2>3. Phased' /\ Marking'
    BY <1>1, <1>3, <2>1 DEF Phased, Marking
  <2>4. h \notin mark /\ Nil \notin mark
    BY <1>4, <2>1, MarkDoneFacts, HeapAssumption
  <2>5. VisitedSlots \subseteq RootSlots /\ \A s \in RootSlots \cup FieldSlots : slot'[s] = slot[s]
    BY <1>2, <1>3, SlotFacts DEF VisitedSlots
  <2>6. Sweep'
    BY <1>1, <1>3, <2>1, <2>4, <2>5, MarkDoneFacts DEF Sweep
  <2>. QED  BY <1>5, <2>2, <2>3, <2>6 DEF MarkParts
<1>7. CASE CloseSweep
  <2>1. phase = "close" /\ closing /\ dropped = RootSlots
        /\ (CarefulHost => \A s \in RootSlots : slot[s] = Nil)
    BY <1>7 DEF CloseSweep, Sweeping, MarkInv, MarkParts, Phased, Sweep
  <2>2. mark = {}
    BY <2>1 DEF MarkInv, MarkParts, Marked
  <2>3. Marked' /\ Phased' /\ Marking'
    BY <1>1, <1>3, <2>1, <2>2 DEF Marked, Phased, Marking
  <2>4. CarefulHost => \A s \in RootSlots : slot'[s] = Nil
    BY <1>2, <1>3, <2>1, SlotFacts
  <2>5. Sweep'
    BY <1>1, <1>3, <2>1, <2>2, <2>4 DEF Sweep
  <2>. QED  BY <1>5, <2>3, <2>5 DEF MarkParts
<1>. QED  BY <1>6, <1>7

\* A step of the sweep that changes the collector's locals only.
LEMMA LocalsKeepSweep ==
  ASSUME MarkInv, phase \in SweepPhases, UNCHANGED <<mark, closing, dropped>>, phase' # "close",
         \A s \in RootSlots \cup FieldSlots : slot'[s] = slot[s],
         slot'[T] \notin mark, slot'[NX] \notin mark
  PROVE  Sweep'
<1>1. VisitedSlots \subseteq RootSlots /\ dropped \subseteq RootSlots /\ phase # "close"
  BY DEF VisitedSlots, MarkInv, IInv, TypeOK, CollectorOK, SweepPhases
<1>2. CarefulHost /\ ~closing =>
        /\ \A s \in VisitedSlots : slot'[s] \in Ids => slot'[s] \in mark
        /\ \A s \in FieldSlots : s[1] \in mark /\ slot'[s] \in Ids => slot'[s] \in mark
  BY <1>1 DEF MarkInv, MarkParts, Sweep
<1>3. CarefulHost => \A s \in dropped : slot'[s] = Nil
  BY <1>1 DEF MarkInv, MarkParts, Sweep
<1>4. (~closing => dropped = {}) /\ (closing => dropped = RootSlots)
  BY <1>1 DEF MarkInv, MarkParts, Sweep
<1>. QED  BY <1>2, <1>3, <1>4 DEF Sweep

\* t is in the chain that is swept.
LEMMA SweptLocal ==
  ASSUME MarkInv, phase \in {"finalize", "release"}
  PROVE  slot[T] \in Ids /\ slot[T] \notin mark /\ chain[slot[T]] = "gc"
<1>1. slot[T] \in Ids /\ slot[T] \notin mark /\ T \in Slots
  BY SlotFacts DEF MarkInv, MarkParts, Sweep, IInv, PhaseInv
<1>2. chain[slot[T]] # "none"
  BY <1>1, ReferencedListed DEF MarkInv, MarkParts
<1>. QED  BY <1>1, <1>2 DEF MarkInv, IInv, TypeOK, ChainsOK, Chained

LEMMA TakeNextKeepsMarks ==
  ASSUME MarkInv, TakeNext
  PROVE  MarkParts'
<1>. DEFINE n == nxt[slot[T]]
<1>1. /\ phase = "finalize" /\ work = <<>> /\ phase' = "release"
      /\ slot' = [slot EXCEPT ![NX] = n]
      /\ UNCHANGED <<alive, mark, chain, work, closing, dropped>>
  BY DEF TakeNext, Sweeping, chainVars
<1>2. slot \in [Slots -> Values] /\ T \in Slots /\ NX \in Slots /\ T # NX /\ NX \notin RootSlots \cup FieldSlots
  BY SlotFacts DEF MarkInv, IInv, TypeOK, ObjectsOK
<1>3. slot'[NX] = n /\ slot'[T] = slot[T] /\ \A s \in RootSlots \cup FieldSlots : slot'[s] = slot[s]
  BY <1>1, <1>2, SlotFacts
<1>4. n \notin mark
  <2>1. slot[T] \in Ids /\ chain[slot[T]] = "gc"
    BY <1>1, SweptLocal
  <2>2. n = Nil \/ (n \in Ids /\ chain[n] = "gc")
    BY <2>1 DEF MarkInv, IInv, TypeOK, ChainsOK, Linked
  <2>. QED  BY <1>1, <2>2, HeapAssumption DEF MarkInv, MarkParts, Marked, IInv, TypeOK, CollectorOK
<1>5. Listed'
  BY <1>1 DEF MarkInv, MarkParts, Listed, Destroyed
<1>6. Marked' /\ Marking'
  BY <1>1 DEF MarkInv, MarkParts, Marked, Marking, InWork, IInv, TypeOK, CollectorOK
<1>7. Phased'
  BY <1>1 DEF MarkInv, MarkParts, Phased
<1>8. slot[T] \notin mark /\ phase \in SweepPhases
  BY <1>1 DEF MarkInv, MarkParts, Sweep, SweepPhases
<1>9. Sweep'
  BY <1>1, <1>3, <1>4, <1>8, LocalsKeepSweep
<1>. QED  BY <1>5, <1>6, <1>7, <1>9 DEF MarkParts

LEMMA ReleaseTKeepsMarks ==
  ASSUME MarkInv, ReleaseT
  PROVE  MarkParts'
<1>1. /\ phase = "release" /\ phase' = "advance" /\ work = <<>>
      /\ AssignIn(T, Nil, alive, wobj, weakref)
      /\ UNCHANGED <<chain, mark, closing, dropped>>
  BY DEF ReleaseT, Sweeping, Assign, chainVars
<1>2. slot \in [Slots -> Values] /\ T \in Slots /\ NX \in Slots /\ T # NX /\ T \notin RootSlots \cup FieldSlots
  BY SlotFacts DEF MarkInv, IInv, TypeOK, ObjectsOK
<1>3. slot' = [slot EXCEPT ![T] = Nil] /\ alive' \cap Ids = alive \cap Ids
  BY <1>1, HeapAssumption DEF AssignIn
<1>4. slot'[T] = Nil /\ slot'[NX] = slot[NX] /\ \A s \in RootSlots \cup FieldSlots : slot'[s] = slot[s]
  BY <1>2, <1>3, SlotFacts
<1>5. /\ \A o \in Ids : Destroyed(o) => Destroyed(o)'
      /\ \A o \in Ids : InWork(o)' => InWork(o) \/ (o = slot[T] /\ o \notin mark)
  BY <1>1, <1>2, AssignWork DEF MarkInv, IInv, TypeOK
<1>6. Listed'
  BY <1>1, <1>3, <1>5 DEF MarkInv, MarkParts, Listed
<1>7. Marked' /\ Marking'
  BY <1>1, <1>5 DEF MarkInv, MarkParts, Marked, Marking, IInv, TypeOK, CollectorOK
<1>8. Phased'
  BY <1>1, <1>4 DEF MarkInv, MarkParts, Phased
<1>9. slot[NX] \notin mark /\ Nil \notin mark /\ phase \in SweepPhases
  BY <1>1, HeapAssumption DEF MarkInv, MarkParts, Sweep, SweepPhases, IInv, TypeOK, CollectorOK
<1>10. Sweep'
  BY <1>1, <1>4, <1>9, LocalsKeepSweep
<1>. QED  BY <1>6, <1>7, <1>8, <1>10 DEF MarkParts

LEMMA AdvanceKeepsMarks ==
  ASSUME MarkInv, Advance
  PROVE  MarkParts'
<1>1. /\ phase = "advance" /\ work = <<>>
      /\ slot' = [slot EXCEPT ![T] = slot[NX], ![NX] = Nil]
      /\ phase' = IF slot[NX] # Nil THEN "finalize" ELSE IF closing THEN "closed" ELSE "unmark"
      /\ UNCHANGED <<alive, mark, chain, work, closing, dropped>>
  BY DEF Advance, Sweeping, chainVars
<1>2. slot \in [Slots -> Values] /\ T \in Slots /\ NX \in Slots /\ T # NX
      /\ T \notin RootSlots \cup FieldSlots /\ NX \notin RootSlots \cup FieldSlots
  BY SlotFacts DEF MarkInv, IInv, TypeOK, ObjectsOK
<1>3. slot'[T] = slot[NX] /\ slot'[NX] = Nil /\ \A s \in RootSlots \cup FieldSlots : slot'[s] = slot[s]
  BY <1>1, <1>2, SlotFacts
<1>4. Listed'
  BY <1>1 DEF MarkInv, MarkParts, Listed, Destroyed
<1>5. Marked' /\ Marking'
  BY <1>1 DEF MarkInv, MarkParts, Marked, Marking, InWork, IInv, TypeOK, CollectorOK
<1>6. Phased'
  BY <1>1, <1>3 DEF MarkInv, MarkParts, Phased
<1>7. Sweep'
  <2>1. slot'[T] \notin mark /\ slot'[NX] \notin mark
    BY <1>3, HeapAssumption DEF MarkInv, MarkParts, Sweep, IInv, TypeOK, CollectorOK
  <2>2. phase \in SweepPhases /\ phase' # "close"
    BY <1>1 DEF SweepPhases
  <2>3. UNCHANGED <<mark, closing, dropped>>
    BY <1>1
  <2>. QED  BY <1>3, <2>1, <2>2, <2>3, LocalsKeepSweep
<1>. QED  BY <1>4, <1>5, <1>6, <1>7 DEF MarkParts

LEMMA EndSweepKeepsMarks ==
  ASSUME MarkInv, EndSweep
  PROVE  MarkParts'
<1>1. phase = "unmark" /\ phase' = "run" /\ UNCHANGED <<alive, slot, work, closing, dropped>>
  BY DEF EndSweep, Sweeping
<1>2. ~closing /\ dropped = {} /\ slot[T] = Nil /\ slot[NX] = Nil
  BY <1>1 DEF MarkInv, MarkParts, Phased, Sweep
<1>3. mark' = {}
  BY <1>1 DEF EndSweep, MarkInv, MarkParts, Marked
<1>4. Listed'
  BY <1>1 DEF EndSweep, MarkInv, MarkParts, Listed, Destroyed
<1>. QED  BY <1>1, <1>2, <1>3, <1>4, RunKeepsMarks

LEMMA StartResurrectKeepsMarks ==
  ASSUME MarkInv, NEW arr \in Ids, NEW s \in RootSlots, StartResurrect(arr, s)
  PROVE  MarkParts'
<1>1. /\ MarkDone /\ arr \notin alive /\ slot[s] = Nil /\ phase' = "append"
      /\ AddToChain("t", arr) /\ AssignIn(s, arr, alive \cup {arr}, wobj, weakref)
      /\ UNCHANGED <<mark, closing, dropped>>
  BY DEF StartResurrect
<1>2. /\ chain' = [chain EXCEPT ![arr] = "t"]
      /\ slot'[T] = slot[T] /\ slot'[NX] = slot[NX]
      /\ alive' \cap Ids = (alive \cap Ids) \cup {arr}
  BY <1>1, AllocKeeps DEF MarkInv
<1>3. work = <<>> /\ work' = <<>>
  BY <1>1, SlotFacts, MarkDoneFacts, AssignWork DEF MarkInv, IInv, TypeOK
<1>4. \A o \in Ids : ~InWork(o)' /\ Destroyed(o)' = Destroyed(o)
  BY <1>3 DEF InWork, Destroyed
<1>5. Listed'
  BY <1>2, <1>4 DEF MarkInv, MarkParts, Listed, IInv, TypeOK, ChainsOK
<1>6. Marked' /\ Marking'
  BY <1>1, <1>2, <1>4, MarkDoneFacts DEF Marked, Marking, MarkInv, IInv, TypeOK, ChainsOK, CollectorOK
<1>7. Phased'
  BY <1>1, <1>2, <1>3, MarkDoneFacts DEF Phased
<1>8. Sweep'
  BY <1>1, <1>2, MarkDoneFacts, HeapAssumption DEF Sweep, SweepPhases
<1>. QED  BY <1>5, <1>6, <1>7, <1>8 DEF MarkParts

\* Appending writes a field of the array, which was null.
LEMMA ResurrectFacts ==
  ASSUME MarkInv, ResurrectNext
  PROVE  /\ phase = "append" /\ work = <<>> /\ work' = <<>>
         /\ UNCHANGED <<alive, mark, chain, nxt, head, phase, closing, dropped, garbage>>
         /\ slot' \in [Slots -> Values]
         /\ \A x \in Slots : x \notin FieldSlots => slot'[x] = slot[x]
         /\ \A x \in FieldSlots : slot[x] # Nil => slot'[x] = slot[x]
         /\ cur \notin Hidden => \E x \in FieldSlots :
              slot'[x] = cur /\ chain[x[1]] = "t" /\ x[1] \notin mark /\ x[1] \in Ids
         /\ \A x \in FieldSlots : slot'[x] # slot[x] => x[1] \in Ids /\ chain[x[1]] # "none"
         /\ cur \in Ids /\ cur' = nxt[cur]
<1>1. /\ phase = "append" /\ cur # Nil /\ cur' = nxt[cur]
      /\ UNCHANGED <<mark, chainVars, phase, closing, dropped, garbage>>
  BY DEF ResurrectNext
<1>2. work = <<>> /\ cur \in Ids /\ slot \in [Slots -> Values] /\ cur \in Values
  BY <1>1 DEF MarkInv, IInv, TypeOK, ObjectsOK, CollectorOK, PhaseInv, Values, Objs
<1>3. CASE cur \in Hidden
  BY <1>1, <1>2, <1>3 DEF ResurrectNext, chainVars
<1>4. CASE cur \notin Hidden
  <2>1. PICK arr \in Ids, f \in Fields :
          /\ chain[arr] = "t" /\ arr \notin mark /\ <<arr, f>> \notin KeptSlots
          /\ slot[<<arr, f>>] = Nil /\ Assign(<<arr, f>>, cur)
    BY <1>4 DEF ResurrectNext
  <2>. DEFINE s == <<arr, f>>
  <2>2. s \in FieldSlots /\ s[1] = arr /\ s \in Slots
    BY <2>1, SlotFacts DEF FieldSlots
  <2>. HIDE DEF s
  <2>3. slot[s] = Nil /\ AssignIn(s, cur, alive, wobj, weakref)
    BY <2>1 DEF s, Assign
  <2>4. slot' = [slot EXCEPT ![s] = cur] /\ work' = work /\ alive' = alive
    BY <2>3 DEF AssignIn, Drops
  <2>. QED  BY <1>1, <1>2, <2>1, <2>2, <2>3, <2>4 DEF chainVars
<1>. QED  BY <1>3, <1>4

LEMMA ResurrectNextKeepsMarks ==
  ASSUME MarkInv, ResurrectNext
  PROVE  MarkParts'
<1>1. slot'[T] = slot[T] /\ slot'[NX] = slot[NX]
  BY ResurrectFacts, SlotFacts
<1>2. Listed'
  BY ResurrectFacts DEF MarkInv, MarkParts, Listed, Destroyed
<1>3. Marked' /\ Marking'
  BY ResurrectFacts DEF MarkInv, MarkParts, Marked, Marking, InWork, IInv, TypeOK, CollectorOK
<1>4. Phased' /\ Sweep'
  BY <1>1, ResurrectFacts DEF MarkInv, MarkParts, Phased, Sweep, SweepPhases
<1>. QED  BY <1>2, <1>3, <1>4 DEF MarkParts

LEMMA EndResurrectKeepsMarks ==
  ASSUME MarkInv, EndResurrect
  PROVE  MarkParts'
<1>1. phase = "append" /\ phase' = "run" /\ mark' = {} /\ UNCHANGED <<alive, slot, work, closing, dropped>>
  BY DEF EndResurrect
<1>2. ~closing /\ dropped = {} /\ slot[T] = Nil /\ slot[NX] = Nil
  BY <1>1 DEF MarkInv, MarkParts, Phased, Sweep
<1>3. Listed'
  BY <1>1 DEF EndResurrect, MarkInv, MarkParts, Listed, Destroyed
<1>. QED  BY <1>1, <1>2, <1>3, RunKeepsMarks

LEMMA StutterKeepsMarks ==
  ASSUME MarkInv, UNCHANGED vars
  PROVE  MarkParts'
<1>1. \A o \in Ids : InWork(o)' = InWork(o) /\ Destroyed(o)' = Destroyed(o)
  BY DEF vars, InWork, Destroyed
<1>2. Listed' /\ Marked' /\ Phased'
  BY <1>1 DEF vars, MarkInv, MarkParts, Listed, Marked, Phased, IInv, TypeOK, CollectorOK
<1>3. Marking' /\ Sweep'
  BY ReachableFrame DEF vars, MarkInv, MarkParts, Marking, Sweep
<1>. QED  BY <1>2, <1>3 DEF MarkParts

LEMMA MarkInit == Init => MarkParts
<1>. SUFFICES ASSUME Init PROVE MarkParts
  OBVIOUS
<1>1. slot[T] = Nil /\ slot[NX] = Nil
  BY SlotFacts DEF Init
<1>. QED  BY <1>1 DEF Init, MarkParts, Listed, Marked, Phased, Marking, Sweep, SweepPhases

\* Every step of the program, of a release and of the collector keeps it.
LEMMA MarkNext == MarkInv /\ [Next]_vars => MarkInv'
<1>. SUFFICES ASSUME MarkInv, [Next]_vars PROVE MarkParts'
  BY NextInv DEF MarkInv
<1>1. CASE Mutate
  BY <1>1, NewKeepsMarks, StoreKeepsMarks, DerefKeepsMarks, ClearKeepsMarks, MakeWeakKeepsMarks
     DEF Mutate
<1>2. CASE Releasing
  BY <1>2, HookEnterKeepsMarks, DestroyFieldKeepsMarks, DestroyUnlinkKeepsMarks,
     DestroyFreeKeepsMarks DEF Releasing
<1>3. CASE HookReturn
  BY <1>3, HookReturnKeepsMarks
<1>4. CASE StartCollect \/ StartClose
  BY <1>4, StartKeepsMarks
<1>5. CASE Collect
  BY <1>5, MarkVisitKeepsMarks, MarkEndKeepsMarks, BeginSweepKeepsMarks, FinalizeFieldKeepsMarks,
     TakeNextKeepsMarks, ReleaseTKeepsMarks, AdvanceKeepsMarks, EndSweepKeepsMarks,
     StartResurrectKeepsMarks, ResurrectNextKeepsMarks, EndResurrectKeepsMarks,
     CloseRootKeepsMarks DEF Collect
<1>6. CASE UNCHANGED vars
  BY <1>6, StutterKeepsMarks
<1>. QED  BY <1>1, <1>2, <1>3, <1>4, <1>5, <1>6 DEF Next

\* The invariant on marks holds in every state, with any open outers.
THEOREM MarkInvariance == Spec => []MarkInv
<1>1. Init => MarkInv
  BY InitInv, MarkInit DEF MarkInv
<1>. QED  BY <1>1, MarkNext, PTL DEF Spec

\* When the collector has marked all it can reach from the roots, the objects
\* with MARK_FLAG are exactly the reachable ones (RunMark, START_MARK and
\* END_MARK of sqstate.cpp and sqobject.cpp).
THEOREM MarksExactHolds == Spec => []MarksExact
<1>1. MarkInv => MarksExact
  <2>. SUFFICES ASSUME MarkInv, MarkDone PROVE mark = Reachable
    BY DEF MarksExact
  <2>1. mark \subseteq Reachable
    BY MarkDoneFacts DEF MarkInv, MarkParts, Marking
  <2>2. HeldBy(VisitedSlots) \subseteq mark
    BY MarkDoneFacts DEF HeldBy
  <2>3. Successors(mark) \subseteq mark
    BY MarkDoneFacts DEF Successors
  <2>4. mark \in SUBSET Ids /\ Closed(VisitedSlots, mark)
    BY <2>2, <2>3 DEF Closed, MarkInv, IInv, TypeOK, CollectorOK
  <2>. QED  BY <2>1, <2>4, ReachableLeast
<1>. QED  BY <1>1, MarkInvariance, PTL

\* The object that CollectGarbage finalizes is never one that the program can
\* reach, whatever release hooks store and drop between the steps of the sweep,
\* if no C++ local holds a reference meanwhile and hooks are careful.
THEOREM SweepSparesLiveHolds == ASSUME CarefulHost PROVE Spec => []SweepSparesLive
<1>1. MarkInv => SweepSparesLive
  <2>. SUFFICES ASSUME MarkInv, phase \in {"finalize", "release"} PROVE slot[T] \notin Live
    BY DEF SweepSparesLive
  <2>1. slot[T] \notin mark /\ phase \in SweepPhases /\ phase # "close" /\ mark \in SUBSET Ids
    BY SweptLocal DEF SweepPhases, MarkInv, IInv, TypeOK, CollectorOK
  <2>2. VisitedSlots = RootSlots \ OuterSlots
    BY CarefulRoots
  <2>3. CASE closing
    <3>1. mark = {} /\ \A s \in RootSlots : slot[s] = Nil
      BY <2>1, <2>3 DEF MarkInv, MarkParts, Marked, Sweep
    <3>. QED  BY <2>2, <3>1, HeapAssumption DEF HeldBy, Closed, Successors, Live, ReachableFrom
  <2>4. CASE ~closing
    <3>1. HeldBy(VisitedSlots) \subseteq mark
      BY <2>1, <2>4 DEF HeldBy, MarkInv, MarkParts, Sweep
    <3>2. Successors(mark) \subseteq mark
      BY <2>1, <2>4 DEF Successors, MarkInv, MarkParts, Sweep
    <3>3. Closed(RootSlots \ OuterSlots, mark)
      BY <2>2, <3>1, <3>2 DEF Closed
    <3>. QED  BY <2>1, <3>3, ReachedLeast DEF Live
  <2>. QED  BY <2>3, <2>4
<1>. QED  BY <1>1, MarkInvariance, PTL

(***************************************************************************)
(* What is behind an object in a chain.                                    *)
(***************************************************************************)

Links == [Ids -> Ids \cup {Nil}]

\* After(n, x) has x, goes on along n, and is in every set that does.
LEMMA AfterLeast ==
  ASSUME NEW n \in Links, NEW x
  PROVE  /\ After(n, x) \in SUBSET Ids /\ Along(n, After(n, x))
         /\ x \in Ids => x \in After(n, x)
         /\ \A S \in SUBSET Ids : Along(n, S) /\ (x \in Ids => x \in S) => After(n, x) \subseteq S
<1>1. ASSUME NEW y \in After(n, x), n[y] # Nil PROVE n[y] \in After(n, x)
  <2>1. y \in Ids /\ n[y] \in Ids
    BY <1>1 DEF After, Links
  <2>2. \A S \in SUBSET Ids : Along(n, S) /\ (x \in Ids => x \in S) => y \in S
    BY <1>1 DEF After
  <2>3. ASSUME NEW S \in SUBSET Ids, Along(n, S), x \in Ids => x \in S PROVE n[y] \in S
    <3>1. y \in S
      BY <2>2, <2>3
    <3>. QED  BY <1>1, <2>3, <3>1 DEF Along
  <2>. QED  BY <2>1, <2>3 DEF After
<1>2. Along(n, After(n, x))
  BY <1>1 DEF Along
<1>. QED  BY <1>2 DEF After

\* Nothing is behind null.
LEMMA AfterNil ==
  ASSUME NEW n \in Links
  PROVE  After(n, Nil) = {}
<1>1. Along(n, {}) /\ Nil \notin Ids /\ {} \in SUBSET Ids
  BY HeapAssumption DEF Along
<1>2. After(n, Nil) \subseteq {}
  BY <1>1, AfterLeast
<1>. QED  BY <1>2

\* Behind x are x and what is behind its successor.
LEMMA AfterStep ==
  ASSUME NEW n \in Links, NEW x \in Ids
  PROVE  After(n, x) \subseteq {x} \cup After(n, n[x])
<1>. DEFINE S == {x} \cup After(n, n[x])
<1>1. S \in SUBSET Ids /\ x \in S
  BY AfterLeast
<1>2. Along(n, S)
  <2>1. n[x] # Nil => n[x] \in S
    <3>1. n[x] \in Ids \cup {Nil}
      BY DEF Links
    <3>2. n[x] \in Ids => n[x] \in After(n, n[x])
      BY AfterLeast
    <3>. QED  BY <3>1, <3>2
  <2>2. \A y \in After(n, n[x]) : n[y] # Nil => n[y] \in S
    BY AfterLeast DEF Along
  <2>. QED  BY <2>1, <2>2 DEF Along
<1>. HIDE DEF S
<1>3. After(n, x) \subseteq S
  BY <1>1, <1>2, AfterLeast
<1>. QED  BY <1>3 DEF S

\* Links that are added where there were none lose nothing.
LEMMA AfterMore ==
  ASSUME NEW n \in Links, NEW m \in Links, \A y \in Ids : n[y] # Nil => m[y] = n[y], NEW x
  PROVE  After(n, x) \subseteq After(m, x)
<1>1. After(m, x) \in SUBSET Ids /\ Along(m, After(m, x)) /\ (x \in Ids => x \in After(m, x))
  BY AfterLeast
<1>2. Along(n, After(m, x))
  BY <1>1 DEF Along
<1>. QED  BY <1>1, <1>2, AfterLeast

\* From further on less is behind.
LEMMA AfterTail ==
  ASSUME NEW n \in Links, NEW x, NEW y \in After(n, x)
  PROVE  After(n, y) \subseteq After(n, x)
  BY AfterLeast

\* What is behind the successor is behind the object.
LEMMA AfterNext ==
  ASSUME NEW n \in Links, NEW x \in Ids
  PROVE  x \in After(n, x) /\ After(n, n[x]) \subseteq After(n, x)
<1>1. x \in After(n, x) /\ Along(n, After(n, x)) /\ n[x] \in Ids \cup {Nil}
  BY AfterLeast DEF Links
<1>2. CASE n[x] = Nil
  BY <1>1, <1>2, AfterNil
<1>3. CASE n[x] # Nil
  <2>1. n[x] \in After(n, x)
    BY <1>1, <1>3 DEF Along
  <2>. QED  BY <1>1, <2>1, AfterTail
<1>. QED  BY <1>2, <1>3

\* Taking one object out loses nothing else.
LEMMA AfterWithout ==
  ASSUME ChainsOK, Linked, NEW o \in Ids, NEW x, x # o
  PROVE  /\ NextWithout(o) \in Links
         /\ After(nxt, x) \subseteq {o} \cup After(NextWithout(o), x)
<1>. DEFINE m == NextWithout(o)
            A == After(m, x)
            S == IF prv[o] \in A THEN A \cup {o} ELSE A
<1>1. nxt \in Links /\ m \in Links
  BY DEF ChainsOK, Links, NextWithout
<1>2. A \in SUBSET Ids /\ Along(m, A) /\ (x \in Ids => x \in A)
  BY <1>1, AfterLeast
<1>3. ASSUME NEW y \in Ids, y # o, y # prv[o] PROVE m[y] = nxt[y]
  BY <1>3 DEF NextWithout
<1>4. prv[o] \in Ids => prv[o] # Nil /\ nxt[prv[o]] = o
  BY HeapAssumption DEF Linked
<1>5. prv[o] \in Ids /\ prv[o] # o => m[prv[o]] = nxt[o]
  BY DEF NextWithout
<1>6. Along(nxt, S)
  <2>. SUFFICES ASSUME NEW y \in S, nxt[y] # Nil PROVE nxt[y] \in S
    BY DEF Along
  <2>1. y \in Ids /\ A \subseteq S
    BY <1>2
  <2>2. CASE y = prv[o] /\ y # o
    BY <1>4, <2>1, <2>2
  <2>3. CASE y = o
    <3>1. CASE prv[o] \in A /\ prv[o] # o
      <4>1. m[prv[o]] = nxt[o] /\ nxt[o] # Nil
        BY <1>2, <1>5, <2>3, <3>1
      <4>2. nxt[o] \in A
        BY <1>2, <3>1, <4>1 DEF Along
      <4>. QED  BY <2>1, <2>3, <4>2
    <3>2. CASE prv[o] = o
      BY <1>2, <1>4, <2>1, <2>3, <3>2
    <3>3. CASE prv[o] \notin A /\ prv[o] # o
      <4>. DEFINE B == A \ {o}
      <4>1. m[o] = Nil
        BY DEF NextWithout
      <4>2. Along(m, B)
        <5>1. ASSUME NEW z \in A, z # o, m[z] # Nil PROVE m[z] \in A /\ m[z] # o
          <6>1. z # prv[o] /\ z \in Ids /\ m[z] = nxt[z]
            BY <1>2, <1>3, <3>3, <5>1
          <6>2. nxt[z] # o
            BY <6>1, HeapAssumption DEF Linked, ChainsOK
          <6>. QED  BY <1>2, <5>1, <6>1, <6>2 DEF Along
        <5>. QED  BY <5>1 DEF Along
      <4>3. B \in SUBSET Ids /\ (x \in Ids => x \in B)
        BY <1>2
      <4>. HIDE DEF B, A, m
      <4>4. A \subseteq B
        BY <1>1, <4>2, <4>3, AfterLeast DEF A
      <4>5. o \notin A
        BY <4>4 DEF B
      <4>. QED  BY <2>3, <3>3, <4>5
    <3>. QED  BY <3>1, <3>2, <3>3
  <2>4. CASE y # o /\ y # prv[o]
    <3>1. y \in A /\ m[y] = nxt[y]
      BY <1>3, <2>1, <2>4
    <3>. QED  BY <1>2, <2>1, <3>1 DEF Along
  <2>. QED  BY <2>2, <2>3, <2>4
<1>7. S \in SUBSET Ids /\ (x \in Ids => x \in S) /\ S \subseteq {o} \cup A
  BY <1>2
<1>. HIDE DEF S, A
<1>8. After(nxt, x) \subseteq S
  BY <1>1, <1>6, <1>7, AfterLeast
<1>. QED  BY <1>1, <1>7, <1>8 DEF A

\* In a chain that loses nothing only the head has no predecessor.
LEMMA HeadOnly ==
  ASSUME ChainsOK, Linked, Connected, NEW o \in Ids, chain[o] # "none", prv[o] = Nil
  PROVE  head[chain[o]] = o
<1>. DEFINE h == head[chain[o]]
            S == After(nxt, h) \ {o}
<1>1. nxt \in Links
  BY DEF ChainsOK, Links
<1>. SUFFICES ASSUME h # o PROVE FALSE
  OBVIOUS
<1>2. \A y \in Ids : nxt[y] # o
  BY HeapAssumption DEF Linked
<1>3. S \in SUBSET Ids /\ (h \in Ids => h \in S)
  BY <1>1, AfterLeast
<1>4. Along(nxt, S)
  BY <1>1, <1>2, AfterLeast DEF Along
<1>. HIDE DEF S
<1>5. After(nxt, h) \subseteq S
  BY <1>1, <1>3, <1>4, AfterLeast
<1>. QED  BY <1>5 DEF Connected, S

(***************************************************************************)
(* The chains lose nothing.                                                *)
(***************************************************************************)

LEMMA AddToChainConnected ==
  ASSUME ChainsOK, Linked, Connected, NEW c \in {"gc", "t"}, NEW o \in Ids, chain[o] = "none",
         AddToChain(c, o)
  PROVE  /\ Connected' /\ nxt' \in Links
         /\ \A x \in Ids \cup {Nil} : After(nxt, x) \subseteq After(nxt', x)
<1>1. nxt \in Links /\ nxt' \in Links /\ nxt' = [nxt EXCEPT ![o] = head[c]] /\ nxt[o] = Nil
  BY DEF ChainsOK, Links, AddToChain, Linked
<1>2. \A x : After(nxt, x) \subseteq After(nxt', x)
  BY <1>1, AfterMore DEF Links
<1>3. chain' = [chain EXCEPT ![o] = c] /\ head' = [head EXCEPT ![c] = o]
  BY DEF AddToChain
<1>4. head'[c] = o /\ nxt'[o] = head[c]
  BY <1>1, <1>3 DEF ChainsOK, Links
<1>5. o \in After(nxt', o) /\ After(nxt', head[c]) \subseteq After(nxt', o)
  BY <1>1, <1>4, AfterNext
<1>6. ASSUME NEW x \in Ids, chain'[x] # "none" PROVE x \in After(nxt', head'[chain'[x]])
  <2>1. CASE x = o
    BY <1>3, <1>4, <1>5, <2>1 DEF ChainsOK
  <2>2. CASE x # o
    <3>1. chain'[x] = chain[x] /\ x \in After(nxt, head[chain[x]])
      BY <1>3, <1>6, <2>2 DEF ChainsOK, Connected
    <3>2. CASE chain[x] = c
      <4>1. x \in After(nxt', head[c])
        BY <1>2, <3>1, <3>2
      <4>. QED  BY <1>4, <1>5, <3>1, <3>2, <4>1
    <3>3. CASE chain[x] # c
      <4>1. head'[chain[x]] = head[chain[x]]
        BY <1>3, <3>1, <3>3, <1>6 DEF ChainsOK
      <4>. QED  BY <1>2, <3>1, <4>1
    <3>. QED  BY <3>2, <3>3
  <2>. QED  BY <2>1, <2>2
<1>. QED  BY <1>1, <1>2, <1>6 DEF Connected

\* Taking an object out of a chain leaves the others behind the new head.
LEMMA HeadWithoutKeeps ==
  ASSUME ChainsOK, Linked, Connected, NEW o \in Ids, chain[o] = "gc",
         NEW x \in Ids, x # o, chain[x] # "none"
  PROVE  x \in After(NextWithout(o), HeadWithout("gc", o)[chain[x]])
<1>. DEFINE h == head[chain[x]]
            m == NextWithout(o)
            k == HeadWithout("gc", o)[chain[x]]
<1>1. nxt \in Links /\ head \in [{"gc", "t"} -> Ids \cup {Nil}] /\ chain[x] \in {"gc", "t"}
  BY DEF ChainsOK, Links
<1>2. x \in After(nxt, h)
  BY DEF Connected
<1>3. CASE h # o
  <2>1. x \in After(m, h)
    BY <1>2, <1>3, AfterWithout
  <2>2. chain[x] = "gc" => prv[o] # Nil
    BY <1>3, HeadOnly
  <2>3. k = h
    BY <1>1, <2>2 DEF HeadWithout
  <2>. QED  BY <2>1, <2>3
<1>4. CASE h = o
  <2>1. chain[x] = "gc" /\ prv[o] = Nil
    BY <1>1, <1>4, HeapAssumption DEF Linked
  <2>2. k = nxt[o]
    BY <1>1, <2>1 DEF HeadWithout
  <2>3. x \in After(nxt, nxt[o])
    BY <1>1, <1>2, <1>4, AfterStep
  <2>4. nxt[o] # o
    BY <2>1, HeapAssumption DEF Linked
  <2>5. x \in After(m, nxt[o])
    BY <2>3, <2>4, AfterWithout
  <2>. QED  BY <2>2, <2>5
<1>. QED  BY <1>3, <1>4

LEMMA RemoveFromChainConnected ==
  ASSUME ChainsOK, Linked, Connected, NEW o \in Ids, chain[o] = "gc",
         RemoveFromChain("gc", o)
  PROVE  Connected'
<1>1. /\ chain' = [chain EXCEPT ![o] = "none"] /\ nxt' = NextWithout(o)
      /\ head' = HeadWithout("gc", o)
  BY DEF RemoveFromChain
<1>2. ASSUME NEW x \in Ids, chain'[x] # "none" PROVE x \in After(nxt', head'[chain'[x]])
  <2>1. x # o /\ chain'[x] = chain[x]
    BY <1>1, <1>2 DEF ChainsOK
  <2>. QED  BY <1>1, <1>2, <2>1, HeadWithoutKeeps
<1>. QED  BY <1>2 DEF Connected

LEMMA MoveToTChainConnected ==
  ASSUME ChainsOK, Linked, Connected, NEW o \in Ids, chain[o] = "gc", MoveToTChain(o)
  PROVE  Connected'
<1>. DEFINE m == NextWithout(o)
            k == HeadWithout("gc", o)
<1>1. /\ chain' = [chain EXCEPT ![o] = "t"] /\ nxt' = [m EXCEPT ![o] = k["t"]]
      /\ head' = [k EXCEPT !["t"] = o]
  BY DEF MoveToTChain
<1>2. /\ m \in Links /\ m[o] = Nil /\ k \in [{"gc", "t"} -> Ids \cup {Nil}]
      /\ chain \in [Ids -> {"none", "gc", "t"}]
  BY DEF ChainsOK, Links, NextWithout, HeadWithout
<1>. HIDE DEF m, k
<1>3. nxt' \in Links /\ nxt'[o] = k["t"] /\ head'["t"] = o /\ head'["gc"] = k["gc"]
  BY <1>1, <1>2 DEF Links
<1>4. \A x : After(m, x) \subseteq After(nxt', x)
  BY <1>1, <1>2, <1>3, AfterMore, ZenonT(40) DEF Links
<1>5. o \in After(nxt', o) /\ After(nxt', k["t"]) \subseteq After(nxt', o)
  BY <1>3, AfterNext
<1>6. ASSUME NEW x \in Ids, chain'[x] # "none" PROVE x \in After(nxt', head'[chain'[x]])
  <2>1. CASE x = o
    BY <1>1, <1>2, <1>3, <1>5, <2>1
  <2>2. CASE x # o
    <3>1. chain'[x] = chain[x] /\ chain[x] \in {"gc", "t"}
      BY <1>1, <1>2, <1>6, <2>2
    <3>2. x \in After(m, k[chain[x]])
      BY <2>2, <3>1, HeadWithoutKeeps DEF m, k
    <3>. QED  BY <1>3, <1>4, <1>5, <3>1, <3>2
  <2>. QED  BY <2>1, <2>2
<1>. QED  BY <1>6 DEF Connected

\* Connected depends on the chains only.
LEMMA ConnectedFrame ==
  ASSUME Connected, UNCHANGED chainVars
  PROVE  Connected'
  BY DEF Connected, chainVars, After, Along

(***************************************************************************)
(* What an assignment does to counts.                                      *)
(***************************************************************************)

\* A count falls to zero only for the old value of the slot.
LEMMA FallsToZero ==
  ASSUME ObjectsOK, NEW s \in Slots, NEW v, NEW o \in Objs,
         rc' = Counts(s, v), rc'[o] = 0, rc[o] # 0
  PROVE  slot[s] = o /\ v # o
<1>1. rc'[o] = rc[o] + Same(v, o) - Same(slot[s], o) /\ rc[o] \in Nat
  BY DEF Counts, ObjectsOK
<1>2. CASE slot[s] # o
  BY <1>1, <1>2 DEF Same
<1>3. CASE slot[s] = o /\ v = o
  BY <1>1, <1>3 DEF Same
<1>. QED  BY <1>2, <1>3

LEMMA EmptiedKept ==
  ASSUME MarkInv, NEW s \in Slots, NEW v, NEW al, NEW wo, NEW wr, AssignIn(s, v, al, wo, wr),
         NEW o \in Ids \ mark, Emptied(o), s \in FieldSlots /\ s[1] = o => v = Nil
  PROVE  Emptied(o)'
<1>1. slot' = [slot EXCEPT ![s] = v] /\ rc' = Counts(s, v) /\ slot \in [Slots -> Values]
  BY DEF AssignIn, MarkInv, IInv, TypeOK, ObjectsOK
<1>2. \A x \in FieldSlots \ KeptSlots : x[1] = o => slot'[x] = Nil
  BY <1>1, SlotFacts DEF Emptied
<1>3. ASSUME rc'[o] = 0 PROVE InWork(o)'
  <2>1. InWork(o) => InWork(o)'
    BY AssignWork DEF MarkInv, IInv, TypeOK
  <2>2. CASE rc[o] = 0
    BY <2>1, <2>2 DEF Emptied
  <2>3. CASE rc[o] # 0
    <3>1. slot[s] = o
      BY <1>1, <1>3, <2>3, FallsToZero DEF MarkInv, IInv, TypeOK, Objs
    <3>. QED  BY <1>3, <3>1, AssignWork DEF MarkInv, IInv, TypeOK
  <2>. QED  BY <2>2, <2>3
<1>. QED  BY <1>2, <1>3 DEF Emptied

\* A weak reference that is left has references.
LEMMA WeakKept ==
  ASSUME MarkInv, Tidy, NEW s \in Slots, NEW v, NEW al, NEW wo, NEW wr,
         AssignIn(s, v, al, wo, wr), al \subseteq alive \cup {v},
         NEW w \in WIds, w \in alive'
  PROVE  rc'[w] # 0
<1>1. /\ rc' = Counts(s, v) /\ w \in Objs /\ w \in alive \cup {v} /\ w \notin mark
      /\ ~(Drops(s, v) /\ slot[s] = w) /\ ObjectsOK
  BY HeapAssumption DEF AssignIn, Objs, MarkInv, IInv, TypeOK, CollectorOK
<1>. SUFFICES ASSUME rc'[w] = 0 PROVE FALSE
  OBVIOUS
<1>2. CASE w \in alive
  <2>1. rc[w] # 0
    BY <1>2 DEF Tidy
  <2>2. slot[s] = w
    BY <1>1, <2>1, FallsToZero
  <2>3. Drops(s, v)
    BY <1>1, <2>2, HeapAssumption DEF Drops
  <2>. QED  BY <1>1, <2>2, <2>3
<1>3. CASE w \notin alive
  <2>1. v = w /\ slot[s] # w
    BY <1>1, <1>3, HeapAssumption DEF MarkInv, IInv, SlotsAlive
  <2>2. rc'[w] = rc[w] + 1 /\ rc[w] \in Nat
    BY <1>1, <2>1 DEF Counts, Same, ObjectsOK
  <2>. QED  BY <2>2
<1>. QED  BY <1>2, <1>3

(***************************************************************************)
(* Every step keeps the invariant on the chains.                           *)
(***************************************************************************)

\* Members that Finalize leaves have their kind while fields do not change.
LEMMA KeptFrame ==
  ASSUME Tidy, \A s \in FieldSlots : slot'[s] = slot[s]
  PROVE  \A s \in KeptSlots : slot'[s] \in Ids => <<s[1], slot'[s]>> \in Keeps
<1>1. KeptSlots \subseteq FieldSlots
  BY KeepsAssumption DEF FieldSlots
<1>. QED  BY <1>1 DEF Tidy

LEMMA WriteKeepsTidy ==
  ASSUME MarkInv, Tidy, NEW s \in RootSlots \cup FieldSlots, NEW v, NEW al, NEW wo, NEW wr,
         AssignIn(s, v, al, wo, wr), alive \subseteq al, al \subseteq alive \cup {v},
         s \in FieldSlots /\ v # Nil => s[1] \in alive,
         s \in KeptSlots /\ v \in Ids => <<s[1], v>> \in Keeps
  PROVE  Tidy'
<1>1. s \in Slots /\ \A o \in Ids : Pin(o) \in Slots /\ s # Pin(o)
  BY SlotFacts
<1>2. slot' = [slot EXCEPT ![s] = v] /\ slot \in [Slots -> Values]
  BY DEF AssignIn, MarkInv, IInv, TypeOK, ObjectsOK
<1>3. alive \cap Ids \subseteq alive'
  BY HeapAssumption DEF AssignIn
<1>4. ASSUME NEW x \in FieldSlots, x[1] \notin alive' PROVE slot'[x] = Nil
  <2>1. x[1] \in Ids /\ x \in Slots
    BY SlotFacts DEF FieldSlots
  <2>2. x[1] \notin alive /\ slot[x] = Nil
    BY <1>3, <1>4, <2>1 DEF Tidy
  <2>. QED  BY <1>2, <2>1, <2>2
<1>5. ASSUME NEW o \in Ids PROVE slot'[Pin(o)] = Nil \/ (slot'[Pin(o)] = o /\ InWork(o)')
  <2>1. slot'[Pin(o)] = slot[Pin(o)]
    BY <1>1, <1>2
  <2>2. InWork(o) => InWork(o)'
    BY <1>1, AssignWork DEF MarkInv, IInv, TypeOK
  <2>. QED  BY <2>1, <2>2 DEF Tidy
<1>6. \A w \in WIds \cap alive' : rc'[w] # 0
  BY <1>1, WeakKept
<1>7. ASSUME NEW x \in KeptSlots, slot'[x] \in Ids PROVE <<x[1], slot'[x]>> \in Keeps
  <2>1. x \in Slots
    BY KeepsAssumption, SlotFacts DEF FieldSlots
  <2>2. CASE x = s
    <3>1. slot'[x] = v
      BY <1>1, <1>2, <2>2
    <3>. QED  BY <1>7, <2>2, <3>1
  <2>3. CASE x # s
    <3>1. slot'[x] = slot[x]
      BY <1>2, <2>1, <2>3
    <3>. QED  BY <1>7, <3>1 DEF Tidy
  <2>. QED  BY <2>2, <2>3
<1>. QED  BY <1>4, <1>5, <1>6, <1>7 DEF Tidy

LEMMA WriteKeepsSweep ==
  ASSUME SweepInv, NEW s \in RootSlots \cup FieldSlots, NEW v, NEW al, NEW wo, NEW wr,
         AssignIn(s, v, al, wo, wr), alive \subseteq al, al \subseteq alive \cup {v},
         s \in FieldSlots /\ v # Nil => s[1] \in alive /\ (phase \in SweepPhases => s[1] \in mark),
         s \in KeptSlots /\ v \in Ids => <<s[1], v>> \in Keeps,
         UNCHANGED <<chainVars, mark, phase, cur, closing, garbage>>,
         phase \notin {"mark", "append", "release", "unmark", "closed"}
  PROVE  SweepParts'
<1>1. s \in Slots /\ s # T /\ s # NX
  BY SlotFacts
<1>2. Connected' /\ Tidy'
  BY ConnectedFrame, WriteKeepsTidy DEF SweepInv, SweepParts
<1>3. slot'[T] = slot[T] /\ slot'[NX] = slot[NX]
  BY <1>1, SlotFacts DEF AssignIn, SweepInv, MarkInv, IInv, TypeOK, ObjectsOK
<1>4. ASSUME NEW o \in Ids, chain[o] = "gc", Emptied(o), phase \in {"finalize", "advance"}
      PROVE  Emptied(o)'
  <2>1. \A x \in mark : chain[x] = "t"
    BY <1>4 DEF SweepInv, MarkInv, MarkParts, Marked
  <2>2. o \notin mark
    BY <1>4, <2>1
  <2>3. s \in FieldSlots /\ s[1] = o => v = Nil
    BY <1>4, <2>2 DEF SweepPhases
  <2>. QED  BY <1>1, <1>4, <2>2, <2>3, EmptiedKept DEF SweepInv
<1>5. ASSUME NEW x, phase \in {"finalize", "advance"},
             \A o \in Ids : chain[o] = "gc" /\ o \notin After(nxt, x) => Emptied(o)
      PROVE  \A o \in Ids : chain'[o] = "gc" /\ o \notin After(nxt', x) => Emptied(o)'
  BY <1>4, <1>5 DEF chainVars
<1>6. Swept'
  <2>1. phase' = phase /\ UNCHANGED <<garbage, mark>>
    OBVIOUS
  <2>2. phase = "finalize" => Passed(slot[T])'
    BY <1>3, <1>5 DEF SweepInv, SweepParts, Swept, Passed
  <2>3. phase = "advance" => Passed(slot[NX])'
    BY <1>3, <1>5 DEF SweepInv, SweepParts, Swept, Passed
  <2>. QED  BY <2>1, <2>2, <2>3 DEF SweepInv, SweepParts, Swept
<1>7. Resurrecting'
  BY DEF Resurrecting
<1>. QED  BY <1>2, <1>6, <1>7 DEF SweepParts

\* Outside a sweep there is nothing swept or resurrected.
LEMMA RunKeepsSweep ==
  ASSUME Connected', Tidy', phase' \in {"run", "mark", "close"}
  PROVE  SweepParts'
  BY DEF SweepParts, Swept, Resurrecting, SweepPhases

\* A careful host's field slots are of allocated objects, and during a sweep of
\* marked ones; it makes objects and reads weak references outside sweeps only.
LEMMA AccessibleFields ==
  ASSUME CarefulHost, MarkInv, NEW s \in Accessible, s \in FieldSlots
  PROVE  s[1] \in alive /\ (phase \in SweepPhases => s[1] \in mark)
<1>1. s[1] \in HeldBy(Named \ OuterSlots) /\ Named = RootSlots \ dropped
  BY CarefulRoots, SlotsDistinct DEF Accessible, Named, Held
<1>2. PICK r \in Named \ OuterSlots : s[1] = slot[r] /\ slot[r] \in Ids
  BY <1>1 DEF HeldBy
<1>3. r \in Slots /\ Nil \notin Ids
  BY <1>1, <1>2, SlotFacts, HeapAssumption
<1>4. s[1] \in alive
  BY <1>2, <1>3 DEF MarkInv, IInv, SlotsAlive
<1>5. ASSUME phase \in SweepPhases PROVE slot[r] \in mark
  <2>1. r \in RootSlots /\ r \notin dropped /\ phase # "close"
    BY <1>1, <1>2, <1>5 DEF SweepPhases
  <2>2. ~closing
    BY <2>1 DEF MarkInv, MarkParts, Sweep
  <2>3. r \in VisitedSlots
    BY <1>2, <2>1, CarefulRoots
  <2>. QED  BY <1>2, <1>5, <2>2, <2>3 DEF MarkInv, MarkParts, Sweep
<1>. QED  BY <1>2, <1>4, <1>5

LEMMA NewKeepsSweep ==
  ASSUME CarefulHost, SweepInv, NEW o \in Ids, NEW s \in RootSlots, New(o, s)
  PROVE  SweepParts'
<1>1. phase' \in {"run", "close"} /\ o \notin alive
  BY CarefulRoots DEF New, Running, HookInSweep, gcVars
<1>2. chain[o] = "none"
  BY <1>1, FreshFacts DEF Objs, SweepInv, MarkInv
<1>3. Connected'
  BY <1>2, AddToChainConnected DEF New, SweepInv, SweepParts, MarkInv, IInv, TypeOK
<1>4. Tidy'
  <2>1. s \notin FieldSlots /\ AssignIn(s, o, alive \cup {o}, wobj, weakref)
    BY SlotsDistinct DEF New
  <2>2. s \notin KeptSlots
    BY <2>1, KeepsAssumption DEF FieldSlots
  <2>. QED  BY <2>1, <2>2, WriteKeepsTidy DEF SweepInv, SweepParts
<1>. QED  BY <1>1, <1>3, <1>4, RunKeepsSweep

LEMMA StoreKeepsSweep ==
  ASSUME CarefulHost, SweepInv, NEW src \in Slots, NEW dst \in Slots, Store(src, dst)
  PROVE  SweepParts'
<1>1. /\ dst \in RootSlots \cup FieldSlots /\ dst \in Accessible
      /\ AssignIn(dst, slot[src], alive, wobj, weakref) /\ Takes(dst, slot[src])
      /\ UNCHANGED <<chainVars, mark, phase, cur, closing, garbage>>
  BY AccessibleSlots DEF Store, Assign, gcVars
<1>2. phase \notin {"mark", "append", "release", "unmark", "closed"}
  BY RunningPhases DEF Store, SweepInv
<1>3. dst \in FieldSlots => dst[1] \in alive /\ (phase \in SweepPhases => dst[1] \in mark)
  BY <1>1, AccessibleFields DEF SweepInv
<1>4. dst \in KeptSlots /\ slot[src] \in Ids => <<dst[1], slot[src]>> \in Keeps
  BY <1>1 DEF Takes
<1>. QED  BY <1>1, <1>2, <1>3, <1>4, WriteKeepsSweep

LEMMA NullWriteKeepsSweep ==
  ASSUME SweepInv, NEW s \in RootSlots \cup FieldSlots, Assign(s, Nil),
         UNCHANGED <<chainVars, mark, phase, cur, closing, garbage>>,
         phase \notin {"mark", "append", "release", "unmark", "closed"}
  PROVE  SweepParts'
<1>1. AssignIn(s, Nil, alive, wobj, weakref) /\ Nil \notin Ids
  BY HeapAssumption DEF Assign
<1>. QED  BY <1>1, WriteKeepsSweep

LEMMA ClearKeepsSweep ==
  ASSUME SweepInv, NEW dst \in Slots, Clear(dst)
  PROVE  SweepParts'
<1>1. phase \notin {"mark", "append", "release", "unmark", "closed"}
  BY RunningPhases DEF Clear, SweepInv
<1>. QED  BY <1>1, AccessibleSlots, NullWriteKeepsSweep DEF Clear, gcVars

LEMMA DerefKeepsSweep ==
  ASSUME CarefulHost, SweepInv, NEW src \in Slots, NEW dst \in Slots, Deref(src, dst)
  PROVE  SweepParts'
<1>1. /\ dst \in RootSlots \cup FieldSlots /\ dst \in Accessible
      /\ AssignIn(dst, wobj[slot[src]], alive, wobj, weakref) /\ Takes(dst, wobj[slot[src]])
      /\ UNCHANGED <<chainVars, mark, phase, cur, closing, garbage>>
  BY AccessibleSlots DEF Deref, Assign, gcVars
<1>2. phase \notin {"mark", "append", "release", "unmark", "closed"}
  BY RunningPhases DEF Deref, SweepInv
<1>3. dst \in FieldSlots => dst[1] \in alive /\ (phase \in SweepPhases => dst[1] \in mark)
  BY <1>1, AccessibleFields DEF SweepInv
<1>4. dst \in KeptSlots /\ wobj[slot[src]] \in Ids => <<dst[1], wobj[slot[src]]>> \in Keeps
  BY <1>1 DEF Takes
<1>. QED  BY <1>1, <1>2, <1>3, <1>4, WriteKeepsSweep

LEMMA MakeWeakKeepsSweep ==
  ASSUME CarefulHost, SweepInv, NEW src \in Slots, NEW dst \in Slots, NEW w \in WIds,
         MakeWeak(src, dst, w)
  PROVE  SweepParts'
<1>1. /\ dst \in RootSlots \cup FieldSlots /\ dst \in Accessible /\ w \notin Ids
      /\ UNCHANGED <<chainVars, mark, phase, cur, closing, garbage>>
  BY AccessibleSlots, HeapAssumption DEF MakeWeak, gcVars
<1>2. PICK al, wo, wr : /\ AssignIn(dst, w, al, wo, wr)
                        /\ alive \subseteq al /\ al \subseteq alive \cup {w}
  BY DEF MakeWeak, Assign
<1>3. dst \in FieldSlots => dst[1] \in alive /\ (phase \in SweepPhases => dst[1] \in mark)
  BY <1>1, AccessibleFields DEF SweepInv
<1>4. phase \notin {"mark", "append", "release", "unmark", "closed"}
  BY RunningPhases DEF MakeWeak, SweepInv
<1>. QED  BY <1>1, <1>2, <1>3, <1>4, WriteKeepsSweep

LEMMA DestroyFieldKeepsSweep ==
  ASSUME SweepInv, DestroyField
  PROVE  SweepParts'
<1>1. PICK s \in FieldSlots : Assign(s, Nil)
  BY DEF DestroyField, FieldsOf
<1>2. phase \notin {"mark", "append", "release", "unmark", "closed"}
  BY DEF DestroyField, Destroying, SweepInv, MarkInv, MarkParts, Phased
<1>. QED  BY <1>1, <1>2, NullWriteKeepsSweep DEF DestroyField, gcVars

LEMMA FinalizeFieldKeepsSweep ==
  ASSUME SweepInv, FinalizeField
  PROVE  SweepParts'
<1>1. PICK s \in FieldSlots : Assign(s, Nil)
  BY DEF FinalizeField, Unfinalized, FieldsOf
<1>. QED  BY <1>1, NullWriteKeepsSweep DEF FinalizeField, Sweeping, gcVars

LEMMA CloseRootKeepsSweep ==
  ASSUME SweepInv, CloseRoot
  PROVE  SweepParts'
<1>1. PICK s \in RootSlots : Assign(s, Nil)
  BY DEF CloseRoot
<1>. QED  BY <1>1, NullWriteKeepsSweep DEF CloseRoot, Sweeping

\* A step that leaves the chains, the collector, roots, fields and locals alone.
LEMMA SweepFrame ==
  ASSUME SweepInv, Tidy', UNCHANGED <<chainVars, gcVars>>,
         \A s \in RootSlots \cup FieldSlots \cup {T, NX} : slot'[s] = slot[s],
         \A o \in Ids : chain[o] # "none" /\ rc'[o] = 0 /\ (rc[o] = 0 => InWork(o)) => InWork(o)',
         phase \notin {"mark", "append", "release", "unmark", "closed"}
  PROVE  SweepParts'
<1>1. slot'[T] = slot[T] /\ slot'[NX] = slot[NX]
  OBVIOUS
<1>2. Connected' /\ Resurrecting'
  BY ConnectedFrame DEF SweepInv, SweepParts, Resurrecting, gcVars
<1>3. \A o \in Ids : chain[o] # "none" /\ Emptied(o) => Emptied(o)'
  BY DEF Emptied
<1>4. \A x : Passed(x) => \A o \in Ids : chain'[o] = "gc" /\ o \notin After(nxt', x) => Emptied(o)'
  BY <1>3 DEF Passed, chainVars
<1>5. Swept'
  <2>1. phase' = phase /\ UNCHANGED <<garbage, mark>>
    BY DEF gcVars
  <2>2. phase = "finalize" => Passed(slot[T])'
    BY <1>1, <1>4 DEF SweepInv, SweepParts, Swept, Passed
  <2>3. phase = "advance" => Passed(slot[NX])'
    BY <1>1, <1>4 DEF SweepInv, SweepParts, Swept, Passed
  <2>. QED  BY <2>1, <2>2, <2>3 DEF SweepInv, SweepParts, Swept
<1>. QED  BY <1>2, <1>5 DEF SweepParts

LEMMA HookEnterKeepsSweep ==
  ASSUME SweepInv, HookEnter
  PROVE  SweepParts'
<1>. DEFINE n == Len(work)
            p == Top.o
<1>1. work \in Seq(FrameSet) /\ work # <<>> /\ Top.st = "enter" /\ Top = work[n]
  BY DEF HookEnter, SweepInv, MarkInv, IInv, TypeOK, ObjectsOK, FrameSet, Top
<1>2. Top \in FrameSet /\ n \in DOMAIN work /\ p \in Ids /\ work[n].o = p /\ work[n].st # "hook"
  BY <1>1, PopFacts DEF FrameSet
<1>3. Frame(p, "hook") \in FrameSet
  BY <1>2 DEF Frame, FrameSet
<1>4. /\ DOMAIN work' = DOMAIN work
      /\ \A i \in DOMAIN work : work'[i] = IF i = n THEN Frame(p, "hook") ELSE work[i]
  BY <1>1, <1>3, ReplaceFacts DEF HookEnter
<1>5. \A o \in Ids : InWork(o)' = InWork(o)
  BY <1>2, <1>4 DEF InWork, Frame
<1>6. rc[p] = 0 /\ \A y \in Slots : slot[y] # p
  BY <1>2, ZeroMeansUnreferenced DEF SweepInv, MarkInv, IInv, TypeOK, WorkInv, Objs
<1>7. Pin(p) \in Slots /\ slot[Pin(p)] = Nil /\ InWork(p)
  BY <1>2, <1>6, SlotFacts DEF SweepInv, SweepParts, Tidy, InWork
<1>8. /\ slot' = [slot EXCEPT ![Pin(p)] = p] /\ slot \in [Slots -> Values]
      /\ rc' = Counts(Pin(p), p) /\ alive' = alive
  BY DEF HookEnter, SweepInv, MarkInv, IInv, TypeOK, ObjectsOK
<1>9. \A x \in Objs : rc'[x] = rc[x] + Same(p, x) /\ rc[x] \in Nat
  BY <1>7, <1>8, HeapAssumption DEF Counts, Same, Objs, SweepInv, MarkInv, IInv, TypeOK, ObjectsOK
<1>10. \A x \in Objs : rc'[x] = 0 => rc[x] = 0
  BY <1>9 DEF Same
<1>11. \A s \in RootSlots \cup FieldSlots \cup {T, NX} : slot'[s] = slot[s]
  BY <1>2, <1>8, SlotFacts
<1>12. Tidy'
  <2>1. ASSUME NEW o \in Ids PROVE slot'[Pin(o)] = Nil \/ (slot'[Pin(o)] = o /\ InWork(o)')
    <3>1. CASE o = p
      BY <1>5, <1>7, <1>8, <3>1
    <3>2. CASE o # p
      BY <1>2, <1>5, <1>8, <3>2, SlotFacts DEF SweepInv, SweepParts, Tidy
    <3>. QED  BY <3>1, <3>2
  <2>2. \A s \in FieldSlots : s[1] \notin alive' => slot'[s] = Nil
    BY <1>8, <1>11 DEF SweepInv, SweepParts, Tidy
  <2>3. \A w \in WIds \cap alive' : rc'[w] # 0
    BY <1>8, <1>10 DEF SweepInv, SweepParts, Tidy, Objs
  <2>4. \A s \in KeptSlots : slot'[s] \in Ids => <<s[1], slot'[s]>> \in Keeps
    BY <1>11, KeptFrame DEF SweepInv, SweepParts
  <2>. QED  BY <2>1, <2>2, <2>3, <2>4 DEF Tidy
<1>13. phase \notin {"mark", "append", "release", "unmark", "closed"}
  BY <1>1 DEF SweepInv, MarkInv, MarkParts, Phased
<1>. QED  BY <1>5, <1>10, <1>11, <1>12, <1>13, SweepFrame DEF HookEnter, Objs

LEMMA HookReturnKeepsSweep ==
  ASSUME SweepInv, HookReturn
  PROVE  SweepParts'
<1>. DEFINE n == Len(work)
            p == Top.o
<1>1. work \in Seq(FrameSet) /\ work # <<>> /\ Top.st = "hook" /\ Top = work[n]
  BY DEF HookReturn, InHook, SweepInv, MarkInv, IInv, TypeOK, ObjectsOK, FrameSet, Top
<1>2. Top \in FrameSet /\ n \in DOMAIN work /\ p \in Ids /\ p \in Objs /\ work[n].o = p
  BY <1>1, PopFacts DEF FrameSet, Objs
<1>3. slot[Pin(p)] = p /\ Pin(p) \in Slots
  BY <1>1, <1>2, SlotFacts DEF SweepInv, MarkInv, IInv, WorkInv
<1>4. rc[p] # 0 /\ rc \in [Objs -> Nat]
  BY <1>2, <1>3, ZeroMeansUnreferenced DEF SweepInv, MarkInv, IInv, TypeOK, ObjectsOK
<1>5. /\ slot' = [slot EXCEPT ![Pin(p)] = Nil] /\ slot \in [Slots -> Values]
      /\ rc' = Counts(Pin(p), Nil) /\ alive' = alive
  BY DEF HookReturn, SweepInv, MarkInv, IInv, TypeOK, ObjectsOK
<1>6. \A x \in Objs : rc'[x] = rc[x] - Same(p, x)
  BY <1>3, <1>5, HeapAssumption DEF Counts, Same, Objs, SweepInv, MarkInv, IInv, TypeOK, ObjectsOK
<1>7. (\A x \in Objs : x # p => rc'[x] = rc[x]) /\ rc'[p] = rc[p] - 1
  BY <1>2, <1>4, <1>6 DEF Same
<1>8. /\ \A o \in Ids : o # p /\ InWork(o) => InWork(o)'
      /\ rc[p] = 1 => \A o \in Ids : o = p => InWork(o)'
  <2>1. CASE rc[p] = 1
    <3>1. work' = Append(Pop, Frame(p, "destroy")) /\ Frame(p, "destroy") \in FrameSet
      BY <1>2, <2>1 DEF HookReturn, Frame, FrameSet
    <3>2. /\ DOMAIN work' = DOMAIN work
          /\ \A i \in DOMAIN work : work'[i] = IF i = n THEN Frame(p, "destroy") ELSE work[i]
      BY <1>1, <3>1, ReplaceFacts
    <3>. QED  BY <1>2, <3>2 DEF InWork, Frame
  <2>2. CASE rc[p] # 1
    <3>1. work' = Pop
      BY <2>2 DEF HookReturn
    <3>2. DOMAIN work' = DOMAIN work \ {n} /\ \A i \in DOMAIN work' : work'[i] = work[i]
      BY <1>1, <3>1, PopFacts
    <3>. QED  BY <1>2, <2>2, <3>2 DEF InWork
  <2>. QED  BY <2>1, <2>2
<1>9. rc'[p] = 0 => rc[p] = 1
  BY <1>2, <1>4, <1>7
<1>10. \A o \in Ids : rc'[o] = 0 /\ (rc[o] = 0 => InWork(o)) => InWork(o)'
  BY <1>7, <1>8, <1>9 DEF Objs
<1>11. \A s \in RootSlots \cup FieldSlots \cup {T, NX} : slot'[s] = slot[s]
  BY <1>2, <1>5, SlotFacts
<1>12. Tidy'
  <2>1. ASSUME NEW o \in Ids PROVE slot'[Pin(o)] = Nil \/ (slot'[Pin(o)] = o /\ InWork(o)')
    <3>1. CASE o = p
      BY <1>3, <1>5, <3>1
    <3>2. CASE o # p
      BY <1>2, <1>5, <1>8, <3>2, SlotFacts DEF SweepInv, SweepParts, Tidy
    <3>. QED  BY <3>1, <3>2
  <2>2. \A s \in FieldSlots : s[1] \notin alive' => slot'[s] = Nil
    BY <1>5, <1>11 DEF SweepInv, SweepParts, Tidy
  <2>3. \A w \in WIds \cap alive' : rc'[w] # 0
    BY <1>2, <1>5, <1>7, HeapAssumption DEF SweepInv, SweepParts, Tidy, Objs
  <2>4. \A s \in KeptSlots : slot'[s] \in Ids => <<s[1], slot'[s]>> \in Keeps
    BY <1>11, KeptFrame DEF SweepInv, SweepParts
  <2>. QED  BY <2>1, <2>2, <2>3, <2>4 DEF Tidy
<1>13. phase \notin {"mark", "append", "release", "unmark", "closed"}
  BY <1>1 DEF SweepInv, MarkInv, MarkParts, Phased
<1>. QED  BY <1>10, <1>11, <1>12, <1>13, SweepFrame DEF HookReturn

LEMMA DestroyUnlinkKeepsSweep ==
  ASSUME SweepInv, DestroyUnlink
  PROVE  SweepParts'
<1>. DEFINE o == Top.o
<1>1. work \in Seq(FrameSet) /\ work # <<>> /\ Top.st = "destroy" /\ o \notin mark /\ chain[o] # "none"
  BY DEF DestroyUnlink, Destroying, SweepInv, MarkInv, IInv, TypeOK, ObjectsOK, FrameSet
<1>2. o \in Ids /\ Len(work) \in DOMAIN work /\ work[Len(work)].o = o /\ work[Len(work)].st # "hook"
  BY <1>1, PopFacts DEF FrameSet, Top
<1>3. phase \notin {"mark", "append", "release", "unmark", "closed"}
  BY <1>1 DEF SweepInv, MarkInv, MarkParts, Phased
<1>4. chain[o] = "gc"
  BY <1>1, <1>2, <1>3 DEF SweepInv, MarkInv, IInv, TypeOK, ChainsOK, Chained
<1>5. RemoveFromChain("gc", o) /\ UNCHANGED <<alive, rc, slot, work, gcVars>>
  BY DEF DestroyUnlink
<1>6. Connected'
  BY <1>2, <1>4, <1>5, RemoveFromChainConnected DEF SweepInv, SweepParts, MarkInv, IInv, TypeOK
<1>7. \A x \in Ids : InWork(x)' = InWork(x)
  BY <1>5 DEF InWork
<1>8. Tidy'
  BY <1>5, <1>7 DEF SweepInv, SweepParts, Tidy
<1>9. slot[T] # o /\ slot[NX] # o
  <2>1. rc[o] = 0
    BY <1>2 DEF SweepInv, MarkInv, IInv, WorkInv
  <2>. QED  BY <1>2, <2>1, ZeroMeansUnreferenced, SlotFacts DEF SweepInv, MarkInv, IInv, TypeOK, Objs
<1>10. ASSUME NEW x, x # o, Passed(x)
       PROVE  \A y \in Ids : chain'[y] = "gc" /\ y \notin After(nxt', x) => Emptied(y)'
  <2>1. nxt' = NextWithout(o) /\ chain' = [chain EXCEPT ![o] = "none"]
    BY <1>5 DEF RemoveFromChain
  <2>2. After(nxt, x) \subseteq {o} \cup After(nxt', x)
    BY <1>2, <1>10, <2>1, AfterWithout DEF SweepInv, MarkInv, IInv, TypeOK
  <2>3. ASSUME NEW y \in Ids, chain'[y] = "gc", y \notin After(nxt', x) PROVE Emptied(y)'
    <3>1. y # o /\ chain[y] = "gc"
      BY <1>2, <2>1, <2>3 DEF SweepInv, MarkInv, IInv, TypeOK, ChainsOK
    <3>2. Emptied(y)
      BY <1>10, <2>2, <2>3, <3>1 DEF Passed
    <3>. QED  BY <1>5, <1>7, <3>2 DEF Emptied
  <2>. QED  BY <2>3
<1>11. Swept'
  <2>1. UNCHANGED <<phase, garbage, mark, slot>>
    BY <1>5 DEF gcVars
  <2>2. phase = "finalize" => Passed(slot[T])'
    BY <1>9, <1>10, <2>1 DEF SweepInv, SweepParts, Swept, Passed
  <2>3. phase = "advance" => Passed(slot[NX])'
    BY <1>9, <1>10, <2>1 DEF SweepInv, SweepParts, Swept, Passed
  <2>. QED  BY <1>3, <2>1, <2>2, <2>3 DEF SweepInv, SweepParts, Swept
<1>12. Resurrecting'
  BY <1>3, <1>5 DEF Resurrecting, gcVars
<1>. QED  BY <1>6, <1>8, <1>11, <1>12 DEF SweepParts

LEMMA DestroyFreeKeepsSweep ==
  ASSUME SweepInv, DestroyFree
  PROVE  SweepParts'
<1>. DEFINE p == Top.o
            n == Len(work)
<1>1. work \in Seq(FrameSet) /\ work # <<>> /\ Top = work[n] /\ work' = Pop /\ Top.st = "destroy"
  BY DEF DestroyFree, Destroying, SweepInv, MarkInv, IInv, TypeOK, ObjectsOK, FrameSet, Top
<1>2. /\ DOMAIN work' = DOMAIN work \ {n} /\ n \in DOMAIN work
      /\ \A i \in DOMAIN work' : work'[i] = work[i]
      /\ p \in Ids /\ work[n].o = p /\ work[n].st # "hook"
  BY <1>1, PopFacts DEF FrameSet
<1>3. \A x \in Ids : x # p /\ InWork(x) => InWork(x)'
  BY <1>2 DEF InWork
<1>4. /\ alive' = alive \ {p} /\ UNCHANGED <<rc, slot, chainVars, gcVars>>
      /\ chain[p] = "none" /\ \A s \in FieldSlots : s[1] = p => slot[s] = Nil
  BY DEF DestroyFree, FieldsOf
<1>5. slot[Pin(p)] = Nil
  <2>1. rc[p] = 0
    BY <1>2 DEF SweepInv, MarkInv, IInv, WorkInv
  <2>2. slot[Pin(p)] # p
    BY <1>2, <2>1, ZeroMeansUnreferenced, SlotFacts DEF SweepInv, MarkInv, IInv, TypeOK, Objs
  <2>. QED  BY <1>2, <2>2 DEF SweepInv, SweepParts, Tidy
<1>6. Tidy'
  <2>1. ASSUME NEW o \in Ids PROVE slot'[Pin(o)] = Nil \/ (slot'[Pin(o)] = o /\ InWork(o)')
    <3>1. CASE o = p
      BY <1>4, <1>5, <3>1
    <3>2. CASE o # p
      BY <1>3, <1>4, <3>2 DEF SweepInv, SweepParts, Tidy
    <3>. QED  BY <3>1, <3>2
  <2>2. \A s \in FieldSlots : s[1] \notin alive' => slot'[s] = Nil
    BY <1>4 DEF SweepInv, SweepParts, Tidy
  <2>3. \A w \in WIds \cap alive' : rc'[w] # 0
    BY <1>4 DEF SweepInv, SweepParts, Tidy
  <2>4. \A s \in KeptSlots : slot'[s] \in Ids => <<s[1], slot'[s]>> \in Keeps
    BY <1>4, KeptFrame DEF SweepInv, SweepParts
  <2>. QED  BY <2>1, <2>2, <2>3, <2>4 DEF Tidy
<1>7. phase \notin {"mark", "append", "release", "unmark", "closed"}
  BY <1>1 DEF SweepInv, MarkInv, MarkParts, Phased
<1>8. \A o \in Ids : chain[o] # "none" /\ rc'[o] = 0 /\ (rc[o] = 0 => InWork(o)) => InWork(o)'
  BY <1>3, <1>4
<1>. QED  BY <1>4, <1>6, <1>7, <1>8, SweepFrame

\* Tidy depends on references and releases only.
LEMMA TidyFrame ==
  ASSUME Tidy, UNCHANGED <<alive, rc, slot, work>>
  PROVE  Tidy'
  BY DEF Tidy, InWork

LEMMA StartKeepsSweep ==
  ASSUME SweepInv, StartCollect \/ StartClose
  PROVE  SweepParts'
<1>1. phase' \in {"mark", "close"} /\ UNCHANGED <<alive, rc, slot, work, chainVars>>
  BY DEF StartCollect, StartClose
<1>. QED  BY <1>1, TidyFrame, ConnectedFrame, RunKeepsSweep DEF SweepInv, SweepParts

LEMMA MarkVisitKeepsSweep ==
  ASSUME SweepInv, MarkVisit
  PROVE  SweepParts'
<1>1. phase' = "mark" /\ UNCHANGED <<alive, rc, slot, work, chainVars>>
  BY DEF MarkVisit
<1>. QED  BY <1>1, TidyFrame, ConnectedFrame, RunKeepsSweep DEF SweepInv, SweepParts

LEMMA MarkEndKeepsSweep ==
  ASSUME SweepInv, MarkEnd
  PROVE  SweepParts'
<1>1. phase' = "mark" /\ UNCHANGED <<alive, rc, slot, work>>
  BY DEF MarkEnd
<1>2. PICK o \in Grey : MoveToTChain(o)
  BY DEF MarkEnd
<1>3. o \in Ids /\ chain[o] = "gc"
  BY <1>2 DEF Grey, SweepInv, MarkInv, IInv, TypeOK, CollectorOK
<1>4. Connected'
  BY <1>2, <1>3, MoveToTChainConnected DEF SweepInv, SweepParts, MarkInv, IInv, TypeOK
<1>. QED  BY <1>1, <1>4, TidyFrame, RunKeepsSweep DEF SweepInv, SweepParts

\* Giving a local of the collector an object changes no weak reference's count.
LEMMA LocalKeepsTidy ==
  ASSUME SweepInv, NEW s \in {T, NX}, slot[s] = Nil, NEW v \in Ids \cup {Nil},
         slot' = [slot EXCEPT ![s] = v], rc' = Counts(s, v), UNCHANGED <<alive, work>>
  PROVE  /\ Tidy' /\ \A o \in Objs : rc'[o] = 0 => rc[o] = 0
         /\ \A x \in RootSlots \cup FieldSlots : slot'[x] = slot[x]
         /\ \A o \in Ids : Emptied(o) => Emptied(o)'
<1>1. s \in Slots /\ s \notin RootSlots \cup FieldSlots /\ \A o \in Ids : Pin(o) # s /\ Pin(o) \in Slots
  BY SlotFacts
<1>2. slot \in [Slots -> Values] /\ rc \in [Objs -> Nat]
  BY DEF SweepInv, MarkInv, IInv, TypeOK, ObjectsOK
<1>3. \A x \in RootSlots \cup FieldSlots : slot'[x] = slot[x]
  BY <1>1, <1>2, SlotFacts
<1>4. Nil \notin Objs /\ ObjectsOK
  BY HeapAssumption DEF Objs, SweepInv, MarkInv, IInv, TypeOK
<1>5. \A o \in Objs : rc'[o] = 0 => rc[o] = 0
  BY <1>1, <1>4, FallsToZero
<1>6. \A o \in Ids : InWork(o)' = InWork(o) /\ slot'[Pin(o)] = slot[Pin(o)]
  BY <1>1, <1>2 DEF InWork
<1>7. \A w \in WIds \cap alive' : rc'[w] # 0
  BY <1>5 DEF SweepInv, SweepParts, Tidy, Objs
<1>8. Tidy'
  <2>1. \A x \in KeptSlots : slot'[x] \in Ids => <<x[1], slot'[x]>> \in Keeps
    BY <1>3, KeptFrame DEF SweepInv, SweepParts
  <2>. QED  BY <1>3, <1>6, <1>7, <2>1 DEF SweepInv, SweepParts, Tidy
<1>9. \A o \in Ids : Emptied(o) => Emptied(o)'
  BY <1>3, <1>5, <1>6 DEF Emptied, Objs
<1>. QED  BY <1>3, <1>5, <1>8, <1>9

LEMMA BeginSweepKeepsSweep ==
  ASSUME SweepInv, StartSweep \/ CloseSweep
  PROVE  SweepParts'
<1>. DEFINE h == head["gc"]
<1>1. /\ slot' = [slot EXCEPT ![T] = h] /\ rc' = Counts(T, h)
      /\ phase' = "finalize" \/ (phase' \in {"closed", "unmark"} /\ h = Nil)
      /\ garbage' = {o \in Ids : chain[o] = "gc"}
      /\ UNCHANGED <<alive, mark, work, chainVars>>
  BY DEF StartSweep, CloseSweep, BeginSweep
<1>2. slot[T] = Nil /\ \A o \in mark : chain[o] # "gc"
  <2>1. CASE StartSweep
    BY <2>1, MarkDoneFacts DEF StartSweep, SweepInv
  <2>2. CASE CloseSweep
    BY <2>2 DEF CloseSweep, Sweeping, SweepInv, MarkInv, MarkParts, Phased, Marked
  <2>. QED  BY <2>1, <2>2
<1>3. h \in Ids \cup {Nil} /\ nxt \in Links
  BY DEF SweepInv, MarkInv, IInv, TypeOK, ChainsOK, Links
<1>4. Tidy' /\ slot'[T] = h
  <2>1. T \in Slots /\ slot \in [Slots -> Values]
    BY SlotFacts DEF SweepInv, MarkInv, IInv, TypeOK, ObjectsOK
  <2>. QED  BY <1>1, <1>2, <1>3, <2>1, LocalKeepsTidy
<1>5. Connected'
  BY <1>1, ConnectedFrame DEF SweepInv, SweepParts
<1>6. \A o \in Ids : chain[o] = "gc" => o \in After(nxt, h)
  BY DEF SweepInv, SweepParts, Connected
<1>7. Swept'
  <2>1. UNCHANGED <<chain, nxt>>
    BY <1>1 DEF chainVars
  <2>2. Passed(slot[T])'
    BY <1>4, <1>6, <2>1 DEF Passed
  <2>3. garbage' \cap mark' = {}
    BY <1>1, <1>2
  <2>4. h = Nil => \A o \in Ids : chain'[o] # "gc"
    BY <1>3, <1>6, <2>1, AfterNil
  <2>5. phase' \notin {"release", "advance"}
    BY <1>1
  <2>. QED  BY <1>1, <2>2, <2>3, <2>4, <2>5 DEF Swept
<1>8. Resurrecting'
  BY <1>1 DEF Resurrecting
<1>. QED  BY <1>4, <1>5, <1>7, <1>8 DEF SweepParts

LEMMA TakeNextKeepsSweep ==
  ASSUME SweepInv, TakeNext
  PROVE  SweepParts'
<1>. DEFINE t == slot[T]
            n == nxt[t]
<1>1. /\ phase = "finalize" /\ phase' = "release" /\ Unfinalized(t) = {}
      /\ slot' = [slot EXCEPT ![NX] = n] /\ rc' = Counts(NX, n)
      /\ UNCHANGED <<alive, mark, work, chainVars, garbage>>
  BY DEF TakeNext, Sweeping
<1>2. t \in Ids /\ slot[NX] = Nil /\ nxt \in Links /\ n \in Ids \cup {Nil}
  BY <1>1, SweptLocal DEF SweepInv, MarkInv, MarkParts, Phased, IInv, TypeOK, ChainsOK, Links
<1>3. slot \in [Slots -> Values] /\ T \in Slots /\ NX \in Slots /\ T # NX
  BY SlotFacts DEF SweepInv, MarkInv, IInv, TypeOK, ObjectsOK
<1>4. slot'[T] = t /\ slot'[NX] = n
  BY <1>1, <1>3
<1>5. /\ Tidy' /\ \A x \in RootSlots \cup FieldSlots : slot'[x] = slot[x]
      /\ \A o \in Ids : Emptied(o) => Emptied(o)'
  BY <1>1, <1>2, LocalKeepsTidy
<1>6. Connected'
  BY <1>1, ConnectedFrame DEF SweepInv, SweepParts
<1>7. \A s \in FieldSlots \ KeptSlots : s[1] = t => slot'[s] = Nil
  BY <1>1, <1>5 DEF Unfinalized, FieldsOf
<1>8. ASSUME NEW o \in Ids, chain[o] = "gc", o \notin After(nxt, n), o # t PROVE Emptied(o)'
  <2>1. o \notin After(nxt, t)
    BY <1>2, <1>8, AfterStep
  <2>2. Emptied(o)
    BY <1>1, <1>8, <2>1 DEF SweepInv, SweepParts, Swept, Passed
  <2>. QED  BY <1>5, <2>2
<1>9. Swept'
  <2>1. UNCHANGED <<chain, nxt, mark, garbage>>
    BY <1>1 DEF chainVars
  <2>2. garbage \cap mark = {}
    BY <1>1 DEF SweepInv, SweepParts, Swept, SweepPhases
  <2>. QED  BY <1>1, <1>4, <1>7, <1>8, <2>1, <2>2 DEF Swept
<1>10. Resurrecting'
  BY <1>1 DEF Resurrecting
<1>. QED  BY <1>5, <1>6, <1>9, <1>10 DEF SweepParts

LEMMA ReleaseTKeepsSweep ==
  ASSUME SweepInv, ReleaseT
  PROVE  SweepParts'
<1>. DEFINE t == slot[T]
<1>1. /\ phase = "release" /\ phase' = "advance" /\ work = <<>>
      /\ AssignIn(T, Nil, alive, wobj, weakref)
      /\ UNCHANGED <<chainVars, mark, garbage>>
  BY DEF ReleaseT, Sweeping, Assign
<1>2. t \in Ids /\ t \notin mark
  BY <1>1, SweptLocal DEF SweepInv
<1>3. slot \in [Slots -> Values] /\ T \in Slots /\ NX \in Slots /\ T # NX /\ T \notin RootSlots \cup FieldSlots
  BY SlotFacts DEF SweepInv, MarkInv, IInv, TypeOK, ObjectsOK
<1>4. slot' = [slot EXCEPT ![T] = Nil] /\ slot'[NX] = slot[NX]
      /\ \A s \in RootSlots \cup FieldSlots : slot'[s] = slot[s]
  BY <1>1, <1>3, SlotFacts DEF AssignIn
<1>5. Connected'
  BY <1>1, ConnectedFrame DEF SweepInv, SweepParts
<1>6. Tidy'
  <2>1. \A o \in Ids : InWork(o) => InWork(o)'
    BY <1>1, <1>3, AssignWork DEF SweepInv, MarkInv, IInv, TypeOK
  <2>2. \A o \in Ids : slot'[Pin(o)] = slot[Pin(o)]
    BY <1>3, <1>4, SlotFacts
  <2>3. \A w \in WIds \cap alive' : rc'[w] # 0
    BY <1>1, <1>3, WeakKept DEF SweepInv, SweepParts
  <2>4. \A s \in FieldSlots : s[1] \in Ids
    BY DEF FieldSlots
  <2>5. alive' \cap Ids = alive \cap Ids
    BY <1>1, HeapAssumption DEF AssignIn
  <2>6. \A s \in FieldSlots : s[1] \notin alive' => slot'[s] = Nil
    BY <1>4, <2>4, <2>5 DEF SweepInv, SweepParts, Tidy
  <2>7. \A s \in KeptSlots : slot'[s] \in Ids => <<s[1], slot'[s]>> \in Keeps
    BY <1>4, KeptFrame DEF SweepInv, SweepParts
  <2>. QED  BY <2>1, <2>2, <2>3, <2>6, <2>7 DEF SweepInv, SweepParts, Tidy
<1>7. ASSUME NEW o \in Ids, chain[o] = "gc", o \notin After(nxt, slot[NX]) PROVE Emptied(o)'
  <2>1. \A x \in mark : chain[x] = "t"
    BY <1>1 DEF SweepInv, MarkInv, MarkParts, Marked
  <2>2. CASE o # t
    <3>1. Emptied(o) /\ o \notin mark
      BY <1>1, <1>7, <2>1, <2>2 DEF SweepInv, SweepParts, Swept
    <3>. QED  BY <1>1, <1>3, <3>1, EmptiedKept DEF SweepInv
  <2>3. CASE o = t
    <3>1. \A s \in FieldSlots \ KeptSlots : s[1] = o => slot'[s] = Nil
      BY <1>1, <1>4, <2>3 DEF SweepInv, SweepParts, Swept
    <3>2. rc'[o] = 0 => InWork(o)'
      BY <1>1, <1>2, <1>3, <2>3, AssignWork DEF SweepInv, MarkInv, IInv, TypeOK
    <3>. QED  BY <3>1, <3>2 DEF Emptied
  <2>. QED  BY <2>2, <2>3
<1>8. Swept'
  <2>1. UNCHANGED <<chain, nxt, mark, garbage>>
    BY <1>1 DEF chainVars
  <2>2. Passed(slot[NX])'
    BY <1>4, <1>7, <2>1 DEF Passed
  <2>3. garbage \cap mark = {}
    BY <1>1 DEF SweepInv, SweepParts, Swept, SweepPhases
  <2>. QED  BY <1>1, <2>1, <2>2, <2>3 DEF Swept
<1>9. Resurrecting'
  BY <1>1 DEF Resurrecting
<1>. QED  BY <1>5, <1>6, <1>8, <1>9 DEF SweepParts

\* At the end of a sweep nothing is left in the chain that was swept: of what is
\* left there is one that no other keeps; what is left has no other fields, the
\* program and the marked objects do not refer to it, and so its count is zero
\* and it has been released.
LEMMA NothingLeft ==
  ASSUME OuterRoots = {}, CarefulHost, SweepInv, phase = "advance", work = <<>>, slot[NX] = Nil,
         NEW o \in Ids, chain[o] = "gc"
  PROVE  FALSE
<1>. DEFINE G == {x \in Ids : chain[x] = "gc"}
<1>1. nxt \in Links
  BY DEF SweepInv, MarkInv, IInv, TypeOK, ChainsOK, Links
<1>2. \A x \in Ids : chain[x] = "gc" => Emptied(x)
  BY <1>1, AfterNil DEF SweepInv, SweepParts, Swept, Passed
<1>3. \A x \in Ids : ~InWork(x) /\ ~Destroyed(x)
  BY NoWork
<1>4. PICK p \in G : \A x \in G : <<x, p>> \notin Keeps
  <2>1. G \in SUBSET Ids /\ G # {}
    OBVIOUS
  <2>. HIDE DEF G
  <2>. QED  BY <2>1, KeepsAssumption
<1>5. p \in Ids /\ chain[p] = "gc" /\ rc[p] # 0
  BY <1>2, <1>3, <1>4 DEF Emptied
<1>6. PICK s \in Slots : slot[s] = p
  BY <1>5, ZeroMeansUnreferenced DEF SweepInv, MarkInv, IInv, TypeOK, Objs
<1>7. /\ \A x \in mark : chain[x] = "t"
      /\ closing => mark = {}
      /\ p \notin mark /\ p # Nil
  BY <1>5, HeapAssumption DEF SweepInv, MarkInv, MarkParts, Marked
<1>8. CASE s \in RootSlots
  <2>1. s \in VisitedSlots
    BY <1>8, CarefulRoots DEF OuterSlots
  <2>2. CASE closing
    <3>1. s \in dropped
      BY <1>8, <2>2 DEF SweepInv, MarkInv, MarkParts, Sweep
    <3>. QED  BY <1>6, <1>7, <3>1 DEF SweepInv, MarkInv, MarkParts, Sweep
  <2>3. CASE ~closing
    BY <1>5, <1>6, <1>7, <2>1, <2>3 DEF SweepInv, MarkInv, MarkParts, Sweep, SweepPhases
  <2>. QED  BY <2>2, <2>3
<1>9. CASE s \in FieldSlots
  <2>1. s[1] \in Ids
    BY <1>9 DEF FieldSlots
  <2>2. s[1] \in alive
    BY <1>6, <1>7, <1>9 DEF SweepInv, SweepParts, Tidy
  <2>3. chain[s[1]] # "none"
    BY <1>3, <2>1, <2>2 DEF SweepInv, MarkInv, MarkParts, Listed
  <2>4. chain[s[1]] # "gc"
    <3>. SUFFICES ASSUME chain[s[1]] = "gc" PROVE FALSE
      OBVIOUS
    <3>1. s \in KeptSlots
      BY <1>2, <1>6, <1>7, <1>9, <2>1 DEF Emptied
    <3>2. <<s[1], p>> \in Keeps
      BY <1>5, <1>6, <3>1 DEF SweepInv, SweepParts, Tidy
    <3>. QED  BY <1>4, <2>1, <3>2
  <2>5. s[1] \in mark
    BY <2>1, <2>3, <2>4 DEF SweepInv, MarkInv, IInv, TypeOK, ChainsOK, Chained
  <2>. QED  BY <1>5, <1>6, <1>7, <1>9, <2>5 DEF SweepInv, MarkInv, MarkParts, Sweep, SweepPhases
<1>10. CASE s \in {T, NX}
  BY <1>6, <1>7, <1>10 DEF SweepInv, MarkInv, IInv, PhaseInv
<1>11. CASE s \in PinSlots
  <2>1. PICK q \in Ids : s = Pin(q)
    BY <1>11 DEF PinSlots, Pin
  <2>. QED  BY <1>3, <1>6, <1>7, <2>1 DEF SweepInv, SweepParts, Tidy
<1>. QED  BY <1>6, <1>8, <1>9, <1>10, <1>11 DEF Slots

LEMMA AdvanceKeepsSweep ==
  ASSUME OuterRoots = {}, CarefulHost, SweepInv, Advance
  PROVE  SweepParts'
<1>1. /\ phase = "advance" /\ work = <<>>
      /\ slot' = [slot EXCEPT ![T] = slot[NX], ![NX] = Nil]
      /\ phase' = IF slot[NX] # Nil THEN "finalize" ELSE IF closing THEN "closed" ELSE "unmark"
      /\ UNCHANGED <<alive, rc, mark, work, chainVars, garbage>>
  BY DEF Advance, Sweeping
<1>2. slot \in [Slots -> Values] /\ T \in Slots /\ NX \in Slots /\ T # NX
      /\ T \notin RootSlots \cup FieldSlots /\ NX \notin RootSlots \cup FieldSlots
  BY SlotFacts DEF SweepInv, MarkInv, IInv, TypeOK, ObjectsOK
<1>3. /\ slot'[T] = slot[NX] /\ \A s \in RootSlots \cup FieldSlots : slot'[s] = slot[s]
      /\ \A o \in Ids : slot'[Pin(o)] = slot[Pin(o)]
  BY <1>1, <1>2, SlotFacts
<1>4. \A o \in Ids : InWork(o)' = InWork(o)
  BY <1>1 DEF InWork
<1>5. Connected'
  BY <1>1, ConnectedFrame DEF SweepInv, SweepParts
<1>6. Tidy'
  <2>1. UNCHANGED <<alive, rc>>
    BY <1>1
  <2>2. \A x \in KeptSlots : slot'[x] \in Ids => <<x[1], slot'[x]>> \in Keeps
    BY <1>3, KeptFrame DEF SweepInv, SweepParts
  <2>. QED  BY <1>3, <1>4, <2>1, <2>2 DEF SweepInv, SweepParts, Tidy
<1>7. \A o \in Ids : Emptied(o) => Emptied(o)'
  <2>1. rc' = rc
    BY <1>1
  <2>. QED  BY <1>3, <1>4, <2>1 DEF Emptied
<1>8. Swept'
  <2>1. UNCHANGED <<chain, nxt, mark, garbage>>
    BY <1>1 DEF chainVars
  <2>2. Passed(slot[NX]) /\ garbage \cap mark = {}
    BY <1>1 DEF SweepInv, SweepParts, Swept, SweepPhases
  <2>3. Passed(slot[T])'
    BY <1>3, <1>7, <2>1, <2>2 DEF Passed
  <2>4. slot[NX] = Nil => \A o \in Ids : chain'[o] # "gc"
    BY <1>1, <2>1, NothingLeft
  <2>5. phase' \in {"finalize", "closed", "unmark"} /\ (phase' # "finalize" => slot[NX] = Nil)
    BY <1>1
  <2>. QED  BY <2>1, <2>2, <2>3, <2>4, <2>5 DEF Swept
<1>9. Resurrecting'
  BY <1>1 DEF Resurrecting
<1>. QED  BY <1>5, <1>6, <1>8, <1>9 DEF SweepParts

LEMMA EndSweepKeepsSweep ==
  ASSUME SweepInv, EndSweep
  PROVE  SweepParts'
<1>1. /\ phase = "unmark" /\ phase' = "run"
      /\ chain' = [o \in Ids |-> IF chain[o] = "t" THEN "gc" ELSE chain[o]]
      /\ head' = [gc |-> head["t"], t |-> Nil]
      /\ UNCHANGED <<alive, rc, slot, work, nxt>>
  BY DEF EndSweep, Sweeping
<1>2. \A o \in Ids : chain[o] # "gc" /\ chain[o] \in {"none", "gc", "t"}
  BY <1>1 DEF SweepInv, SweepParts, Swept, MarkInv, IInv, TypeOK, ChainsOK
<1>3. ASSUME NEW o \in Ids, chain'[o] # "none" PROVE o \in After(nxt', head'[chain'[o]])
  <2>1. chain[o] = "t" /\ chain'[o] = "gc" /\ head'["gc"] = head["t"]
    BY <1>1, <1>2, <1>3
  <2>2. o \in After(nxt, head["t"])
    BY <2>1 DEF SweepInv, SweepParts, Connected
  <2>. QED  BY <1>1, <2>1, <2>2
<1>4. Connected'
  BY <1>3 DEF Connected
<1>. QED  BY <1>1, <1>4, TidyFrame, RunKeepsSweep DEF SweepInv, SweepParts

LEMMA StartResurrectKeepsSweep ==
  ASSUME SweepInv, NEW arr \in Ids, NEW s \in RootSlots, StartResurrect(arr, s)
  PROVE  SweepParts'
<1>1. /\ MarkDone /\ arr \notin alive /\ s \in VisitedSlots /\ phase' = "append"
      /\ AddToChain("t", arr) /\ AssignIn(s, arr, alive \cup {arr}, wobj, weakref)
      /\ cur' = head["gc"] /\ garbage' = {o \in Ids : chain[o] = "gc"}
      /\ UNCHANGED mark
  BY DEF StartResurrect
<1>2. chain[arr] = "none"
  BY <1>1, FreshFacts DEF Objs, SweepInv, MarkInv
<1>3. /\ Connected'
      /\ \A x \in Ids \cup {Nil} : After(nxt, x) \subseteq After(nxt', x)
  BY <1>1, <1>2, AddToChainConnected DEF SweepInv, SweepParts, MarkInv, IInv, TypeOK
<1>4. Tidy'
  <2>1. s \notin FieldSlots
    BY SlotsDistinct
  <2>2. s \notin KeptSlots
    BY <2>1, KeepsAssumption DEF FieldSlots
  <2>3. AssignIn(s, arr, alive \cup {arr}, wobj, weakref)
    BY <1>1
  <2>. QED  BY <2>1, <2>2, <2>3, WriteKeepsTidy DEF SweepInv, SweepParts
<1>5. Swept'
  BY <1>1 DEF Swept, SweepPhases
<1>6. Resurrecting'
  <2>1. arr \in VisitedHeld'
    <3>1. slot'[s] = arr
      BY <1>1, SlotFacts DEF AssignIn, SweepInv, MarkInv, IInv, TypeOK, ObjectsOK
    <3>. QED  BY <1>1, <3>1 DEF VisitedHeld, HeldBy
  <2>2. ASSUME NEW a \in Ids, chain'[a] = "t", a \notin mark' PROVE a = arr
    BY <1>1, <2>2, MarkDoneFacts DEF AddToChain, SweepInv, MarkInv, IInv, TypeOK, ChainsOK, Chained
  <2>3. ASSUME NEW o \in garbage' PROVE o \in After(nxt', cur')
    <3>1. o \in After(nxt, head["gc"]) /\ head["gc"] \in Ids \cup {Nil}
      BY <1>1, <2>3 DEF SweepInv, SweepParts, Connected, MarkInv, IInv, TypeOK, ChainsOK
    <3>. QED  BY <1>1, <1>3, <3>1
  <2>. QED  BY <2>1, <2>2, <2>3 DEF Resurrecting
<1>. QED  BY <1>3, <1>4, <1>5, <1>6 DEF SweepParts

LEMMA ResurrectNextKeepsSweep ==
  ASSUME SweepInv, ResurrectNext
  PROVE  SweepParts'
<1>1. /\ phase = "append" /\ phase' = "append" /\ cur \in Ids /\ cur' = nxt[cur]
      /\ UNCHANGED <<mark, chain, nxt, garbage>>
  BY ResurrectFacts DEF SweepInv
<1>2. UNCHANGED chainVars
  BY DEF ResurrectNext
<1>3. Connected'
  BY <1>2, ConnectedFrame DEF SweepInv, SweepParts
<1>4. Tidy'
  <2>1. CASE cur \in Hidden
    BY <2>1, TidyFrame DEF ResurrectNext, SweepInv, SweepParts
  <2>2. CASE cur \notin Hidden
    <3>1. PICK arr \in Ids, f \in Fields :
            chain[arr] = "t" /\ <<arr, f>> \notin KeptSlots /\ Assign(<<arr, f>>, cur)
      BY <2>2 DEF ResurrectNext
    <3>. DEFINE s == <<arr, f>>
    <3>2. s \in FieldSlots /\ s[1] = arr /\ s \notin KeptSlots
      BY <3>1 DEF FieldSlots
    <3>3. arr \in alive
      BY <3>1 DEF SweepInv, MarkInv, IInv, Chained
    <3>4. AssignIn(s, cur, alive, wobj, weakref)
      BY <3>1 DEF Assign
    <3>. HIDE DEF s
    <3>. QED  BY <3>2, <3>3, <3>4, WriteKeepsTidy DEF SweepInv, SweepParts
  <2>. QED  BY <2>1, <2>2
<1>5. Swept'
  BY <1>1 DEF Swept, SweepPhases
<1>6. Resurrecting'
  <2>1. VisitedHeld' = VisitedHeld
    <3>1. \A r \in VisitedSlots : slot'[r] = slot[r]
      BY ResurrectFacts, SlotFacts, SlotsDistinct DEF SweepInv, VisitedSlots
    <3>. QED  BY <3>1 DEF VisitedHeld, HeldBy
  <2>2. \A a \in Ids : chain[a] = "t" /\ a \notin mark => a \in VisitedHeld
    BY <1>1 DEF SweepInv, SweepParts, Resurrecting
  <2>3. ASSUME NEW o \in garbage \ Hidden, o \notin After(nxt, cur')
        PROVE  \E x \in FieldSlots : x[1] \in VisitedHeld /\ slot'[x] = o
    <3>1. CASE o = cur
      <4>1. PICK x \in FieldSlots :
              slot'[x] = cur /\ chain[x[1]] = "t" /\ x[1] \notin mark /\ x[1] \in Ids
        BY <2>3, <3>1, ResurrectFacts DEF SweepInv
      <4>. QED  BY <2>2, <3>1, <4>1
    <3>2. CASE o # cur
      <4>1. o \notin After(nxt, cur)
        <5>1. nxt \in Links
          BY DEF Links, SweepInv, MarkInv, IInv, TypeOK, ChainsOK
        <5>. QED  BY <1>1, <2>3, <3>2, <5>1, AfterStep
      <4>2. PICK x \in FieldSlots : x[1] \in VisitedHeld /\ slot[x] = o
        BY <1>1, <2>3, <4>1 DEF SweepInv, SweepParts, Resurrecting
      <4>3. o \in Ids /\ o # Nil
        BY <2>3, HeapAssumption DEF SweepInv, MarkInv, IInv, TypeOK, CollectorOK
      <4>. QED  BY <4>2, <4>3, ResurrectFacts DEF SweepInv
    <3>. QED  BY <3>1, <3>2
  <2>. QED  BY <1>1, <2>1, <2>2, <2>3 DEF Resurrecting
<1>. QED  BY <1>3, <1>4, <1>5, <1>6 DEF SweepParts

LEMMA EndResurrectKeepsSweep ==
  ASSUME SweepInv, EndResurrect
  PROVE  SweepParts'
<1>1. /\ phase' = "run"
      /\ chain' = [o \in Ids |-> IF chain[o] = "t" THEN "gc" ELSE chain[o]]
      /\ head' = [head EXCEPT !["t"] = Nil]
      /\ UNCHANGED <<alive, rc, slot, work>>
  BY DEF EndResurrect
<1>2. PICK last \in Ids : /\ chain[last] = "gc" /\ nxt[last] = Nil
                          /\ nxt' = [nxt EXCEPT ![last] = head["t"]]
  BY DEF EndResurrect, After
<1>3. /\ nxt \in Links /\ head \in [{"gc", "t"} -> Ids \cup {Nil}]
      /\ chain \in [Ids -> {"none", "gc", "t"}]
  BY DEF Links, SweepInv, MarkInv, IInv, TypeOK, ChainsOK
<1>4. nxt' \in Links /\ nxt'[last] = head["t"] /\ head'["gc"] = head["gc"]
  BY <1>1, <1>2, <1>3 DEF Links
<1>5. \A x : After(nxt, x) \subseteq After(nxt', x)
  BY <1>2, <1>3, <1>4, AfterMore, ZenonT(40) DEF Links
<1>6. After(nxt', head["t"]) \subseteq After(nxt', head["gc"])
  <2>1. last \in After(nxt', head["gc"])
    BY <1>2, <1>5 DEF SweepInv, SweepParts, Connected
  <2>2. After(nxt', nxt'[last]) \subseteq After(nxt', last)
    BY <1>2, <1>4, AfterNext
  <2>3. After(nxt', last) \subseteq After(nxt', head["gc"])
    BY <1>4, <2>1, AfterTail
  <2>. QED  BY <1>4, <2>2, <2>3
<1>7. ASSUME NEW o \in Ids, chain'[o] # "none" PROVE o \in After(nxt', head'[chain'[o]])
  <2>1. chain'[o] = "gc" /\ chain[o] \in {"gc", "t"}
    BY <1>1, <1>3, <1>7
  <2>2. o \in After(nxt', head[chain[o]])
    BY <1>5, <2>1 DEF SweepInv, SweepParts, Connected
  <2>. QED  BY <1>4, <1>6, <2>1, <2>2
<1>8. Connected'
  BY <1>7 DEF Connected
<1>. QED  BY <1>1, <1>8, TidyFrame, RunKeepsSweep DEF SweepInv, SweepParts

LEMMA StutterKeepsSweep ==
  ASSUME SweepInv, UNCHANGED vars
  PROVE  SweepParts'
<1>1. Connected' /\ Tidy'
  BY ConnectedFrame, TidyFrame DEF vars, chainVars, SweepInv, SweepParts
<1>2. \A o \in Ids : Emptied(o)' = Emptied(o)
  BY DEF vars, Emptied, InWork
<1>3. UNCHANGED <<chain, nxt, phase, slot, mark, garbage, cur>>
  BY DEF vars
<1>4. Swept'
  BY <1>2, <1>3 DEF SweepInv, SweepParts, Swept, Passed
<1>5. Resurrecting'
  BY <1>3 DEF SweepInv, SweepParts, Resurrecting, VisitedHeld, HeldBy
<1>. QED  BY <1>1, <1>4, <1>5 DEF SweepParts

LEMMA SweepInit == Init => SweepParts
<1>. SUFFICES ASSUME Init PROVE SweepParts
  OBVIOUS
<1>1. Connected
  BY DEF Init, Connected
<1>2. Tidy
  BY SlotFacts, KeepsAssumption, HeapAssumption DEF Init, Tidy, FieldSlots
<1>. QED  BY <1>1, <1>2 DEF Init, SweepParts, Swept, Resurrecting, SweepPhases

\* Every step of the program, of a release and of the collector keeps it.
LEMMA SweepNext ==
  ASSUME OuterRoots = {}, CarefulHost
  PROVE  SweepInv /\ [Next]_vars => SweepInv'
<1>. SUFFICES ASSUME SweepInv, [Next]_vars PROVE SweepParts'
  BY MarkNext DEF SweepInv
<1>1. CASE Mutate
  BY <1>1, NewKeepsSweep, StoreKeepsSweep, DerefKeepsSweep, ClearKeepsSweep, MakeWeakKeepsSweep
     DEF Mutate
<1>2. CASE Releasing
  BY <1>2, HookEnterKeepsSweep, DestroyFieldKeepsSweep, DestroyUnlinkKeepsSweep,
     DestroyFreeKeepsSweep DEF Releasing
<1>3. CASE HookReturn
  BY <1>3, HookReturnKeepsSweep
<1>4. CASE StartCollect \/ StartClose
  BY <1>4, StartKeepsSweep
<1>5. CASE Collect
  BY <1>5, MarkVisitKeepsSweep, MarkEndKeepsSweep, BeginSweepKeepsSweep, FinalizeFieldKeepsSweep,
     TakeNextKeepsSweep, ReleaseTKeepsSweep, AdvanceKeepsSweep, EndSweepKeepsSweep,
     StartResurrectKeepsSweep, ResurrectNextKeepsSweep, EndResurrectKeepsSweep,
     CloseRootKeepsSweep DEF Collect
<1>6. CASE UNCHANGED vars
  BY <1>6, StutterKeepsSweep
<1>. QED  BY <1>1, <1>2, <1>3, <1>4, <1>5, <1>6 DEF Next

\* With a careful host and no open outers the chains never lose an object, and what a sweep has
\* passed is empty and freed as soon as nothing refers to it.
THEOREM SweepInvariance ==
  ASSUME OuterRoots = {}, CarefulHost
  PROVE  Spec => []SweepInv
<1>1. Init => SweepInv
  BY InitInv, MarkInit, SweepInit DEF MarkInv, SweepInv
<1>2. SweepInv /\ [Next]_vars => SweepInv'
  BY SweepNext
<1>. QED  BY <1>1, <1>2, PTL DEF Spec

\* What a collection finds unreachable is freed when the sweep of CollectGarbage
\* is over, or is in the array when ResurrectUnreachable has walked the chain.
\* With an open outer, or a C++ local that holds a reference across a collection,
\* the first part is false: the run heap_outers.
THEOREM GarbageHandledHolds ==
  ASSUME OuterRoots = {}, CarefulHost
  PROVE  Spec => []GarbageHandled
<1>1. SweepInv => GarbageHandled
  <2>. SUFFICES ASSUME SweepInv PROVE GarbageHandled
    OBVIOUS
  <2>1. ASSUME phase = "unmark", NEW o \in garbage \cap alive PROVE FALSE
    <3>1. o \in Ids /\ o \notin mark /\ chain[o] # "gc" /\ work = <<>>
      BY <2>1 DEF SweepInv, SweepParts, Swept, SweepPhases, MarkInv, MarkParts, Phased,
                  IInv, TypeOK, CollectorOK
    <3>2. chain[o] # "none"
      BY <2>1, <3>1, NoWork DEF SweepInv, MarkInv, MarkParts, Listed
    <3>. QED  BY <2>1, <3>1, <3>2 DEF SweepInv, MarkInv, IInv, TypeOK, ChainsOK, Chained
  <2>2. ASSUME phase = "append", cur = Nil, NEW o \in garbage \ Hidden PROVE o \in Reachable
    <3>1. nxt \in Links /\ o \in Ids
      BY DEF Links, SweepInv, MarkInv, IInv, TypeOK, ChainsOK, CollectorOK
    <3>2. PICK s \in FieldSlots : s[1] \in VisitedHeld /\ slot[s] = o
      BY <2>2, <3>1, AfterNil DEF SweepInv, SweepParts, Resurrecting
    <3>3. VisitedHeld \subseteq Reachable /\ Successors(Reachable) \subseteq Reachable
      BY ReachableLeast DEF Closed, VisitedHeld
    <3>. QED  BY <3>1, <3>2, <3>3 DEF Successors
  <2>3. GarbageFreed
    BY <2>1 DEF GarbageFreed
  <2>4. ResurrectedReachable
    BY <2>2 DEF ResurrectedReachable
  <2>. QED  BY <2>3, <2>4 DEF GarbageHandled
<1>. QED  BY <1>1, SweepInvariance, PTL

\* When sq_close is done _gc_chain is empty, as ~SQSharedState asserts, and
\* every object and weak reference has been freed, cycles too.
THEOREM CloseEmptiesHolds ==
  ASSUME OuterRoots = {}, CarefulHost
  PROVE  Spec => []CloseEmpties
<1>1. SweepInv => CloseEmpties
  <2>. SUFFICES ASSUME SweepInv, phase = "closed" PROVE head["gc"] = Nil /\ alive = {}
    BY DEF CloseEmpties
  <2>1. work = <<>> /\ closing /\ slot[T] = Nil /\ slot[NX] = Nil /\ mark = {}
    BY DEF SweepInv, MarkInv, MarkParts, Phased, Marked
  <2>2. \A o \in Ids : o \notin alive
    <3>. SUFFICES ASSUME NEW o \in Ids, o \in alive PROVE FALSE
      OBVIOUS
    <3>1. chain[o] # "gc"
      BY DEF SweepInv, SweepParts, Swept
    <3>2. chain[o] # "none"
      BY <2>1, NoWork DEF SweepInv, MarkInv, MarkParts, Listed
    <3>. QED  BY <2>1, <3>1, <3>2 DEF SweepInv, MarkInv, IInv, TypeOK, ChainsOK, Chained
  <2>3. ASSUME NEW s \in Slots PROVE slot[s] = Nil
    <3>1. CASE s \in RootSlots
      BY <2>1, <3>1 DEF SweepInv, MarkInv, MarkParts, Sweep
    <3>2. CASE s \in FieldSlots
      <4>1. s[1] \in Ids
        BY <3>2 DEF FieldSlots
      <4>. QED  BY <2>2, <3>2, <4>1 DEF SweepInv, SweepParts, Tidy
    <3>3. CASE s \in {T, NX}
      BY <2>1, <3>3
    <3>4. CASE s \in PinSlots
      <4>1. PICK p \in Ids : s = Pin(p)
        BY <3>4 DEF PinSlots, Pin
      <4>. QED  BY <2>1, <4>1, NoWork DEF SweepInv, SweepParts, Tidy
    <3>. QED  BY <2>3, <3>1, <3>2, <3>3, <3>4 DEF Slots
  <2>4. \A w \in WIds : w \notin alive
    <3>. SUFFICES ASSUME NEW w \in WIds, w \in alive PROVE FALSE
      OBVIOUS
    <3>1. rc[w] = 0
      BY <2>3, ZeroMeansUnreferenced, HeapAssumption DEF SweepInv, MarkInv, IInv, TypeOK, Objs
    <3>. QED  BY <3>1 DEF SweepInv, SweepParts, Tidy
  <2>5. alive = {}
    BY <2>2, <2>4 DEF SweepInv, MarkInv, IInv, TypeOK, ObjectsOK, Objs
  <2>6. head["gc"] = Nil
    <3>. SUFFICES ASSUME head["gc"] # Nil PROVE FALSE
      OBVIOUS
    <3>1. head["gc"] \in Ids /\ chain[head["gc"]] = "gc"
      BY DEF SweepInv, MarkInv, IInv, TypeOK, ChainsOK, Linked
    <3>. QED  BY <3>1 DEF SweepInv, SweepParts, Swept
  <2>. QED  BY <2>5, <2>6
<1>. QED  BY <1>1, SweepInvariance, PTL
=============================================================================
