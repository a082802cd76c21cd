---------------------------- MODULE SQHeapProofs ----------------------------
EXTENDS SQHeap, FiniteSetTheorems, TLAPS

(***************************************************************************)
(* Facts about slots.                                                      *)
(***************************************************************************)

\* The kinds of slots do not overlap, and there are finitely many.
LEMMA SlotFacts ==
  /\ RootSlots \subseteq Slots /\ FieldSlots \subseteq Slots
  /\ T \in Slots /\ NX \in Slots /\ T # NX
  /\ \A o \in Ids : Pin(o) \in Slots /\ Pin(o) # T /\ Pin(o) # NX
  /\ \A o \in Ids : Pin(o) \notin RootSlots \cup FieldSlots
  /\ \A o, p \in Ids : Pin(o) = Pin(p) => o = p
  /\ T \notin RootSlots \cup FieldSlots /\ NX \notin RootSlots \cup FieldSlots
  /\ IsFiniteSet(Slots)
<1>1. IsFiniteSet(Slots)
  <2>1. IsFiniteSet(RootSlots)
    BY FS_Product, FS_Singleton, HeapAssumption DEF RootSlots
  <2>2. IsFiniteSet(FieldSlots)
    BY FS_Product, HeapAssumption DEF FieldSlots
  <2>3. IsFiniteSet(PinSlots)
    BY FS_Product, FS_Singleton, HeapAssumption DEF PinSlots
  <2>4. IsFiniteSet({T} \cup {NX}) /\ {T} \cup {NX} = {T, NX}
    BY FS_Singleton, FS_Union
  <2>. QED  BY <2>1, <2>2, <2>3, <2>4, FS_Union DEF Slots
<1>2. T # NX
  BY DEF T, NX
<1>3. \A o, p \in Ids : Pin(o) = Pin(p) => o = p
  BY DEF Pin
<1>4. \A o \in Ids : Pin(o) \in PinSlots
  BY DEF Pin, PinSlots
<1>. QED  BY <1>1, <1>2, <1>3, <1>4, SlotsDistinct DEF Slots

\* The slots of f that refer to o.
At(f, o) == {s \in Slots : f[s] = o}

\* g is f with v written to the slot s.
Written(f, g, s, v) == g = [f EXCEPT ![s] = v]

\* Writing one slot moves one reference: this is the arithmetic of Counts.
LEMMA OneSlotCounts ==
  ASSUME NEW f, f \in [Slots -> Values], NEW s \in Slots, NEW v \in Values, NEW o \in Objs,
         NEW g, Written(f, g, s, v)
  PROVE  /\ Cardinality(At(g, o)) \in Nat
         /\ Cardinality(At(g, o)) = Cardinality(At(f, o)) + Same(v, o) - Same(f[s], o)
<1>. DEFINE R == At(f, o) \ {s}
<1>. USE DEF Written
<1>1. IsFiniteSet(At(f, o)) /\ IsFiniteSet(At(g, o)) /\ IsFiniteSet(R)
  BY SlotFacts, FS_Subset DEF At
<1>2. /\ Cardinality(At(f, o)) \in Nat /\ Cardinality(At(g, o)) \in Nat
      /\ Cardinality(R) \in Nat
  BY <1>1, FS_CardinalityType
<1>3. Cardinality(R) = Cardinality(At(f, o)) - Same(f[s], o)
  <2>1. Cardinality(R) = IF s \in At(f, o) THEN Cardinality(At(f, o)) - 1
                         ELSE Cardinality(At(f, o))
    BY <1>1, FS_RemoveElement
  <2>2. s \in At(f, o) <=> f[s] = o
    BY DEF At
  <2>. QED  BY <2>1, <2>2, <1>2 DEF Same
<1>4. Cardinality(At(g, o)) = Cardinality(R) + Same(v, o)
  <2>1. CASE v = o
    <3>1. At(g, o) = R \cup {s} /\ s \notin R
      BY <2>1 DEF At
    <3>2. Cardinality(R \cup {s}) = Cardinality(R) + 1
      BY <1>1, <3>1, FS_AddElement
    <3>. QED  BY <2>1, <3>1, <3>2 DEF Same
  <2>2. CASE v # o
    <3>1. At(g, o) = R
      BY <2>2 DEF At
    <3>2. Same(v, o) = 0
      BY <2>2 DEF Same
    <3>. HIDE DEF R
    <3>. QED  BY <3>1, <3>2, <1>2
  <2>. QED  BY <2>1, <2>2
<1>5. Same(v, o) \in Nat /\ Same(f[s], o) \in Nat
  BY DEF Same
<1>. QED  BY <1>2, <1>3, <1>4, <1>5

\* Moving a reference from one slot to an empty one moves no count.
LEMMA MoveCounts ==
  ASSUME NEW f, f \in [Slots -> Values], NEW s \in Slots, NEW u \in Slots, s # u,
         f[s] = Nil, NEW o \in Objs,
         NEW g, Written(f, g, s, f[u]), NEW h, Written(g, h, u, Nil)
  PROVE  Cardinality(At(h, o)) = Cardinality(At(f, o))
<1>1. /\ g \in [Slots -> Values] /\ g[u] = f[u] /\ f[u] \in Values /\ Nil \in Values
  BY DEF Values, Written
<1>2. Same(Nil, o) = 0 /\ Same(f[u], o) \in Nat
  BY HeapAssumption DEF Same, Objs
<1>3. /\ Cardinality(At(g, o)) \in Nat
      /\ Cardinality(At(g, o)) = Cardinality(At(f, o)) + Same(f[u], o) - Same(f[s], o)
  BY <1>1, OneSlotCounts
<1>4. Cardinality(At(h, o)) = Cardinality(At(g, o)) + Same(Nil, o) - Same(g[u], o)
  BY <1>1, OneSlotCounts
<1>5. IsFiniteSet(At(f, o))
  BY SlotFacts, FS_Subset DEF At
<1>6. Cardinality(At(f, o)) \in Nat
  BY <1>5, FS_CardinalityType
<1>. QED  BY <1>1, <1>2, <1>3, <1>4, <1>6

\* An object with no references is in no slot, one in a slot has references.
LEMMA ZeroMeansUnreferenced ==
  ASSUME ObjectsOK, RefCountExact, NEW o \in Objs
  PROVE  rc[o] = 0 <=> \A s \in Slots : slot[s] # o
<1>1. IsFiniteSet(Refs(o))
  BY SlotFacts, FS_Subset DEF Refs
<1>2. Cardinality(Refs(o)) = 0 <=> Refs(o) = {}
  BY <1>1, FS_EmptySet
<1>. QED  BY <1>2 DEF RefCountExact, Refs

\* The counts stay exact when one slot is written and Counts applied.
LEMMA CountsStayExact ==
  ASSUME ObjectsOK, RefCountExact, NEW s \in Slots, NEW v \in Values,
         slot' = [slot EXCEPT ![s] = v], rc' = Counts(s, v)
  PROVE  /\ RefCountExact' /\ rc' \in [Objs -> Nat] /\ slot' \in [Slots -> Values]
         /\ \A o \in Objs : rc'[o] = 0 <=> \A x \in Slots : slot'[x] # o
<1>1. slot' \in [Slots -> Values]
  BY DEF ObjectsOK
<1>2. ASSUME NEW o \in Objs
      PROVE  rc'[o] = Cardinality(Refs(o)') /\ rc'[o] \in Nat
  <2>1. Refs(o) = At(slot, o) /\ Refs(o)' = At(slot', o)
    BY DEF Refs, At
  <2>2. /\ Cardinality(At(slot', o)) \in Nat
        /\ Cardinality(At(slot', o))
             = Cardinality(At(slot, o)) + Same(v, o) - Same(slot[s], o)
    <3>1. slot \in [Slots -> Values] /\ Written(slot, slot', s, v)
      BY DEF ObjectsOK, Written
    <3>. QED  BY <3>1, OneSlotCounts
  <2>3. rc[o] = Cardinality(At(slot, o))
    BY <2>1 DEF RefCountExact
  <2>4. rc'[o] = rc[o] + Same(v, o) - Same(slot[s], o)
    BY DEF Counts
  <2>. QED  BY <2>1, <2>2, <2>3, <2>4
<1>3. RefCountExact'
  BY <1>2 DEF RefCountExact
<1>4. rc' \in [Objs -> Nat]
  <2>1. rc' = [o \in Objs |-> rc[o] + Same(v, o) - Same(slot[s], o)]
    BY DEF Counts
  <2>2. \A o \in Objs : rc[o] + Same(v, o) - Same(slot[s], o) \in Nat
    BY <2>1, <1>2
  <2>. QED  BY <2>1, <2>2
<1>5. ASSUME NEW o \in Objs
      PROVE  rc'[o] = 0 <=> \A x \in Slots : slot'[x] # o
  <2>1. IsFiniteSet(Refs(o)')
    BY SlotFacts, FS_Subset DEF Refs
  <2>2. Cardinality(Refs(o)') = 0 <=> Refs(o)' = {}
    BY <2>1, FS_EmptySet
  <2>. QED  BY <2>2, <1>2 DEF Refs
<1>. QED  BY <1>1, <1>3, <1>4, <1>5

(***************************************************************************)
(* The stack of Release calls.                                             *)
(***************************************************************************)

FrameSet == [o : Ids, st : {"enter", "hook", "destroy"}]

\* The frames of the release stack are frames of collectable objects.
LEMMA FrameFacts ==
  ASSUME work \in Seq(FrameSet)
  PROVE  /\ Len(work) \in Nat /\ DOMAIN work = 1 .. Len(work)
         /\ Len(work) + 1 \notin DOMAIN work
         /\ \A i \in DOMAIN work : work[i] \in FrameSet /\ work[i].o \in Ids
<1>1. Len(work) \in Nat /\ DOMAIN work = 1 .. Len(work)
  OBVIOUS
<1>2. \A i \in 1 .. Len(work) : work[i] \in FrameSet
  OBVIOUS
<1>3. \A fr \in FrameSet : fr.o \in Ids
  BY DEF FrameSet
<1>. QED  BY <1>1, <1>2, <1>3

\* Push adds one frame, not yet in a hook, on top.
LEMMA PushFacts ==
  ASSUME work \in Seq(FrameSet), NEW o \in Ids
  PROVE  /\ Push(o) \in Seq(FrameSet)
         /\ Len(Push(o)) = Len(work) + 1
         /\ \A i \in DOMAIN work : Push(o)[i] = work[i]
         /\ Push(o)[Len(work) + 1].o = o
         /\ Push(o)[Len(work) + 1].st # "hook"
         /\ DOMAIN Push(o) = DOMAIN work \cup {Len(work) + 1}
<1>. DEFINE fr == Frame(o, IF o \in Hooked THEN "enter" ELSE "destroy")
<1>1. fr \in FrameSet /\ fr.o = o /\ fr.st # "hook"
  BY DEF Frame, FrameSet
<1>. HIDE DEF fr
<1>2. Push(o) = Append(work, fr)
  BY DEF Push, fr
<1>. QED  BY <1>1, <1>2

\* Pop removes the top frame and keeps the others.
LEMMA PopFacts ==
  ASSUME work \in Seq(FrameSet), work # <<>>
  PROVE  /\ Len(work) \in DOMAIN work /\ Top \in FrameSet
         /\ Pop \in Seq(FrameSet)
         /\ Len(Pop) = Len(work) - 1
         /\ DOMAIN Pop = DOMAIN work \ {Len(work)}
         /\ \A i \in DOMAIN Pop : Pop[i] = work[i]
<1>1. Len(work) \in Nat /\ Len(work) >= 1 /\ DOMAIN work = 1 .. Len(work)
  OBVIOUS
<1>2. /\ Pop \in Seq(FrameSet) /\ Len(Pop) = Len(work) - 1
      /\ \A i \in 1 .. Len(work) - 1 : Pop[i] = work[i]
  BY <1>1 DEF Pop
<1>3. DOMAIN Pop = 1 .. Len(work) - 1
  BY <1>1, <1>2
<1>4. Len(work) \in DOMAIN work /\ Top \in FrameSet
  BY <1>1, FrameFacts DEF Top
<1>. QED  BY <1>1, <1>2, <1>3, <1>4

\* Append(Pop, fr) replaces the top frame.
LEMMA ReplaceFacts ==
  ASSUME work \in Seq(FrameSet), work # <<>>, NEW fr \in FrameSet
  PROVE  LET q == Append(Pop, fr)
         IN  /\ q \in Seq(FrameSet)
             /\ DOMAIN q = DOMAIN work
             /\ \A i \in DOMAIN work : q[i] = IF i = Len(work) THEN fr ELSE work[i]
  BY PopFacts

(***************************************************************************)
(* Writing a slot.                                                         *)
(***************************************************************************)

\* SQObjectPtr's operator= keeps counts, slots, weak references and the stack
\* of releases right, if the new value is allocated and not being destroyed.
LEMMA AssignKeeps ==
  ASSUME ObjectsOK, RefCountExact, SlotsAlive, WorkInv,
         NEW s \in Slots, \A o \in Ids : s # Pin(o),
         NEW v \in Values, ~Dying(v),
         NEW al \in SUBSET Objs, alive \subseteq al, v = Nil \/ v \in al,
         NEW wo \in [WIds -> Ids \cup {Nil}], NEW wr \in [Ids -> WIds \cup {Nil}],
         Paired(al, wo, wr),
         AssignIn(s, v, al, wo, wr)
  PROVE  ObjectsOK' /\ RefCountExact' /\ SlotsAlive' /\ WorkInv' /\ WeakRefsPaired'
<1>. DEFINE old == slot[s]
            w == IF Drops(s, v) /\ old \in WIds THEN {old} ELSE {}
            drop == Drops(s, v) /\ old \in Ids
<1>1. /\ slot' = [slot EXCEPT ![s] = v] /\ rc' = Counts(s, v)
      /\ alive' = al \ w
      /\ wobj' = [x \in WIds |-> IF x \in w THEN Nil ELSE wo[x]]
      /\ weakref' = [o \in Ids |-> IF wr[o] \in w THEN Nil ELSE wr[o]]
      /\ work' = IF drop THEN Push(old) ELSE work
  BY DEF AssignIn
<1>2. /\ RefCountExact' /\ rc' \in [Objs -> Nat] /\ slot' \in [Slots -> Values]
      /\ \A o \in Objs : rc'[o] = 0 <=> \A x \in Slots : slot'[x] # o
  BY <1>1, CountsStayExact
<1>3. \A x \in w : x \in WIds /\ x \notin Ids /\ x # Nil /\ \A y \in Slots : slot'[y] # x
  <2>1. ASSUME Drops(s, v), old \in WIds
        PROVE  \A y \in Slots : slot'[y] # old
    BY <2>1, <1>1, <1>2 DEF Drops, Objs
  <2>. QED  BY <2>1, HeapAssumption
<1>4. work \in Seq(FrameSet) /\ slot \in [Slots -> Values]
  BY DEF ObjectsOK, FrameSet
<1>5. ObjectsOK'
  <2>1. alive' \subseteq Objs
    BY <1>1
  <2>2. wobj' \in [WIds -> Ids \cup {Nil}] /\ weakref' \in [Ids -> WIds \cup {Nil}]
    BY <1>1
  <2>3. work' \in Seq(FrameSet)
    BY <1>1, <1>4, PushFacts
  <2>. QED  BY <1>2, <2>1, <2>2, <2>3 DEF ObjectsOK, FrameSet
<1>6. SlotsAlive'
  <2>. SUFFICES ASSUME NEW x \in Slots, slot'[x] # Nil
                PROVE  slot'[x] \in alive'
    BY DEF SlotsAlive
  <2>1. slot'[x] \in al
    BY <1>1, <1>4 DEF SlotsAlive
  <2>2. slot'[x] \notin w
    BY <1>3
  <2>. QED  BY <1>1, <2>1, <2>2
<1>7. WorkInv'
  <2>1. ASSUME NEW i \in DOMAIN work
        PROVE  /\ work[i].o \in alive' /\ work[i].o \in Ids
               /\ work[i].st # "hook" => rc'[work[i].o] = 0
               /\ work[i].st = "hook" => slot'[Pin(work[i].o)] = work[i].o
    <3>1. work[i].o \in Ids
      BY <1>4, FrameFacts
    <3>2. work[i].o \in alive'
      BY <1>1, <1>3, <3>1 DEF WorkInv
    <3>3. ASSUME work[i].st # "hook" PROVE rc'[work[i].o] = 0
      <4>1. \A x \in Slots : slot[x] # work[i].o
        BY <3>1, <3>3, ZeroMeansUnreferenced DEF WorkInv, Objs
      <4>2. v # work[i].o
        BY <3>3 DEF Dying
      <4>. QED  BY <1>1, <1>2, <1>4, <4>1, <4>2, <3>1 DEF Objs
    <3>4. ASSUME work[i].st = "hook" PROVE slot'[Pin(work[i].o)] = work[i].o
      BY <3>1, <3>4, <1>1, <1>4, SlotFacts DEF WorkInv
    <3>. QED  BY <3>1, <3>2, <3>3, <3>4
  <2>2. CASE ~drop
    BY <2>1, <2>2, <1>1 DEF WorkInv
  <2>3. CASE drop
    <3>1. /\ old \in Ids /\ old \in alive' /\ rc'[old] = 0
          /\ \A x \in Slots : slot'[x] # old
      <4>1. old \in Ids /\ old \in alive /\ old # Nil
        BY <2>3 DEF Drops, SlotsAlive
      <4>2. rc'[old] = 0
        BY <2>3, <1>1 DEF Drops
      <4>. QED  BY <4>1, <4>2, <1>1, <1>2, <1>3 DEF Objs
    <3>2. \A i \in DOMAIN work : work[i].o # old
      <4>1. SUFFICES ASSUME NEW i \in DOMAIN work, work[i].o = old PROVE FALSE
        OBVIOUS
      <4>2. CASE work[i].st = "hook"
        BY <4>1, <4>2, <2>1, <3>1, SlotFacts
      <4>3. CASE work[i].st # "hook"
        BY <4>1, <4>3, <1>4, <3>1, ZeroMeansUnreferenced DEF WorkInv, Objs
      <4>. QED  BY <4>2, <4>3
    <3>3. work' = Push(old)
      BY <2>3, <1>1
    <3>. HIDE DEF old, drop
    <3>4. /\ DOMAIN work' = DOMAIN work \cup {Len(work) + 1}
          /\ \A i \in DOMAIN work : work'[i] = work[i]
          /\ work'[Len(work) + 1].o = old /\ work'[Len(work) + 1].st # "hook"
          /\ Len(work) + 1 \notin DOMAIN work
      BY <3>1, <3>3, <1>4, PushFacts, FrameFacts
    <3>. QED  BY <2>1, <3>1, <3>2, <3>4 DEF WorkInv
  <2>. QED  BY <2>2, <2>3
<1>8. WeakRefsPaired'
  BY <1>1, <1>3, HeapAssumption DEF WeakRefsPaired, Paired
<1>. QED  BY <1>2, <1>5, <1>6, <1>7, <1>8

(***************************************************************************)
(* The chains.                                                             *)
(***************************************************************************)

\* SQCollectable::AddToChain keeps the links right, for an object in no chain.
LEMMA AddToChainKeeps ==
  ASSUME ChainsOK, Linked, NEW c \in {"gc", "t"}, NEW o \in Ids, chain[o] = "none",
         AddToChain(c, o)
  PROVE  ChainsOK' /\ Linked' /\ chain' = [chain EXCEPT ![o] = c]
<1>1. head[c] # o /\ Nil \notin Ids
  BY HeapAssumption DEF Linked
<1>2. ChainsOK'
  BY DEF ChainsOK, AddToChain
<1>3. \A x \in Ids : nxt[x] # o /\ prv[x] # o
  BY <1>1 DEF Linked, ChainsOK
<1>4. Linked'
  BY <1>1, <1>3 DEF Linked, ChainsOK, AddToChain
<1>. QED  BY <1>2, <1>4 DEF AddToChain

\* RemoveFromChain keeps the links right, and leaves the object in no chain.
LEMMA RemoveFromChainKeeps ==
  ASSUME ChainsOK, Linked, NEW o \in Ids, chain[o] = "gc",
         RemoveFromChain("gc", o)
  PROVE  ChainsOK' /\ Linked' /\ chain' = [chain EXCEPT ![o] = "none"]
<1>1. ChainsOK'
  BY DEF ChainsOK, RemoveFromChain, NextWithout, PrevWithout, HeadWithout
<1>2. Linked'
  BY HeapAssumption
     DEF Linked, ChainsOK, RemoveFromChain, NextWithout, PrevWithout, HeadWithout
<1>. QED  BY <1>1, <1>2 DEF RemoveFromChain

\* END_MARK keeps the links of both chains right.
LEMMA MoveToTChainKeeps ==
  ASSUME ChainsOK, Linked, NEW o \in Ids, chain[o] = "gc", MoveToTChain(o)
  PROVE  ChainsOK' /\ Linked' /\ chain' = [chain EXCEPT ![o] = "t"]
<1>1. ChainsOK'
  BY DEF ChainsOK, MoveToTChain, NextWithout, PrevWithout, HeadWithout
<1>2. Linked'
  BY HeapAssumption
     DEF Linked, ChainsOK, MoveToTChain, NextWithout, PrevWithout, HeadWithout
<1>. QED  BY <1>1, <1>2 DEF MoveToTChain

(***************************************************************************)
(* Every step keeps the invariant.                                         *)
(***************************************************************************)

Core == ObjectsOK /\ RefCountExact /\ SlotsAlive /\ WorkInv /\ WeakRefsPaired

\* What a slot refers to is not being destroyed.
LEMMA ReferencedNotDying ==
  ASSUME Core, NEW x \in Slots
  PROVE  ~Dying(slot[x]) /\ slot[x] \in Values /\ (slot[x] = Nil \/ slot[x] \in alive)
<1>1. slot[x] \in Values /\ (slot[x] = Nil \/ slot[x] \in alive)
  BY DEF Core, ObjectsOK, SlotsAlive
<1>2. ASSUME NEW i \in DOMAIN work, work[i].o = slot[x], work[i].st # "hook"
      PROVE  FALSE
  <2>1. work[i].o \in Objs
    BY FrameFacts DEF Core, ObjectsOK, FrameSet, Objs
  <2>. QED  BY <1>2, <2>1, ZeroMeansUnreferenced DEF Core, WorkInv
<1>. QED  BY <1>1, <1>2 DEF Dying

\* Null is not an object being destroyed.
LEMMA NilNotDying ==
  ASSUME ObjectsOK
  PROVE  ~Dying(Nil)
  BY FrameFacts, HeapAssumption DEF ObjectsOK, FrameSet, Dying

\* Assign with nothing allocated on the way.
LEMMA PlainAssignKeeps ==
  ASSUME Core, NEW s \in Slots, \A o \in Ids : s # Pin(o),
         NEW v \in Values, ~Dying(v), v = Nil \/ v \in alive,
         Assign(s, v)
  PROVE  Core' /\ slot' = [slot EXCEPT ![s] = v]
<1>1. /\ alive \in SUBSET Objs
      /\ wobj \in [WIds -> Ids \cup {Nil}] /\ weakref \in [Ids -> WIds \cup {Nil}]
      /\ Paired(alive, wobj, weakref)
  BY DEF Core, ObjectsOK, WeakRefsPaired
<1>2. AssignIn(s, v, alive, wobj, weakref)
  BY DEF Assign
<1>3. ObjectsOK' /\ RefCountExact' /\ SlotsAlive' /\ WorkInv' /\ WeakRefsPaired'
  BY <1>1, <1>2, AssignKeeps DEF Core
<1>4. slot' = [slot EXCEPT ![s] = v]
  BY <1>2 DEF AssignIn
<1>. QED  BY <1>3, <1>4 DEF Core

\* Assign frees weak references only.
LEMMA AssignFreesNoId ==
  ASSUME NEW s, NEW v, Assign(s, v)
  PROVE  alive' \cap Ids = alive \cap Ids
  BY HeapAssumption DEF Assign, AssignIn

\* A write to a root or a field that leaves the collector and the chains alone.
LEMMA WriteKeeps ==
  ASSUME IInv, NEW s \in RootSlots \cup FieldSlots, NEW v \in Values, ~Dying(v),
         v = Nil \/ v \in alive, Assign(s, v),
         UNCHANGED <<chainVars, mark, phase, cur, closing, garbage>>,
         dropped' \subseteq RootSlots, phase \notin {"mark", "append"}
  PROVE  IInv'
<1>1. s \in Slots /\ s # T /\ s # NX /\ \A o \in Ids : s # Pin(o)
  BY SlotFacts
<1>2. Core' /\ slot' = [slot EXCEPT ![s] = v]
  BY <1>1, PlainAssignKeeps DEF IInv, TypeOK, Core
<1>3. ChainsOK' /\ CollectorOK' /\ Linked'
  BY DEF IInv, TypeOK, ChainsOK, CollectorOK, Linked, chainVars
<1>4. Chained'
  BY AssignFreesNoId DEF IInv, Chained, chainVars
<1>5. slot'[T] = slot[T] /\ slot'[NX] = slot[NX]
  BY <1>1, <1>2, SlotFacts DEF IInv, TypeOK, ObjectsOK
<1>6. PhaseInv'
  BY <1>5 DEF IInv, PhaseInv, chainVars
<1>. QED  BY <1>2, <1>3, <1>4, <1>6 DEF IInv, TypeOK, Core

LEMMA ProgramWriteKeeps ==
  ASSUME IInv, NEW s \in RootSlots \cup FieldSlots, NEW v \in Values, ~Dying(v),
         v = Nil \/ v \in alive, Assign(s, v), UNCHANGED <<chainVars, gcVars>>,
         phase \notin {"mark", "append"}
  PROVE  IInv'
<1>1. UNCHANGED <<chainVars, mark, phase, cur, closing, garbage>> /\ dropped' \subseteq RootSlots
  BY DEF gcVars, IInv, TypeOK, CollectorOK
<1>. QED  BY <1>1, WriteKeeps

\* Neither marking nor resurrecting calls the program.
LEMMA RunningPhase ==
  ASSUME IInv, Running
  PROVE  phase \notin {"mark", "append"}
  BY DEF Running, InHook, IInv, PhaseInv

\* The program writes roots and fields only.
LEMMA AccessibleSlots ==
  /\ Accessible \subseteq RootSlots \cup FieldSlots
  /\ Accessible \subseteq Slots
  /\ Writable \subseteq Accessible
  BY SlotFacts DEF Accessible, Writable, Named

\* Null is a value.
LEMMA NilValue == Nil \in Values
  BY DEF Values

\* Copying a value keeps the invariant.
LEMMA StoreKeeps ==
  ASSUME IInv, NEW src \in Slots, NEW dst \in Slots, Store(src, dst)
  PROVE  IInv'
<1>1. Core /\ dst \in RootSlots \cup FieldSlots /\ src \in Slots
  BY AccessibleSlots DEF IInv, TypeOK, Core, Store
<1>2. phase \notin {"mark", "append"}
  BY RunningPhase DEF Store
<1>. QED  BY <1>1, <1>2, ReferencedNotDying, ProgramWriteKeeps DEF Store

\* Nulling a slot keeps the invariant.
LEMMA ClearKeeps ==
  ASSUME IInv, NEW dst \in Slots, Clear(dst)
  PROVE  IInv'
<1>1. dst \in RootSlots \cup FieldSlots
  BY AccessibleSlots DEF Clear
<1>2. phase \notin {"mark", "append"}
  BY RunningPhase DEF Clear
<1>3. ~Dying(Nil)
  BY NilNotDying DEF IInv, TypeOK
<1>. QED  BY <1>1, <1>2, <1>3, NilValue, ProgramWriteKeeps DEF Clear

\* Reading through a weak reference keeps the invariant.
LEMMA DerefKeeps ==
  ASSUME IInv, NEW src \in Slots, NEW dst \in Slots, Deref(src, dst)
  PROVE  IInv'
<1>1. dst \in RootSlots \cup FieldSlots
  BY AccessibleSlots DEF Deref
<1>2. phase \notin {"mark", "append"}
  BY RunningPhase DEF Deref
<1>3. wobj[slot[src]] \in Values /\ (wobj[slot[src]] = Nil \/ wobj[slot[src]] \in alive)
  <2>1. slot[src] \in WIds /\ wobj[slot[src]] \in Ids \cup {Nil}
    BY DEF Deref, IInv, TypeOK, ObjectsOK
  <2>2. ASSUME wobj[slot[src]] \in Ids PROVE wobj[slot[src]] \in alive
    <3>1. weakref[wobj[slot[src]]] = slot[src]
      BY <2>1, <2>2 DEF IInv, WeakRefsPaired, Paired
    <3>. QED  BY <2>1, <2>2, <3>1, HeapAssumption DEF IInv, WeakRefsPaired, Paired
  <2>. QED  BY <2>1, <2>2 DEF Values, Objs
<1>. QED  BY <1>1, <1>2, <1>3, ProgramWriteKeeps DEF Deref

\* A destructor nulling a member keeps the invariant.
LEMMA DestroyFieldKeeps ==
  ASSUME IInv, DestroyField
  PROVE  IInv'
<1>1. PICK s \in FieldsOf(Top.o) : Assign(s, Nil)
  BY DEF DestroyField
<1>2. s \in FieldSlots
  BY <1>1 DEF FieldsOf
<1>3. phase \notin {"mark", "append"}
  BY DEF DestroyField, Destroying, IInv, PhaseInv
<1>4. ~Dying(Nil)
  BY NilNotDying DEF IInv, TypeOK
<1>. QED  BY <1>1, <1>2, <1>3, <1>4, NilValue, ProgramWriteKeeps DEF DestroyField

\* The collector's Finalize nulling a member keeps the invariant.
LEMMA FinalizeFieldKeeps ==
  ASSUME IInv, FinalizeField
  PROVE  IInv'
<1>1. PICK s \in FieldsOf(slot[T]) : Assign(s, Nil)
  BY DEF FinalizeField, Unfinalized
<1>2. s \in FieldSlots
  BY <1>1 DEF FieldsOf
<1>3. ~Dying(Nil)
  BY NilNotDying DEF IInv, TypeOK
<1>. QED  BY <1>1, <1>2, <1>3, NilValue, ProgramWriteKeeps DEF FinalizeField, Sweeping

\* sq_close dropping a root keeps the invariant.
LEMMA CloseRootKeeps ==
  ASSUME IInv, CloseRoot
  PROVE  IInv'
<1>1. PICK s \in RootSlots : Assign(s, Nil) /\ dropped' = dropped \cup {s}
  BY DEF CloseRoot
<1>2. ~Dying(Nil)
  BY NilNotDying DEF IInv, TypeOK
<1>3. dropped' \subseteq RootSlots
  BY <1>1 DEF IInv, TypeOK, CollectorOK
<1>. QED  BY <1>1, <1>2, <1>3, NilValue, WriteKeeps DEF CloseRoot, Sweeping

\* An object that is not allocated is linked nowhere and referred to by nothing.
LEMMA FreshFacts ==
  ASSUME IInv, NEW o \in Objs \ alive
  PROVE  /\ ~Dying(o)
         /\ o \in Ids => chain[o] = "none"
         /\ o \in Ids => weakref[o] = Nil /\ cur # o
         /\ o \in WIds => wobj[o] = Nil /\ \A x \in Ids : weakref[x] # o
<1>1. ~Dying(o)
  BY DEF IInv, WorkInv, Dying
<1>2. o \in Ids => chain[o] = "none"
  BY DEF IInv, Chained, TypeOK, ChainsOK
<1>3. o \in Ids => weakref[o] = Nil /\ cur # o
  BY <1>2, HeapAssumption DEF IInv, WeakRefsPaired, Paired, PhaseInv
<1>4. o \in WIds => wobj[o] = Nil /\ \A x \in Ids : weakref[x] # o
  BY HeapAssumption DEF IInv, WeakRefsPaired, Paired, TypeOK, ObjectsOK
<1>. QED  BY <1>1, <1>2, <1>3, <1>4

\* Allocating o, linking it in chain c and storing it in the root s.
LEMMA AllocKeeps ==
  ASSUME IInv, NEW o \in Ids \ alive, NEW s \in RootSlots, NEW c \in {"gc", "t"},
         AddToChain(c, o), AssignIn(s, o, alive \cup {o}, wobj, weakref)
  PROVE  /\ Core' /\ ChainsOK' /\ Linked'
         /\ chain' = [chain EXCEPT ![o] = c]
         /\ slot'[T] = slot[T] /\ slot'[NX] = slot[NX]
         /\ alive' \cap Ids = (alive \cap Ids) \cup {o}
<1>1. s \in Slots /\ s # T /\ s # NX /\ \A x \in Ids : s # Pin(x)
  BY SlotFacts
<1>2. o \in Objs \ alive
  BY DEF Objs
<1>3. Core'
  <2>1. /\ (alive \cup {o}) \in SUBSET Objs /\ o \in Values
        /\ wobj \in [WIds -> Ids \cup {Nil}] /\ weakref \in [Ids -> WIds \cup {Nil}]
    BY <1>2 DEF IInv, TypeOK, ObjectsOK, Values
  <2>2. Paired(alive \cup {o}, wobj, weakref)
    BY DEF IInv, WeakRefsPaired, Paired
  <2>3. ~Dying(o)
    BY <1>2, FreshFacts
  <2>4. ObjectsOK' /\ RefCountExact' /\ SlotsAlive' /\ WorkInv' /\ WeakRefsPaired'
    BY <1>1, <2>1, <2>2, <2>3, AssignKeeps DEF IInv, TypeOK
  <2>. QED  BY <2>4 DEF Core
<1>4. ChainsOK' /\ Linked' /\ chain' = [chain EXCEPT ![o] = c]
  BY <1>2, FreshFacts, AddToChainKeeps DEF IInv, TypeOK
<1>5. slot'[T] = slot[T] /\ slot'[NX] = slot[NX]
  BY <1>1, SlotFacts DEF IInv, TypeOK, ObjectsOK, AssignIn
<1>6. alive' \cap Ids = (alive \cap Ids) \cup {o}
  BY HeapAssumption DEF AssignIn
<1>. QED  BY <1>3, <1>4, <1>5, <1>6

\* Creating an object keeps the invariant.
LEMMA NewKeeps ==
  ASSUME IInv, NEW o \in Ids, NEW s \in RootSlots, New(o, s)
  PROVE  IInv'
<1>1. /\ Core' /\ ChainsOK' /\ Linked'
      /\ chain' = [chain EXCEPT ![o] = "gc"]
      /\ slot'[T] = slot[T] /\ slot'[NX] = slot[NX]
      /\ alive' \cap Ids = (alive \cap Ids) \cup {o}
  BY AllocKeeps DEF New
<1>2. CollectorOK'
  BY DEF New, IInv, TypeOK, CollectorOK, gcVars
<1>3. Chained'
  BY <1>1 DEF New, IInv, TypeOK, ChainsOK, Chained, gcVars
<1>4. PhaseInv'
  BY <1>1, RunningPhase DEF New, IInv, PhaseInv, TypeOK, ChainsOK, gcVars
<1>. QED  BY <1>1, <1>2, <1>3, <1>4 DEF IInv, TypeOK, Core

\* GetWeakRef keeps the invariant, whether it makes the weak reference or not.
LEMMA MakeWeakKeeps ==
  ASSUME IInv, NEW src \in Slots, NEW dst \in Slots, NEW w \in WIds,
         MakeWeak(src, dst, w)
  PROVE  IInv'
<1>. DEFINE o == slot[src]
<1>1. dst \in RootSlots \cup FieldSlots /\ phase \notin {"mark", "append"} /\ o \in Ids
  BY AccessibleSlots, RunningPhase DEF MakeWeak
<1>2. CASE weakref[o] # Nil
  <2>1. w = weakref[o] /\ Assign(dst, w) /\ UNCHANGED <<chainVars, gcVars>>
    BY <1>2 DEF MakeWeak
  <2>2. w \in alive /\ w \in Values
    BY <1>1, <2>1, HeapAssumption DEF IInv, WeakRefsPaired, Paired, Values, Objs
  <2>3. ~Dying(w)
    BY FrameFacts, HeapAssumption DEF IInv, TypeOK, ObjectsOK, FrameSet, Dying
  <2>. QED  BY <1>1, <2>1, <2>2, <2>3, ProgramWriteKeeps
<1>3. CASE weakref[o] = Nil
  <2>. DEFINE al == alive \cup {w}
              wo == [wobj EXCEPT ![w] = o]
              wr == [weakref EXCEPT ![o] = w]
  <2>1. w \in Objs \ alive /\ AssignIn(dst, w, al, wo, wr) /\ UNCHANGED <<chainVars, gcVars>>
    BY <1>3 DEF MakeWeak, Objs
  <2>2. o \in alive
    BY <1>1, HeapAssumption DEF IInv, SlotsAlive
  <2>3. /\ al \in SUBSET Objs /\ alive \subseteq al /\ w \in al /\ w \in Values
        /\ wo \in [WIds -> Ids \cup {Nil}] /\ wr \in [Ids -> WIds \cup {Nil}]
    BY <1>1, <2>1 DEF IInv, TypeOK, ObjectsOK, Values
  <2>4. Paired(al, wo, wr)
    BY <1>1, <1>3, <2>1, <2>2, FreshFacts, HeapAssumption
       DEF IInv, WeakRefsPaired, Paired, TypeOK, ObjectsOK
  <2>5. dst \in Slots /\ dst # T /\ dst # NX /\ \A x \in Ids : dst # Pin(x)
    BY <1>1, SlotFacts
  <2>6. ~Dying(w)
    BY <2>1, FreshFacts
  <2>7. slot' = [slot EXCEPT ![dst] = w] /\ alive' \cap Ids = alive \cap Ids
    BY <2>1, HeapAssumption DEF AssignIn
  <2>. HIDE DEF al, wo, wr
  <2>8. ObjectsOK' /\ RefCountExact' /\ SlotsAlive' /\ WorkInv' /\ WeakRefsPaired'
    BY <2>1, <2>3, <2>4, <2>5, <2>6, AssignKeeps DEF IInv, TypeOK
  <2>9. ChainsOK' /\ CollectorOK' /\ Linked'
    BY <2>1 DEF IInv, TypeOK, ChainsOK, CollectorOK, Linked, chainVars, gcVars
  <2>10. Chained'
    BY <2>1, <2>7 DEF IInv, Chained, chainVars, gcVars
  <2>11. slot'[T] = slot[T] /\ slot'[NX] = slot[NX]
    BY <2>5, <2>7, SlotFacts DEF IInv, TypeOK, ObjectsOK
  <2>12. PhaseInv'
    BY <1>1, <2>1, <2>11 DEF IInv, PhaseInv, chainVars, gcVars
  <2>. QED  BY <2>8, <2>9, <2>10, <2>12 DEF IInv, TypeOK
<1>. QED  BY <1>2, <1>3

\* SQInstance::Release taking its own reference keeps the invariant.
LEMMA HookEnterKeeps ==
  ASSUME IInv, HookEnter
  PROVE  IInv'
<1>. DEFINE o == Top.o
            n == Len(work)
<1>1. /\ work \in Seq(FrameSet) /\ work # <<>> /\ n \in DOMAIN work
      /\ o \in Ids /\ o \in Values /\ o \in alive /\ rc[o] = 0 /\ work[n].o = o
  <2>1. work \in Seq(FrameSet) /\ work # <<>>
    BY DEF HookEnter, IInv, TypeOK, ObjectsOK, FrameSet
  <2>2. n \in DOMAIN work /\ work[n] = Top /\ Top \in FrameSet
    BY <2>1, PopFacts DEF Top
  <2>. QED  BY <2>1, <2>2 DEF HookEnter, IInv, WorkInv, FrameSet, Values, Objs
<1>2. Pin(o) \in Slots /\ Pin(o) # T /\ Pin(o) # NX
  BY <1>1, SlotFacts
<1>3. slot' = [slot EXCEPT ![Pin(o)] = o] /\ rc' = Counts(Pin(o), o)
  BY DEF HookEnter
<1>4. /\ RefCountExact' /\ rc' \in [Objs -> Nat] /\ slot' \in [Slots -> Values]
      /\ \A x \in Objs : rc'[x] = 0 <=> \A y \in Slots : slot'[y] # x
  BY <1>1, <1>2, <1>3, CountsStayExact DEF IInv, TypeOK
<1>5. /\ work' \in Seq(FrameSet) /\ DOMAIN work' = DOMAIN work
      /\ \A i \in DOMAIN work : work'[i] = IF i = n THEN Frame(o, "hook") ELSE work[i]
  <2>1. Frame(o, "hook") \in FrameSet
    BY <1>1 DEF Frame, FrameSet
  <2>. QED  BY <1>1, <2>1, ReplaceFacts DEF HookEnter
<1>6. ObjectsOK'
  BY <1>4, <1>5 DEF HookEnter, IInv, TypeOK, ObjectsOK, FrameSet
<1>7. SlotsAlive'
  BY <1>1, <1>3 DEF HookEnter, IInv, SlotsAlive, TypeOK, ObjectsOK
<1>8. WorkInv'
  <2>. SUFFICES ASSUME NEW i \in DOMAIN work
                PROVE  /\ work'[i].o = work[i].o
                       /\ work'[i].st # "hook" => rc'[work[i].o] = 0
                       /\ work'[i].st = "hook" => slot'[Pin(work[i].o)] = work[i].o
    BY <1>5 DEF HookEnter, IInv, WorkInv
  <2>1. work[i].o \in Ids
    BY <1>1, FrameFacts
  <2>2. CASE i = n
    BY <2>2, <1>1, <1>2, <1>3, <1>5 DEF Frame, IInv, TypeOK, ObjectsOK
  <2>3. CASE i # n
    <3>1. work'[i] = work[i] /\ work[i].o # o
      BY <2>3, <1>1, <1>5 DEF IInv, WorkInv
    <3>2. ASSUME work[i].st # "hook" PROVE rc'[work[i].o] = 0
      <4>1. \A y \in Slots : slot[y] # work[i].o
        BY <3>2, <2>1, ZeroMeansUnreferenced DEF IInv, TypeOK, WorkInv, Objs
      <4>. QED  BY <4>1, <3>1, <2>1, <1>3, <1>4 DEF IInv, TypeOK, ObjectsOK, Objs
    <3>3. ASSUME work[i].st = "hook" PROVE slot'[Pin(work[i].o)] = work[i].o
      BY <3>1, <3>3, <2>1, <1>1, <1>3, SlotFacts DEF IInv, TypeOK, ObjectsOK, WorkInv
    <3>. QED  BY <3>1, <3>2, <3>3
  <2>. QED  BY <2>2, <2>3
<1>9. ChainsOK' /\ CollectorOK' /\ Linked' /\ Chained' /\ WeakRefsPaired'
  BY DEF HookEnter, IInv, TypeOK, ChainsOK, CollectorOK, Linked, Chained,
         WeakRefsPaired, chainVars, gcVars
<1>10. PhaseInv'
  <2>1. slot'[T] = slot[T] /\ slot'[NX] = slot[NX]
    BY <1>2, <1>3, SlotFacts DEF IInv, TypeOK, ObjectsOK
  <2>. QED  BY <1>1, <2>1 DEF HookEnter, IInv, PhaseInv, chainVars, gcVars
<1>. QED  BY <1>4, <1>6, <1>7, <1>8, <1>9, <1>10 DEF IInv, TypeOK

\* A release hook returning, with or without a resurrection, keeps the invariant.
LEMMA HookReturnKeeps ==
  ASSUME IInv, HookReturn
  PROVE  IInv'
<1>. DEFINE o == Top.o
            n == Len(work)
<1>1. /\ work \in Seq(FrameSet) /\ work # <<>> /\ n \in DOMAIN work
      /\ o \in Ids /\ o \in alive /\ work[n].o = o /\ slot[Pin(o)] = o
  <2>1. work \in Seq(FrameSet) /\ work # <<>>
    BY DEF HookReturn, InHook, IInv, TypeOK, ObjectsOK, FrameSet
  <2>2. n \in DOMAIN work /\ work[n] = Top /\ Top \in FrameSet
    BY <2>1, PopFacts DEF Top
  <2>. QED  BY <2>1, <2>2 DEF HookReturn, InHook, IInv, WorkInv, FrameSet
<1>2. Pin(o) \in Slots /\ Pin(o) # T /\ Pin(o) # NX
  BY <1>1, SlotFacts
<1>3. slot' = [slot EXCEPT ![Pin(o)] = Nil] /\ rc' = Counts(Pin(o), Nil)
  BY DEF HookReturn
<1>4. /\ RefCountExact' /\ rc' \in [Objs -> Nat] /\ slot' \in [Slots -> Values]
      /\ \A x \in Objs : rc'[x] = 0 <=> \A y \in Slots : slot'[y] # x
  BY <1>2, <1>3, NilValue, CountsStayExact DEF IInv, TypeOK
<1>5. rc[o] = 1 => rc'[o] = 0
  BY <1>1, <1>3, HeapAssumption DEF Counts, Same, Objs
<1>6. /\ work' \in Seq(FrameSet) /\ DOMAIN work' \subseteq DOMAIN work
      /\ \A i \in DOMAIN work' : /\ i # n => work'[i] = work[i]
                                 /\ i = n => work'[i] = Frame(o, "destroy") /\ rc[o] = 1
  <2>1. CASE rc[o] = 1
    <3>1. Frame(o, "destroy") \in FrameSet
      BY <1>1 DEF Frame, FrameSet
    <3>. QED  BY <2>1, <3>1, <1>1, ReplaceFacts DEF HookReturn
  <2>2. CASE rc[o] # 1
    BY <2>2, <1>1, PopFacts DEF HookReturn
  <2>. QED  BY <2>1, <2>2
<1>7. ObjectsOK'
  BY <1>4, <1>6 DEF HookReturn, IInv, TypeOK, ObjectsOK, FrameSet
<1>8. SlotsAlive'
  BY <1>3 DEF HookReturn, IInv, SlotsAlive, TypeOK, ObjectsOK
<1>9. WorkInv'
  <2>. SUFFICES ASSUME NEW i \in DOMAIN work'
                PROVE  /\ work'[i].o = work[i].o
                       /\ work'[i].st # "hook" => rc'[work[i].o] = 0
                       /\ work'[i].st = "hook" => slot'[Pin(work[i].o)] = work[i].o
    BY <1>6 DEF HookReturn, IInv, WorkInv
  <2>1. i \in DOMAIN work /\ work[i].o \in Ids
    BY <1>1, <1>6, FrameFacts
  <2>2. CASE i = n
    BY <2>2, <1>1, <1>5, <1>6 DEF Frame
  <2>3. CASE i # n
    <3>1. work'[i] = work[i] /\ work[i].o # o
      BY <2>1, <2>3, <1>1, <1>6 DEF IInv, WorkInv
    <3>2. ASSUME work[i].st # "hook" PROVE rc'[work[i].o] = 0
      <4>1. \A y \in Slots : slot[y] # work[i].o
        BY <3>2, <2>1, ZeroMeansUnreferenced DEF IInv, TypeOK, WorkInv, Objs
      <4>. QED  BY <4>1, <2>1, <1>3, <1>4, HeapAssumption DEF IInv, TypeOK, ObjectsOK, Objs
    <3>3. ASSUME work[i].st = "hook" PROVE slot'[Pin(work[i].o)] = work[i].o
      BY <3>1, <3>3, <2>1, <1>1, <1>3, SlotFacts DEF IInv, TypeOK, ObjectsOK, WorkInv
    <3>. QED  BY <3>1, <3>2, <3>3
  <2>. QED  BY <2>2, <2>3
<1>10. ChainsOK' /\ CollectorOK' /\ Linked' /\ Chained' /\ WeakRefsPaired'
  BY DEF HookReturn, IInv, TypeOK, ChainsOK, CollectorOK, Linked, Chained,
         WeakRefsPaired, chainVars, gcVars
<1>11. PhaseInv'
  <2>1. slot'[T] = slot[T] /\ slot'[NX] = slot[NX]
    BY <1>2, <1>3, SlotFacts DEF IInv, TypeOK, ObjectsOK
  <2>. QED  BY <1>1, <2>1 DEF HookReturn, IInv, PhaseInv, chainVars, gcVars
<1>. QED  BY <1>4, <1>7, <1>8, <1>9, <1>10, <1>11 DEF IInv, TypeOK

\* REMOVE_FROM_CHAIN in a destructor keeps the invariant.
LEMMA DestroyUnlinkKeeps ==
  ASSUME IInv, DestroyUnlink
  PROVE  IInv'
<1>. DEFINE o == Top.o
<1>1. o \in Ids /\ phase \notin {"mark", "append"}
  <2>1. work \in Seq(FrameSet) /\ work # <<>>
    BY DEF DestroyUnlink, Destroying, IInv, TypeOK, ObjectsOK, FrameSet
  <2>. QED  BY <2>1, PopFacts DEF FrameSet, IInv, PhaseInv
<1>2. chain[o] = "gc"
  BY <1>1 DEF DestroyUnlink, IInv, TypeOK, ChainsOK, Chained
<1>3. ChainsOK' /\ Linked' /\ chain' = [chain EXCEPT ![o] = "none"]
  BY <1>1, <1>2, RemoveFromChainKeeps DEF DestroyUnlink, IInv, TypeOK
<1>4. Core' /\ CollectorOK'
  BY DEF DestroyUnlink, IInv, TypeOK, Core, ObjectsOK, RefCountExact, Refs, SlotsAlive, WorkInv,
         WeakRefsPaired, CollectorOK, gcVars
<1>5. Chained' /\ PhaseInv'
  BY <1>1, <1>3 DEF DestroyUnlink, IInv, TypeOK, ChainsOK, Chained, PhaseInv, gcVars
<1>. QED  BY <1>3, <1>4, <1>5 DEF IInv, TypeOK, Core

\* ~SQRefCounted and the free of the memory keep the invariant.
LEMMA DestroyFreeKeeps ==
  ASSUME IInv, DestroyFree
  PROVE  IInv'
<1>. DEFINE o == Top.o
            n == Len(work)
<1>1. /\ work \in Seq(FrameSet) /\ work # <<>> /\ n \in DOMAIN work
      /\ o \in Ids /\ rc[o] = 0 /\ work[n].o = o
  <2>1. work \in Seq(FrameSet) /\ work # <<>>
    BY DEF DestroyFree, Destroying, IInv, TypeOK, ObjectsOK, FrameSet
  <2>2. n \in DOMAIN work /\ work[n] = Top /\ Top \in FrameSet
    BY <2>1, PopFacts DEF Top
  <2>. QED  BY <2>1, <2>2 DEF DestroyFree, Destroying, IInv, WorkInv, FrameSet
<1>2. \A y \in Slots : slot[y] # o
  BY <1>1, ZeroMeansUnreferenced DEF IInv, TypeOK, Objs
<1>3. /\ work' \in Seq(FrameSet) /\ DOMAIN work' = DOMAIN work \ {n}
      /\ \A i \in DOMAIN work' : work'[i] = work[i]
  BY <1>1, PopFacts DEF DestroyFree
<1>4. ObjectsOK'
  BY <1>1, <1>3 DEF DestroyFree, IInv, TypeOK, ObjectsOK, FrameSet
<1>5. RefCountExact' /\ SlotsAlive'
  BY <1>2 DEF DestroyFree, IInv, RefCountExact, Refs, SlotsAlive
<1>6. WorkInv'
  BY <1>1, <1>3 DEF DestroyFree, IInv, WorkInv
<1>7. WeakRefsPaired'
  BY <1>1, HeapAssumption DEF DestroyFree, IInv, TypeOK, ObjectsOK, WeakRefsPaired, Paired
<1>8. ChainsOK' /\ CollectorOK' /\ Linked' /\ Chained'
  BY <1>1 DEF DestroyFree, IInv, TypeOK, ChainsOK, CollectorOK, Linked, Chained, chainVars, gcVars
<1>9. PhaseInv'
  BY <1>1 DEF DestroyFree, IInv, PhaseInv, chainVars, gcVars
<1>. QED  BY <1>4, <1>5, <1>6, <1>7, <1>8, <1>9 DEF IInv, TypeOK
(* The collector. *)

\* Steps that touch neither references nor the stack of releases.
LEMMA CoreUnchanged ==
  ASSUME IInv, UNCHANGED <<alive, rc, slot, weakref, wobj, work>>
  PROVE  Core'
  BY DEF IInv, TypeOK, Core, ObjectsOK, RefCountExact, Refs, SlotsAlive, WorkInv, WeakRefsPaired

\* A collector local is given an allocated object (or null) while no release
\* is under way.
LEMMA LocalWriteKeeps ==
  ASSUME IInv, work = <<>>, NEW s \in {T, NX}, NEW v \in Ids \cup {Nil},
         v = Nil \/ v \in alive,
         slot' = [slot EXCEPT ![s] = v], rc' = Counts(s, v),
         UNCHANGED <<alive, weakref, wobj, work>>
  PROVE  Core'
<1>1. s \in Slots /\ v \in Values
  BY SlotFacts DEF Values, Objs
<1>2. RefCountExact' /\ rc' \in [Objs -> Nat] /\ slot' \in [Slots -> Values]
  BY <1>1, CountsStayExact DEF IInv, TypeOK
<1>3. ObjectsOK'
  BY <1>2 DEF IInv, TypeOK, ObjectsOK
<1>4. SlotsAlive'
  BY <1>1 DEF IInv, TypeOK, ObjectsOK, SlotsAlive
<1>5. WorkInv' /\ WeakRefsPaired'
  BY DEF WorkInv, IInv, WeakRefsPaired
<1>. QED  BY <1>2, <1>3, <1>4, <1>5 DEF Core

\* Entering a collection or sq_close keeps the invariant.
LEMMA StartKeeps ==
  ASSUME IInv, StartCollect \/ StartClose
  PROVE  IInv'
<1>1. Core'
  BY CoreUnchanged DEF StartCollect, StartClose
<1>2. ChainsOK' /\ CollectorOK' /\ Linked' /\ Chained'
  BY ZenonT(40) DEF StartCollect, StartClose, IInv, TypeOK, ChainsOK, CollectorOK, Phases,
         Linked, Chained, chainVars
<1>3. PhaseInv'
  BY DEF StartCollect, StartClose, IInv, PhaseInv, chainVars
<1>. QED  BY <1>1, <1>2, <1>3 DEF IInv, TypeOK, Core

\* START_MARK keeps the invariant.
LEMMA MarkVisitKeeps ==
  ASSUME IInv, MarkVisit
  PROVE  IInv'
<1>1. Core'
  BY CoreUnchanged DEF MarkVisit
<1>2. mark \subseteq mark' /\ mark' \subseteq Ids
  BY DEF MarkVisit, IInv, TypeOK, CollectorOK
<1>3. ChainsOK' /\ CollectorOK' /\ Linked' /\ Chained'
  BY <1>2 DEF MarkVisit, IInv, TypeOK, ChainsOK, CollectorOK, Linked, Chained, chainVars
<1>4. PhaseInv'
  BY DEF MarkVisit, IInv, PhaseInv, chainVars
<1>. QED  BY <1>1, <1>3, <1>4 DEF IInv, TypeOK, Core

\* END_MARK keeps the invariant.
LEMMA MarkEndKeeps ==
  ASSUME IInv, MarkEnd
  PROVE  IInv'
<1>1. Core'
  BY CoreUnchanged DEF MarkEnd
<1>2. PICK o \in Grey : MoveToTChain(o)
  BY DEF MarkEnd
<1>3. o \in Ids /\ o \in mark /\ chain[o] = "gc"
  BY <1>2 DEF Grey, IInv, TypeOK, CollectorOK
<1>4. ChainsOK' /\ Linked' /\ chain' = [chain EXCEPT ![o] = "t"]
  BY <1>2, <1>3, MoveToTChainKeeps DEF IInv, TypeOK
<1>5. CollectorOK' /\ Chained'
  BY <1>3, <1>4 DEF MarkEnd, IInv, TypeOK, ChainsOK, CollectorOK, Chained
<1>6. PhaseInv'
  BY <1>3, <1>4 DEF MarkEnd, IInv, TypeOK, ChainsOK, CollectorOK, PhaseInv
<1>. QED  BY <1>1, <1>4, <1>5, <1>6 DEF IInv, TypeOK, Core

\* Pinning the head of the unreachable chain keeps the invariant.
LEMMA BeginSweepKeeps ==
  ASSUME IInv, StartSweep \/ CloseSweep
  PROVE  IInv'
<1>. DEFINE h == head["gc"]
<1>1. /\ slot' = [slot EXCEPT ![T] = h] /\ rc' = Counts(T, h)
      /\ garbage' = {o \in Ids : chain[o] = "gc"}
      /\ phase' \in {"unmark", "closed", "finalize"}
      /\ phase' = "finalize" => h # Nil
      /\ UNCHANGED <<alive, mark, weakref, wobj, chainVars, work, cur, closing, dropped>>
  BY DEF StartSweep, CloseSweep, BeginSweep
<1>2. work = <<>> /\ phase \in {"mark", "close"}
  BY DEF StartSweep, CloseSweep, MarkDone, Sweeping, IInv, PhaseInv
<1>3. h \in Ids \cup {Nil} /\ (h = Nil \/ h \in alive)
  BY DEF IInv, TypeOK, ChainsOK, Linked, Chained
<1>4. Core'
  BY <1>1, <1>2, <1>3, LocalWriteKeeps
<1>5. ChainsOK' /\ CollectorOK' /\ Linked' /\ Chained'
  BY <1>1, <1>2 DEF IInv, TypeOK, ChainsOK, CollectorOK, Phases, Linked, Chained, chainVars
<1>6. slot'[T] = h /\ slot'[NX] = slot[NX]
  BY <1>1, SlotFacts DEF IInv, TypeOK, ObjectsOK
<1>7. PhaseInv'
  BY <1>1, <1>2, <1>3, <1>6 DEF IInv, PhaseInv, chainVars
<1>. QED  BY <1>4, <1>5, <1>7 DEF IInv, TypeOK, Core

\* Reading and pinning t->_next keeps the invariant.
LEMMA TakeNextKeeps ==
  ASSUME IInv, TakeNext
  PROVE  IInv'
<1>. DEFINE n == nxt[slot[T]]
<1>1. /\ slot' = [slot EXCEPT ![NX] = n] /\ rc' = Counts(NX, n)
      /\ phase = "finalize" /\ phase' = "release" /\ work = <<>>
      /\ UNCHANGED <<alive, mark, weakref, wobj, chainVars, work, cur, closing, dropped, garbage>>
  BY DEF TakeNext, Sweeping
<1>2. slot[T] \in Ids
  BY <1>1 DEF IInv, PhaseInv
<1>3. n \in Ids \cup {Nil} /\ (n = Nil \/ n \in alive)
  BY <1>2 DEF IInv, TypeOK, ChainsOK, Linked, Chained
<1>4. Core'
  BY <1>1, <1>3, LocalWriteKeeps
<1>5. ChainsOK' /\ CollectorOK' /\ Linked' /\ Chained'
  BY <1>1 DEF IInv, TypeOK, ChainsOK, CollectorOK, Phases, Linked, Chained, chainVars
<1>6. slot'[T] = slot[T] /\ slot'[NX] = n
  BY <1>1, SlotFacts DEF IInv, TypeOK, ObjectsOK
<1>7. PhaseInv'
  BY <1>1, <1>2, <1>3, <1>6 DEF IInv, PhaseInv, chainVars
<1>. QED  BY <1>4, <1>5, <1>7 DEF IInv, TypeOK, Core

\* Releasing t keeps the invariant.
LEMMA ReleaseTKeeps ==
  ASSUME IInv, ReleaseT
  PROVE  IInv'
<1>1. /\ phase = "release" /\ phase' = "advance"
      /\ Assign(T, Nil) /\ UNCHANGED <<chainVars, mark, cur, closing, dropped, garbage>>
  BY DEF ReleaseT, Sweeping
<1>2. T \in Slots /\ \A o \in Ids : T # Pin(o)
  BY SlotFacts
<1>3. ~Dying(Nil) /\ Core
  BY NilNotDying DEF IInv, TypeOK, Core
<1>4. Core' /\ slot' = [slot EXCEPT ![T] = Nil]
  BY <1>1, <1>2, <1>3, NilValue, PlainAssignKeeps
<1>5. slot[T] \in Ids
  BY <1>1 DEF IInv, PhaseInv
<1>6. alive' \cap Ids = alive \cap Ids
  BY <1>1, AssignFreesNoId
<1>7. ChainsOK' /\ CollectorOK' /\ Linked'
  BY <1>1 DEF IInv, TypeOK, ChainsOK, CollectorOK, Phases, Linked, chainVars
<1>8. Chained'
  BY <1>1, <1>6 DEF IInv, Chained, chainVars
<1>9. slot'[T] = Nil /\ slot'[NX] = slot[NX]
  BY <1>4, SlotFacts DEF IInv, TypeOK, ObjectsOK
<1>10. PhaseInv'
  BY <1>1, <1>9 DEF IInv, PhaseInv, chainVars
<1>. QED  BY <1>4, <1>7, <1>8, <1>10 DEF IInv, TypeOK, Core

\* t = nx moves a reference, and moves none of the counts.
LEMMA AdvanceKeeps ==
  ASSUME IInv, Advance
  PROVE  IInv'
<1>. DEFINE v == slot[NX]
            f == [slot EXCEPT ![T] = v]
<1>1. /\ phase = "advance" /\ work = <<>> /\ slot[T] = Nil
      /\ slot' = [slot EXCEPT ![T] = v, ![NX] = Nil]
      /\ UNCHANGED <<alive, rc, mark, weakref, wobj, chainVars, work, cur, closing, dropped, garbage>>
      /\ phase' \in {"finalize", "closed", "unmark"} /\ (phase' = "finalize" => v # Nil)
  BY DEF Advance, Sweeping, IInv, PhaseInv
<1>2. slot \in [Slots -> Values] /\ v \in Values /\ v \in Ids \cup {Nil}
  BY SlotFacts DEF IInv, TypeOK, ObjectsOK, PhaseInv
<1>3. f \in [Slots -> Values] /\ f[NX] = v
  BY <1>2, SlotFacts
<1>4. slot' = [f EXCEPT ![NX] = Nil]
  BY <1>1
<1>5. ASSUME NEW o \in Objs PROVE rc'[o] = Cardinality(Refs(o)')
  <2>1. Refs(o) = At(slot, o) /\ Refs(o)' = At(slot', o)
    BY DEF Refs, At
  <2>2. T \in Slots /\ NX \in Slots /\ T # NX
    BY SlotFacts
  <2>3. Written(slot, f, T, slot[NX]) /\ Written(f, slot', NX, Nil) /\ slot[T] = Nil
    BY <1>1, <1>4 DEF Written
  <2>. HIDE DEF f
  <2>4. Cardinality(At(slot', o)) = Cardinality(At(slot, o))
    BY <1>2, <2>2, <2>3, MoveCounts
  <2>. QED  BY <1>1, <2>1, <2>4 DEF IInv, RefCountExact
<1>6. ObjectsOK'
  BY <1>1, <1>3, <1>4, NilValue DEF IInv, TypeOK, ObjectsOK
<1>7. RefCountExact'
  BY <1>5 DEF RefCountExact
<1>8. SlotsAlive'
  BY <1>1, <1>2, SlotFacts DEF IInv, SlotsAlive
<1>9. WorkInv' /\ WeakRefsPaired'
  BY <1>1 DEF WorkInv, IInv, WeakRefsPaired
<1>10. ChainsOK' /\ CollectorOK' /\ Linked' /\ Chained'
  BY <1>1 DEF IInv, TypeOK, ChainsOK, CollectorOK, Phases, Linked, Chained, chainVars
<1>11. slot'[T] = v /\ slot'[NX] = Nil
  BY <1>1, <1>2, SlotFacts
<1>12. PhaseInv'
  BY <1>1, <1>2, <1>11 DEF IInv, PhaseInv, chainVars
<1>. QED  BY <1>6, <1>7, <1>8, <1>9, <1>10, <1>12 DEF IInv, TypeOK

\* UnMark and _gc_chain = tchain keep the invariant.
LEMMA EndSweepKeeps ==
  ASSUME IInv, EndSweep
  PROVE  IInv'
<1>1. Core'
  BY CoreUnchanged DEF EndSweep
<1>2. ChainsOK' /\ CollectorOK'
  BY DEF EndSweep, IInv, TypeOK, ChainsOK, CollectorOK, Phases
<1>3. Linked' /\ Chained'
  BY DEF EndSweep, Sweeping, IInv, TypeOK, ChainsOK, Linked, Chained
<1>4. PhaseInv'
  BY DEF EndSweep, Sweeping, IInv, PhaseInv
<1>. QED  BY <1>1, <1>2, <1>3, <1>4 DEF IInv, TypeOK, Core

\* Making the array of ResurrectUnreachable keeps the invariant.
LEMMA StartResurrectKeeps ==
  ASSUME IInv, NEW arr \in Ids, NEW s \in RootSlots, StartResurrect(arr, s)
  PROVE  IInv'
<1>1. /\ Core' /\ ChainsOK' /\ Linked'
      /\ chain' = [chain EXCEPT ![arr] = "t"]
      /\ slot'[T] = slot[T] /\ slot'[NX] = slot[NX]
      /\ alive' \cap Ids = (alive \cap Ids) \cup {arr}
  BY AllocKeeps DEF StartResurrect
<1>2. /\ phase' = "append" /\ cur' = head["gc"] /\ head["gc"] # Nil
      /\ garbage' = {o \in Ids : chain[o] = "gc"}
      /\ UNCHANGED <<mark, closing, dropped>> /\ arr \notin alive
  BY DEF StartResurrect
<1>3. work' = <<>>
  <2>1. work = <<>> /\ slot[s] = Nil
    BY DEF StartResurrect, MarkDone, IInv, PhaseInv
  <2>. QED  BY <2>1 DEF StartResurrect, AssignIn, Drops
<1>4. chain[arr] = "none" /\ head["gc"] \in Ids /\ chain[head["gc"]] = "gc"
  BY <1>2, FreshFacts DEF IInv, TypeOK, ChainsOK, Linked, Objs
<1>5. CollectorOK'
  BY <1>2, <1>4 DEF IInv, TypeOK, CollectorOK, Phases
<1>6. Chained'
  BY <1>1, <1>2 DEF IInv, TypeOK, ChainsOK, Chained
<1>7. PhaseInv'
  BY <1>1, <1>2, <1>3, <1>4 DEF IInv, TypeOK, ChainsOK, PhaseInv
<1>. QED  BY <1>1, <1>5, <1>6, <1>7 DEF IInv, TypeOK, Core

\* Appending one unreachable object keeps the invariant.
LEMMA ResurrectNextKeeps ==
  ASSUME IInv, ResurrectNext
  PROVE  IInv'
<1>1. /\ phase = "append" /\ cur # Nil /\ cur' = nxt[cur]
      /\ UNCHANGED <<mark, chainVars, phase, closing, dropped, garbage>>
  BY DEF ResurrectNext
<1>2. work = <<>> /\ cur \in Ids /\ chain[cur] # "none" /\ cur \in alive
  BY <1>1 DEF IInv, TypeOK, CollectorOK, PhaseInv, Chained
<1>3. cur' \in Ids \cup {Nil} /\ (cur' # Nil => chain[cur'] # "none")
  BY <1>1, <1>2 DEF IInv, TypeOK, ChainsOK, Linked
<1>4. ChainsOK' /\ CollectorOK' /\ Linked'
  BY <1>1, <1>3 DEF IInv, TypeOK, ChainsOK, CollectorOK, Linked, chainVars
<1>5. /\ Core' /\ work' = <<>> /\ alive' \cap Ids = alive \cap Ids
      /\ slot'[T] = slot[T] /\ slot'[NX] = slot[NX]
  <2>1. CASE cur \in Hidden
    <3>1. UNCHANGED <<alive, rc, slot, weakref, wobj, work>>
      BY <2>1 DEF ResurrectNext
    <3>. QED  BY <3>1, <1>2, CoreUnchanged
  <2>2. CASE cur \notin Hidden
    <3>1. PICK arr \in Ids, f \in Fields : slot[<<arr, f>>] = Nil /\ Assign(<<arr, f>>, cur)
      BY <2>2 DEF ResurrectNext
    <3>. DEFINE s == <<arr, f>>
    <3>2. s \in FieldSlots
      BY <3>1 DEF FieldSlots
    <3>. HIDE DEF s
    <3>3. s \in Slots /\ s # T /\ s # NX /\ \A o \in Ids : s # Pin(o)
      BY <3>2, SlotFacts
    <3>4. cur \in Values /\ ~Dying(cur) /\ Core
      BY <1>2 DEF Values, Objs, Dying, IInv, TypeOK, Core
    <3>5. slot[s] = Nil /\ Assign(s, cur)
      BY <3>1 DEF s
    <3>6. Core' /\ slot' = [slot EXCEPT ![s] = cur]
      BY <3>3, <3>4, <3>5, <1>2, PlainAssignKeeps
    <3>7. work' = <<>>
      BY <1>2, <3>5 DEF Assign, AssignIn, Drops
    <3>8. alive' \cap Ids = alive \cap Ids
      BY <3>5, AssignFreesNoId
    <3>. QED  BY <3>3, <3>6, <3>7, <3>8, SlotFacts DEF IInv, TypeOK, ObjectsOK
  <2>. QED  BY <2>1, <2>2
<1>6. Chained'
  BY <1>1, <1>5 DEF IInv, Chained, chainVars
<1>7. PhaseInv'
  BY <1>1, <1>3, <1>5 DEF IInv, PhaseInv, chainVars
<1>. QED  BY <1>4, <1>5, <1>6, <1>7 DEF IInv, TypeOK, Core

\* Joining the two chains keeps the invariant.
LEMMA EndResurrectKeeps ==
  ASSUME IInv, EndResurrect
  PROVE  IInv'
<1>1. Core'
  BY CoreUnchanged DEF EndResurrect
<1>2. PICK last \in Ids : /\ chain[last] = "gc" /\ nxt[last] = Nil
                          /\ nxt' = [nxt EXCEPT ![last] = head["t"]]
                          /\ prv' = [prv EXCEPT ![head["t"]] = last]
  BY DEF EndResurrect, After
<1>3. /\ head' = [head EXCEPT !["t"] = Nil]
      /\ chain' = [o \in Ids |-> IF chain[o] = "t" THEN "gc" ELSE chain[o]]
      /\ mark' = {} /\ phase' = "run" /\ cur = Nil
      /\ UNCHANGED <<alive, slot, work, cur, closing, dropped, garbage>>
  BY DEF EndResurrect
<1>4. ChainsOK' /\ CollectorOK'
  BY <1>2, <1>3 DEF IInv, TypeOK, ChainsOK, CollectorOK, Phases
<1>5. Linked'
  <2>1. head["t"] # Nil => /\ head["t"] \in Ids /\ chain[head["t"]] = "t" /\ prv[head["t"]] = Nil
                           /\ \A o \in Ids : nxt[o] # head["t"]
    BY HeapAssumption DEF IInv, TypeOK, ChainsOK, Linked
  <2>2. CASE head["t"] = Nil
    BY <2>2, <1>2, <1>3, HeapAssumption DEF IInv, TypeOK, ChainsOK, Linked
  <2>3. CASE head["t"] # Nil
    BY <2>1, <2>3, <1>2, <1>3, HeapAssumption DEF IInv, TypeOK, ChainsOK, Linked
  <2>. QED  BY <2>2, <2>3
<1>6. Chained' /\ PhaseInv'
  BY <1>3 DEF IInv, TypeOK, ChainsOK, Chained, PhaseInv
<1>. QED  BY <1>1, <1>4, <1>5, <1>6 DEF IInv, TypeOK, Core

\* So does a step that changes nothing.
LEMMA StutterKeeps ==
  ASSUME IInv, UNCHANGED vars
  PROVE  IInv'
<1>1. Core'
  BY CoreUnchanged DEF vars
<1>2. ChainsOK' /\ CollectorOK' /\ Linked' /\ Chained' /\ PhaseInv'
  BY DEF vars, IInv, TypeOK, ChainsOK, CollectorOK, Linked, Chained, PhaseInv
<1>. QED  BY <1>1, <1>2 DEF IInv, TypeOK, Core

\* An empty heap satisfies the invariant.
LEMMA InitInv == Init => IInv
<1>. SUFFICES ASSUME Init PROVE IInv
  OBVIOUS
<1>1. TypeOK
  <2>1. ObjectsOK
    BY DEF Init, ObjectsOK, Values
  <2>2. ChainsOK
    BY DEF Init, ChainsOK
  <2>3. CollectorOK
    BY DEF Init, CollectorOK, Phases
  <2>. QED  BY <2>1, <2>2, <2>3 DEF TypeOK
<1>2. RefCountExact
  <2>1. ASSUME NEW o \in Objs PROVE Refs(o) = {}
    BY HeapAssumption DEF Init, Refs, Objs
  <2>. QED  BY <2>1, FS_EmptySet DEF Init, RefCountExact
<1>3. SlotsAlive /\ WorkInv /\ WeakRefsPaired
  BY HeapAssumption DEF Init, SlotsAlive, WorkInv, WeakRefsPaired, Paired
<1>4. Linked /\ Chained /\ PhaseInv
  BY SlotFacts DEF Init, Linked, Chained, PhaseInv
<1>. QED  BY <1>1, <1>2, <1>3, <1>4 DEF IInv

\* Every step of the program, of a release and of the collector keeps it.
LEMMA NextInv == IInv /\ [Next]_vars => IInv'
<1>. SUFFICES ASSUME IInv, [Next]_vars PROVE IInv'
  OBVIOUS
<1>1. CASE Mutate
  BY <1>1, NewKeeps, StoreKeeps, DerefKeeps, ClearKeeps, MakeWeakKeeps DEF Mutate
<1>2. CASE Releasing
  BY <1>2, HookEnterKeeps, DestroyFieldKeeps, DestroyUnlinkKeeps, DestroyFreeKeeps
     DEF Releasing
<1>3. CASE HookReturn
  BY <1>3, HookReturnKeeps
<1>4. CASE StartCollect \/ StartClose
  BY <1>4, StartKeeps
<1>5. CASE Collect
  BY <1>5, MarkVisitKeeps, MarkEndKeeps, BeginSweepKeeps, FinalizeFieldKeeps,
     TakeNextKeeps, ReleaseTKeeps, AdvanceKeeps, EndSweepKeeps, StartResurrectKeeps,
     ResurrectNextKeeps, EndResurrectKeeps, CloseRootKeeps DEF Collect
<1>6. CASE UNCHANGED vars
  BY <1>6, StutterKeeps
<1>. QED  BY <1>1, <1>2, <1>3, <1>4, <1>5, <1>6 DEF Next

(***************************************************************************)
(* The theorems.                                                           *)
(***************************************************************************)

\* IInv holds in every reachable state of the heap, whatever the objects, the
\* fields, the roots and the objects with release hooks.
THEOREM Invariance == Spec => []IInv
  BY InitInv, NextInv, PTL DEF Spec

\* The heap's variables always have their types.
THEOREM Typing == Spec => []TypeOK
<1>1. IInv => TypeOK
  BY DEF IInv
<1>. QED  BY <1>1, Invariance, PTL

\* The reference count of every object is always the number of slots that
\* refer to it: no addref or release of sqobject.h, sqclass.h or of the
\* collector in sqstate.cpp is missing or done twice.
THEOREM CountsExact == Spec => []RefCountExact
<1>1. IInv => RefCountExact
  BY DEF IInv
<1>. QED  BY <1>1, Invariance, PTL

\* A weak reference names its target until one of them is freed, and then is
\* null (GetWeakRef, SQWeakRef::Release and ~SQRefCounted in sqobject.cpp).
THEOREM WeakRefsSafe == Spec => []WeakRefsPaired
<1>1. IInv => WeakRefsPaired
  BY DEF IInv
<1>. QED  BY <1>1, Invariance, PTL

\* No slot, weak reference or chain link ever refers to freed memory, while
\* destructors, release hooks and the collector interleave.
THEOREM NeverDangling == Spec => []NoDangling
<1>1. IInv => NoDangling
  <2>. SUFFICES ASSUME IInv PROVE NoDangling
    OBVIOUS
  <2>1. \A s \in Slots : slot[s] # Nil => slot[s] \in alive
    BY DEF IInv, SlotsAlive
  <2>2. ASSUME NEW w \in WIds, wobj[w] # Nil PROVE wobj[w] \in alive
    <3>1. wobj[w] \in Ids /\ weakref[wobj[w]] = w /\ w # Nil
      BY <2>2, HeapAssumption DEF IInv, TypeOK, ObjectsOK, WeakRefsPaired, Paired
    <3>. QED  BY <3>1 DEF IInv, WeakRefsPaired, Paired
  <2>3. ASSUME NEW o \in Ids, weakref[o] # Nil PROVE weakref[o] \in alive
    <3>1. weakref[o] \in WIds /\ wobj[weakref[o]] = o /\ o # Nil
      BY <2>3, HeapAssumption DEF IInv, TypeOK, ObjectsOK, WeakRefsPaired, Paired
    <3>. QED  BY <3>1 DEF IInv, WeakRefsPaired, Paired
  <2>4. ASSUME NEW o \in Ids, nxt[o] # Nil PROVE nxt[o] \in alive
    <3>1. nxt[o] \in Ids /\ chain[nxt[o]] # "none"
      BY <2>4 DEF IInv, TypeOK, ChainsOK, Linked
    <3>. QED  BY <3>1 DEF IInv, Chained
  <2>. QED  BY <2>1, <2>2, <2>3, <2>4 DEF NoDangling
<1>. QED  BY <1>1, Invariance, PTL
=============================================================================
