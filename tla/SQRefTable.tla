----------------------------- MODULE SQRefTable -----------------------------
(***************************************************************************)
(* The table of the references the host program holds (RefTable,           *)
(* squirrel/sqstate.cpp:392-551), behind sq_addref, sq_release and         *)
(* sq_getrefcount.  Buckets of linked nodes; the nodes of one allocation   *)
(* are either on a bucket's list or on the free list; the table doubles    *)
(* when an object arrives and no node is free, and never shrinks.          *)
(*                                                                         *)
(* held is the host's own ledger: how many references it took on each      *)
(* object and has not given back.                                          *)
(***************************************************************************)
EXTENDS Integers, FiniteSets, Sequences, SequencesExt, SQLinks

CONSTANTS Objs, Nil,
          HashFuns,     \* hash codes of the objects to try
          MaxHeld,      \* bound on the references held on one object
          QueryAny      \* TRUE: the host may ask for the count of an object it
                        \* holds no reference on

ASSUME ObjsAssumption == IsFiniteSet(Objs) /\ Nil \notin Objs
ASSUME HashAssumption == HashFuns \subseteq [Objs -> Nat]
ASSUME BoundAssumption == MaxHeld \in Nat \ {0}

InitialSlots == 4

VARIABLES rt,     \* [buckets, nodes, freelist, slotused]
          hash,   \* HashObj
          held,   \* the host's ledger
          failed  \* an assertion of the code failed

vars == <<rt, hash, held, failed>>

Slots(t) == Cardinality(DOMAIN t.nodes)

AllocNodes(size) ==
  [buckets  |-> [b \in 0 .. size - 1 |-> NoNode],
   nodes    |-> [n \in 0 .. size - 1 |->
                   [obj |-> Nil, refs |-> 0,
                    next |-> IF n = size - 1 THEN NoNode ELSE n + 1]],
   freelist |-> 0,
   slotused |-> 0]

MainPos(t, obj) == hash[obj] % Slots(t)

\* The nodes of the list that starts at node n; ListsEnd says that it has an end.
List(t, n) == NodesFrom(t.nodes, n)

\* Add: the head of the free list becomes the head of the bucket's list.
Add(t, obj) ==
  LET b == MainPos(t, obj)
      n == t.freelist
  IN  [t EXCEPT !.buckets[b] = n,
                !.freelist = t.nodes[n].next,
                !.nodes[n].obj = obj,
                !.nodes[n].next = t.buckets[b],
                !.slotused = @ + 1]

\* Mutant: the counts are not copied.
ResizeForgettingCounts(t, size) ==
  LET moved[i \in 0 .. Slots(t)] ==
        IF i = 0 THEN AllocNodes(size)
        ELSE IF t.nodes[i - 1].obj = Nil THEN moved[i - 1]
        ELSE Add(moved[i - 1], t.nodes[i - 1].obj)
  IN  moved[Slots(t)]

\* The object of the old node n is added, with its count.
AddBack(t, n) == [Add(t, n.obj) EXCEPT !.nodes[t.freelist].refs = n.refs]

\* Every object of the old nodes, in array order, is added to the new nodes
\* and keeps its count.
Resize(t, size) ==
  LET moved[i \in 0 .. Slots(t)] ==
        IF i = 0 THEN AllocNodes(size)
        ELSE IF t.nodes[i - 1].obj = Nil THEN moved[i - 1]
        ELSE AddBack(moved[i - 1], t.nodes[i - 1])
  IN  moved[Slots(t)]

\* The position in List of the node of obj, 0 when there is none.
Find(t, obj) == SelectInSeq(List(t, t.buckets[MainPos(t, obj)]),
                            LAMBDA n : t.nodes[n].obj = obj)

\* Get: the table after the call and the node of obj in it.  With add, an
\* absent object gets a node with no references yet.
Get(t, obj, add) ==
  LET k == Find(t, obj)
      roomy == IF Slots(t) = t.slotused THEN Resize(t, Slots(t) * 2) ELSE t
  IN  CASE k # 0 -> [rt |-> t, ref |-> List(t, t.buckets[MainPos(t, obj)])[k]]
        [] k = 0 /\ add -> [rt |-> Add(roomy, obj), ref |-> roomy.freelist]
        [] OTHER -> [rt |-> t, ref |-> NoNode]

\* The assertions met by Get with add when obj is absent: the free list is
\* empty when all nodes are used, a resize finds every node used and counted,
\* and the node handed out is clean.
GetAsserts(t, obj) ==
  Find(t, obj) = 0 =>
    IF Slots(t) = t.slotused
    THEN /\ t.freelist = NoNode
         /\ \A n \in DOMAIN t.nodes : t.nodes[n].obj # Nil /\ t.nodes[n].refs # 0
    ELSE t.freelist # NoNode /\ t.nodes[t.freelist].refs = 0

AddRef(obj) ==
  LET g == Get(rt, obj, TRUE)
  IN  /\ held[obj] < MaxHeld
      /\ rt' = [g.rt EXCEPT !.nodes[g.ref].refs = @ + 1]
      /\ held' = [held EXCEPT ![obj] = @ + 1]
      /\ failed' = (failed \/ ~GetAsserts(rt, obj))
      /\ UNCHANGED hash

\* GetRefCount looks the object up with add set to true.
GetRefCount(obj) ==
  /\ QueryAny \/ held[obj] > 0
  /\ rt' = Get(rt, obj, TRUE).rt
  /\ failed' = (failed \/ ~GetAsserts(rt, obj))
  /\ UNCHANGED <<hash, held>>

\* Mutant: _slotused is not decremented.
UnlinkUncounted(t, obj) ==
  LET b == MainPos(t, obj)
      k == Find(t, obj)
      list == List(t, t.buckets[b])
      ref == list[k]
      cut == IF k > 1 THEN [t EXCEPT !.nodes[list[k - 1]].next = t.nodes[ref].next]
             ELSE [t EXCEPT !.buckets[b] = t.nodes[ref].next]
  IN  [cut EXCEPT !.nodes[ref] = [obj |-> Nil, refs |-> 0, next |-> t.freelist],
                  !.freelist = ref]

\* The node of obj leaves its bucket's list for the free list.
Unlink(t, obj) ==
  LET b == MainPos(t, obj)
      k == Find(t, obj)
      list == List(t, t.buckets[b])
      ref == list[k]
      cut == IF k > 1 THEN [t EXCEPT !.nodes[list[k - 1]].next = t.nodes[ref].next]
             ELSE [t EXCEPT !.buckets[b] = t.nodes[ref].next]
  IN  [cut EXCEPT !.nodes[ref] = [obj |-> Nil, refs |-> 0, next |-> t.freelist],
                  !.freelist = ref,
                  !.slotused = @ - 1]

\* The host gives back a reference it holds.
Release(obj) ==
  LET ref == Get(rt, obj, FALSE).ref
  IN  /\ held[obj] > 0
      /\ held' = [held EXCEPT ![obj] = @ - 1]
      /\ rt' = CASE ref = NoNode -> rt
                 [] ref # NoNode /\ rt.nodes[ref].refs = 1 -> Unlink(rt, obj)
                 [] OTHER -> [rt EXCEPT !.nodes[ref].refs = @ - 1]
      /\ failed' = (failed \/ ref = NoNode)
      /\ UNCHANGED hash

Init == /\ hash \in HashFuns
        /\ rt = AllocNodes(InitialSlots)
        /\ held = [o \in Objs |-> 0]
        /\ failed = FALSE

Next == \E obj \in Objs : AddRef(obj) \/ GetRefCount(obj) \/ Release(obj)

Spec == Init /\ [][Next]_vars

-----------------------------------------------------------------------------
(* Properties. *)

\* The state of the table has its type.
TypeOK ==
  LET N == DOMAIN rt.nodes
  IN  /\ N = 0 .. Slots(rt) - 1 /\ DOMAIN rt.buckets = N
      /\ \A b \in N : rt.buckets[b] \in N \cup {NoNode}
      /\ \A n \in N : rt.nodes[n] \in [obj : Objs \cup {Nil}, refs : Nat,
                                       next : N \cup {NoNode}]
      /\ rt.freelist \in N \cup {NoNode}
      /\ held \in [Objs -> 0 .. MaxHeld]

\* The nodes on the list that starts at n.
On(t, n) == Range(List(t, n))

\* The walk from n ends, and not for want of fuel.
Ends(t, n) == LET list == List(t, n) IN list = <<>> \/ t.nodes[Last(list)].next = NoNode

\* No list has a cycle: the walks of Get end.
ListsEnd == Ends(rt, rt.freelist) /\ \A b \in DOMAIN rt.buckets : Ends(rt, rt.buckets[b])

\* Every node is on exactly one list: the free list when it is empty, the
\* list of the bucket its object hashes to when it is not; _slotused counts
\* the latter.  A node lost here is never handed out again, a node on two
\* lists is handed out while in use.
NodesPartitioned ==
  LET N == DOMAIN rt.nodes
      free == On(rt, rt.freelist)
      list == [b \in N |-> On(rt, rt.buckets[b])]
  IN  /\ ListsEnd
      /\ \A n \in N : rt.nodes[n].obj = Nil <=> n \in free
      /\ \A n \in N \ free, b \in N : n \in list[b] <=> b = MainPos(rt, rt.nodes[n].obj)
      /\ \A n \in free, b \in N : n \notin list[b]
      /\ rt.slotused = Cardinality(N \ free)

\* The count the table keeps for an object is the number of references the
\* host took and has not given back, through every collision, resize and
\* reuse of a node; an object the host no longer holds has no node, so that
\* the table does not keep it alive (AddRef 424-430, Release 441-467).
CountsAreLedger ==
  /\ \A n \in DOMAIN rt.nodes : rt.nodes[n].obj # Nil => rt.nodes[n].refs > 0
  /\ \A obj \in Objs :
       LET ref == Get(rt, obj, FALSE).ref
       IN  held[obj] = IF ref = NoNode THEN 0 ELSE rt.nodes[ref].refs

\* The table stays sound through every order of references taken and given back.
Inv == TypeOK /\ NodesPartitioned /\ CountsAreLedger

\* The assertions of the code hold (sqstate.cpp:464, 480, 488, 500, 518), 480
\* being assert(t->refs != 0) in Resize.
AssertionsHold == ~failed
=============================================================================
