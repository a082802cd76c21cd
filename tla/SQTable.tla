------------------------------ MODULE SQTable ------------------------------
(***************************************************************************)
(* The hash table of the virtual machine (squirrel/sqtable.h, sqtable.cpp):*)
(* an array of nodes, collisions chained through the array itself with     *)
(* Brent's variation, free places handed out from the top down, and a      *)
(* rehash when none is left or after a removal.                            *)
(*                                                                         *)
(* Node pointers are indices 0 .. Size-1, NULL is NoNode (SQLinks).  Keys, *)
(* values and hash codes are abstract; hash is fixed in the initial state  *)
(* and the runs range over a set of hash functions.                        *)
(***************************************************************************)
EXTENDS Integers, FiniteSets, Sequences, SequencesExt, SQLinks

CONSTANTS Keys, Vals, Nil,
          HashFuns,        \* hash codes of Keys \cup {Nil} to try
          InitialSizes,    \* values of nInitialSize to try
          Traversed        \* those of HashFuns for which a script traverses the table meanwhile

MINPOWER2 == 4

ASSUME KeysAssumption == IsFiniteSet(Keys) /\ Nil \notin Keys \cup Vals

\* HashObj(null) is hashptr of a null pointer.
ASSUME HashAssumption ==
  \A h \in HashFuns : h \in [Keys \cup {Nil} -> Nat] /\ h[Nil] = 0

ASSUME SizesAssumption == InitialSizes \subseteq Int

VARIABLES tb,     \* [nodes, firstfree, used, nested]
          hash,   \* HashObj
          iter    \* a script's traversal: [pos, seen, twice]

vars == <<tb, hash, iter>>

-----------------------------------------------------------------------------
(* Node arrays. *)

EmptyNode == [key |-> Nil, val |-> Nil, next |-> NoNode]

Size(t) == Cardinality(DOMAIN t.nodes)

AllocNodes(n) == [nodes |-> [i \in 0 .. n - 1 |-> EmptyNode],
                  firstfree |-> n - 1, used |-> 0, nested |-> FALSE]

\* No odd number but 1 divides n.
IsPowerOfTwo(n) == \A d \in 2 .. n : n % d = 0 => d % 2 = 0

\* The constructor: pow2size is doubled from MINPOWER2 on until it is not below
\* the wanted size.
NewTable(nInitialSize) ==
  AllocNodes(Min({pow2size \in MINPOWER2 .. 2 * Max({nInitialSize, MINPOWER2}) :
                    IsPowerOfTwo(pow2size) /\ pow2size >= nInitialSize}))

\* HashObj(key) & (_numofnodes - 1)
MainPos(t, key) == hash[key] % Size(t)

\* The nodes met from index i along the next pointers; ChainsAcyclic says that
\* a walk has an end.
Chain(t, i) == NodesFrom(t.nodes, i)

\* Mutant: the search stops at a removed node.
GetStoppingAtHole(t, key) ==
  LET c == Chain(t, MainPos(t, key))
      k == SelectInSeq(c, LAMBDA i : t.nodes[i].key \in {key, Nil})
  IN  IF k = 0 \/ t.nodes[c[k]].key # key THEN NoNode ELSE c[k]

\* _Get: the first node of the key's chain that holds the key.  A null key
\* meets an empty node of the chain that starts at node 0.
_Get(t, key) ==
  LET c == Chain(t, MainPos(t, key))
      k == SelectInSeq(c, LAMBDA i : t.nodes[i].key = key)
  IN  IF k = 0 THEN NoNode ELSE c[k]

-----------------------------------------------------------------------------
(* Insertion and rehash. *)

\* Mutant: the new node does not inherit the rest of the chain.
PlaceOverwritingLink(t, key) ==
  LET mp == MainPos(t, key)
      n == t.firstfree
      othern == MainPos(t, t.nodes[mp].key)
      prev == CHOOSE p \in Range(Chain(t, othern)) : t.nodes[p].next = mp
  IN  IF t.nodes[mp].key = Nil
      THEN [at |-> mp, nodes |-> [t.nodes EXCEPT ![mp].key = key]]
      ELSE IF mp > n /\ othern # mp
      THEN [at |-> mp,
            nodes |-> [t.nodes EXCEPT ![prev].next = n, ![n] = t.nodes[mp],
                                      ![mp] = [EmptyNode EXCEPT !.key = key]]]
      ELSE [at |-> n,
            nodes |-> [t.nodes EXCEPT ![mp].next = n, ![n].key = key]]

\* Where the key goes and what the node array is once it is there.  When the
\* main position is taken by a node that is not at its own main position, that
\* node moves to the free place; otherwise the new key takes the free place.
Place(t, key) ==
  LET mp == MainPos(t, key)
      n == t.firstfree
      othern == MainPos(t, t.nodes[mp].key)
      prev == CHOOSE p \in Range(Chain(t, othern)) : t.nodes[p].next = mp
  IN  IF t.nodes[mp].key = Nil
      THEN [at |-> mp, nodes |-> [t.nodes EXCEPT ![mp].key = key]]
      ELSE IF mp > n /\ othern # mp
      THEN [at |-> mp,
            nodes |-> [t.nodes EXCEPT ![prev].next = n, ![n] = t.nodes[mp],
                                      ![mp] = [EmptyNode EXCEPT !.key = key]]]
      ELSE [at |-> n,
            nodes |-> [t.nodes EXCEPT ![mp].next = n,
                                      ![n].key = key,
                                      ![n].next = t.nodes[mp].next]]

\* A place that can be handed out: empty, and not a link of some chain.
IsFree(node) == node.key = Nil /\ node.next = NoNode

\* The body of NewSlot up to the return that follows "correct `firstfree'".
\* full: no free place is left, the key is in its node but its value is not
\* stored and it is not counted.
TryNewSlot(t, key, val) ==
  LET hit == _Get(t, key)
      p == Place(t, key)
      free == {i \in 0 .. t.firstfree : IsFree(p.nodes[i])}
  IN  IF hit # NoNode
      THEN [tb |-> [t EXCEPT !.nodes[hit].val = val], ok |-> FALSE, full |-> FALSE]
      ELSE IF free # {}
      THEN [tb |-> [t EXCEPT !.nodes = [p.nodes EXCEPT ![p.at].val = val],
                             !.firstfree = Max(free),
                             !.used = @ + 1],
            ok |-> TRUE, full |-> FALSE]
      ELSE [tb |-> [t EXCEPT !.nodes = p.nodes, !.firstfree = 0],
            ok |-> FALSE, full |-> TRUE]

\* Mutant: the array is halved from half use on.
RehashSizeEager(t, force) ==
  CASE t.used >= Size(t) - Size(t) \div 4 -> Size(t) * 2
    [] t.used < Size(t) - Size(t) \div 4
         /\ t.used <= Size(t) \div 2 /\ Size(t) > MINPOWER2 -> Size(t) \div 2
    [] OTHER -> IF force THEN Size(t) ELSE 0

\* The size Rehash allocates, 0 when it returns without rehashing.
RehashSize(t, force) ==
  CASE t.used >= Size(t) - Size(t) \div 4 -> Size(t) * 2
    [] t.used < Size(t) - Size(t) \div 4
         /\ t.used <= Size(t) \div 4 /\ Size(t) > MINPOWER2 -> Size(t) \div 2
    [] OTHER -> IF force THEN Size(t) ELSE 0

\* NewSlot of the key and the value of a node of another array.  nested records
\* that no place was left, which the code would answer with a rehash inside the
\* loop that inserts.
AddBack(t, node) ==
  LET r == TryNewSlot(t, node.key, node.val)
  IN  [r.tb EXCEPT !.nested = @ \/ r.full]

\* Mutant: the scan leaves out the first node.
ReinsertFromOne(new, t) ==
  LET moved[i \in 0 .. Size(t)] ==
        IF i <= 1 THEN new
        ELSE IF t.nodes[i - 1].key = Nil THEN moved[i - 1]
        ELSE AddBack(moved[i - 1], t.nodes[i - 1])
  IN  moved[Size(t)]

\* Every used node of t, in index order, is inserted into the new table.
Reinsert(new, t) ==
  LET moved[i \in 0 .. Size(t)] ==
        IF i = 0 THEN new
        ELSE IF t.nodes[i - 1].key = Nil THEN moved[i - 1]
        ELSE AddBack(moved[i - 1], t.nodes[i - 1])
  IN  moved[Size(t)]

Rehash(t, force) == LET n == RehashSize(t, force)
                    IN  IF n = 0 THEN t ELSE Reinsert(AllocNodes(n), t)

NewSlotResult(t, key, val) ==
  LET r == TryNewSlot(t, key, val)
  IN  IF r.full THEN TryNewSlot(Rehash(r.tb, TRUE), key, val) ELSE r

-----------------------------------------------------------------------------
(* The operations. *)

\* A traversal not begun: nothing yielded, nothing yielded twice.
Idle == [pos |-> 0, seen |-> {}, twice |-> FALSE]

\* No node changed place and no key arrived between t and u.
KeepsPlaces(t, u) ==
  /\ Size(u) = Size(t)
  /\ \A i \in DOMAIN u.nodes : u.nodes[i].key \in {t.nodes[i].key, Nil}

\* The table becomes u.  A traversal under way goes on if the places were
\* kept; otherwise Next promises nothing any more and it is given up.
Become(u) == /\ tb' = u
             /\ iter' = IF KeepsPlaces(tb, u) THEN iter ELSE Idle
             /\ UNCHANGED hash

NewSlot(key, val) == Become(NewSlotResult(tb, key, val).tb)

\* Set has no test for a null key.
SetResult(t, key, val) ==
  LET n == _Get(t, key)
  IN  [ok |-> n # NoNode,
       tb |-> IF n = NoNode THEN t ELSE [t EXCEPT !.nodes[n].val = val]]

Set(key, val) == Become(SetResult(tb, key, val).tb)

\* Get changes nothing; this is its answer.
GetResult(t, key) ==
  LET n == _Get(t, key)
  IN  IF key = Nil \/ n = NoNode THEN [ok |-> FALSE, val |-> Nil]
      ELSE [ok |-> TRUE, val |-> t.nodes[n].val]

\* Remove: the node stays a link of its chain.
RemoveKey(key) ==
  LET n == _Get(tb, key)
      emptied == [tb EXCEPT !.nodes = [@ EXCEPT ![n].key = Nil, ![n].val = Nil], !.used = @ - 1]
  IN  Become(IF n = NoNode THEN tb ELSE Rehash(emptied, FALSE))

\* _ClearNodes keeps the next pointers; the forced rehash drops them.
Clear ==
  LET wiped == [tb EXCEPT !.nodes = [i \in DOMAIN @ |-> [EmptyNode EXCEPT !.next = tb.nodes[i].next]],
                          !.used = 0]
  IN  Become(Rehash(wiped, TRUE))

\* A traversal whose every step inserts into a new table; the model goes on with the copy.
Clone == Become(Reinsert(NewTable(Size(tb)), tb))

\* Mutant: the position returned is the one of the node yielded.
NextStaying ==
  LET ahead == {i \in DOMAIN tb.nodes : i >= iter.pos /\ tb.nodes[i].key # Nil}
      key == tb.nodes[Min(ahead)].key
  IN  /\ iter.pos # NoNode
      /\ iter' = IF ahead = {} THEN [iter EXCEPT !.pos = NoNode]
                 ELSE [pos |-> Min(ahead),
                       seen |-> iter.seen \cup {key},
                       twice |-> iter.twice \/ key \in iter.seen]
      /\ UNCHANGED <<tb, hash>>

\* One step of a traversal: the next used node from position pos on.
Next ==
  LET ahead == {i \in DOMAIN tb.nodes : i >= iter.pos /\ tb.nodes[i].key # Nil}
      key == tb.nodes[Min(ahead)].key
  IN  /\ iter.pos # NoNode
      /\ iter' = IF ahead = {} THEN [iter EXCEPT !.pos = NoNode]
                 ELSE [pos |-> Min(ahead) + 1,
                       seen |-> iter.seen \cup {key},
                       twice |-> iter.twice \/ key \in iter.seen]
      /\ UNCHANGED <<tb, hash>>

Restart == /\ iter.pos = NoNode
           /\ iter' = Idle
           /\ UNCHANGED <<tb, hash>>

Init == /\ hash \in HashFuns
        /\ tb \in {NewTable(n) : n \in InitialSizes}
        /\ iter = Idle

Step == \/ \E key \in Keys, val \in Vals : NewSlot(key, val)
        \/ \E key \in Keys \cup {Nil}, val \in Vals : Set(key, val)
        \/ \E key \in Keys : RemoveKey(key)
        \/ Clear
        \/ Clone
        \/ hash \in Traversed /\ (Next \/ Restart)

Spec == Init /\ [][Step]_vars

-----------------------------------------------------------------------------
(* Properties. *)

NodeType == [key : Keys \cup {Nil}, val : Vals \cup {Nil}, next : Int]

\* The state of the table has its type: a power of two of nodes, next pointers
\* into the array, _firstfree inside it, _usednodes below _numofnodes.
TypeOK ==
  /\ hash \in HashFuns
  /\ IsPowerOfTwo(Size(tb)) /\ Size(tb) >= MINPOWER2
  /\ DOMAIN tb.nodes = 0 .. Size(tb) - 1
  /\ \A i \in DOMAIN tb.nodes : /\ tb.nodes[i] \in NodeType
                                /\ tb.nodes[i].next \in DOMAIN tb.nodes \cup {NoNode}
  /\ tb.firstfree \in DOMAIN tb.nodes
  /\ tb.used \in 0 .. Size(tb) - 1
  /\ iter.pos \in 0 .. Size(tb) \cup {NoNode}

Used(t) == {i \in DOMAIN t.nodes : t.nodes[i].key # Nil}

\* Every stored key is found again by _Get from its main position, whatever
\* insertions, moves of colliding nodes, removals and rehashes came before
\* (NewSlot's relinking, sqtable.cpp:139-160).  It also is the assertion
\* othern->next != NULL: a moved node is on the chain of its main position.
KeysReachable == \A i \in Used(tb) : _Get(tb, tb.nodes[i].key) = i

\* No two nodes link to the same node and no chain of next pointers closes on
\* itself: _Get's do/while ends and relinking one predecessor is enough.
ChainsAcyclic ==
  /\ \A i, j \in DOMAIN tb.nodes :
       i # j /\ tb.nodes[i].next # NoNode => tb.nodes[i].next # tb.nodes[j].next
  /\ \A i \in DOMAIN tb.nodes : tb.nodes[Last(Chain(tb, i))].next = NoNode

\* Between calls _firstfree is a free place (NewSlot uses it without testing
\* it) and _usednodes is the number of nodes in use.
FreeAndUsed == /\ tb.nodes[tb.firstfree].key = Nil /\ tb.nodes[tb.firstfree].next = NoNode
               /\ tb.used = Cardinality(Used(tb))

\* The shape of the node array: what NewSlot, Remove, Rehash, Clear and Clone rely
\* on when they relink chains and hand out places without looking further.
Inv == TypeOK /\ KeysReachable /\ ChainsAcyclic /\ FreeAndUsed

\* The array a rehash allocates always has room for everything it reinserts,
\* the key not counted yet included: Rehash never runs inside Rehash, although
\* Rehash(true) may halve the array while a NewSlot is under way.  Nor does a Clone
\* rehash the copy, whose size is that of the original.
NoNestedRehash == ~tb.nested

\* A traversal during which no node changed place and no key arrived yields
\* no key twice, and when it ends it has yielded every key still present
\* (Next, sqtable.cpp:176-192; Clone and foreach rest on it).
TraversalComplete ==
  /\ ~iter.twice
  /\ iter.pos = NoNode => \A i \in Used(tb) : tb.nodes[i].key \in iter.seen

\* The mapping the node array stands for.
MapOf(t) == [k \in {t.nodes[i].key : i \in Used(t)} |->
               t.nodes[CHOOSE i \in Used(t) : t.nodes[i].key = k].val]

Abstract == INSTANCE SQMap WITH map <- MapOf(tb)

\* The hash table implements the partial function of SQMap: every operation
\* has exactly the effect on the mapping that SQMap gives it.
ImplementsMap == Abstract!MSpec

\* What the operations would answer now is what the mapping says: Get finds
\* the value of a present key and nothing else, Set succeeds on present keys
\* only, and NewSlot answers true for a new key and no other - but for a new
\* key that takes the last place: the call after the rehash finds it there and
\* answers false (sqtable.cpp:172-173, against the comment at sqtable.h:97).
AnswersRight ==
  \A key \in Keys :
    /\ GetResult(tb, key) = Abstract!Lookup(key)
    /\ \A val \in Vals :
         /\ SetResult(tb, key, val).ok <=> Abstract!Lookup(key).ok
         /\ NewSlotResult(tb, key, val).ok
              <=> ~Abstract!Lookup(key).ok /\ ~TryNewSlot(tb, key, val).full

=============================================================================
