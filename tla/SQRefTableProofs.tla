-------------------------- MODULE SQRefTableProofs --------------------------
(***************************************************************************)
(* Proofs about SQRefTable: the lists partition the nodes, and the counts  *)
(* are the host's ledger, for any objects and hash codes and any size.     *)
(***************************************************************************)
EXTENDS SQRefTable, SQFacts

-----------------------------------------------------------------------------
(* Lists of the table. *)

Typed(t, Z) ==
  /\ Z \in Nat \ {0}
  /\ t \in [buckets  : [0 .. Z - 1 -> 0 .. Z - 1 \cup {NoNode}],
            nodes    : [0 .. Z - 1 -> [obj : Objs \cup {Nil}, refs : Nat, next : 0 .. Z - 1 \cup {NoNode}]],
            freelist : 0 .. Z - 1 \cup {NoNode},
            slotused : Nat]

LEMMA SlotsFact ==
  ASSUME NEW t, NEW Z, Typed(t, Z)
  PROVE  Slots(t) = Z /\ DOMAIN t.nodes = 0 .. Z - 1 /\ DOMAIN t.buckets = 0 .. Z - 1
<1>1. Z \in Nat \ {0} /\ DOMAIN t.nodes = 0 .. Z - 1 /\ DOMAIN t.buckets = 0 .. Z - 1
  BY DEF Typed
<1>2. Cardinality(0 .. Z - 1) = IF 0 > Z - 1 THEN 0 ELSE Z - 1 - 0 + 1
  <2>1. 0 \in Int /\ Z - 1 \in Int
    BY <1>1
  <2>. HIDE DEF Typed
  <2>. QED  BY <2>1, FS_Interval
<1>3. Cardinality(0 .. Z - 1) = Z
  BY <1>1, <1>2
<1>. QED  BY <1>1, <1>3 DEF Slots

\* What the properties say of a list.
LEMMA ListFacts ==
  ASSUME NEW t, NEW Z, Typed(t, Z), NEW h, NEW S, ListOf(t.nodes, h, S), S \subseteq 0 .. Z - 1
  PROVE  On(t, h) = S /\ Ends(t, h)
<1>1. PICK k, s : Strung(t.nodes, h, S, k, s)
  BY DEF ListOf
<1>2. List(t, h) = s /\ s \in Seq(S) /\ Len(s) = k
  <2>1. LinkedIn(t.nodes, Z)
    BY SlotsFact DEF Typed, LinkedIn
  <2>. QED  BY <1>1, <2>1, WalkIs DEF List
<1>3. /\ k \in Nat /\ DOMAIN s = 1 .. k /\ (\A i \in 1 .. k : s[i] \in S)
      /\ (\A x \in S : \E i \in 1 .. k : s[i] = x)
  BY <1>1 DEF Strung
<1>4. On(t, h) = S
  BY <1>2, <1>3 DEF On, Range
<1>5. Ends(t, h)
  <2>1. CASE s = <<>>
    BY <1>2, <2>1 DEF Ends
  <2>2. CASE s # <<>>
    <3>1. k \in 1 .. k
      BY <1>2, <1>3, <2>2, EmptySeq
    <3>2. t.nodes[s[k]].next = NoNode
      BY <1>1, <3>1 DEF Strung
    <3>. QED  BY <1>2, <3>2 DEF Ends, Last
  <2>. QED  BY <2>1, <2>2
<1>. QED  BY <1>4, <1>5

-----------------------------------------------------------------------------
(* The table. *)

Free(t, Z) == {n \in 0 .. Z - 1 : t.nodes[n].obj = Nil}
Taken(t, Z) == {n \in 0 .. Z - 1 : t.nodes[n].obj # Nil}
\* The nodes whose objects belong to bucket b.
Hashed(hs, t, Z, b) == {n \in 0 .. Z - 1 : t.nodes[n].obj # Nil /\ hs[t.nodes[n].obj] % Z = b}

\* The free nodes are on the free list and clean, the others each on the list of
\* its bucket; no object has two nodes; _slotused counts.
Sound(hs, t, Z) ==
  /\ hs \in [Objs -> Nat] /\ Typed(t, Z)
  /\ ListOf(t.nodes, t.freelist, Free(t, Z))
  /\ \A b \in 0 .. Z - 1 : ListOf(t.nodes, t.buckets[b], Hashed(hs, t, Z, b))
  /\ \A n \in Free(t, Z) : t.nodes[n].refs = 0
  /\ \A n, m \in Taken(t, Z) : t.nodes[n].obj = t.nodes[m].obj => n = m
  /\ t.slotused = Cardinality(Taken(t, Z))

\* The remainder by the size is a bucket.
LEMMA PosType ==
  ASSUME NEW x \in Nat, NEW Z \in Nat \ {0}
  PROVE  x % Z \in 0 .. Z - 1
OBVIOUS

LEMMA SoundFacts ==
  ASSUME NEW hs, NEW t, NEW Z, Sound(hs, t, Z)
  PROVE  /\ Z \in Nat \ {0} /\ hs \in [Objs -> Nat] /\ Nil \notin Objs
         /\ t = [buckets |-> t.buckets, nodes |-> t.nodes, freelist |-> t.freelist, slotused |-> t.slotused]
         /\ t.nodes \in [0 .. Z - 1 -> [obj : Objs \cup {Nil}, refs : Nat, next : 0 .. Z - 1 \cup {NoNode}]]
         /\ t.buckets \in [0 .. Z - 1 -> 0 .. Z - 1 \cup {NoNode}]
         /\ t.freelist \in 0 .. Z - 1 \cup {NoNode} /\ t.slotused \in Nat
         /\ NoNode \notin 0 .. Z - 1
         /\ \A n \in Taken(t, Z) : t.nodes[n].obj \in Objs
BY ObjsAssumption, SMTT(40) DEF Sound, Typed, NoNode, Taken

\* The free list is empty when every node is taken, and only then.
LEMMA FreeFacts ==
  ASSUME NEW hs, NEW t, NEW Z, Sound(hs, t, Z)
  PROVE  /\ t.slotused = Z <=> t.freelist = NoNode
         /\ t.slotused <= Z
         /\ t.slotused = Z => Taken(t, Z) = 0 .. Z - 1
         /\ t.freelist # NoNode => t.freelist \in Free(t, Z)
         /\ IsFiniteSet(Taken(t, Z))
<1>1. Z \in Nat \ {0} /\ NoNode \notin 0 .. Z - 1
  BY SoundFacts
<1>2. IsFiniteSet(0 .. Z - 1) /\ Cardinality(0 .. Z - 1) = Z
  <2>1. 0 \in Int /\ Z - 1 \in Int
    BY <1>1
  <2>2. IsFiniteSet(0 .. Z - 1) /\ Cardinality(0 .. Z - 1) = IF 0 > Z - 1 THEN 0 ELSE Z - 1 - 0 + 1
    BY <2>1, FS_Interval
  <2>. QED  BY <1>1, <2>2
<1>3. Taken(t, Z) \in SUBSET (0 .. Z - 1) /\ Free(t, Z) = (0 .. Z - 1) \ Taken(t, Z)
  BY DEF Taken, Free
<1>4. /\ IsFiniteSet(Taken(t, Z)) /\ Cardinality(Taken(t, Z)) <= Z
      /\ Z = Cardinality(Taken(t, Z)) => 0 .. Z - 1 = Taken(t, Z)
  BY <1>2, <1>3, FS_Subset, ZenonT(60)
<1>5. NoNode \notin Free(t, Z) /\ ListOf(t.nodes, t.freelist, Free(t, Z)) /\ t.slotused = Cardinality(Taken(t, Z))
  BY <1>1, <1>3 DEF Sound
<1>6. (Free(t, Z) = {} <=> t.freelist = NoNode) /\ (t.freelist # NoNode => t.freelist \in Free(t, Z))
  BY <1>5, ListHead
<1>. QED  BY <1>2, <1>3, <1>4, <1>5, <1>6

\* A new allocation has every node on the free list.
LEMMA AllocSound ==
  ASSUME NEW hs \in [Objs -> Nat], NEW Z \in Nat \ {0}
  PROVE  Sound(hs, AllocNodes(Z), Z) /\ Taken(AllocNodes(Z), Z) = {} /\ AllocNodes(Z).slotused = 0
<1>. DEFINE t == AllocNodes(Z)
            s == [i \in 1 .. Z |-> i - 1]
<1>1. /\ t.buckets = [b \in 0 .. Z - 1 |-> NoNode] /\ t.freelist = 0 /\ t.slotused = 0
      /\ t.nodes = [n \in 0 .. Z - 1 |-> [obj |-> Nil, refs |-> 0, next |-> IF n = Z - 1 THEN NoNode ELSE n + 1]]
      /\ t = [buckets |-> t.buckets, nodes |-> t.nodes, freelist |-> t.freelist, slotused |-> t.slotused]
  BY DEF AllocNodes
<1>. HIDE DEF t
<1>2. \A n \in 0 .. Z - 1 : /\ t.nodes[n].obj = Nil /\ t.nodes[n].refs = 0
                            /\ t.nodes[n].next = IF n = Z - 1 THEN NoNode ELSE n + 1
  BY <1>1
<1>3. Typed(t, Z)
  <2>1. t.nodes \in [0 .. Z - 1 -> [obj : Objs \cup {Nil}, refs : Nat, next : 0 .. Z - 1 \cup {NoNode}]]
    BY <1>1
  <2>2. t.buckets \in [0 .. Z - 1 -> 0 .. Z - 1 \cup {NoNode}] /\ t.freelist \in 0 .. Z - 1 /\ t.slotused \in Nat
    BY <1>1
  <2>. QED  BY <1>1, <2>1, <2>2 DEF Typed
<1>4. Free(t, Z) = 0 .. Z - 1 /\ Taken(t, Z) = {} /\ \A b : Hashed(hs, t, Z, b) = {}
  BY <1>2 DEF Free, Taken, Hashed
<1>5. Strung(t.nodes, t.freelist, 0 .. Z - 1, Z, s)
  <2>1. s \in [1 .. Z -> 0 .. Z - 1] /\ (\A i \in 1 .. Z : s[i] = i - 1)
    OBVIOUS
  <2>. HIDE DEF s
  <2>2. \A x \in 0 .. Z - 1 : \E i \in 1 .. Z : s[i] = x
    <3>1. \A x \in 0 .. Z - 1 : x + 1 \in 1 .. Z /\ (x + 1) - 1 = x
      OBVIOUS
    <3>. QED  BY <2>1, <3>1
  <2>3. \A i, j \in 1 .. Z : s[i] = s[j] => i = j
    BY <2>1
  <2>4. t.freelist = IF Z = 0 THEN NoNode ELSE s[1]
    BY <1>1, <2>1
  <2>5. ASSUME NEW i \in 1 .. Z PROVE t.nodes[s[i]].next = IF i = Z THEN NoNode ELSE s[i + 1]
    <3>1. s[i] = i - 1 /\ i - 1 \in 0 .. Z - 1 /\ (i - 1 = Z - 1 <=> i = Z) /\ (i - 1) + 1 = i
      BY <2>1
    <3>2. i # Z => i + 1 \in 1 .. Z /\ (i + 1) - 1 = i
      OBVIOUS
    <3>3. i # Z => s[i + 1] = i
      BY <2>1, <3>2
    <3>. QED  BY <1>2, <3>1, <3>3
  <2>. QED  BY <2>1, <2>2, <2>3, <2>4, <2>5 DEF Strung
<1>6. ListOf(t.nodes, t.freelist, Free(t, Z))
  BY <1>4, <1>5 DEF ListOf
<1>7. \A b \in 0 .. Z - 1 : ListOf(t.nodes, t.buckets[b], Hashed(hs, t, Z, b))
  BY <1>1, <1>4, ListOfNone
<1>8. Sound(hs, t, Z)
  BY <1>1, <1>2, <1>3, <1>4, <1>6, <1>7, FS_EmptySet DEF Sound, Free
<1>. QED  BY <1>1, <1>4, <1>8 DEF t


\* The table with other buckets and nodes, field by field.
LEMMA AddFields ==
  ASSUME NEW t, NEW Z, Sound(hash, t, Z), NEW obj \in Objs, t.freelist # NoNode
  PROVE  LET u == Add(t, obj)
             b == hash[obj] % Z
             n == t.freelist
         IN  /\ u = [buckets |-> u.buckets, nodes |-> u.nodes, freelist |-> u.freelist, slotused |-> u.slotused]
             /\ u.buckets = [t.buckets EXCEPT ![b] = n]
             /\ u.freelist = t.nodes[n].next
             /\ u.slotused = t.slotused + 1
             /\ u.nodes = [t.nodes EXCEPT ![n] = [obj |-> obj, refs |-> t.nodes[n].refs, next |-> t.buckets[b]]]
<1>. DEFINE b == hash[obj] % Z
            n == t.freelist
            B == t.buckets
            N == t.nodes
            F == t.freelist
            U == t.slotused
<1>1. t = [buckets |-> B, nodes |-> N, freelist |-> F, slotused |-> U] /\ n \in 0 .. Z - 1
  BY SoundFacts
<1>2. N \in [0 .. Z - 1 -> [obj : Objs \cup {Nil}, refs : Nat, next : 0 .. Z - 1 \cup {NoNode}]]
  BY SoundFacts
<1>3. MainPos(t, obj) = b
  BY SlotsFact DEF MainPos, Sound
<1>. HIDE DEF b
<1>4. Add(t, obj) = [t EXCEPT !.buckets[b] = n, !.freelist = t.nodes[n].next, !.nodes[n].obj = obj,
                              !.nodes[n].next = t.buckets[b], !.slotused = @ + 1]
  BY <1>3 DEF Add
<1>5. [[N EXCEPT ![n].obj = obj] EXCEPT ![n].next = B[b]]
        = [N EXCEPT ![n] = [obj |-> obj, refs |-> N[n].refs, next |-> B[b]]]
  <2>1. N[n] = [obj |-> N[n].obj, refs |-> N[n].refs, next |-> N[n].next]
    BY <1>1, <1>2
  <2>. DEFINE K == [N EXCEPT ![n].obj = obj]
              L == [K EXCEPT ![n].next = B[b]]
              x == [obj |-> obj, refs |-> N[n].refs, next |-> B[b]]
              R == [N EXCEPT ![n] = x]
  <2>2. DOMAIN N = 0 .. Z - 1 /\ N = [m \in 0 .. Z - 1 |-> N[m]]
    BY <1>2
  <2>. HIDE DEF N, n, B
  <2>3. K[n] = [obj |-> obj, refs |-> N[n].refs, next |-> N[n].next]
    BY <1>1, <2>1, <2>2
  <2>4. (\A m \in 0 .. Z - 1 : m # n => K[m] = N[m]) /\ DOMAIN K = 0 .. Z - 1
    BY <2>2
  <2>. HIDE DEF K
  <2>5. L[n] = x
    BY <1>1, <2>3, <2>4
  <2>6. (\A m \in 0 .. Z - 1 : m # n => L[m] = N[m]) /\ L = [m \in 0 .. Z - 1 |-> L[m]]
    BY <2>4
  <2>7. R[n] = x /\ (\A m \in 0 .. Z - 1 : m # n => R[m] = N[m]) /\ R = [m \in 0 .. Z - 1 |-> R[m]]
    BY <1>1, <2>2
  <2>. HIDE DEF L, R, x
  <2>8. L = R
    BY <2>5, <2>6, <2>7
  <2>. QED  BY <2>8 DEF L, R, K, x
<1>6. Add(t, obj) = [buckets |-> [B EXCEPT ![b] = n], nodes |-> [[N EXCEPT ![n].obj = obj] EXCEPT ![n].next = B[b]],
                     freelist |-> N[n].next, slotused |-> U + 1]
  BY <1>1, <1>4, ZenonT(60)
<1>. HIDE DEF B, N, F, U, n
<1>7. Add(t, obj) = [buckets |-> [B EXCEPT ![b] = n],
                     nodes |-> [N EXCEPT ![n] = [obj |-> obj, refs |-> N[n].refs, next |-> B[b]]],
                     freelist |-> N[n].next, slotused |-> U + 1]
  BY <1>5, <1>6
<1>. QED  BY <1>7 DEF B, N, F, U, n, b

\* t has a node for obj.
Holds(t, Z, obj) == \E n \in 0 .. Z - 1 : t.nodes[n].obj = obj

LEMMA AddSound ==
  ASSUME NEW t, NEW Z, Sound(hash, t, Z), NEW obj \in Objs, t.freelist # NoNode, ~Holds(t, Z, obj)
  PROVE  LET u == Add(t, obj)
             n == t.freelist
         IN  /\ Sound(hash, u, Z) /\ u.slotused = t.slotused + 1
             /\ n \in Free(t, Z) /\ Taken(u, Z) = Taken(t, Z) \cup {n}
             /\ u.nodes[n].obj = obj /\ u.nodes[n].refs = 0
             /\ \A m \in 0 .. Z - 1 : m # n => u.nodes[m].obj = t.nodes[m].obj /\ u.nodes[m].refs = t.nodes[m].refs
<1>. DEFINE u == Add(t, obj)
            b == hash[obj] % Z
            n == t.freelist
            x == [obj |-> obj, refs |-> t.nodes[n].refs, next |-> t.buckets[b]]
<1>1. /\ u = [buckets |-> u.buckets, nodes |-> u.nodes, freelist |-> u.freelist, slotused |-> u.slotused]
      /\ u.buckets = [t.buckets EXCEPT ![b] = n]
      /\ u.freelist = t.nodes[n].next
      /\ u.slotused = t.slotused + 1
      /\ u.nodes = [t.nodes EXCEPT ![n] = x]
  BY AddFields
<1>. HIDE DEF u
<1>2. /\ Z \in Nat \ {0} /\ hash \in [Objs -> Nat] /\ Nil \notin Objs /\ t.slotused \in Nat
      /\ t.nodes \in [0 .. Z - 1 -> [obj : Objs \cup {Nil}, refs : Nat, next : 0 .. Z - 1 \cup {NoNode}]]
      /\ t.buckets \in [0 .. Z - 1 -> 0 .. Z - 1 \cup {NoNode}] /\ NoNode \notin 0 .. Z - 1
  BY SoundFacts
<1>3. n \in Free(t, Z) /\ n \in 0 .. Z - 1 /\ t.nodes[n].obj = Nil /\ t.nodes[n].refs = 0
  BY FreeFacts DEF Free, Sound
<1>4. b \in 0 .. Z - 1
  <2>1. hash[obj] \in Nat
    BY <1>2
  <2>. QED  BY <1>2, <2>1, PosType
<1>. HIDE DEF b, n
<1>5. u.nodes[n] = x /\ \A m \in 0 .. Z - 1 : m # n => u.nodes[m] = t.nodes[m]
  BY <1>1, <1>2, <1>3
<1>6. x \in [obj : Objs \cup {Nil}, refs : Nat, next : 0 .. Z - 1 \cup {NoNode}]
  BY <1>2, <1>3, <1>4
<1>7. Typed(u, Z)
  <2>1. u.nodes \in [0 .. Z - 1 -> [obj : Objs \cup {Nil}, refs : Nat, next : 0 .. Z - 1 \cup {NoNode}]]
    <3>. HIDE DEF x
    <3>. QED  BY <1>1, <1>2, <1>3, <1>6
  <2>2. u.buckets \in [0 .. Z - 1 -> 0 .. Z - 1 \cup {NoNode}]
    BY <1>1, <1>2, <1>3, ZenonT(60)
  <2>3. u.freelist \in 0 .. Z - 1 \cup {NoNode} /\ u.slotused \in Nat
    BY <1>1, <1>2, <1>3
  <2>. QED  BY <1>1, <1>2, <2>1, <2>2, <2>3 DEF Typed
<1>8. /\ Free(u, Z) = Free(t, Z) \ {n} /\ Taken(u, Z) = Taken(t, Z) \cup {n} /\ n \notin Taken(t, Z)
      /\ \A c : c # b => Hashed(hash, u, Z, c) = Hashed(hash, t, Z, c)
      /\ Hashed(hash, u, Z, b) = Hashed(hash, t, Z, b) \cup {n}
      /\ \A c : n \notin Hashed(hash, t, Z, c)
  <2>1. u.nodes[n].obj = obj /\ obj # Nil /\ hash[u.nodes[n].obj] % Z = b
    BY <1>2, <1>5 DEF b
  <2>. HIDE DEF x
  <2>. QED  BY <1>3, <1>5, <2>1 DEF Free, Taken, Hashed
<1>9. ListOf(u.nodes, u.freelist, Free(u, Z))
  <2>1. SameLinks(t.nodes, u.nodes, Free(t, Z) \ {n})
    BY <1>5 DEF SameLinks, Free
  <2>2. ListOf(t.nodes, n, Free(t, Z)) /\ NoNode \notin Free(t, Z) /\ n # NoNode
    BY <1>2 DEF Sound, Free, n
  <2>. QED  BY <1>1, <1>8, <2>1, <2>2, ListPop
<1>10. ASSUME NEW c \in 0 .. Z - 1 PROVE ListOf(u.nodes, u.buckets[c], Hashed(hash, u, Z, c))
  <2>1. SameLinks(t.nodes, u.nodes, Hashed(hash, t, Z, c))
    <3>1. \A m \in Hashed(hash, t, Z, c) : m # n /\ m \in 0 .. Z - 1
      BY <1>8 DEF Hashed
    <3>. QED  BY <1>5, <3>1 DEF SameLinks
  <2>2. ListOf(t.nodes, t.buckets[c], Hashed(hash, t, Z, c))
    BY DEF Sound
  <2>3. CASE c = b
    <3>1. u.buckets[c] = n /\ u.nodes[n].next = t.buckets[c]
      BY <1>1, <1>2, <1>4, <1>5, <2>3
    <3>. QED  BY <1>8, <2>1, <2>2, <2>3, <3>1, ListPush
  <2>4. CASE c # b
    <3>1. u.buckets[c] = t.buckets[c]
      BY <1>1, <1>2, <2>4
    <3>. QED  BY <1>8, <2>1, <2>2, <2>4, <3>1, ListKept
  <2>. QED  BY <2>3, <2>4
<1>11. \A m \in Free(u, Z) : u.nodes[m].refs = 0
  BY <1>5, <1>8 DEF Sound, Free
<1>12. ASSUME NEW m \in Taken(u, Z), NEW k \in Taken(u, Z), u.nodes[m].obj = u.nodes[k].obj PROVE m = k
  <2>1. \A i \in Taken(t, Z) : i \in 0 .. Z - 1 /\ i # n /\ t.nodes[i].obj # obj /\ u.nodes[i] = t.nodes[i]
    BY <1>5, <1>8 DEF Taken, Holds
  <2>2. u.nodes[n].obj = obj
    BY <1>5
  <2>. HIDE DEF x
  <2>. QED  BY <1>8, <1>12, <2>1, <2>2 DEF Sound
<1>13. u.slotused = Cardinality(Taken(u, Z))
  <2>1. IsFiniteSet(Taken(t, Z)) /\ t.slotused = Cardinality(Taken(t, Z))
    BY FreeFacts DEF Sound
  <2>2. Cardinality(Taken(t, Z) \cup {n}) = Cardinality(Taken(t, Z)) + 1
    BY <1>8, <2>1, FS_AddElement
  <2>. HIDE DEF x
  <2>. QED  BY <1>1, <1>8, <2>1, <2>2
<1>14. Sound(hash, u, Z)
  BY <1>2, <1>7, <1>9, <1>10, <1>11, <1>12, <1>13 DEF Sound
<1>15. u.nodes[n].obj = obj /\ u.nodes[n].refs = 0
  BY <1>3, <1>5
<1>16. \A m \in 0 .. Z - 1 : m # n => u.nodes[m].obj = t.nodes[m].obj /\ u.nodes[m].refs = t.nodes[m].refs
  BY <1>5
<1>. QED  BY <1>1, <1>3, <1>8, <1>14, <1>15, <1>16 DEF u, n


\* Another count for one node.
WithRefs(t, n, r) == [t EXCEPT !.nodes[n].refs = r]

LEMMA RefsSound ==
  ASSUME NEW hs, NEW t, NEW Z, Sound(hs, t, Z), NEW n \in Taken(t, Z), NEW r \in Nat
  PROVE  LET u == WithRefs(t, n, r)
         IN  /\ Sound(hs, u, Z) /\ u.slotused = t.slotused /\ Taken(u, Z) = Taken(t, Z)
             /\ u.nodes[n].refs = r
             /\ \A m \in 0 .. Z - 1 : /\ u.nodes[m].obj = t.nodes[m].obj
                                      /\ m # n => u.nodes[m].refs = t.nodes[m].refs
<1>. DEFINE u == WithRefs(t, n, r)
            N == t.nodes
            x == [obj |-> N[n].obj, refs |-> r, next |-> N[n].next]
<1>1. /\ Z \in Nat \ {0} /\ hs \in [Objs -> Nat] /\ NoNode \notin 0 .. Z - 1
      /\ N \in [0 .. Z - 1 -> [obj : Objs \cup {Nil}, refs : Nat, next : 0 .. Z - 1 \cup {NoNode}]]
      /\ t.buckets \in [0 .. Z - 1 -> 0 .. Z - 1 \cup {NoNode}]
      /\ t.freelist \in 0 .. Z - 1 \cup {NoNode} /\ t.slotused \in Nat
  BY SoundFacts
<1>2. n \in 0 .. Z - 1 /\ N[n].obj # Nil
  BY DEF Taken
<1>3. N[n] = [obj |-> N[n].obj, refs |-> N[n].refs, next |-> N[n].next]
  BY <1>1, <1>2
<1>4. u = [buckets |-> t.buckets, nodes |-> [N EXCEPT ![n].refs = r], freelist |-> t.freelist, slotused |-> t.slotused]
  BY SoundFacts, SMTT(40) DEF WithRefs
<1>5. u.buckets = t.buckets /\ u.freelist = t.freelist /\ u.slotused = t.slotused /\ u.nodes = [N EXCEPT ![n].refs = r]
  BY <1>4
<1>6. u = [buckets |-> u.buckets, nodes |-> u.nodes, freelist |-> u.freelist, slotused |-> u.slotused]
  BY <1>4
<1>. HIDE DEF u
<1>7. u.nodes[n] = x
  BY <1>1, <1>2, <1>3, <1>5
<1>8. \A m \in 0 .. Z - 1 : m # n => u.nodes[m] = N[m]
  BY <1>1, <1>5
<1>9. DOMAIN u.nodes = 0 .. Z - 1 /\ u.nodes = [m \in 0 .. Z - 1 |-> u.nodes[m]]
  BY <1>1, <1>5
<1>10. x \in [obj : Objs \cup {Nil}, refs : Nat, next : 0 .. Z - 1 \cup {NoNode}]
  BY <1>1, <1>2
<1>11. \A m \in 0 .. Z - 1 : u.nodes[m].obj = N[m].obj /\ u.nodes[m].next = N[m].next
  BY <1>7, <1>8
<1>12. Typed(u, Z)
  <2>1. \A m \in 0 .. Z - 1 : u.nodes[m] \in [obj : Objs \cup {Nil}, refs : Nat, next : 0 .. Z - 1 \cup {NoNode}]
    <3>. HIDE DEF x
    <3>. QED  BY <1>1, <1>7, <1>8, <1>10
  <2>2. u.nodes \in [0 .. Z - 1 -> [obj : Objs \cup {Nil}, refs : Nat, next : 0 .. Z - 1 \cup {NoNode}]]
    BY <1>9, <2>1
  <2>. HIDE DEF x, N
  <2>. QED  BY <1>1, <1>5, <1>6, <2>2 DEF Typed
<1>13. /\ Free(u, Z) = Free(t, Z) /\ Taken(u, Z) = Taken(t, Z)
       /\ \A b : Hashed(hs, u, Z, b) = Hashed(hs, t, Z, b)
  BY <1>11 DEF Free, Taken, Hashed
<1>14. SameLinks(N, u.nodes, Free(t, Z)) /\ \A b : SameLinks(N, u.nodes, Hashed(hs, t, Z, b))
  BY <1>11 DEF SameLinks, Free, Hashed
<1>15. ListOf(u.nodes, u.freelist, Free(u, Z))
  BY <1>5, <1>13, <1>14, ListKept DEF Sound
<1>16. \A b \in 0 .. Z - 1 : ListOf(u.nodes, u.buckets[b], Hashed(hs, u, Z, b))
  BY <1>5, <1>13, <1>14, ListKept DEF Sound
<1>17. \A m \in Free(u, Z) : u.nodes[m].refs = 0
  BY <1>2, <1>8, <1>13 DEF Sound, Free
<1>18. \A m, k \in Taken(u, Z) : u.nodes[m].obj = u.nodes[k].obj => m = k
  BY <1>11, <1>13 DEF Sound, Taken
<1>19. Sound(hs, u, Z)
  BY <1>1, <1>5, <1>12, <1>13, <1>15, <1>16, <1>17, <1>18 DEF Sound
<1>. QED  BY <1>5, <1>7, <1>8, <1>11, <1>13, <1>19 DEF u

\* An object of old nodes is added back with its count.
LEMMA AddBackSound ==
  ASSUME NEW t, NEW Z, Sound(hash, t, Z), t.freelist # NoNode,
         NEW n, n.obj \in Objs, n.refs \in Nat, ~Holds(t, Z, n.obj)
  PROVE  LET u == AddBack(t, n)
             k == t.freelist
         IN  /\ Sound(hash, u, Z) /\ u.slotused = t.slotused + 1
             /\ k \in 0 .. Z - 1 /\ t.nodes[k].obj = Nil
             /\ u.nodes[k].obj = n.obj /\ u.nodes[k].refs = n.refs
             /\ \A m \in 0 .. Z - 1 : m # k => u.nodes[m].obj = t.nodes[m].obj /\ u.nodes[m].refs = t.nodes[m].refs
<1>. DEFINE a == Add(t, n.obj)
            k == t.freelist
            u == WithRefs(a, k, n.refs)
<1>1. /\ Sound(hash, a, Z) /\ a.slotused = t.slotused + 1
      /\ k \in Free(t, Z) /\ Taken(a, Z) = Taken(t, Z) \cup {k}
      /\ a.nodes[k].obj = n.obj
      /\ \A m \in 0 .. Z - 1 : m # k => a.nodes[m].obj = t.nodes[m].obj /\ a.nodes[m].refs = t.nodes[m].refs
  BY AddSound
<1>. HIDE DEF a
<1>2. /\ Sound(hash, u, Z) /\ u.slotused = a.slotused /\ u.nodes[k].refs = n.refs
      /\ \A m \in 0 .. Z - 1 : /\ u.nodes[m].obj = a.nodes[m].obj
                               /\ m # k => u.nodes[m].refs = a.nodes[m].refs
  <2>1. k \in Taken(a, Z)
    BY <1>1
  <2>. DEFINE r == n.refs
  <2>2. r \in Nat
    OBVIOUS
  <2>. HIDE DEF k, r
  <2>3. LET w == WithRefs(a, k, r)
        IN  /\ Sound(hash, w, Z) /\ w.slotused = a.slotused
            /\ w.nodes[k].refs = r
            /\ \A m \in 0 .. Z - 1 : /\ w.nodes[m].obj = a.nodes[m].obj
                                     /\ m # k => w.nodes[m].refs = a.nodes[m].refs
    BY <1>1, <2>1, <2>2, RefsSound
  <2>. QED  BY <2>3 DEF r
<1>3. u = AddBack(t, n)
  BY DEF WithRefs, AddBack, a
<1>4. k \in 0 .. Z - 1 /\ t.nodes[k].obj = Nil
  BY <1>1 DEF Free
<1>. HIDE DEF u, k
<1>. QED  BY <1>1, <1>2, <1>3, <1>4 DEF k

-----------------------------------------------------------------------------
(* Resize. *)

\* t has a node for obj with r references.
Counted(t, Z, obj, r) == \E n \in 0 .. Z - 1 : t.nodes[n].obj = obj /\ t.nodes[n].refs = r

Moved(t, size, i, before) ==
  IF i = 0 THEN AllocNodes(size)
  ELSE IF t.nodes[i - 1].obj = Nil THEN before ELSE AddBack(before, t.nodes[i - 1])
IsMove(t, size, F, f) == f = [i \in 0 .. F |-> Moved(t, size, i, f[i - 1])]

LEMMA MoveExists ==
  ASSUME NEW t, NEW size, NEW F \in Nat
  PROVE  \E f : IsMove(t, size, F, f)
<1>. DEFINE S == {n \in Nat : \E f : IsMove(t, size, n, f)}
<1>0. \A x, y : Moved(t, size, 0, x) = Moved(t, size, 0, y)
  BY DEF Moved
<1>1. 0 \in S
  <2>. DEFINE f == [i \in 0 .. 0 |-> Moved(t, size, 0, 0)]
  <2>1. \A i \in 0 .. 0 : f[i] = Moved(t, size, i, f[i - 1])
    BY <1>0
  <2>2. f = [i \in 0 .. 0 |-> Moved(t, size, i, f[i - 1])]
    BY <2>1
  <2>. QED  BY <2>2 DEF IsMove
<1>2. ASSUME NEW n \in Nat, n \in S PROVE n + 1 \in S
  <2>1. PICK f : IsMove(t, size, n, f)
    BY <1>2
  <2>. DEFINE g == [i \in 0 .. n + 1 |-> IF i = n + 1 THEN Moved(t, size, n + 1, f[n]) ELSE f[i]]
  <2>2. \A i \in 0 .. n : f[i] = Moved(t, size, i, f[i - 1])
    BY <2>1 DEF IsMove
  <2>3. (\A i \in 0 .. n : g[i] = f[i]) /\ g[n + 1] = Moved(t, size, n + 1, f[n])
    OBVIOUS
  <2>4. g = [i \in 0 .. n + 1 |-> g[i]]
    OBVIOUS
  <2>. HIDE DEF g
  <2>5. ASSUME NEW i \in 0 .. n + 1 PROVE g[i] = Moved(t, size, i, g[i - 1])
    <3>1. CASE i = n + 1
      <4>1. i - 1 = n /\ n \in 0 .. n
        BY <3>1
      <4>. QED  BY <2>3, <3>1, <4>1
    <3>2. CASE i = 0
      <4>1. 0 \in 0 .. n
        OBVIOUS
      <4>. QED  BY <1>0, <2>2, <2>3, <3>2, <4>1
    <3>3. CASE i # 0 /\ i # n + 1
      <4>1. i \in 0 .. n /\ i - 1 \in 0 .. n
        BY <3>3
      <4>. QED  BY <2>2, <2>3, <4>1
    <3>. QED  BY <3>1, <3>2, <3>3
  <2>6. g = [i \in 0 .. n + 1 |-> Moved(t, size, i, g[i - 1])]
    BY <2>4, <2>5
  <2>7. IsMove(t, size, n + 1, g)
    BY <2>6 DEF IsMove
  <2>. QED  BY <2>7
<1>. HIDE DEF S
<1>3. \A n \in Nat : n \in S
  BY <1>1, <1>2, SetInduction
<1>. QED  BY <1>3 DEF S

LEMMA ResizeMoves ==
  ASSUME NEW t, NEW Z, Typed(t, Z), NEW size
  PROVE  \E f : IsMove(t, size, Z, f) /\ Resize(t, size) = f[Z]
<1>1. Slots(t) = Z /\ Z \in Nat
  BY SlotsFact DEF Typed
<1>. DEFINE f == CHOOSE f : f = [i \in 0 .. Z |->
                   IF i = 0 THEN AllocNodes(size)
                   ELSE IF t.nodes[i - 1].obj = Nil THEN f[i - 1] ELSE AddBack(f[i - 1], t.nodes[i - 1])]
<1>2. Resize(t, size) = f[Z]
  BY <1>1 DEF Resize
<1>3. \E g : g = [i \in 0 .. Z |->
                   IF i = 0 THEN AllocNodes(size)
                   ELSE IF t.nodes[i - 1].obj = Nil THEN g[i - 1] ELSE AddBack(g[i - 1], t.nodes[i - 1])]
  <2>1. PICK g : IsMove(t, size, Z, g)
    BY <1>1, MoveExists
  <2>2. g = [i \in 0 .. Z |->
               IF i = 0 THEN AllocNodes(size)
               ELSE IF t.nodes[i - 1].obj = Nil THEN g[i - 1] ELSE AddBack(g[i - 1], t.nodes[i - 1])]
    BY <2>1 DEF IsMove, Moved
  <2>. QED  BY <2>2
<1>4. IsMove(t, size, Z, f)
  BY <1>3 DEF IsMove, Moved
<1>. QED  BY <1>2, <1>4

\* A resize of a full table keeps every object with its count and leaves room.
LEMMA ResizeSound ==
  ASSUME NEW t, NEW Z, Sound(hash, t, Z), t.slotused = Z
  PROVE  LET u == Resize(t, Z * 2)
         IN  /\ Sound(hash, u, Z * 2) /\ u.freelist # NoNode
             /\ \A obj \in Objs : \A r : Counted(u, Z * 2, obj, r) <=> Counted(t, Z, obj, r)
<1>. DEFINE size == Z * 2
<1>1. Z \in Nat \ {0} /\ size \in Nat \ {0} /\ hash \in [Objs -> Nat] /\ Z < size /\ Typed(t, Z)
  <2>1. Z \in Nat \ {0} /\ hash \in [Objs -> Nat] /\ Typed(t, Z)
    BY SoundFacts DEF Sound
  <2>2. \A n \in Nat \ {0} : n * 2 \in Nat \ {0} /\ n < n * 2
    OBVIOUS
  <2>. QED  BY <2>1, <2>2
<1>2. PICK f : IsMove(t, size, Z, f) /\ Resize(t, size) = f[Z]
  BY <1>1, ResizeMoves
<1>. HIDE DEF size
<1>3. \A i \in 0 .. Z : f[i] = Moved(t, size, i, f[i - 1])
  BY <1>2 DEF IsMove
<1>4. /\ \A i \in 0 .. Z - 1 : t.nodes[i].obj \in Objs /\ t.nodes[i].obj # Nil /\ t.nodes[i].refs \in Nat
      /\ \A i, j \in 0 .. Z - 1 : t.nodes[i].obj = t.nodes[j].obj => i = j
  <2>1. Taken(t, Z) = 0 .. Z - 1
    BY FreeFacts
  <2>. QED  BY <1>1, <2>1, SoundFacts DEF Sound, Taken, Typed
<1>. DEFINE Has(i, obj, r) == \E j \in 0 .. Z - 1 : j < i /\ t.nodes[j].obj = obj /\ t.nodes[j].refs = r
            OK(i) == /\ Sound(hash, f[i], size) /\ f[i].slotused = i
                     /\ \A obj \in Objs : \A r : Counted(f[i], size, obj, r) <=> Has(i, obj, r)
            C == {i \in Nat : i <= Z => OK(i)}
<1>5. 0 \in C
  <2>1. f[0] = AllocNodes(size)
    BY <1>1, <1>3 DEF Moved
  <2>2. Sound(hash, f[0], size) /\ Taken(f[0], size) = {} /\ f[0].slotused = 0
    BY <1>1, <2>1, AllocSound
  <2>3. \A obj \in Objs : \A r : ~Counted(f[0], size, obj, r)
    BY <2>2, ObjsAssumption DEF Counted, Taken
  <2>4. \A obj, r : ~Has(0, obj, r)
    OBVIOUS
  <2>. HIDE DEF Has
  <2>. QED  BY <2>2, <2>3, <2>4
<1>6. ASSUME NEW i \in Nat, i \in C PROVE i + 1 \in C
  <2>. SUFFICES ASSUME i + 1 <= Z PROVE OK(i + 1)
    OBVIOUS
  <2>1. i \in 0 .. Z - 1 /\ i + 1 \in 0 .. Z /\ i + 1 # 0 /\ i + 1 - 1 = i /\ i <= Z /\ i < size
    BY <1>1
  <2>2. OK(i)
    BY <1>6, <2>1
  <2>. DEFINE t0 == f[i]
              t1 == f[i + 1]
              n == t.nodes[i]
              k == t0.freelist
  <2>3. t1 = AddBack(t0, n)
    BY <1>3, <1>4, <2>1 DEF Moved
  <2>4. Sound(hash, t0, size) /\ t0.slotused = i /\ \A obj \in Objs : \A r : Counted(t0, size, obj, r) <=> Has(i, obj, r)
    BY <2>2
  <2>5. n.obj \in Objs /\ n.refs \in Nat /\ n.obj # Nil
    BY <1>4, <2>1
  <2>6. k # NoNode
    <3>1. t0.slotused # size
      BY <1>1, <2>1, <2>4
    <3>. QED  BY <2>4, <3>1, FreeFacts
  <2>7. ~Holds(t0, size, n.obj)
    <3>. SUFFICES ASSUME Holds(t0, size, n.obj) PROVE FALSE
      OBVIOUS
    <3>1. PICK r : Counted(t0, size, n.obj, r)
      BY DEF Holds, Counted
    <3>2. PICK j \in 0 .. Z - 1 : j < i /\ t.nodes[j].obj = n.obj
      BY <2>4, <2>5, <3>1
    <3>. QED  BY <1>4, <2>1, <3>2
  <2>. HIDE DEF t0, t1, n, k
  <2>8. /\ Sound(hash, t1, size) /\ t1.slotused = t0.slotused + 1
        /\ k \in 0 .. size - 1 /\ t0.nodes[k].obj = Nil
        /\ t1.nodes[k].obj = n.obj /\ t1.nodes[k].refs = n.refs
        /\ \A m \in 0 .. size - 1 : m # k => t1.nodes[m].obj = t0.nodes[m].obj /\ t1.nodes[m].refs = t0.nodes[m].refs
    BY <2>3, <2>4, <2>5, <2>6, <2>7, AddBackSound DEF k
  <2>9. \A obj \in Objs : \A r : Counted(t1, size, obj, r) <=> Counted(t0, size, obj, r) \/ (obj = n.obj /\ r = n.refs)
    BY <2>5, <2>8, ObjsAssumption DEF Counted
  <2>10. \A obj \in Objs : \A r : Has(i + 1, obj, r) <=> Has(i, obj, r) \/ (obj = n.obj /\ r = n.refs)
    <3>1. \A j \in 0 .. Z - 1 : j < i + 1 <=> j < i \/ j = i
      BY <2>1
    <3>. QED  BY <2>1, <3>1 DEF n
  <2>11. \A obj \in Objs : \A r : Counted(t1, size, obj, r) <=> Has(i + 1, obj, r)
    <3>. HIDE DEF Has
    <3>. QED  BY <2>4, <2>9, <2>10
  <2>. HIDE DEF Has
  <2>. QED  BY <2>4, <2>8, <2>11 DEF t1
<1>7. OK(Z)
  <2>1. \A i \in Nat : i \in C
    <3>. HIDE DEF C
    <3>. QED  BY <1>5, <1>6, SetInduction
  <2>. QED  BY <1>1, <2>1
<1>8. \A obj \in Objs : \A r : Has(Z, obj, r) <=> Counted(t, Z, obj, r)
  <2>1. \A j \in 0 .. Z - 1 : j < Z
    BY <1>1
  <2>. QED  BY <2>1 DEF Counted
<1>9. Sound(hash, f[Z], size) /\ f[Z].slotused = Z /\ \A obj \in Objs : \A r : Counted(f[Z], size, obj, r) <=> Has(Z, obj, r)
  BY <1>7
<1>10. f[Z].freelist # NoNode
  BY <1>1, <1>9, FreeFacts
<1>. HIDE DEF Has
<1>. QED  BY <1>2, <1>8, <1>9, <1>10 DEF size


-----------------------------------------------------------------------------
(* Get. *)

\* The list of obj's bucket is s, and its place i holds obj.
Located(t, Z, obj, k, s, i) ==
  LET b == hash[obj] % Z
  IN  /\ b \in 0 .. Z - 1 /\ MainPos(t, obj) = b
      /\ Strung(t.nodes, t.buckets[b], Hashed(hash, t, Z, b), k, s)
      /\ List(t, t.buckets[b]) = s
      /\ i \in 1 .. k /\ t.nodes[s[i]].obj = obj /\ s[i] \in Taken(t, Z)
      /\ Find(t, obj) = i

\* Get finds the node of an object, if there is one.
LEMMA FindFacts ==
  ASSUME NEW t, NEW Z, Sound(hash, t, Z), NEW obj \in Objs
  PROVE  /\ ~Holds(t, Z, obj) => Find(t, obj) = 0
         /\ Holds(t, Z, obj) => \E k, s, i : Located(t, Z, obj, k, s, i)
<1>. DEFINE b == hash[obj] % Z
            H == Hashed(hash, t, Z, b)
<1>1. /\ Z \in Nat \ {0} /\ hash \in [Objs -> Nat] /\ Nil \notin Objs /\ Typed(t, Z)
      /\ \A n, m \in Taken(t, Z) : t.nodes[n].obj = t.nodes[m].obj => n = m
  BY SoundFacts DEF Sound
<1>2. b \in 0 .. Z - 1
  <2>1. hash[obj] \in Nat
    BY <1>1
  <2>. QED  BY <1>1, <2>1, PosType
<1>3. MainPos(t, obj) = b
  BY <1>1, SlotsFact DEF MainPos
<1>4. ListOf(t.nodes, t.buckets[b], H)
  BY <1>2 DEF Sound
<1>5. PICK k, s : Strung(t.nodes, t.buckets[b], H, k, s)
  BY <1>4 DEF ListOf
<1>6. H \subseteq 0 .. Z - 1 /\ H \subseteq Taken(t, Z)
  BY DEF Hashed, Taken
<1>. HIDE DEF b
<1>7. List(t, t.buckets[b]) = s /\ Len(s) = k
  <2>. HIDE DEF H
  <2>1. LinkedIn(t.nodes, Z)
    BY <1>1, SlotsFact DEF LinkedIn
  <2>. QED  BY <1>5, <1>6, <2>1, WalkIs DEF List
<1>. DEFINE I == {i \in 1 .. k : t.nodes[s[i]].obj = obj}
<1>8. Find(t, obj) = IF I # {} THEN Min(I) ELSE 0
  BY <1>3, <1>7 DEF Find, SelectInSeq
<1>9. k \in Nat /\ (\A i \in 1 .. k : s[i] \in H) /\ (\A x \in H : \E i \in 1 .. k : s[i] = x)
      /\ \A i, j \in 1 .. k : s[i] = s[j] => i = j
  BY <1>5 DEF Strung
<1>10. \A n \in 0 .. Z - 1 : t.nodes[n].obj = obj => n \in H
  BY <1>1 DEF Hashed, b
<1>. HIDE DEF H
<1>11. ASSUME ~Holds(t, Z, obj) PROVE Find(t, obj) = 0
  <2>1. I = {}
    BY <1>6, <1>9, <1>11 DEF Holds
  <2>. QED  BY <1>8, <2>1
<1>12. ASSUME Holds(t, Z, obj) PROVE \E i : Located(t, Z, obj, k, s, i)
  <2>1. PICK n \in 0 .. Z - 1 : t.nodes[n].obj = obj
    BY <1>12 DEF Holds
  <2>2. PICK i \in 1 .. k : s[i] = n
    BY <1>9, <1>10, <2>1
  <2>3. \A j \in I : j = i
    <3>. SUFFICES ASSUME NEW j \in 1 .. k, t.nodes[s[j]].obj = obj PROVE j = i
      OBVIOUS
    <3>1. s[j] \in Taken(t, Z) /\ s[i] \in Taken(t, Z)
      BY <1>6, <1>9
    <3>2. s[j] = s[i]
      BY <1>1, <2>1, <2>2, <3>1
    <3>. QED  BY <1>9, <3>2
  <2>4. I = {i}
    BY <2>1, <2>2, <2>3
  <2>. HIDE DEF I
  <2>5. Min(I) = i
    <3>1. i \in Int /\ i <= i
      BY <1>9
    <3>. QED  BY <2>4, <3>1 DEF Min
  <2>6. Find(t, obj) = i
    BY <1>8, <2>4, <2>5
  <2>7. s[i] \in Taken(t, Z)
    BY <1>6, <1>9
  <2>. QED  BY <1>2, <1>3, <1>5, <1>7, <2>1, <2>2, <2>6, <2>7 DEF Located, b, H
<1>. QED  BY <1>11, <1>12

\* Get without add.
LEMMA LookupFacts ==
  ASSUME NEW t, NEW Z, Sound(hash, t, Z), NEW obj \in Objs
  PROVE  /\ Get(t, obj, FALSE).rt = t
         /\ ~Holds(t, Z, obj) => Get(t, obj, FALSE).ref = NoNode
         /\ Holds(t, Z, obj) => /\ Get(t, obj, FALSE).ref \in Taken(t, Z)
                                /\ t.nodes[Get(t, obj, FALSE).ref].obj = obj
                                /\ Get(t, obj, FALSE).ref # NoNode
                                /\ Get(t, obj, TRUE) = Get(t, obj, FALSE)
                                /\ Find(t, obj) # 0
<1>1. CASE ~Holds(t, Z, obj)
  <2>1. Find(t, obj) = 0
    BY <1>1, FindFacts
  <2>. QED  BY <1>1, <2>1 DEF Get
<1>2. CASE Holds(t, Z, obj)
  <2>1. PICK k, s, i : Located(t, Z, obj, k, s, i)
    BY <1>2, FindFacts
  <2>2. Find(t, obj) = i /\ i \in 1 .. k /\ k \in Nat /\ List(t, t.buckets[MainPos(t, obj)]) = s
    BY <2>1 DEF Located, Strung
  <2>3. i # 0
    BY <2>2
  <2>4. Get(t, obj, FALSE) = [rt |-> t, ref |-> s[i]] /\ Get(t, obj, TRUE) = [rt |-> t, ref |-> s[i]]
    BY <2>2, <2>3 DEF Get
  <2>6. Get(t, obj, FALSE).rt = t /\ Get(t, obj, FALSE).ref = s[i] /\ Get(t, obj, TRUE) = Get(t, obj, FALSE)
    <3>. DEFINE f == Get(t, obj, FALSE)
                g == Get(t, obj, TRUE)
    <3>1. f = [rt |-> t, ref |-> s[i]] /\ g = [rt |-> t, ref |-> s[i]]
      BY <2>4
    <3>. HIDE DEF f, g
    <3>2. f.rt = t /\ f.ref = s[i] /\ g = f
      BY <3>1
    <3>. QED  BY <3>2 DEF f, g
  <2>5. s[i] \in Taken(t, Z) /\ t.nodes[s[i]].obj = obj /\ s[i] # NoNode
    BY <2>1, SoundFacts DEF Located, Taken
  <2>. QED  BY <1>2, <2>2, <2>3, <2>5, <2>6
<1>. QED  BY <1>1, <1>2

\* Get with add, when the object is absent: the node it gets is new and clean,
\* the other objects keep theirs with their counts.
LEMMA InsertFacts ==
  ASSUME NEW t, NEW Z, Sound(hash, t, Z), NEW obj \in Objs, ~Holds(t, Z, obj)
  PROVE  LET g == Get(t, obj, TRUE)
         IN  \E Y : /\ Sound(hash, g.rt, Y) /\ g.ref \in Taken(g.rt, Y)
                    /\ g.rt.nodes[g.ref].obj = obj /\ g.rt.nodes[g.ref].refs = 0
                    /\ \A o \in Objs : \A r : o # obj => (Counted(g.rt, Y, o, r) <=> Counted(t, Z, o, r))
<1>. DEFINE Y == IF t.slotused = Z THEN Z * 2 ELSE Z
            u == IF t.slotused = Z THEN Resize(t, Z * 2) ELSE t
            v == Add(u, obj)
            n == u.freelist
<1>1. /\ Sound(hash, u, Y) /\ n # NoNode
      /\ \A o \in Objs : \A r : Counted(u, Y, o, r) <=> Counted(t, Z, o, r)
  <2>1. CASE t.slotused = Z
    BY <2>1, ResizeSound
  <2>2. CASE t.slotused # Z
    BY <2>2, FreeFacts
  <2>. QED  BY <2>1, <2>2
<1>2. Get(t, obj, TRUE) = [rt |-> v, ref |-> n]
  <2>1. Find(t, obj) = 0 /\ Slots(t) = Z
    BY FindFacts, SlotsFact DEF Sound
  <2>. QED  BY <2>1 DEF Get
<1>. HIDE DEF Y, u
<1>3. ~Holds(u, Y, obj)
  <2>. SUFFICES ASSUME Holds(u, Y, obj) PROVE FALSE
    OBVIOUS
  <2>1. PICK r : Counted(u, Y, obj, r)
    BY DEF Holds, Counted
  <2>2. Counted(t, Z, obj, r)
    BY <1>1, <2>1
  <2>. QED  BY <2>2 DEF Holds, Counted
<1>4. /\ Sound(hash, v, Y) /\ n \in Free(u, Y) /\ Taken(v, Y) = Taken(u, Y) \cup {n}
      /\ v.nodes[n].obj = obj /\ v.nodes[n].refs = 0
      /\ \A m \in 0 .. Y - 1 : m # n => v.nodes[m].obj = u.nodes[m].obj /\ v.nodes[m].refs = u.nodes[m].refs
  BY <1>1, <1>3, AddSound
<1>. HIDE DEF v, n
<1>5. \A o \in Objs : \A r : o # obj => (Counted(v, Y, o, r) <=> Counted(u, Y, o, r))
  <2>1. u.nodes[n].obj = Nil /\ n \in 0 .. Y - 1
    BY <1>4 DEF Free
  <2>. QED  BY <1>4, <2>1, ObjsAssumption DEF Counted
<1>6. n \in Taken(v, Y)
  BY <1>4
<1>. DEFINE g == Get(t, obj, TRUE)
<1>7. g.rt = v /\ g.ref = n
  <2>1. g = [rt |-> v, ref |-> n]
    BY <1>2
  <2>. HIDE DEF g
  <2>. QED  BY <2>1
<1>8. \A o \in Objs : \A r : o # obj => (Counted(v, Y, o, r) <=> Counted(t, Z, o, r))
  BY <1>1, <1>5
<1>. HIDE DEF g
<1>9. /\ Sound(hash, g.rt, Y) /\ g.ref \in Taken(g.rt, Y)
      /\ g.rt.nodes[g.ref].obj = obj /\ g.rt.nodes[g.ref].refs = 0
      /\ \A o \in Objs : \A r : o # obj => (Counted(g.rt, Y, o, r) <=> Counted(t, Z, o, r))
  BY <1>4, <1>6, <1>7, <1>8
<1>. QED  BY <1>9 DEF g


-----------------------------------------------------------------------------
(* Unlink. *)

\* u has the fields of a table, and Z nodes.
Shaped(u, Z) ==
  /\ u = [buckets |-> u.buckets, nodes |-> u.nodes, freelist |-> u.freelist, slotused |-> u.slotused]
  /\ u.nodes = [m \in 0 .. Z - 1 |-> u.nodes[m]]

\* What Unlink leaves, field by field.
CutBucket(t, u, b, s, i) ==
  /\ i > 1 => u.buckets = t.buckets
  /\ ~(i > 1) => u.buckets = [t.buckets EXCEPT ![b] = t.nodes[s[i]].next]
CutLink(t, u, s, i) ==
  i > 1 => u.nodes[s[i - 1]] = [obj |-> t.nodes[s[i - 1]].obj, refs |-> t.nodes[s[i - 1]].refs,
                                next |-> t.nodes[s[i]].next]
FreedNode(t, u, s, i) == u.nodes[s[i]] = [obj |-> Nil, refs |-> 0, next |-> t.freelist]
OtherNodes(t, u, Z, s, i) ==
  \A m \in 0 .. Z - 1 : /\ m # s[i] => u.nodes[m].obj = t.nodes[m].obj /\ u.nodes[m].refs = t.nodes[m].refs
                        /\ m # s[i] /\ (i > 1 => m # s[i - 1]) => u.nodes[m] = t.nodes[m]
Unlinked(t, u, Z, b, s, i) ==
  /\ Shaped(u, Z) /\ u.slotused = t.slotused - 1 /\ u.freelist = s[i]
  /\ CutBucket(t, u, b, s, i) /\ CutLink(t, u, s, i)
  /\ FreedNode(t, u, s, i) /\ OtherNodes(t, u, Z, s, i)

LEMMA UnlinkFields ==
  ASSUME NEW t, NEW Z, Sound(hash, t, Z), NEW obj \in Objs, NEW k, NEW s, NEW i, Located(t, Z, obj, k, s, i)
  PROVE  Unlinked(t, Unlink(t, obj), Z, hash[obj] % Z, s, i)
<1>. DEFINE u == Unlink(t, obj)
            b == hash[obj] % Z
            B == t.buckets
            N == t.nodes
            F == t.freelist
            U == t.slotused
            x == [obj |-> Nil, refs |-> 0, next |-> F]
            p == s[i - 1]
            ref == s[i]
            nx == N[ref].next
<1>1. /\ t = [buckets |-> B, nodes |-> N, freelist |-> F, slotused |-> U]
      /\ N \in [0 .. Z - 1 -> [obj : Objs \cup {Nil}, refs : Nat, next : 0 .. Z - 1 \cup {NoNode}]]
  BY SoundFacts
<1>2. /\ i \in 1 .. k /\ k \in Nat /\ ref \in 0 .. Z - 1 /\ MainPos(t, obj) = b /\ Find(t, obj) = i
      /\ List(t, t.buckets[b]) = s /\ s \in [1 .. k -> Hashed(hash, t, Z, b)]
      /\ \A j, l \in 1 .. k : s[j] = s[l] => j = l
  BY DEF Located, Strung, Taken
<1>3. i > 1 => i - 1 \in 1 .. k /\ i - 1 # i
  BY <1>2
<1>4. i > 1 => p \in 0 .. Z - 1 /\ p # ref
  <2>1. Hashed(hash, t, Z, b) \subseteq 0 .. Z - 1
    BY DEF Hashed
  <2>. QED  BY <1>2, <1>3, <2>1
<1>. DEFINE cut == IF i > 1 THEN [t EXCEPT !.nodes[p].next = t.nodes[ref].next]
                   ELSE [t EXCEPT !.buckets[b] = t.nodes[ref].next]
            CB == IF i > 1 THEN B ELSE [B EXCEPT ![b] = nx]
            CN == IF i > 1 THEN [N EXCEPT ![p].next = nx] ELSE N
            UN == [CN EXCEPT ![ref] = x]
<1>5. u = [cut EXCEPT !.nodes[ref] = [obj |-> Nil, refs |-> 0, next |-> t.freelist],
                      !.freelist = ref, !.slotused = @ - 1]
  <2>. HIDE DEF b
  <2>. QED  BY <1>2 DEF Unlink
<1>. HIDE DEF b
<1>6. cut = [buckets |-> CB, nodes |-> CN, freelist |-> F, slotused |-> U]
  BY <1>1
<1>. HIDE DEF cut, CB, CN, u
<1>7. u = [buckets |-> CB, nodes |-> UN, freelist |-> ref, slotused |-> U - 1]
  BY <1>5, <1>6
<1>8. /\ CN = [m \in 0 .. Z - 1 |-> CN[m]]
      /\ \A m \in 0 .. Z - 1 : (i > 1 => m # p) => CN[m] = N[m]
      /\ i > 1 => CN[p] = [N[p] EXCEPT !.next = nx]
  <2>. HIDE DEF N, nx, p
  <2>1. CASE i > 1
    <3>1. CN = [N EXCEPT ![p].next = nx]
      BY <2>1 DEF CN
    <3>. QED  BY <1>1, <1>4, <2>1, <3>1
  <2>2. CASE ~(i > 1)
    <3>1. CN = N
      BY <2>2 DEF CN
    <3>. QED  BY <1>1, <2>2, <3>1
  <2>. QED  BY <2>1, <2>2
<1>9. i > 1 => CN[p].obj = N[p].obj /\ CN[p].refs = N[p].refs
  <2>1. i > 1 => N[p] \in [obj : Objs \cup {Nil}, refs : Nat, next : 0 .. Z - 1 \cup {NoNode}]
    BY <1>1, <1>4
  <2>. HIDE DEF N, nx, p
  <2>. QED  BY <1>8, <2>1
<1>10. UN = [m \in 0 .. Z - 1 |-> UN[m]] /\ UN[ref] = x /\ \A m \in 0 .. Z - 1 : m # ref => UN[m] = CN[m]
  <2>. HIDE DEF x, ref
  <2>. QED  BY <1>2, <1>8
<1>11. u.buckets = CB /\ u.nodes = UN /\ u.freelist = ref /\ u.slotused = U - 1
  BY <1>7
<1>12. u = [buckets |-> u.buckets, nodes |-> u.nodes, freelist |-> u.freelist, slotused |-> u.slotused]
  <2>. HIDE DEF UN
  <2>. QED  BY <1>7
<1>. HIDE DEF UN
<1>13. \A m \in 0 .. Z - 1 : /\ m # ref => UN[m].obj = N[m].obj /\ UN[m].refs = N[m].refs
                             /\ m # ref /\ (i > 1 => m # p) => UN[m] = N[m]
  <2>. HIDE DEF N, ref, p, nx
  <2>. QED  BY <1>8, <1>9, <1>10
<1>14. i > 1 => UN[p] = [obj |-> N[p].obj, refs |-> N[p].refs, next |-> nx]
  <2>1. i > 1 => N[p] \in [obj : Objs \cup {Nil}, refs : Nat, next : 0 .. Z - 1 \cup {NoNode}]
    BY <1>1, <1>4
  <2>. HIDE DEF N, ref, p, nx
  <2>. QED  BY <1>4, <1>8, <1>10, <2>1
<1>15. Unlinked(t, u, Z, b, s, i)
  <2>1. CutBucket(t, u, b, s, i)
    BY <1>11 DEF CB, CutBucket
  <2>2. Shaped(u, Z)
    BY <1>10, <1>11, <1>12 DEF Shaped
  <2>3. FreedNode(t, u, s, i)
    BY <1>10, <1>11 DEF FreedNode
  <2>4. u.slotused = t.slotused - 1 /\ u.freelist = s[i]
    BY <1>11
  <2>5. OtherNodes(t, u, Z, s, i)
    <3>. SUFFICES ASSUME NEW m \in 0 .. Z - 1
                  PROVE  /\ m # s[i] => u.nodes[m].obj = t.nodes[m].obj /\ u.nodes[m].refs = t.nodes[m].refs
                         /\ m # s[i] /\ (i > 1 => m # s[i - 1]) => u.nodes[m] = t.nodes[m]
      BY Zenon DEF OtherNodes
    <3>1. /\ m # ref => UN[m].obj = N[m].obj /\ UN[m].refs = N[m].refs
          /\ m # ref /\ (i > 1 => m # p) => UN[m] = N[m]
      BY <1>13, Zenon
    <3>. QED  BY <1>11, <3>1
  <2>6. CutLink(t, u, s, i)
    BY <1>11, <1>14 DEF CutLink
  <2>. QED  BY <2>1, <2>2, <2>3, <2>4, <2>5, <2>6 DEF Unlinked
<1>. QED  BY <1>15 DEF u, b


\* The node of the object, and no other, goes to the free list.
LEMMA UnlinkSound ==
  ASSUME NEW t, NEW Z, Sound(hash, t, Z), NEW obj \in Objs, NEW k, NEW s, NEW i, Located(t, Z, obj, k, s, i)
  PROVE  LET u == Unlink(t, obj)
         IN  /\ Sound(hash, u, Z) /\ Taken(u, Z) = Taken(t, Z) \ {s[i]}
             /\ \A m \in Taken(u, Z) : u.nodes[m].obj = t.nodes[m].obj /\ u.nodes[m].refs = t.nodes[m].refs
<1>. DEFINE u == Unlink(t, obj)
            b == hash[obj] % Z
            ref == s[i]
            p == s[i - 1]
<1>1. Unlinked(t, u, Z, b, s, i)
  BY UnlinkFields
<1>2. /\ Z \in Nat \ {0} /\ hash \in [Objs -> Nat] /\ Nil \notin Objs /\ t.slotused \in Nat
      /\ t.nodes \in [0 .. Z - 1 -> [obj : Objs \cup {Nil}, refs : Nat, next : 0 .. Z - 1 \cup {NoNode}]]
      /\ t.buckets \in [0 .. Z - 1 -> 0 .. Z - 1 \cup {NoNode}] /\ NoNode \notin 0 .. Z - 1
      /\ t.freelist \in 0 .. Z - 1 \cup {NoNode}
  BY SoundFacts
<1>3. /\ i \in 1 .. k /\ k \in Nat /\ ref \in 0 .. Z - 1 /\ t.nodes[ref].obj = obj /\ ref \in Taken(t, Z)
      /\ Strung(t.nodes, t.buckets[b], Hashed(hash, t, Z, b), k, s) /\ b \in 0 .. Z - 1
      /\ s \in [1 .. k -> Hashed(hash, t, Z, b)]
      /\ \A j, l \in 1 .. k : s[j] = s[l] => j = l
  BY DEF Located, Strung, Taken
<1>4. i > 1 => i - 1 \in 1 .. k /\ i - 1 # i
  BY <1>3
<1>5. \A c : Hashed(hash, t, Z, c) \subseteq Taken(t, Z) /\ Taken(t, Z) \subseteq 0 .. Z - 1
  BY DEF Hashed, Taken
<1>6. i > 1 => p \in Taken(t, Z) /\ p \in 0 .. Z - 1 /\ p # ref /\ p \in Hashed(hash, t, Z, b)
  BY <1>3, <1>4, <1>5
<1>7. ref \in Hashed(hash, t, Z, b)
  BY <1>3
<1>8. \A c : c # b => Hashed(hash, t, Z, c) \cap Hashed(hash, t, Z, b) = {}
  BY DEF Hashed
<1>. HIDE DEF u, b
<1>9. /\ u = [buckets |-> u.buckets, nodes |-> u.nodes, freelist |-> u.freelist, slotused |-> u.slotused]
      /\ u.slotused = t.slotused - 1 /\ u.freelist = ref
      /\ i > 1 => u.buckets = t.buckets
      /\ ~(i > 1) => u.buckets = [t.buckets EXCEPT ![b] = t.nodes[ref].next]
      /\ u.nodes = [m \in 0 .. Z - 1 |-> u.nodes[m]]
  BY <1>1, Zenon DEF Unlinked, Shaped, CutBucket
<1>10. /\ u.nodes[ref] = [obj |-> Nil, refs |-> 0, next |-> t.freelist]
       /\ \A m \in 0 .. Z - 1 : m # ref => u.nodes[m].obj = t.nodes[m].obj /\ u.nodes[m].refs = t.nodes[m].refs
       /\ \A m \in 0 .. Z - 1 : m # ref /\ (i > 1 => m # p) => u.nodes[m] = t.nodes[m]
       /\ i > 1 => u.nodes[p] = [obj |-> t.nodes[p].obj, refs |-> t.nodes[p].refs, next |-> t.nodes[ref].next]
  BY <1>1, Zenon DEF Unlinked, FreedNode, OtherNodes, CutLink
<1>11. /\ Free(u, Z) = Free(t, Z) \cup {ref} /\ Taken(u, Z) = Taken(t, Z) \ {ref} /\ ref \notin Free(t, Z)
       /\ \A c : c # b => Hashed(hash, u, Z, c) = Hashed(hash, t, Z, c)
       /\ Hashed(hash, u, Z, b) = Hashed(hash, t, Z, b) \ {ref}
  <2>1. u.nodes[ref].obj = Nil /\ ref \in 0 .. Z - 1 /\ t.nodes[ref].obj # Nil
    BY <1>2, <1>3, <1>10
  <2>2. \A m \in 0 .. Z - 1 : m # ref => u.nodes[m].obj = t.nodes[m].obj
    BY <1>10
  <2>3. Free(u, Z) = Free(t, Z) \cup {ref} /\ Taken(u, Z) = Taken(t, Z) \ {ref} /\ ref \notin Free(t, Z)
    <3>. HIDE DEF ref
    <3>. QED  BY <2>1, <2>2 DEF Free, Taken
  <2>4. \A c : Hashed(hash, u, Z, c) = Hashed(hash, t, Z, c) \ {ref}
    <3>. HIDE DEF ref
    <3>. QED  BY <2>1, <2>2 DEF Hashed
  <2>. QED  BY <1>7, <1>8, <2>3, <2>4
<1>12. Typed(u, Z)
  <2>. DEFINE T == [obj : Objs \cup {Nil}, refs : Nat, next : 0 .. Z - 1 \cup {NoNode}]
  <2>1. u.nodes[ref] \in T
    BY <1>2, <1>10
  <2>2. t.nodes[ref].next \in 0 .. Z - 1 \cup {NoNode}
    BY <1>2, <1>3
  <2>3. i > 1 => u.nodes[p] \in T
    <3>1. i > 1 => t.nodes[p] \in T
      BY <1>2, <1>6
    <3>. HIDE DEF p, ref
    <3>. QED  BY <1>10, <2>2, <3>1
  <2>4. \A m \in 0 .. Z - 1 : m # ref /\ (i > 1 => m # p) => u.nodes[m] \in T
    <3>. HIDE DEF T
    <3>1. \A m \in 0 .. Z - 1 : t.nodes[m] \in T
      BY <1>2 DEF T
    <3>. QED  BY <1>10, <3>1
  <2>. HIDE DEF T
  <2>5. u.nodes \in [0 .. Z - 1 -> T]
    BY <1>9, <2>1, <2>3, <2>4
  <2>6. u.buckets \in [0 .. Z - 1 -> 0 .. Z - 1 \cup {NoNode}]
    <3>. HIDE DEF ref
    <3>1. CASE i > 1
      BY <1>2, <1>9, <3>1
    <3>2. CASE ~(i > 1)
      <4>1. u.buckets = [t.buckets EXCEPT ![b] = t.nodes[ref].next]
        BY <1>9, <3>2
      <4>. QED  BY <1>2, <2>2, <4>1
    <3>. QED  BY <3>1, <3>2
  <2>7. u.freelist \in 0 .. Z - 1
    BY <1>3, <1>9
  <2>8. u.slotused \in Nat
    <3>1. IsFiniteSet(Taken(t, Z)) /\ t.slotused = Cardinality(Taken(t, Z))
      BY FreeFacts DEF Sound
    <3>2. t.slotused # 0
      BY <1>3, <3>1, FS_EmptySet
    <3>. QED  BY <1>2, <1>9, <3>2
  <2>. QED  BY <1>2, <1>9, <2>5, <2>6, <2>7, <2>8 DEF Typed, T
<1>13. SameLinks(t.nodes, u.nodes, Free(t, Z))
  <2>1. \A m \in Free(t, Z) : m \in 0 .. Z - 1 /\ m \notin Taken(t, Z)
    BY DEF Free, Taken
  <2>2. \A m \in Free(t, Z) : u.nodes[m] = t.nodes[m]
    BY <1>3, <1>6, <1>10, <2>1
  <2>. QED  BY <2>2 DEF SameLinks
<1>14. ListOf(u.nodes, u.freelist, Free(u, Z))
  <2>1. u.nodes[ref].next = t.freelist
    BY <1>10
  <2>2. ListOf(t.nodes, t.freelist, Free(t, Z))
    BY DEF Sound
  <2>. HIDE DEF ref
  <2>3. ListOf(u.nodes, ref, Free(t, Z) \cup {ref})
    BY <1>11, <1>13, <2>1, <2>2, ListPush
  <2>. QED  BY <1>9, <1>11, <2>3
<1>15. ASSUME NEW c \in 0 .. Z - 1, c # b PROVE ListOf(u.nodes, u.buckets[c], Hashed(hash, u, Z, c))
  <2>1. \A m \in Hashed(hash, t, Z, c) : u.nodes[m] = t.nodes[m]
    BY <1>5, <1>6, <1>7, <1>8, <1>10, <1>15
  <2>2. SameLinks(t.nodes, u.nodes, Hashed(hash, t, Z, c))
    BY <2>1 DEF SameLinks
  <2>3. u.buckets[c] = t.buckets[c]
    BY <1>2, <1>9, <1>15
  <2>4. ListOf(t.nodes, t.buckets[c], Hashed(hash, t, Z, c))
    BY DEF Sound
  <2>. QED  BY <1>11, <1>15, <2>2, <2>3, <2>4, ListKept
<1>16. ListOf(u.nodes, u.buckets[b], Hashed(hash, u, Z, b))
  <2>1. ASSUME NEW j \in 1 .. k, j # i, j + 1 # i PROVE u.nodes[s[j]].next = t.nodes[s[j]].next
    <3>1. i > 1 => j # i - 1
      BY <1>3, <2>1
    <3>2. s[j] # ref /\ (i > 1 => s[j] # p)
      BY <1>3, <1>4, <2>1, <3>1
    <3>3. s[j] \in 0 .. Z - 1
      BY <1>3, <1>5
    <3>. QED  BY <1>10, <3>2, <3>3
  <2>2. i # 1 => i > 1
    BY <1>3
  <2>3. i # 1 => u.nodes[s[i - 1]].next = t.nodes[s[i]].next
    <3>1. i > 1 => t.nodes[p] \in [obj : Objs \cup {Nil}, refs : Nat, next : 0 .. Z - 1 \cup {NoNode}]
      BY <1>2, <1>6
    <3>. QED  BY <1>10, <2>2, <3>1
  <2>4. ListOf(u.nodes, IF i = 1 THEN t.nodes[s[1]].next ELSE t.buckets[b], Hashed(hash, t, Z, b) \ {s[i]})
    BY <1>3, <2>1, <2>3, ListDrop
  <2>5. u.buckets[b] = IF i = 1 THEN t.nodes[s[1]].next ELSE t.buckets[b]
    <3>1. CASE i = 1
      BY <1>2, <1>3, <1>9, <3>1
    <3>2. CASE i # 1
      BY <1>9, <2>2, <3>2
    <3>. QED  BY <3>1, <3>2
  <2>. QED  BY <1>11, <2>4, <2>5
<1>17. \A m \in Free(u, Z) : u.nodes[m].refs = 0
  <2>1. \A m \in Free(t, Z) : m \in 0 .. Z - 1 /\ t.nodes[m].refs = 0
    BY DEF Sound, Free
  <2>2. u.nodes[ref].refs = 0
    BY <1>10
  <2>. QED  BY <1>10, <1>11, <2>1, <2>2
<1>18. \A m \in Taken(u, Z) : u.nodes[m].obj = t.nodes[m].obj /\ u.nodes[m].refs = t.nodes[m].refs /\ m \in Taken(t, Z)
  <2>. HIDE DEF ref
  <2>. QED  BY <1>5, <1>10, <1>11
<1>19. \A m, n \in Taken(u, Z) : u.nodes[m].obj = u.nodes[n].obj => m = n
  BY <1>18 DEF Sound
<1>20. u.slotused = Cardinality(Taken(u, Z))
  <2>1. IsFiniteSet(Taken(t, Z)) /\ t.slotused = Cardinality(Taken(t, Z))
    BY FreeFacts DEF Sound
  <2>2. Cardinality(Taken(t, Z) \ {ref}) = Cardinality(Taken(t, Z)) - 1
    BY <1>3, <2>1, FS_RemoveElement
  <2>. HIDE DEF ref
  <2>. QED  BY <1>9, <1>11, <2>1, <2>2
<1>21. Sound(hash, u, Z)
  <2>1. \A c \in 0 .. Z - 1 : ListOf(u.nodes, u.buckets[c], Hashed(hash, u, Z, c))
    BY <1>15, <1>16
  <2>. QED  BY <1>2, <1>12, <1>14, <1>17, <1>19, <1>20, <2>1 DEF Sound
<1>. QED  BY <1>11, <1>18, <1>21 DEF u


-----------------------------------------------------------------------------
(* The ledger. *)

\* The counts of the table are those of the ledger hd.
Ledger(t, Z, hd) ==
  \A o \in Objs : /\ \A r : Counted(t, Z, o, r) => r = hd[o]
                  /\ hd[o] > 0 => Counted(t, Z, o, hd[o])

\* No node in use has a count of zero.
Positive(t, Z) == \A o \in Objs : \A r : Counted(t, Z, o, r) => r > 0

\* The counts of every object but obj are the same.
OthersKept(t, Z, u, Y, obj) == \A o \in Objs : \A r : o # obj => (Counted(u, Y, o, r) <=> Counted(t, Z, o, r))

LEMMA HoldsIsCounted ==
  ASSUME NEW t, NEW Z, NEW obj
  PROVE  Holds(t, Z, obj) <=> \E r : Counted(t, Z, obj, r)
BY DEF Holds, Counted

\* Another count for the node of obj.
LEMMA CountSet ==
  ASSUME NEW hs, NEW t, NEW Z, Sound(hs, t, Z), NEW n \in Taken(t, Z), NEW obj \in Objs, t.nodes[n].obj = obj,
         NEW r \in Nat
  PROVE  /\ Sound(hs, WithRefs(t, n, r), Z) /\ OthersKept(t, Z, WithRefs(t, n, r), Z, obj)
         /\ \A q : Counted(WithRefs(t, n, r), Z, obj, q) <=> q = r
<1>. DEFINE u == WithRefs(t, n, r)
<1>1. /\ Sound(hs, u, Z) /\ u.nodes[n].refs = r
      /\ \A m \in 0 .. Z - 1 : u.nodes[m].obj = t.nodes[m].obj /\ (m # n => u.nodes[m].refs = t.nodes[m].refs)
  BY RefsSound
<1>. HIDE DEF u
<1>2. n \in 0 .. Z - 1 /\ \A m \in 0 .. Z - 1 : t.nodes[m].obj = obj => m = n
  <2>1. \A m \in 0 .. Z - 1 : t.nodes[m].obj = obj => m \in Taken(t, Z)
    BY ObjsAssumption DEF Taken
  <2>. QED  BY <2>1 DEF Sound, Taken
<1>3. OthersKept(t, Z, u, Z, obj)
  BY <1>1, <1>2 DEF OthersKept, Counted
<1>4. \A q : Counted(u, Z, obj, q) <=> q = r
  BY <1>1, <1>2 DEF Counted
<1>. QED  BY <1>1, <1>3, <1>4 DEF u

\* The ledger moves with the count of one object.
LEMMA LedgerMoves ==
  ASSUME NEW t, NEW Z, NEW u, NEW Y, NEW hd, NEW ld, NEW obj \in Objs, Ledger(t, Z, hd), OthersKept(t, Z, u, Y, obj),
         \A o \in Objs : o # obj => ld[o] = hd[o],
         \A q : Counted(u, Y, obj, q) => q = ld[obj],
         ld[obj] > 0 => Counted(u, Y, obj, ld[obj])
  PROVE  /\ Ledger(u, Y, ld)
         /\ Positive(t, Z) /\ (ld[obj] > 0 \/ \A q : ~Counted(u, Y, obj, q)) => Positive(u, Y)
<1>1. ASSUME NEW o \in Objs
      PROVE  (\A r : Counted(u, Y, o, r) => r = ld[o]) /\ (ld[o] > 0 => Counted(u, Y, o, ld[o]))
  <2>1. CASE o = obj
    BY <2>1
  <2>2. CASE o # obj
    <3>1. ld[o] = hd[o] /\ \A r : Counted(u, Y, o, r) <=> Counted(t, Z, o, r)
      BY <2>2 DEF OthersKept
    <3>2. (\A r : Counted(t, Z, o, r) => r = hd[o]) /\ (hd[o] > 0 => Counted(t, Z, o, hd[o]))
      BY DEF Ledger
    <3>. QED  BY <3>1, <3>2
  <2>. QED  BY <2>1, <2>2
<1>2. ASSUME Positive(t, Z), ld[obj] > 0 \/ \A q : ~Counted(u, Y, obj, q), NEW o \in Objs, NEW r, Counted(u, Y, o, r)
      PROVE  r > 0
  <2>1. CASE o = obj
    BY <1>2, <2>1
  <2>2. CASE o # obj
    BY <1>2, <2>2 DEF OthersKept, Positive
  <2>. QED  BY <2>1, <2>2
<1>. QED  BY <1>1, <1>2 DEF Ledger, Positive

\* Get with add leaves the count of the object as the ledger has it.
LEMMA GetAdds ==
  ASSUME NEW t, NEW Z, Sound(hash, t, Z), NEW hd \in [Objs -> Nat], Ledger(t, Z, hd), NEW obj \in Objs
  PROVE  LET g == Get(t, obj, TRUE)
         IN  \E Y : /\ Sound(hash, g.rt, Y) /\ g.ref \in Taken(g.rt, Y)
                    /\ g.rt.nodes[g.ref].obj = obj /\ g.rt.nodes[g.ref].refs = hd[obj]
                    /\ OthersKept(t, Z, g.rt, Y, obj)
                    /\ hd[obj] > 0 => g.rt = t /\ Y = Z
<1>. DEFINE g == Get(t, obj, TRUE)
<1>0. hd[obj] \in Nat
  OBVIOUS
<1>1. CASE Holds(t, Z, obj)
  <2>. DEFINE f == Get(t, obj, FALSE)
  <2>1. g = f /\ f.rt = t /\ f.ref \in Taken(t, Z) /\ t.nodes[f.ref].obj = obj
    BY <1>1, LookupFacts
  <2>. HIDE DEF f, g
  <2>2. g.rt = t /\ g.ref \in Taken(t, Z) /\ t.nodes[g.ref].obj = obj
    BY <2>1
  <2>3. Counted(t, Z, obj, t.nodes[g.ref].refs)
    BY <2>2 DEF Counted, Taken
  <2>4. t.nodes[g.ref].refs = hd[obj]
    BY <2>3 DEF Ledger
  <2>5. OthersKept(t, Z, t, Z, obj)
    BY DEF OthersKept
  <2>6. /\ Sound(hash, g.rt, Z) /\ g.ref \in Taken(g.rt, Z)
        /\ g.rt.nodes[g.ref].obj = obj /\ g.rt.nodes[g.ref].refs = hd[obj]
        /\ OthersKept(t, Z, g.rt, Z, obj) /\ g.rt = t
    BY <2>2, <2>4, <2>5
  <2>. QED  BY <2>6 DEF g
<1>2. CASE ~Holds(t, Z, obj)
  <2>1. ~(hd[obj] > 0)
    BY <1>2, HoldsIsCounted DEF Ledger
  <2>2. hd[obj] = 0
    BY <1>0, <2>1
  <2>3. \E Y : /\ Sound(hash, g.rt, Y) /\ g.ref \in Taken(g.rt, Y)
               /\ g.rt.nodes[g.ref].obj = obj /\ g.rt.nodes[g.ref].refs = 0
               /\ \A o \in Objs : \A r : o # obj => (Counted(g.rt, Y, o, r) <=> Counted(t, Z, o, r))
    BY <1>2, InsertFacts
  <2>. HIDE DEF g
  <2>4. PICK Y : /\ Sound(hash, g.rt, Y) /\ g.ref \in Taken(g.rt, Y)
                 /\ g.rt.nodes[g.ref].obj = obj /\ g.rt.nodes[g.ref].refs = 0
                 /\ \A o \in Objs : \A r : o # obj => (Counted(g.rt, Y, o, r) <=> Counted(t, Z, o, r))
    BY <2>3
  <2>5. OthersKept(t, Z, g.rt, Y, obj)
    BY <2>4 DEF OthersKept
  <2>. QED  BY <2>1, <2>2, <2>4, <2>5 DEF g
<1>. QED  BY <1>1, <1>2

\* The assertions of Get and Resize, when no node in use has a count of zero.
LEMMA AssertsMet ==
  ASSUME NEW t, NEW Z, Sound(hash, t, Z), Positive(t, Z), NEW obj \in Objs
  PROVE  GetAsserts(t, obj)
<1>1. Slots(t) = Z /\ DOMAIN t.nodes = 0 .. Z - 1
  BY SlotsFact DEF Sound
<1>2. CASE t.slotused = Z
  <2>1. t.freelist = NoNode /\ Taken(t, Z) = 0 .. Z - 1
    BY <1>2, FreeFacts
  <2>2. ASSUME NEW n \in 0 .. Z - 1 PROVE t.nodes[n].obj # Nil /\ t.nodes[n].refs # 0
    <3>1. n \in Taken(t, Z) /\ t.nodes[n].obj \in Objs /\ t.nodes[n].obj # Nil
      BY <2>1, SoundFacts DEF Taken
    <3>2. Counted(t, Z, t.nodes[n].obj, t.nodes[n].refs)
      BY DEF Counted
    <3>3. t.nodes[n].refs > 0
      BY <3>1, <3>2 DEF Positive
    <3>. QED  BY <3>1, <3>3
  <2>. QED  BY <1>1, <1>2, <2>1, <2>2 DEF GetAsserts
<1>3. CASE t.slotused # Z
  <2>1. t.freelist # NoNode /\ t.freelist \in Free(t, Z)
    BY <1>3, FreeFacts
  <2>2. t.nodes[t.freelist].refs = 0
    BY <2>1 DEF Sound
  <2>. QED  BY <1>1, <1>3, <2>1, <2>2 DEF GetAsserts
<1>. QED  BY <1>2, <1>3

\* Once unlinked, an object has no node.
LEMMA UnlinkForgets ==
  ASSUME NEW t, NEW Z, Sound(hash, t, Z), NEW obj \in Objs, Holds(t, Z, obj)
  PROVE  /\ Sound(hash, Unlink(t, obj), Z) /\ OthersKept(t, Z, Unlink(t, obj), Z, obj)
         /\ \A q : ~Counted(Unlink(t, obj), Z, obj, q)
<1>. DEFINE u == Unlink(t, obj)
<1>1. PICK k, s, i : Located(t, Z, obj, k, s, i)
  BY FindFacts
<1>. DEFINE n == s[i]
<1>2. /\ Sound(hash, u, Z) /\ Taken(u, Z) = Taken(t, Z) \ {n}
      /\ \A m \in Taken(u, Z) : u.nodes[m].obj = t.nodes[m].obj /\ u.nodes[m].refs = t.nodes[m].refs
  BY <1>1, UnlinkSound
<1>3. n \in Taken(t, Z) /\ t.nodes[n].obj = obj
  BY <1>1 DEF Located
<1>. HIDE DEF u, n
<1>4. \A v, m : m \in Taken(v, Z) <=> m \in 0 .. Z - 1 /\ v.nodes[m].obj # Nil
  BY DEF Taken
<1>5. \A v, q : \A o \in Objs : Counted(v, Z, o, q) <=> \E m \in Taken(v, Z) : v.nodes[m].obj = o /\ v.nodes[m].refs = q
  BY <1>4, ObjsAssumption DEF Counted
<1>6. OthersKept(t, Z, u, Z, obj)
  BY <1>2, <1>3, <1>5 DEF OthersKept
<1>7. \A m \in Taken(u, Z) : u.nodes[m].obj # obj
  BY <1>2, <1>3 DEF Sound
<1>8. \A q : ~Counted(u, Z, obj, q)
  BY <1>5, <1>7
<1>. QED  BY <1>2, <1>6, <1>8 DEF u


-----------------------------------------------------------------------------
(* The invariant. *)

\* A table of Z nodes that is sound and counts as the ledger does; when the host
\* only asks for counts of objects it holds, no count is zero and no assertion has
\* failed.
Kept(hs, t, hd, f, Z) ==
  /\ Sound(hs, t, Z) /\ Ledger(t, Z, hd)
  /\ ~QueryAny => Positive(t, Z) /\ ~f

RInv ==
  /\ hash \in HashFuns
  /\ held \in [Objs -> 0 .. MaxHeld]
  /\ \E Z : Kept(hash, rt, held, failed, Z)

LEMMA InitRInv == Init => RInv
<1>. SUFFICES ASSUME Init PROVE RInv
  OBVIOUS
<1>1. hash \in HashFuns /\ rt = AllocNodes(4) /\ held = [o \in Objs |-> 0] /\ failed = FALSE
  BY DEF Init, InitialSlots
<1>2. hash \in [Objs -> Nat]
  BY <1>1, HashAssumption
<1>3. 4 \in Nat \ {0}
  OBVIOUS
<1>4. Sound(hash, AllocNodes(4), 4) /\ Taken(AllocNodes(4), 4) = {}
  BY <1>2, <1>3, AllocSound
<1>5. \A o \in Objs : \A r : ~Counted(rt, 4, o, r)
  BY <1>1, <1>4, ObjsAssumption DEF Counted, Taken
<1>6. Ledger(rt, 4, held) /\ Positive(rt, 4)
  BY <1>1, <1>5 DEF Ledger, Positive
<1>7. held \in [Objs -> 0 .. MaxHeld]
  BY <1>1, BoundAssumption
<1>. QED  BY <1>1, <1>4, <1>6, <1>7 DEF RInv, Kept

LEMMA RInvFacts ==
  ASSUME RInv
  PROVE  /\ hash \in HashFuns /\ hash \in [Objs -> Nat] /\ held \in [Objs -> 0 .. MaxHeld]
         /\ held \in [Objs -> Nat] /\ MaxHeld \in Nat
BY HashAssumption, BoundAssumption DEF RInv

LEMMA AddRefKeeps ==
  ASSUME RInv, NEW obj \in Objs, AddRef(obj)
  PROVE  RInv'
<1>1. PICK Z : Kept(hash, rt, held, failed, Z)
  BY DEF RInv
<1>2. Sound(hash, rt, Z) /\ Ledger(rt, Z, held) /\ (~QueryAny => Positive(rt, Z) /\ ~failed)
  BY <1>1 DEF Kept
<1>. DEFINE g == Get(rt, obj, TRUE)
            c == held[obj]
<1>3. /\ c < MaxHeld /\ rt' = [g.rt EXCEPT !.nodes[g.ref].refs = @ + 1]
      /\ held' = [held EXCEPT ![obj] = @ + 1] /\ failed' = (failed \/ ~GetAsserts(rt, obj)) /\ hash' = hash
  BY DEF AddRef
<1>4. c \in Nat /\ c + 1 \in 0 .. MaxHeld /\ c + 1 > 0 /\ c + 1 \in Nat
  BY <1>3, RInvFacts
<1>5. held' \in [Objs -> 0 .. MaxHeld] /\ held'[obj] = c + 1 /\ \A o \in Objs : o # obj => held'[o] = held[o]
  BY <1>3, <1>4, RInvFacts
<1>6. \E Y : /\ Sound(hash, g.rt, Y) /\ g.ref \in Taken(g.rt, Y)
             /\ g.rt.nodes[g.ref].obj = obj /\ g.rt.nodes[g.ref].refs = held[obj]
             /\ OthersKept(rt, Z, g.rt, Y, obj)
  BY <1>2, RInvFacts, GetAdds
<1>. HIDE DEF g
<1>7. PICK Y : /\ Sound(hash, g.rt, Y) /\ g.ref \in Taken(g.rt, Y)
               /\ g.rt.nodes[g.ref].obj = obj /\ g.rt.nodes[g.ref].refs = c
               /\ OthersKept(rt, Z, g.rt, Y, obj)
  BY <1>6
<1>. DEFINE t == g.rt
            n == g.ref
            r == c + 1
<1>8. rt' = WithRefs(t, n, r)
  BY <1>3, <1>7 DEF WithRefs
<1>. HIDE DEF t, n, r, c
<1>9. /\ Sound(hash, rt', Y) /\ OthersKept(t, Y, rt', Y, obj)
      /\ \A q : Counted(rt', Y, obj, q) <=> q = r
  <2>1. Sound(hash, t, Y) /\ n \in Taken(t, Y) /\ t.nodes[n].obj = obj /\ r \in Nat
    BY <1>4, <1>7 DEF t, n, r
  <2>2. /\ Sound(hash, WithRefs(t, n, r), Y) /\ OthersKept(t, Y, WithRefs(t, n, r), Y, obj)
        /\ \A q : Counted(WithRefs(t, n, r), Y, obj, q) <=> q = r
    BY <2>1, CountSet
  <2>. QED  BY <1>8, <2>2
<1>10. OthersKept(rt, Z, rt', Y, obj)
  BY <1>7, <1>9 DEF OthersKept, t
<1>11. held'[obj] = r /\ r > 0
  BY <1>4, <1>5 DEF r
<1>12. Ledger(rt', Y, held') /\ (Positive(rt, Z) => Positive(rt', Y))
  BY <1>2, <1>5, <1>9, <1>10, <1>11, LedgerMoves
<1>13. ~QueryAny => Positive(rt', Y) /\ ~failed'
  <2>1. ~QueryAny => GetAsserts(rt, obj)
    BY <1>2, AssertsMet
  <2>. QED  BY <1>2, <1>3, <1>12, <2>1
<1>14. Kept(hash', rt', held', failed', Y)
  BY <1>3, <1>9, <1>12, <1>13 DEF Kept
<1>15. hash' \in HashFuns
  BY <1>3, RInvFacts
<1>. QED  BY <1>5, <1>14, <1>15 DEF RInv

LEMMA GetRefCountKeeps ==
  ASSUME RInv, NEW obj \in Objs, GetRefCount(obj)
  PROVE  RInv'
<1>1. PICK Z : Kept(hash, rt, held, failed, Z)
  BY DEF RInv
<1>2. Sound(hash, rt, Z) /\ Ledger(rt, Z, held) /\ (~QueryAny => Positive(rt, Z) /\ ~failed)
  BY <1>1 DEF Kept
<1>. DEFINE g == Get(rt, obj, TRUE)
<1>3. /\ QueryAny \/ held[obj] > 0
      /\ rt' = g.rt /\ held' = held /\ failed' = (failed \/ ~GetAsserts(rt, obj)) /\ hash' = hash
  BY DEF GetRefCount
<1>4. \E Y : /\ Sound(hash, g.rt, Y) /\ g.ref \in Taken(g.rt, Y)
             /\ g.rt.nodes[g.ref].obj = obj /\ g.rt.nodes[g.ref].refs = held[obj]
             /\ OthersKept(rt, Z, g.rt, Y, obj)
             /\ held[obj] > 0 => g.rt = rt /\ Y = Z
  BY <1>2, RInvFacts, GetAdds, ZenonT(60)
<1>. HIDE DEF g
<1>5. PICK Y : /\ Sound(hash, g.rt, Y) /\ g.ref \in Taken(g.rt, Y)
               /\ g.rt.nodes[g.ref].obj = obj /\ g.rt.nodes[g.ref].refs = held[obj]
               /\ OthersKept(rt, Z, g.rt, Y, obj)
               /\ held[obj] > 0 => g.rt = rt /\ Y = Z
  BY <1>4
<1>6. \A q : Counted(g.rt, Y, obj, q) <=> q = held[obj]
  <2>1. g.ref \in 0 .. Y - 1 /\ \A m \in 0 .. Y - 1 : g.rt.nodes[m].obj = obj => m \in Taken(g.rt, Y)
    BY <1>5, ObjsAssumption DEF Taken
  <2>2. \A m \in 0 .. Y - 1 : g.rt.nodes[m].obj = obj => m = g.ref
    BY <1>5, <2>1 DEF Sound
  <2>. QED  BY <1>5, <2>1, <2>2 DEF Counted
<1>7. Ledger(g.rt, Y, held)
  BY <1>2, <1>5, <1>6, LedgerMoves
<1>8. ~QueryAny => Positive(g.rt, Y) /\ ~failed'
  <2>1. ~QueryAny => GetAsserts(rt, obj)
    BY <1>2, AssertsMet
  <2>2. ~QueryAny => g.rt = rt /\ Y = Z
    BY <1>3, <1>5
  <2>. QED  BY <1>2, <1>3, <2>1, <2>2
<1>9. Kept(hash', rt', held', failed', Y)
  BY <1>3, <1>5, <1>7, <1>8 DEF Kept
<1>10. hash' \in HashFuns /\ held' \in [Objs -> 0 .. MaxHeld]
  BY <1>3, RInvFacts
<1>. QED  BY <1>9, <1>10 DEF RInv

LEMMA ReleaseKeeps ==
  ASSUME RInv, NEW obj \in Objs, Release(obj)
  PROVE  RInv'
<1>1. PICK Z : Kept(hash, rt, held, failed, Z)
  BY DEF RInv
<1>2. Sound(hash, rt, Z) /\ Ledger(rt, Z, held) /\ (~QueryAny => Positive(rt, Z) /\ ~failed)
  BY <1>1 DEF Kept
<1>. DEFINE ref == Get(rt, obj, FALSE).ref
            c == held[obj]
            w == rt.nodes[ref].refs
<1>3. /\ c > 0 /\ held' = [held EXCEPT ![obj] = @ - 1] /\ hash' = hash
      /\ failed' = (failed \/ ref = NoNode)
      /\ ref # NoNode => rt' = IF w = 1 THEN Unlink(rt, obj) ELSE [rt EXCEPT !.nodes[ref].refs = @ - 1]
  BY DEF Release
<1>4. c \in 0 .. MaxHeld /\ c - 1 \in 0 .. MaxHeld /\ c - 1 \in Nat
  BY <1>3, RInvFacts
<1>5. held' \in [Objs -> 0 .. MaxHeld] /\ held'[obj] = c - 1 /\ \A o \in Objs : o # obj => held'[o] = held[o]
  BY <1>3, <1>4, RInvFacts
<1>6. Counted(rt, Z, obj, c) /\ \A r : Counted(rt, Z, obj, r) => r = c
  BY <1>2, <1>3 DEF Ledger
<1>7. Holds(rt, Z, obj)
  BY <1>6, HoldsIsCounted
<1>8. ref \in Taken(rt, Z) /\ rt.nodes[ref].obj = obj /\ ref # NoNode
  BY <1>2, <1>7, LookupFacts
<1>. HIDE DEF ref
<1>9. w = c
  <2>1. Counted(rt, Z, obj, w)
    BY <1>8 DEF Counted, Taken
  <2>. QED  BY <1>6, <2>1
<1>10. ~failed => ~failed'
  BY <1>3, <1>8
<1>11. CASE c = 1
  <2>1. rt' = Unlink(rt, obj)
    BY <1>3, <1>8, <1>9, <1>11
  <2>2. Sound(hash, rt', Z) /\ OthersKept(rt, Z, rt', Z, obj) /\ \A q : ~Counted(rt', Z, obj, q)
    BY <1>2, <1>7, <2>1, UnlinkForgets
  <2>3. ~(held'[obj] > 0)
    BY <1>5, <1>11
  <2>4. Ledger(rt', Z, held') /\ (Positive(rt, Z) => Positive(rt', Z))
    BY <1>2, <1>5, <2>2, <2>3, LedgerMoves
  <2>5. Kept(hash', rt', held', failed', Z)
    BY <1>2, <1>3, <1>10, <2>2, <2>4 DEF Kept
  <2>. QED  BY <1>3, <1>5, <2>5, RInvFacts DEF RInv
<1>12. CASE c # 1
  <2>. DEFINE r == c - 1
  <2>1. rt' = WithRefs(rt, ref, r)
    BY <1>3, <1>8, <1>9, <1>12 DEF WithRefs
  <2>2. r \in Nat /\ r > 0 /\ held'[obj] = r
    BY <1>3, <1>4, <1>5, <1>12
  <2>. HIDE DEF r
  <2>3. /\ Sound(hash, rt', Z) /\ OthersKept(rt, Z, rt', Z, obj)
        /\ \A q : Counted(rt', Z, obj, q) <=> q = r
    <3>1. /\ Sound(hash, WithRefs(rt, ref, r), Z) /\ OthersKept(rt, Z, WithRefs(rt, ref, r), Z, obj)
          /\ \A q : Counted(WithRefs(rt, ref, r), Z, obj, q) <=> q = r
      BY <1>2, <1>8, <2>2, CountSet
    <3>. QED  BY <2>1, <3>1
  <2>4. Ledger(rt', Z, held') /\ (Positive(rt, Z) => Positive(rt', Z))
    BY <1>2, <1>5, <2>2, <2>3, LedgerMoves
  <2>5. Kept(hash', rt', held', failed', Z)
    BY <1>2, <1>3, <1>10, <2>3, <2>4 DEF Kept
  <2>. QED  BY <1>3, <1>5, <2>5, RInvFacts DEF RInv
<1>. QED  BY <1>11, <1>12

LEMMA NextRInv == RInv /\ [Next]_vars => RInv'
<1>. SUFFICES ASSUME RInv, [Next]_vars PROVE RInv'
  OBVIOUS
<1>1. CASE Next
  <2>1. PICK obj \in Objs : AddRef(obj) \/ GetRefCount(obj) \/ Release(obj)
    BY <1>1 DEF Next
  <2>. QED  BY <2>1, AddRefKeeps, GetRefCountKeeps, ReleaseKeeps
<1>2. CASE UNCHANGED vars
  BY <1>2 DEF vars, RInv
<1>. QED  BY <1>1, <1>2


\* The lists of a sound table hold the nodes that belong on them, and end.
LEMMA SoundLists ==
  ASSUME NEW t, NEW Z, Sound(hash, t, Z)
  PROVE  /\ On(t, t.freelist) = Free(t, Z) /\ Ends(t, t.freelist)
         /\ \A b \in 0 .. Z - 1 : On(t, t.buckets[b]) = Hashed(hash, t, Z, b) /\ Ends(t, t.buckets[b])
<1>1. Typed(t, Z) /\ Free(t, Z) \subseteq 0 .. Z - 1 /\ \A b : Hashed(hash, t, Z, b) \subseteq 0 .. Z - 1
  BY DEF Sound, Free, Hashed
<1>2. ListOf(t.nodes, t.freelist, Free(t, Z))
  BY DEF Sound
<1>3. ASSUME NEW b \in 0 .. Z - 1
      PROVE  On(t, t.buckets[b]) = Hashed(hash, t, Z, b) /\ Ends(t, t.buckets[b])
  <2>1. ListOf(t.nodes, t.buckets[b], Hashed(hash, t, Z, b))
    BY DEF Sound
  <2>. QED  BY <1>1, <2>1, ListFacts
<1>. QED  BY <1>1, <1>2, <1>3, ListFacts

LEMMA RInvTypeOK == RInv => TypeOK
<1>. SUFFICES ASSUME RInv PROVE TypeOK
  OBVIOUS
<1>1. PICK Z : Kept(hash, rt, held, failed, Z)
  BY DEF RInv
<1>2. Sound(hash, rt, Z)
  BY <1>1 DEF Kept
<1>3. Slots(rt) = Z /\ DOMAIN rt.nodes = 0 .. Z - 1 /\ DOMAIN rt.buckets = 0 .. Z - 1
  BY <1>2, SlotsFact DEF Sound
<1>4. /\ rt.nodes \in [0 .. Z - 1 -> [obj : Objs \cup {Nil}, refs : Nat, next : 0 .. Z - 1 \cup {NoNode}]]
      /\ rt.buckets \in [0 .. Z - 1 -> 0 .. Z - 1 \cup {NoNode}]
      /\ rt.freelist \in 0 .. Z - 1 \cup {NoNode}
  BY <1>2, SoundFacts
<1>5. (\A b \in 0 .. Z - 1 : rt.buckets[b] \in 0 .. Z - 1 \cup {NoNode})
  BY <1>4
<1>6. \A n \in 0 .. Z - 1 : rt.nodes[n] \in [obj : Objs \cup {Nil}, refs : Nat, next : 0 .. Z - 1 \cup {NoNode}]
  BY <1>4
<1>. QED  BY <1>3, <1>4, <1>5, <1>6, RInvFacts DEF TypeOK

LEMMA RInvPartition == RInv => NodesPartitioned
<1>. SUFFICES ASSUME RInv PROVE NodesPartitioned
  OBVIOUS
<1>1. PICK Z : Kept(hash, rt, held, failed, Z)
  BY DEF RInv
<1>2. Sound(hash, rt, Z)
  BY <1>1 DEF Kept
<1>3. Slots(rt) = Z /\ DOMAIN rt.nodes = 0 .. Z - 1 /\ DOMAIN rt.buckets = 0 .. Z - 1
  BY <1>2, SlotsFact DEF Sound
<1>. DEFINE N == 0 .. Z - 1
            free == On(rt, rt.freelist)
            list == [b \in N |-> On(rt, rt.buckets[b])]
<1>4. free = Free(rt, Z) /\ Ends(rt, rt.freelist)
  BY <1>2, SoundLists
<1>5. \A b \in N : list[b] = Hashed(hash, rt, Z, b) /\ Ends(rt, rt.buckets[b])
  BY <1>2, SoundLists
<1>6. \A n \in N, b \in N : n \in Hashed(hash, rt, Z, b) <=> n \notin Free(rt, Z) /\ b = hash[rt.nodes[n].obj] % Z
  BY DEF Hashed, Free
<1>7. \A n : MainPos(rt, rt.nodes[n].obj) = hash[rt.nodes[n].obj] % Z
  BY <1>3 DEF MainPos
<1>8. ListsEnd
  BY <1>3, <1>4, <1>5 DEF ListsEnd
<1>9. \A n \in N : rt.nodes[n].obj = Nil <=> n \in Free(rt, Z)
  BY DEF Free
<1>10. N \ Free(rt, Z) = Taken(rt, Z) /\ Free(rt, Z) \subseteq N
  BY DEF Free, Taken
<1>11. rt.slotused = Cardinality(N \ free)
  BY <1>2, <1>4, <1>10 DEF Sound
<1>. HIDE DEF free, list, N
<1>12. \A n \in N \ free, b \in N : n \in list[b] <=> b = MainPos(rt, rt.nodes[n].obj)
  BY <1>4, <1>5, <1>6, <1>7
<1>13. \A n \in free, b \in N : n \notin list[b]
  BY <1>4, <1>5, <1>6, <1>10
<1>14. \A n \in N : rt.nodes[n].obj = Nil <=> n \in free
  BY <1>4, <1>9
<1>15. DOMAIN rt.nodes = N
  BY <1>3 DEF N
<1>. QED  BY <1>8, <1>11, <1>12, <1>13, <1>14, <1>15 DEF NodesPartitioned, free, list

\* What the table answers for an object is what the host holds.
Answers(t, hd) ==
  \A obj \in Objs : LET ref == Get(t, obj, FALSE).ref
                    IN  hd[obj] = IF ref = NoNode THEN 0 ELSE t.nodes[ref].refs

LEMMA RInvAnswers == RInv => Answers(rt, held)
<1>. SUFFICES ASSUME RInv, NEW obj \in Objs
              PROVE  LET ref == Get(rt, obj, FALSE).ref
                     IN  held[obj] = IF ref = NoNode THEN 0 ELSE rt.nodes[ref].refs
  BY DEF Answers
<1>1. PICK Z : Kept(hash, rt, held, failed, Z)
  BY DEF RInv
<1>2. Sound(hash, rt, Z) /\ Ledger(rt, Z, held)
  BY <1>1 DEF Kept
<1>. DEFINE ref == Get(rt, obj, FALSE).ref
<1>3. /\ ~Holds(rt, Z, obj) => ref = NoNode
      /\ Holds(rt, Z, obj) => ref \in Taken(rt, Z) /\ rt.nodes[ref].obj = obj /\ ref # NoNode
  BY <1>2, LookupFacts
<1>4. held[obj] \in Nat
  BY RInvFacts
<1>. HIDE DEF ref
<1>5. CASE Holds(rt, Z, obj)
  <2>1. Counted(rt, Z, obj, rt.nodes[ref].refs)
    BY <1>3, <1>5 DEF Counted, Taken
  <2>2. rt.nodes[ref].refs = held[obj]
    BY <1>2, <2>1 DEF Ledger
  <2>. QED  BY <1>3, <1>5, <2>2 DEF ref
<1>6. CASE ~Holds(rt, Z, obj)
  <2>1. ~(held[obj] > 0)
    BY <1>2, <1>6, HoldsIsCounted DEF Ledger
  <2>2. held[obj] = 0 /\ ref = NoNode
    BY <1>3, <1>4, <1>6, <2>1
  <2>. QED  BY <2>2 DEF ref
<1>. QED  BY <1>5, <1>6

LEMMA RInvPositive ==
  ASSUME ~QueryAny
  PROVE  RInv => AssertionsHold /\ \A n \in DOMAIN rt.nodes : rt.nodes[n].obj # Nil => rt.nodes[n].refs > 0
<1>. SUFFICES ASSUME RInv
              PROVE  AssertionsHold /\ \A n \in DOMAIN rt.nodes : rt.nodes[n].obj # Nil => rt.nodes[n].refs > 0
  OBVIOUS
<1>1. PICK Z : Kept(hash, rt, held, failed, Z)
  BY DEF RInv
<1>2. Sound(hash, rt, Z) /\ Positive(rt, Z) /\ ~failed
  BY <1>1 DEF Kept
<1>3. DOMAIN rt.nodes = 0 .. Z - 1
  BY <1>2, SlotsFact DEF Sound
<1>4. ASSUME NEW n \in 0 .. Z - 1, rt.nodes[n].obj # Nil PROVE rt.nodes[n].refs > 0
  <2>1. rt.nodes[n].obj \in Objs
    BY <1>2, <1>4, SoundFacts DEF Taken
  <2>2. Counted(rt, Z, rt.nodes[n].obj, rt.nodes[n].refs)
    BY DEF Counted
  <2>. QED  BY <1>2, <2>1, <2>2 DEF Positive
<1>. QED  BY <1>2, <1>3, <1>4 DEF AssertionsHold

-----------------------------------------------------------------------------
(* The theorems. *)

\* Whatever the host asks, through every collision, resize and reuse of a node,
\* each node is on exactly one list, no list has a cycle, and sq_getrefcount and
\* sq_release find for each object the references the host holds on it.
THEOREM TableStaysSound == Spec => [](TypeOK /\ NodesPartitioned /\ Answers(rt, held))
<1>1. Init => RInv
  BY InitRInv
<1>2. RInv /\ [Next]_vars => RInv'
  BY NextRInv
<1>3. RInv => TypeOK /\ NodesPartitioned /\ Answers(rt, held)
  BY RInvTypeOK, RInvPartition, RInvAnswers
<1>. QED  BY <1>1, <1>2, <1>3, PTL DEF Spec

\* A host that asks only for the counts of objects it holds keeps the whole
\* invariant: an object it no longer holds has no node in the table.
THEOREM CountsMatchLedger ==
  ASSUME ~QueryAny
  PROVE  Spec => []Inv
<1>1. Init => RInv
  BY InitRInv
<1>2. RInv /\ [Next]_vars => RInv'
  BY NextRInv
<1>3. RInv => Inv
  <2>. SUFFICES ASSUME RInv PROVE Inv
    OBVIOUS
  <2>1. TypeOK /\ NodesPartitioned /\ Answers(rt, held)
    BY RInvTypeOK, RInvPartition, RInvAnswers
  <2>2. \A n \in DOMAIN rt.nodes : rt.nodes[n].obj # Nil => rt.nodes[n].refs > 0
    BY RInvPositive
  <2>. QED  BY <2>1, <2>2 DEF Inv, CountsAreLedger, Answers
<1>. QED  BY <1>1, <1>2, <1>3, PTL DEF Spec

\* For such a host no assertion of RefTable ever fails: Release finds the object,
\* Resize meets no count of zero, and the node Add takes is clean.
THEOREM AssertionsNeverFail ==
  ASSUME ~QueryAny
  PROVE  Spec => []AssertionsHold
<1>1. Init => RInv
  BY InitRInv
<1>2. RInv /\ [Next]_vars => RInv'
  BY NextRInv
<1>3. RInv => AssertionsHold
  BY RInvPositive
<1>. QED  BY <1>1, <1>2, <1>3, PTL DEF Spec
=============================================================================
