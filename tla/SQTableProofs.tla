--------------------------- MODULE SQTableProofs ---------------------------
(***************************************************************************)
(* Proofs about SQTable: for any keys, hash codes and sizes the node array *)
(* keeps its shape, answers as the mapping it stands for, and implements   *)
(* SQMap.                                                                  *)
(***************************************************************************)
EXTENDS SQTable, SQFacts

-----------------------------------------------------------------------------
(* Powers of two. *)

LEMMA DivMod ==
  ASSUME NEW n \in Nat, NEW d \in Nat \ {0}
  PROVE  n \div d \in Nat /\ n % d \in Nat /\ n % d < d /\ n = d * (n \div d) + (n % d)
OBVIOUS

LEMMA ModOfMultiple ==
  ASSUME NEW n \in Nat, NEW d \in Nat \ {0}, NEW q \in Nat, n = d * q
  PROVE  n % d = 0
<1>1. n \div d \in Nat /\ n % d \in Nat /\ n % d < d /\ n = d * (n \div d) + (n % d)
  BY DivMod
<1>. DEFINE p == n \div d
            r == n % d
<1>. HIDE DEF p, r
<1>2. p \in Nat /\ r \in Nat /\ r < d /\ d * q = d * p + r
  BY <1>1 DEF p, r
<1>3. \A x, y \in Int : x = d * y /\ 0 <= x /\ x < d => x = 0
  <2>. SUFFICES ASSUME NEW y \in Int, 0 <= d * y, d * y < d PROVE d * y = 0
    OBVIOUS
  <2>1. CASE y <= 0
    <3>1. \A e \in Int : y * e = e * y
      OBVIOUS
    <3>2. d * y <= 0
      BY <2>1
    <3>. QED  BY <3>2
  <2>2. CASE y >= 1
    <3>1. d * y >= d
      BY <2>2
    <3>. QED  BY <3>1
  <2>. QED  BY <2>1, <2>2
<1>4. r = d * (q - p)
  BY <1>2
<1>5. r = 0
  BY <1>2, <1>3, <1>4
<1>. QED  BY <1>5 DEF r

LEMMA PowerDoubled ==
  ASSUME NEW n \in Nat \ {0}, IsPowerOfTwo(n)
  PROVE  IsPowerOfTwo(n * 2)
<1>. SUFFICES ASSUME NEW d \in 2 .. n * 2, (n * 2) % d = 0, d % 2 # 0 PROVE FALSE
  BY DEF IsPowerOfTwo
<1>. DEFINE q == (n * 2) \div d
            e == d \div 2
            c == n - e * q
<1>1. q \in Nat /\ n * 2 = d * q
  BY DivMod
<1>2. e \in Nat /\ d = 2 * e + 1
  BY DivMod
<1>. HIDE DEF q, e
<1>3. c \in Int /\ q = 2 * c
  <2>1. e * q \in Nat /\ d * q = 2 * (e * q) + q
    BY <1>1, <1>2
  <2>. QED  BY <1>1, <2>1
<1>4. n = d * c
  <2>. HIDE DEF c
  <2>1. d * (2 * c) = 2 * (d * c)
    BY <1>3
  <2>. QED  BY <1>1, <1>3, <2>1
<1>. HIDE DEF c
<1>5. c \in Nat \ {0}
  <2>1. 2 * c \in Nat
    BY <1>1, <1>3
  <2>2. c # 0
    BY <1>4
  <2>. QED  BY <1>3, <2>1, <2>2
<1>6. d <= n
  <2>1. d * c >= d
    BY <1>5
  <2>. QED  BY <1>4, <2>1
<1>7. n % d = 0
  <2>1. d \in Nat \ {0}
    OBVIOUS
  <2>. QED  BY <1>4, <1>5, <2>1, ModOfMultiple
<1>. QED  BY <1>6, <1>7 DEF IsPowerOfTwo

\* Half of a power of two that is not the least size is one again, and not below it.
LEMMA PowerHalved ==
  ASSUME NEW n \in Nat, n > 4, IsPowerOfTwo(n)
  PROVE  IsPowerOfTwo(n \div 2) /\ n = 2 * (n \div 2) /\ n \div 2 >= 4
<1>. DEFINE h == n \div 2
<1>1. n % n = 0 /\ n \in 2 .. n
  OBVIOUS
<1>2. n % 2 = 0
  BY <1>1 DEF IsPowerOfTwo
<1>3. h \in Nat /\ n = 2 * h
  BY <1>2
<1>. HIDE DEF h
<1>4. h # 3
  <2>1. ASSUME h = 3 PROVE FALSE
    <3>1. n = 6 /\ 3 \in 2 .. 6 /\ 6 % 3 = 0 /\ 3 % 2 # 0
      BY <1>3, <2>1
    <3>. QED  BY <3>1 DEF IsPowerOfTwo
  <2>. QED  BY <2>1
<1>5. h >= 4
  BY <1>3, <1>4
<1>6. IsPowerOfTwo(h)
  <2>. SUFFICES ASSUME NEW d \in 2 .. h, h % d = 0 PROVE d % 2 = 0
    BY DEF IsPowerOfTwo
  <2>. DEFINE q == h \div d
  <2>1. q \in Nat /\ h = d * q
    BY <1>3, DivMod
  <2>. HIDE DEF q
  <2>2. n = d * (2 * q)
    BY <1>3, <2>1
  <2>3. n % d = 0
    <3>1. 2 * q \in Nat /\ d \in Nat \ {0}
      BY <2>1
    <3>. QED  BY <2>2, <3>1, ModOfMultiple
  <2>4. d \in 2 .. n
    BY <1>3
  <2>. QED  BY <2>3, <2>4 DEF IsPowerOfTwo
<1>. QED  BY <1>3, <1>5, <1>6 DEF h

\* Between a number and its double there is a power of two.
LEMMA PowerBetween ==
  ASSUME NEW m \in Nat, m >= 4
  PROVE  \E p \in m .. 2 * m : IsPowerOfTwo(p)
<1>. DEFINE S == {n \in Nat : \E p \in n + 4 .. 2 * (n + 4) : IsPowerOfTwo(p)}
<1>1. 0 \in S
  <2>1. 4 \in 0 + 4 .. 2 * (0 + 4)
    OBVIOUS
  <2>2. IsPowerOfTwo(4)
    <3>. SUFFICES ASSUME NEW d \in 2 .. 4, 4 % d = 0 PROVE d % 2 = 0
      BY DEF IsPowerOfTwo
    <3>1. d = 2 \/ d = 3 \/ d = 4
      OBVIOUS
    <3>2. 4 % 3 # 0 /\ 2 % 2 = 0 /\ 4 % 2 = 0
      OBVIOUS
    <3>. QED  BY <3>1, <3>2
  <2>. QED  BY <2>1, <2>2
<1>2. ASSUME NEW n \in Nat, n \in S PROVE n + 1 \in S
  <2>1. PICK p \in n + 4 .. 2 * (n + 4) : IsPowerOfTwo(p)
    BY <1>2
  <2>2. CASE p = n + 4
    <3>1. p * 2 \in n + 1 + 4 .. 2 * (n + 1 + 4) /\ p \in Nat \ {0}
      BY <2>2
    <3>2. IsPowerOfTwo(p * 2)
      BY <2>1, <3>1, PowerDoubled
    <3>. QED  BY <3>1, <3>2
  <2>3. CASE p # n + 4
    <3>1. p \in n + 1 + 4 .. 2 * (n + 1 + 4)
      BY <2>3
    <3>. QED  BY <2>1, <3>1
  <2>. QED  BY <2>2, <2>3
<1>. HIDE DEF S
<1>3. \A n \in Nat : n \in S
  BY <1>1, <1>2, SetInduction
<1>4. m - 4 \in Nat /\ (m - 4) + 4 = m
  OBVIOUS
<1>5. \E p \in (m - 4) + 4 .. 2 * ((m - 4) + 4) : IsPowerOfTwo(p)
  BY <1>3, <1>4 DEF S
<1>. QED  BY <1>4, <1>5

-----------------------------------------------------------------------------
(* Chains: the nodes that the next pointers reach. *)

NodeIn(Z) == [key : Keys \cup {Nil}, val : Vals \cup {Nil}, next : 0 .. Z - 1 \cup {NoNode}]

Nodes(nd, Z) == Z \in Nat \ {0} /\ nd \in [0 .. Z - 1 -> NodeIn(Z)]

Closed(nd, C) == \A x \in C : nd[x].next # NoNode => nd[x].next \in C

\* The nodes on the chain that starts at i: the least closed set around i.
Reach(nd, Z, i) == {j \in 0 .. Z - 1 : \A C \in SUBSET (0 .. Z - 1) : i \in C /\ Closed(nd, C) => j \in C}

\* Along the links the rank falls.
Falls(nd, Z, r) == \A x \in 0 .. Z - 1 : nd[x].next # NoNode => r[nd[x].next] < r[x]
Ranked(nd, Z) == \E r \in [0 .. Z - 1 -> Nat] : Falls(nd, Z, r)

LEMMA NodesFacts ==
  ASSUME NEW nd, NEW Z, Nodes(nd, Z)
  PROVE  /\ Z \in Nat \ {0} /\ DOMAIN nd = 0 .. Z - 1 /\ NoNode \notin 0 .. Z - 1
         /\ \A x \in 0 .. Z - 1 : nd[x] \in NodeIn(Z)
         /\ \A x \in 0 .. Z - 1 : nd[x].next # NoNode => nd[x].next \in 0 .. Z - 1
         /\ LinkedIn(nd, Z)
<1>1. Z \in Nat \ {0} /\ DOMAIN nd = 0 .. Z - 1 /\ \A x \in 0 .. Z - 1 : nd[x] \in NodeIn(Z)
  BY DEF Nodes
<1>2. \A x \in 0 .. Z - 1 : nd[x].next # NoNode => nd[x].next \in 0 .. Z - 1
  BY <1>1 DEF NodeIn
<1>3. NoNode \notin 0 .. Z - 1
  BY <1>1 DEF NoNode
<1>. QED  BY <1>1, <1>2, <1>3 DEF LinkedIn

LEMMA ReachStart ==
  ASSUME NEW nd, NEW Z, NEW i \in 0 .. Z - 1
  PROVE  i \in Reach(nd, Z, i) /\ Reach(nd, Z, i) \subseteq 0 .. Z - 1
BY DEF Reach

LEMMA ReachClosed ==
  ASSUME NEW nd, NEW Z, Nodes(nd, Z), NEW i \in 0 .. Z - 1
  PROVE  Closed(nd, Reach(nd, Z, i))
<1>. SUFFICES ASSUME NEW x \in Reach(nd, Z, i), nd[x].next # NoNode PROVE nd[x].next \in Reach(nd, Z, i)
  BY DEF Closed
<1>1. x \in 0 .. Z - 1 /\ nd[x].next \in 0 .. Z - 1
  <2>1. x \in 0 .. Z - 1
    BY DEF Reach
  <2>. QED  BY <2>1, NodesFacts
<1>2. ASSUME NEW C \in SUBSET (0 .. Z - 1), i \in C, Closed(nd, C) PROVE nd[x].next \in C
  <2>1. x \in C
    BY <1>2 DEF Reach
  <2>. QED  BY <1>2, <2>1 DEF Closed
<1>. QED  BY <1>1, <1>2 DEF Reach

LEMMA ReachLeast ==
  ASSUME NEW nd, NEW Z, NEW i, NEW C \in SUBSET (0 .. Z - 1), i \in C, Closed(nd, C)
  PROVE  Reach(nd, Z, i) \subseteq C
BY DEF Reach

\* The chain that starts at i is i and the chain that starts at what it links to.
LEMMA ReachLast ==
  ASSUME NEW nd, NEW Z, NEW i \in 0 .. Z - 1, nd[i].next = NoNode
  PROVE  Reach(nd, Z, i) = {i}
<1>1. {i} \in SUBSET (0 .. Z - 1) /\ i \in {i} /\ Closed(nd, {i})
  BY DEF Closed
<1>2. Reach(nd, Z, i) \subseteq {i}
  BY <1>1, ReachLeast
<1>. QED  BY <1>2, ReachStart

LEMMA ReachNext ==
  ASSUME NEW nd, NEW Z, Nodes(nd, Z), NEW i \in 0 .. Z - 1, nd[i].next # NoNode
  PROVE  Reach(nd, Z, i) = Reach(nd, Z, nd[i].next) \cup {i}
<1>. DEFINE x == nd[i].next
            R == Reach(nd, Z, x)
<1>1. x \in 0 .. Z - 1
  BY NodesFacts
<1>2. Closed(nd, R) /\ x \in R /\ R \subseteq 0 .. Z - 1
  BY <1>1, ReachClosed, ReachStart
<1>. HIDE DEF R
<1>3. Closed(nd, R \cup {i}) /\ R \cup {i} \in SUBSET (0 .. Z - 1) /\ i \in R \cup {i}
  BY <1>2 DEF Closed
<1>4. Reach(nd, Z, i) \subseteq R \cup {i}
  BY <1>3, ReachLeast
<1>. DEFINE Q == Reach(nd, Z, i)
<1>5. Closed(nd, Q) /\ i \in Q /\ Q \in SUBSET (0 .. Z - 1)
  BY ReachClosed, ReachStart
<1>. HIDE DEF Q
<1>6. x \in Q
  BY <1>5 DEF Closed
<1>7. R \subseteq Q
  <2>. HIDE DEF x
  <2>. QED  BY <1>5, <1>6, ReachLeast DEF R
<1>. QED  BY <1>4, <1>5, <1>7 DEF Q, R

\* Where the rank falls along the links, a chain is a list.
LEMMA ChainIsList ==
  ASSUME NEW nd, NEW Z, Nodes(nd, Z), Ranked(nd, Z), NEW i \in 0 .. Z - 1
  PROVE  ListOf(nd, i, Reach(nd, Z, i))
<1>1. PICK r \in [0 .. Z - 1 -> Nat] : Falls(nd, Z, r)
  BY DEF Ranked
<1>. DEFINE S == {n \in Nat : \A x \in 0 .. Z - 1 : r[x] = n => ListOf(nd, x, Reach(nd, Z, x))}
<1>2. ASSUME NEW n \in Nat, \A m \in Nat : m < n => m \in S PROVE n \in S
  <2>. SUFFICES ASSUME NEW x \in 0 .. Z - 1, r[x] = n PROVE ListOf(nd, x, Reach(nd, Z, x))
    OBVIOUS
  <2>1. CASE nd[x].next = NoNode
    <3>1. ListOf(nd, x, {} \cup {x})
      <4>1. ListOf(nd, NoNode, {}) /\ SameLinks(nd, nd, {}) /\ x \notin {}
        BY ListOfNone DEF SameLinks
      <4>. QED  BY <2>1, <4>1, ListPush
    <3>2. {} \cup {x} = Reach(nd, Z, x)
      BY <2>1, ReachLast
    <3>. QED  BY <3>1, <3>2
  <2>2. CASE nd[x].next # NoNode
    <3>. DEFINE y == nd[x].next
    <3>1. y \in 0 .. Z - 1 /\ r[y] < r[x]
      BY <1>1, <2>2, NodesFacts DEF Falls
    <3>2. r[y] \in Nat
      BY <3>1
    <3>3. ListOf(nd, y, Reach(nd, Z, y))
      BY <1>2, <3>1, <3>2
    <3>4. x \notin Reach(nd, Z, y)
      <4>. DEFINE C == {z \in 0 .. Z - 1 : r[z] <= r[y]}
      <4>1. ASSUME NEW z \in C, nd[z].next # NoNode PROVE nd[z].next \in C
        <5>1. z \in 0 .. Z - 1 /\ nd[z].next \in 0 .. Z - 1 /\ r[nd[z].next] < r[z] /\ r[z] <= r[y]
          BY <1>1, <4>1, NodesFacts DEF Falls
        <5>2. r[z] \in Nat /\ r[nd[z].next] \in Nat
          BY <5>1
        <5>. QED  BY <3>2, <5>1, <5>2
      <4>2. Closed(nd, C) /\ y \in C /\ C \in SUBSET (0 .. Z - 1)
        BY <3>1, <3>2, <4>1 DEF Closed
      <4>3. Reach(nd, Z, y) \subseteq C
        <5>. HIDE DEF C, y
        <5>. QED  BY <4>2, ReachLeast
      <4>4. x \notin C
        BY <3>1, <3>2
      <4>. QED  BY <4>3, <4>4
    <3>5. SameLinks(nd, nd, Reach(nd, Z, y))
      BY DEF SameLinks
    <3>6. ListOf(nd, x, Reach(nd, Z, y) \cup {x})
      BY <3>3, <3>4, <3>5, ListPush
    <3>7. Reach(nd, Z, x) = Reach(nd, Z, y) \cup {x}
      BY <2>2, ReachNext
    <3>. QED  BY <3>6, <3>7
  <2>. QED  BY <2>1, <2>2
<1>3. \A n \in Nat : n \in S
  <2>. HIDE DEF S
  <2>. QED  BY <1>2, StrongInduction
<1>4. r[i] \in Nat
  OBVIOUS
<1>. QED  BY <1>3, <1>4

-----------------------------------------------------------------------------
(* Tables. *)

Shape(t, Z) ==
  /\ Z \in Nat \ {0} /\ ~t.nested
  /\ t \in [nodes : [0 .. Z - 1 -> NodeIn(Z)], firstfree : 0 .. Z - 1, used : Nat, nested : BOOLEAN]

IsHash(hs) == hs \in [Keys \cup {Nil} -> Nat]

UsedIn(nd, Z) == {i \in 0 .. Z - 1 : nd[i].key # Nil}

\* No two nodes link to the same node.
Single(nd, Z) ==
  \A x, y \in 0 .. Z - 1 : nd[x].next # NoNode /\ nd[x].next = nd[y].next => x = y

\* No two nodes hold the same key.
Distinct(nd, Z) ==
  \A x, y \in 0 .. Z - 1 : nd[x].key # Nil /\ nd[x].key = nd[y].key => x = y

\* Every key is on the chain of its main position.
Reached(hs, nd, Z) == \A x \in UsedIn(nd, Z) : x \in Reach(nd, Z, hs[nd[x].key] % Z)

\* Where a key sits that is not at its main position, no key has its main position.
Settled(hs, nd, Z) ==
  \A x, y \in UsedIn(nd, Z) : hs[nd[x].key] % Z # x => hs[nd[y].key] % Z # x

Net(hs, nd, Z) == Ranked(nd, Z) /\ Single(nd, Z) /\ Distinct(nd, Z) /\ Reached(hs, nd, Z) /\ Settled(hs, nd, Z)

\* What has been linked lies above the place handed out next.
Above(nd, Z, ff) == \A x \in 0 .. Z - 1 : nd[x].next # NoNode => nd[x].next > ff

Good(hs, t, Z) ==
  /\ IsHash(hs) /\ Shape(t, Z) /\ Net(hs, t.nodes, Z)
  /\ Above(t.nodes, Z, t.firstfree) /\ IsFree(t.nodes[t.firstfree])
  /\ t.used = Cardinality(UsedIn(t.nodes, Z))

LEMMA ShapeFacts ==
  ASSUME NEW t, NEW Z, Shape(t, Z)
  PROVE  /\ Size(t) = Z /\ Z \in Nat \ {0} /\ DOMAIN t.nodes = 0 .. Z - 1 /\ Nodes(t.nodes, Z)
         /\ t.firstfree \in 0 .. Z - 1 /\ t.used \in Nat /\ ~t.nested
<1>1. Nodes(t.nodes, Z) /\ t.firstfree \in 0 .. Z - 1 /\ t.used \in Nat
  BY DEF Shape, Nodes
<1>2. Z \in Nat \ {0} /\ DOMAIN t.nodes = 0 .. Z - 1
  BY <1>1, NodesFacts
<1>3. Size(t) = Z
  BY <1>2, IndexCount DEF Size
<1>. QED  BY <1>1, <1>2, <1>3 DEF Shape

\* The remainder by the size is an index.
LEMMA PosType ==
  ASSUME NEW hs, IsHash(hs), NEW key \in Keys \cup {Nil}, NEW Z \in Nat \ {0}
  PROVE  hs[key] % Z \in 0 .. Z - 1
<1>1. hs[key] \in Nat
  BY DEF IsHash
<1>. QED  BY <1>1

\* _Get finds the key if it is on the chain of its main position.
LEMMA SearchFacts ==
  ASSUME NEW t, NEW Z, Shape(t, Z), Ranked(t.nodes, Z), IsHash(hash), NEW key \in Keys \cup {Nil}
  PROVE  /\ _Get(t, key) # NoNode => _Get(t, key) \in 0 .. Z - 1 /\ t.nodes[_Get(t, key)].key = key
         /\ _Get(t, key) = NoNode => \A x \in Reach(t.nodes, Z, hash[key] % Z) : t.nodes[x].key # key
<1>. DEFINE nd == t.nodes
            b == hash[key] % Z
            R == Reach(nd, Z, b)
<1>1. Size(t) = Z /\ Nodes(nd, Z) /\ Z \in Nat \ {0} /\ LinkedIn(nd, Z)
  BY ShapeFacts, NodesFacts
<1>2. b \in 0 .. Z - 1
  BY <1>1, PosType
<1>3. ListOf(nd, b, R) /\ R \subseteq 0 .. Z - 1
  <2>. HIDE DEF b, nd
  <2>. QED  BY <1>1, <1>2, ChainIsList, ReachStart DEF nd
<1>4. PICK k, s : Strung(nd, b, R, k, s)
  BY <1>3 DEF ListOf
<1>5. NodesFrom(nd, b) = s /\ Len(s) = k
  <2>. HIDE DEF R, nd, b
  <2>. QED  BY <1>1, <1>3, <1>4, WalkIs
<1>6. Chain(t, MainPos(t, key)) = s
  BY <1>1, <1>5 DEF Chain, MainPos
<1>. DEFINE I == {i \in 1 .. k : nd[s[i]].key = key}
            m == IF I # {} THEN Min(I) ELSE 0
<1>7. _Get(t, key) = IF m = 0 THEN NoNode ELSE s[m]
  BY <1>5, <1>6 DEF _Get, SelectInSeq
<1>. HIDE DEF nd, b, R
<1>8. k \in Nat /\ (\A i \in 1 .. k : s[i] \in R) /\ (\A x \in R : \E i \in 1 .. k : s[i] = x)
  BY <1>4 DEF Strung
<1>9. CASE I = {}
  <2>1. m = 0
    BY <1>9
  <2>2. ASSUME NEW x \in R PROVE nd[x].key # key
    <3>1. PICK i \in 1 .. k : s[i] = x
      BY <1>8
    <3>. QED  BY <1>9, <3>1
  <2>. QED  BY <1>7, <2>1, <2>2 DEF nd, R, b
<1>10. CASE I # {}
  <2>1. Min(I) \in I
    <3>1. I \subseteq Nat
      BY <1>8
    <3>. HIDE DEF I
    <3>2. \E x \in I : \A y \in I : x <= y
      BY <1>10, <3>1, LeastNatural
    <3>. QED  BY <3>2 DEF Min
  <2>2. m \in 1 .. k /\ m # 0 /\ nd[s[m]].key = key
    BY <1>8, <1>10, <2>1
  <2>. HIDE DEF m
  <2>3. _Get(t, key) = s[m] /\ s[m] \in 0 .. Z - 1
    BY <1>3, <1>7, <1>8, <2>2
  <2>4. s[m] # NoNode
    BY <1>1, <2>3, NodesFacts
  <2>. QED  BY <2>2, <2>3, <2>4 DEF nd
<1>. QED  BY <1>9, <1>10

\* The node of a key that is in the table.
LEMMA GetFacts ==
  ASSUME NEW t, NEW Z, Shape(t, Z), Net(hash, t.nodes, Z), IsHash(hash), NEW key \in Keys
  PROVE  /\ _Get(t, key) # NoNode => _Get(t, key) \in 0 .. Z - 1 /\ t.nodes[_Get(t, key)].key = key
         /\ \A x \in 0 .. Z - 1 : t.nodes[x].key = key => _Get(t, key) = x
         /\ _Get(t, key) = NoNode <=> \A x \in 0 .. Z - 1 : t.nodes[x].key # key
<1>. DEFINE g == _Get(t, key)
            nd == t.nodes
<1>1. /\ g # NoNode => g \in 0 .. Z - 1 /\ nd[g].key = key
      /\ g = NoNode => \A x \in Reach(nd, Z, hash[key] % Z) : nd[x].key # key
  BY SearchFacts DEF Net
<1>2. key # Nil
  BY KeysAssumption
<1>3. Reached(hash, nd, Z) /\ Distinct(nd, Z) /\ NoNode \notin 0 .. Z - 1
  BY ShapeFacts, NodesFacts DEF Net
<1>. HIDE DEF g, nd
<1>4. ASSUME NEW x \in 0 .. Z - 1, nd[x].key = key PROVE g = x
  <2>1. x \in UsedIn(nd, Z)
    BY <1>2, <1>4 DEF UsedIn
  <2>2. x \in Reach(nd, Z, hash[key] % Z)
    BY <1>3, <1>4, <2>1 DEF Reached
  <2>3. g # NoNode
    BY <1>1, <1>4, <2>2
  <2>. QED  BY <1>1, <1>2, <1>3, <1>4, <2>3 DEF Distinct
<1>5. g = NoNode <=> \A x \in 0 .. Z - 1 : nd[x].key # key
  BY <1>1, <1>3, <1>4
<1>. QED  BY <1>1, <1>4, <1>5 DEF g, nd

-----------------------------------------------------------------------------
(* The three ways Place puts a key into the array.  nd is the array before and *)
(* md the one after, m the main position of the key, n the free place, p the   *)
(* node that links to m.                                                       *)

Taking(nd, m, key) == [nd EXCEPT ![m].key = key]
Linking(nd, m, n, key) == [nd EXCEPT ![m].next = n, ![n].key = key, ![n].next = nd[m].next]
Moving(nd, p, m, n, key) ==
  [nd EXCEPT ![p].next = n, ![n] = nd[m], ![m] = [EmptyNode EXCEPT !.key = key]]

\* Outside T the arrays are the same.
SameBut(nd, md, Z, T) == \A x \in 0 .. Z - 1 : x \notin T => md[x] = nd[x]

IsTaking(nd, md, Z, m, key) ==
  /\ SameBut(nd, md, Z, {m})
  /\ md[m].key = key /\ md[m].val = nd[m].val /\ md[m].next = nd[m].next

IsLinking(nd, md, Z, m, n, key) ==
  /\ SameBut(nd, md, Z, {m, n})
  /\ md[m].key = nd[m].key /\ md[m].val = nd[m].val /\ md[m].next = n
  /\ md[n].key = key /\ md[n].val = nd[n].val /\ md[n].next = nd[m].next

IsMoving(nd, md, Z, p, m, n, key) ==
  /\ SameBut(nd, md, Z, {p, m, n})
  /\ md[p].key = nd[p].key /\ md[p].val = nd[p].val /\ md[p].next = n
  /\ md[n] = nd[m]
  /\ md[m].key = key /\ md[m].val = Nil /\ md[m].next = NoNode

LEMMA TakingFacts ==
  ASSUME NEW nd, NEW Z, Nodes(nd, Z), NEW m \in 0 .. Z - 1, NEW key \in Keys
  PROVE  Nodes(Taking(nd, m, key), Z) /\ IsTaking(nd, Taking(nd, m, key), Z, m, key)
<1>. DEFINE node == [nd[m] EXCEPT !.key = key]
            md == [nd EXCEPT ![m] = node]
<1>1. Taking(nd, m, key) = md
  BY DEF Taking
<1>2. nd[m] \in NodeIn(Z)
  BY NodesFacts
<1>3. node \in NodeIn(Z) /\ node.key = key /\ node.val = nd[m].val /\ node.next = nd[m].next
  BY <1>2 DEF NodeIn
<1>. HIDE DEF node
<1>4. md \in [0 .. Z - 1 -> NodeIn(Z)] /\ md[m] = node /\ \A x \in 0 .. Z - 1 : x # m => md[x] = nd[x]
  BY <1>3 DEF Nodes
<1>. HIDE DEF md
<1>5. Nodes(md, Z) /\ IsTaking(nd, md, Z, m, key)
  BY <1>3, <1>4 DEF Nodes, IsTaking, SameBut
<1>. QED  BY <1>1, <1>5

LEMMA LinkingFacts ==
  ASSUME NEW nd, NEW Z, Nodes(nd, Z), NEW m \in 0 .. Z - 1, NEW n \in 0 .. Z - 1, m # n, NEW key \in Keys
  PROVE  Nodes(Linking(nd, m, n, key), Z) /\ IsLinking(nd, Linking(nd, m, n, key), Z, m, n, key)
<1>. DEFINE one == [nd[m] EXCEPT !.next = n]
            two == [nd[n] EXCEPT !.key = key, !.next = nd[m].next]
            md == [nd EXCEPT ![m] = one, ![n] = two]
<1>0. DOMAIN nd = 0 .. Z - 1
  BY NodesFacts
<1>1. Linking(nd, m, n, key) = md
  <2>. DEFINE ld == Linking(nd, m, n, key)
  <2>1. DOMAIN ld = 0 .. Z - 1 /\ DOMAIN md = 0 .. Z - 1 /\ ld = [x \in 0 .. Z - 1 |-> ld[x]] /\ md = [x \in 0 .. Z - 1 |-> md[x]]
    BY <1>0 DEF Linking
  <2>2. ASSUME NEW x \in 0 .. Z - 1 PROVE ld[x] = md[x]
    <3>1. CASE x = m
      BY <1>0, <3>1 DEF Linking
    <3>2. CASE x = n
      BY <1>0, <3>2 DEF Linking
    <3>3. CASE x # m /\ x # n
      BY <1>0, <3>3 DEF Linking
    <3>. QED  BY <3>1, <3>2, <3>3
  <2>. HIDE DEF ld, md
  <2>3. ld = md
    BY <2>1, <2>2
  <2>. QED  BY <2>3 DEF ld
<1>2. nd[m] \in NodeIn(Z) /\ nd[n] \in NodeIn(Z)
  BY NodesFacts
<1>3. one \in NodeIn(Z) /\ one.key = nd[m].key /\ one.val = nd[m].val /\ one.next = n
  BY <1>2 DEF NodeIn
<1>4. two \in NodeIn(Z) /\ two.key = key /\ two.val = nd[n].val /\ two.next = nd[m].next
  BY <1>2 DEF NodeIn
<1>. HIDE DEF one, two
<1>5. /\ md \in [0 .. Z - 1 -> NodeIn(Z)] /\ md[m] = one /\ md[n] = two
      /\ \A x \in 0 .. Z - 1 : x # m /\ x # n => md[x] = nd[x]
  BY <1>3, <1>4 DEF Nodes
<1>. HIDE DEF md
<1>6. Nodes(md, Z) /\ IsLinking(nd, md, Z, m, n, key)
  BY <1>3, <1>4, <1>5 DEF Nodes, IsLinking, SameBut
<1>. QED  BY <1>1, <1>6

LEMMA MovingFacts ==
  ASSUME NEW nd, NEW Z, Nodes(nd, Z), NEW p \in 0 .. Z - 1, NEW m \in 0 .. Z - 1, NEW n \in 0 .. Z - 1,
         p # m, p # n, m # n, NEW key \in Keys
  PROVE  Nodes(Moving(nd, p, m, n, key), Z) /\ IsMoving(nd, Moving(nd, p, m, n, key), Z, p, m, n, key)
<1>. DEFINE one == [nd[p] EXCEPT !.next = n]
            two == [EmptyNode EXCEPT !.key = key]
            md == [nd EXCEPT ![p] = one, ![n] = nd[m], ![m] = two]
<1>1. Moving(nd, p, m, n, key) = md
  BY DEF Moving
<1>2. nd[m] \in NodeIn(Z) /\ nd[p] \in NodeIn(Z)
  BY NodesFacts
<1>3. one \in NodeIn(Z) /\ one.key = nd[p].key /\ one.val = nd[p].val /\ one.next = n
  BY <1>2 DEF NodeIn
<1>4. two \in NodeIn(Z) /\ two.key = key /\ two.val = Nil /\ two.next = NoNode
  BY DEF NodeIn, EmptyNode
<1>. HIDE DEF one, two
<1>5. /\ md \in [0 .. Z - 1 -> NodeIn(Z)] /\ md[p] = one /\ md[n] = nd[m] /\ md[m] = two
      /\ \A x \in 0 .. Z - 1 : x # p /\ x # m /\ x # n => md[x] = nd[x]
  BY <1>2, <1>3, <1>4 DEF Nodes
<1>. HIDE DEF md
<1>6. Nodes(md, Z) /\ IsMoving(nd, md, Z, p, m, n, key)
  BY <1>3, <1>4, <1>5 DEF Nodes, IsMoving, SameBut
<1>. QED  BY <1>1, <1>6

\* While the links do not change, chains do not.
SameNexts(nd, md, Z) == \A x \in 0 .. Z - 1 : md[x].next = nd[x].next

LEMMA LinksKept ==
  ASSUME NEW nd, NEW md, NEW Z, Nodes(nd, Z), SameNexts(nd, md, Z)
  PROVE  /\ Ranked(nd, Z) => Ranked(md, Z)
         /\ Single(nd, Z) => Single(md, Z)
         /\ \A i : Reach(md, Z, i) = Reach(nd, Z, i)
         /\ \A ff : Above(nd, Z, ff) => Above(md, Z, ff)
<1>1. ASSUME Ranked(nd, Z) PROVE Ranked(md, Z)
  <2>1. PICK r \in [0 .. Z - 1 -> Nat] : Falls(nd, Z, r)
    BY <1>1 DEF Ranked
  <2>2. Falls(md, Z, r)
    BY <2>1 DEF Falls, SameNexts
  <2>. QED  BY <2>2 DEF Ranked
<1>2. Single(nd, Z) => Single(md, Z)
  BY DEF Single, SameNexts
<1>3. \A C \in SUBSET (0 .. Z - 1) : Closed(md, C) <=> Closed(nd, C)
  BY DEF Closed, SameNexts
<1>4. \A i : Reach(md, Z, i) = Reach(nd, Z, i)
  BY <1>3 DEF Reach
<1>5. \A ff : Above(nd, Z, ff) => Above(md, Z, ff)
  BY DEF Above, SameNexts
<1>. QED  BY <1>1, <1>2, <1>4, <1>5

\* A key that is not in the array, and its main position.
Arrives(hs, nd, Z, m, key) ==
  /\ IsHash(hs) /\ Nodes(nd, Z) /\ Net(hs, nd, Z)
  /\ key \in Keys /\ (\A x \in 0 .. Z - 1 : nd[x].key # key)
  /\ m = hs[key] % Z

\* A place that may be handed out.
Offered(nd, Z, n) == n \in 0 .. Z - 1 /\ IsFree(nd[n]) /\ Above(nd, Z, n)

LEMMA ArrivesFacts ==
  ASSUME NEW hs, NEW nd, NEW Z, NEW m, NEW key, Arrives(hs, nd, Z, m, key)
  PROVE  /\ m \in 0 .. Z - 1 /\ Z \in Nat \ {0} /\ key # Nil /\ key \in Keys
         /\ Ranked(nd, Z) /\ Single(nd, Z) /\ Distinct(nd, Z) /\ Reached(hs, nd, Z) /\ Settled(hs, nd, Z)
         /\ \A x \in UsedIn(nd, Z) : hs[nd[x].key] % Z \in 0 .. Z - 1
         /\ \A x \in 0 .. Z - 1 : nd[x].key \in Keys \cup {Nil}
<1>1. Z \in Nat \ {0} /\ (\A x \in 0 .. Z - 1 : nd[x] \in NodeIn(Z)) /\ IsHash(hs) /\ key \in Keys
  BY NodesFacts DEF Arrives
<1>2. \A x \in 0 .. Z - 1 : nd[x].key \in Keys \cup {Nil}
  BY <1>1 DEF NodeIn
<1>3. \A x \in UsedIn(nd, Z) : hs[nd[x].key] % Z \in 0 .. Z - 1
  BY <1>1, <1>2, PosType DEF UsedIn
<1>4. m \in 0 .. Z - 1
  BY <1>1, PosType DEF Arrives
<1>5. key # Nil
  BY KeysAssumption DEF Arrives
<1>. QED  BY <1>1, <1>2, <1>3, <1>4, <1>5 DEF Arrives, Net

\* A free place is linked from nowhere, and no key has its main position there.
LEMMA OfferedFacts ==
  ASSUME NEW hs, NEW nd, NEW Z, NEW m, NEW key, Arrives(hs, nd, Z, m, key), NEW n, Offered(nd, Z, n)
  PROVE  /\ n \in 0 .. Z - 1 /\ nd[n].key = Nil /\ nd[n].next = NoNode /\ n \notin UsedIn(nd, Z)
         /\ \A x \in 0 .. Z - 1 : nd[x].next # n
         /\ \A x \in UsedIn(nd, Z) : hs[nd[x].key] % Z # n
<1>1. n \in 0 .. Z - 1 /\ nd[n].key = Nil /\ nd[n].next = NoNode /\ n \notin UsedIn(nd, Z)
  BY DEF Offered, IsFree, UsedIn
<1>2. n \in Int /\ n # NoNode
  BY <1>1, ArrivesFacts DEF NoNode
<1>3. \A x \in 0 .. Z - 1 : nd[x].next # n
  BY <1>2 DEF Offered, Above
<1>4. ASSUME NEW x \in UsedIn(nd, Z), hs[nd[x].key] % Z = n PROVE FALSE
  <2>1. x \in Reach(nd, Z, n)
    BY <1>4, ArrivesFacts DEF Reached
  <2>2. Reach(nd, Z, n) = {n}
    BY <1>1, ReachLast
  <2>. QED  BY <1>1, <2>1, <2>2
<1>. QED  BY <1>1, <1>3, <1>4

\* The main position is free for the key.
LEMMA NetTaking ==
  ASSUME NEW hs, NEW nd, NEW md, NEW Z, NEW m, NEW key, Arrives(hs, nd, Z, m, key), nd[m].key = Nil,
         Nodes(md, Z), IsTaking(nd, md, Z, m, key)
  PROVE  Net(hs, md, Z) /\ UsedIn(md, Z) = UsedIn(nd, Z) \cup {m} /\ m \notin UsedIn(nd, Z)
         /\ SameNexts(nd, md, Z)
<1>1. /\ m \in 0 .. Z - 1 /\ Z \in Nat \ {0} /\ key # Nil
      /\ Ranked(nd, Z) /\ Single(nd, Z) /\ Distinct(nd, Z) /\ Reached(hs, nd, Z) /\ Settled(hs, nd, Z)
  BY ArrivesFacts
<1>2. md[m].key = key /\ \A x \in 0 .. Z - 1 : x # m => md[x] = nd[x]
  BY DEF IsTaking, SameBut
<1>3. SameNexts(nd, md, Z)
  BY <1>2 DEF IsTaking, SameNexts
<1>4. Ranked(md, Z) /\ Single(md, Z) /\ \A i : Reach(md, Z, i) = Reach(nd, Z, i)
  <2>1. Nodes(nd, Z)
    BY DEF Arrives
  <2>. QED  BY <1>1, <1>3, <2>1, LinksKept
<1>5. UsedIn(md, Z) = UsedIn(nd, Z) \cup {m} /\ m \notin UsedIn(nd, Z)
  BY <1>1, <1>2 DEF UsedIn
<1>6. Distinct(md, Z)
  <2>1. \A x \in 0 .. Z - 1 : nd[x].key # key
    BY DEF Arrives
  <2>. QED  BY <1>1, <1>2, <2>1 DEF Distinct
<1>7. Reached(hs, md, Z)
  <2>. SUFFICES ASSUME NEW x \in UsedIn(md, Z) PROVE x \in Reach(nd, Z, hs[md[x].key] % Z)
    BY <1>4 DEF Reached
  <2>1. CASE x = m
    <3>1. m = hs[md[x].key] % Z
      BY <1>2, <2>1 DEF Arrives
    <3>. QED  BY <1>1, <2>1, <3>1, ReachStart
  <2>2. CASE x # m
    <3>1. x \in UsedIn(nd, Z) /\ md[x] = nd[x]
      BY <1>2, <1>5, <2>2 DEF UsedIn
    <3>. QED  BY <1>1, <3>1 DEF Reached
  <2>. QED  BY <2>1, <2>2
<1>8. Settled(hs, md, Z)
  <2>. SUFFICES ASSUME NEW x \in UsedIn(md, Z), NEW y \in UsedIn(md, Z), hs[md[x].key] % Z # x
                PROVE  hs[md[y].key] % Z # x
    BY DEF Settled
  <2>1. hs[md[m].key] % Z = m
    BY <1>2 DEF Arrives
  <2>2. x # m /\ x \in UsedIn(nd, Z) /\ md[x] = nd[x]
    BY <1>2, <1>5, <2>1 DEF UsedIn
  <2>3. CASE y = m
    BY <2>1, <2>2, <2>3
  <2>4. CASE y # m
    <3>1. y \in UsedIn(nd, Z) /\ md[y] = nd[y]
      BY <1>2, <1>5, <2>4 DEF UsedIn
    <3>. QED  BY <1>1, <2>2, <3>1 DEF Settled
  <2>. QED  BY <2>3, <2>4
<1>. QED  BY <1>3, <1>4, <1>5, <1>6, <1>7, <1>8 DEF Net

\* The main position is taken by a key that belongs there: the key goes to the
\* free place, second in the chain.
LEMMA NetLinking ==
  ASSUME NEW hs, NEW nd, NEW md, NEW Z, NEW m, NEW key, Arrives(hs, nd, Z, m, key),
         NEW n, Offered(nd, Z, n), nd[m].key # Nil, hs[nd[m].key] % Z = m,
         Nodes(md, Z), IsLinking(nd, md, Z, m, n, key)
  PROVE  /\ Net(hs, md, Z) /\ UsedIn(md, Z) = UsedIn(nd, Z) \cup {n} /\ n \notin UsedIn(nd, Z)
         /\ \A ff \in Int : ff < n => Above(md, Z, ff)
<1>1. /\ m \in 0 .. Z - 1 /\ Z \in Nat \ {0} /\ key # Nil /\ key \in Keys
      /\ Ranked(nd, Z) /\ Single(nd, Z) /\ Distinct(nd, Z) /\ Reached(hs, nd, Z) /\ Settled(hs, nd, Z)
      /\ \A x \in UsedIn(nd, Z) : hs[nd[x].key] % Z \in 0 .. Z - 1
  BY ArrivesFacts
<1>2. /\ n \in 0 .. Z - 1 /\ nd[n].key = Nil /\ nd[n].next = NoNode /\ n \notin UsedIn(nd, Z) /\ n # m
      /\ \A x \in 0 .. Z - 1 : nd[x].next # n
      /\ \A x \in UsedIn(nd, Z) : hs[nd[x].key] % Z # n
  BY OfferedFacts
<1>3. /\ md[m].key = nd[m].key /\ md[m].next = n /\ md[n].key = key /\ md[n].next = nd[m].next
      /\ \A x \in 0 .. Z - 1 : x # m /\ x # n => md[x] = nd[x]
  BY DEF IsLinking, SameBut
<1>4. /\ n # NoNode /\ n \in Int
      /\ \A x \in 0 .. Z - 1 : nd[x].next # NoNode => nd[x].next \in 0 .. Z - 1
  BY <1>1, <1>2, NodesFacts DEF Arrives, NoNode
<1>5. Ranked(md, Z)
  <2>1. PICK r \in [0 .. Z - 1 -> Nat] : Falls(nd, Z, r)
    BY <1>1 DEF Ranked
  <2>. DEFINE q == [x \in 0 .. Z - 1 |-> IF x = n THEN 2 * r[m] + 1 ELSE 2 * r[x] + 2]
  <2>2. \A x \in 0 .. Z - 1 : r[x] \in Nat
    OBVIOUS
  <2>3. q \in [0 .. Z - 1 -> Nat] /\ q[n] = 2 * r[m] + 1 /\ \A x \in 0 .. Z - 1 : x # n => q[x] = 2 * r[x] + 2
    BY <1>1, <1>2, <2>2, SMTT(40)
  <2>. HIDE DEF q
  <2>4. ASSUME NEW x \in 0 .. Z - 1, md[x].next # NoNode PROVE q[md[x].next] < q[x]
    <3>1. CASE x = m
      <4>1. md[x].next = n /\ q[x] = 2 * r[m] + 2 /\ r[m] \in Nat
        BY <1>1, <1>2, <1>3, <2>2, <2>3, <3>1
      <4>. QED  BY <2>3, <4>1
    <3>2. CASE x = n
      <4>1. nd[m].next # NoNode /\ nd[m].next \in 0 .. Z - 1 /\ nd[m].next # n /\ r[nd[m].next] < r[m]
        BY <1>1, <1>2, <1>3, <1>4, <2>1, <2>4, <3>2 DEF Falls
      <4>2. q[nd[m].next] = 2 * r[nd[m].next] + 2 /\ r[nd[m].next] \in Nat /\ r[m] \in Nat
        BY <1>1, <2>2, <2>3, <4>1
      <4>. QED  BY <1>3, <2>3, <3>2, <4>1, <4>2, SMTT(40)
    <3>3. CASE x # m /\ x # n
      <4>. DEFINE y == nd[x].next
      <4>1. md[x].next = y /\ y # NoNode
        BY <1>3, <2>4, <3>3
      <4>2. y \in 0 .. Z - 1 /\ y # n /\ r[y] < r[x]
        BY <1>2, <1>4, <2>1, <4>1 DEF Falls
      <4>3. q[y] = 2 * r[y] + 2 /\ q[x] = 2 * r[x] + 2 /\ r[y] \in Nat /\ r[x] \in Nat
        BY <2>2, <2>3, <3>3, <4>2
      <4>. HIDE DEF y
      <4>. QED  BY <4>1, <4>2, <4>3
    <3>. QED  BY <3>1, <3>2, <3>3
  <2>. QED  BY <2>3, <2>4 DEF Ranked, Falls
<1>6. Single(md, Z)
  <2>. SUFFICES ASSUME NEW x \in 0 .. Z - 1, NEW y \in 0 .. Z - 1, md[x].next # NoNode, md[x].next = md[y].next, x # y
                PROVE  FALSE
    BY DEF Single
  <2>1. CASE x = m
    BY <1>1, <1>2, <1>3, <2>1
  <2>2. CASE y = m
    BY <1>1, <1>2, <1>3, <2>2
  <2>3. CASE x # m /\ y # m
    BY <1>1, <1>2, <1>3, <2>3 DEF Single
  <2>. QED  BY <2>1, <2>2, <2>3
<1>7. UsedIn(md, Z) = UsedIn(nd, Z) \cup {n}
  BY <1>1, <1>2, <1>3 DEF UsedIn
<1>8. Distinct(md, Z)
  <2>1. \A x \in 0 .. Z - 1 : nd[x].key # key
    BY DEF Arrives
  <2>2. \A x \in 0 .. Z - 1 : x # n => md[x].key = nd[x].key
    BY <1>3
  <2>. QED  BY <1>1, <1>2, <1>3, <2>1, <2>2 DEF Distinct
<1>9. \A C \in SUBSET (0 .. Z - 1) : Closed(md, C) => Closed(nd, C)
  <2>. SUFFICES ASSUME NEW C \in SUBSET (0 .. Z - 1), Closed(md, C), NEW x \in C, nd[x].next # NoNode
                PROVE  nd[x].next \in C
    BY DEF Closed
  <2>1. CASE x = m
    <3>1. n \in C
      BY <1>3, <1>4, <2>1 DEF Closed
    <3>. QED  BY <1>3, <2>1, <3>1 DEF Closed
  <2>2. CASE x # m
    <3>1. x # n /\ md[x] = nd[x]
      BY <1>2, <1>3, <2>2
    <3>. QED  BY <3>1 DEF Closed
  <2>. QED  BY <2>1, <2>2
<1>10. \A i : Reach(nd, Z, i) \subseteq Reach(md, Z, i)
  BY <1>9 DEF Reach
<1>11. n \in Reach(md, Z, m)
  BY <1>1, <1>3, <1>4, ReachStart, ReachClosed DEF Closed
<1>12. Reached(hs, md, Z)
  <2>. SUFFICES ASSUME NEW x \in UsedIn(md, Z) PROVE x \in Reach(md, Z, hs[md[x].key] % Z)
    BY DEF Reached
  <2>1. CASE x = n
    <3>1. m = hs[md[x].key] % Z
      BY <1>3, <2>1 DEF Arrives
    <3>. QED  BY <1>11, <2>1, <3>1
  <2>2. CASE x # n
    <3>1. x \in UsedIn(nd, Z) /\ md[x].key = nd[x].key
      BY <1>3, <1>7, <2>2 DEF UsedIn
    <3>. QED  BY <1>1, <1>10, <3>1 DEF Reached
  <2>. QED  BY <2>1, <2>2
<1>13. Settled(hs, md, Z)
  <2>. SUFFICES ASSUME NEW x \in UsedIn(md, Z), NEW y \in UsedIn(md, Z), hs[md[x].key] % Z # x
                PROVE  hs[md[y].key] % Z # x
    BY DEF Settled
  <2>1. hs[md[n].key] % Z = m /\ hs[md[m].key] % Z = m
    BY <1>3 DEF Arrives
  <2>2. \A z \in UsedIn(md, Z) : z # n => z \in UsedIn(nd, Z) /\ md[z].key = nd[z].key
    BY <1>3, <1>7 DEF UsedIn
  <2>3. CASE x = n
    BY <1>2, <2>1, <2>2, <2>3
  <2>4. CASE x # n /\ y = n
    BY <2>1, <2>4
  <2>5. CASE x # n /\ y # n
    BY <1>1, <2>2, <2>5 DEF Settled
  <2>. QED  BY <2>3, <2>4, <2>5
<1>14. ASSUME NEW ff \in Int, ff < n PROVE Above(md, Z, ff)
  <2>. SUFFICES ASSUME NEW x \in 0 .. Z - 1, md[x].next # NoNode PROVE md[x].next > ff
    BY DEF Above
  <2>1. \A y \in 0 .. Z - 1 : nd[y].next # NoNode => nd[y].next > n /\ nd[y].next \in Int
    BY <1>1, <1>4 DEF Offered, Above
  <2>2. md[x].next = n \/ \E y \in 0 .. Z - 1 : md[x].next = nd[y].next
    BY <1>1, <1>3
  <2>. QED  BY <1>4, <1>14, <2>1, <2>2
<1>. QED  BY <1>2, <1>5, <1>6, <1>7, <1>8, <1>12, <1>13, <1>14 DEF Net

\* A node that holds a key away from its main position is linked from the chain
\* of that position.
LEMMA StrangerLinked ==
  ASSUME NEW hs, NEW nd, NEW Z, NEW m, NEW key, Arrives(hs, nd, Z, m, key),
         nd[m].key # Nil, hs[nd[m].key] % Z # m
  PROVE  \E p \in Reach(nd, Z, hs[nd[m].key] % Z) : nd[p].next = m
<1>. DEFINE q == hs[nd[m].key] % Z
            R == Reach(nd, Z, q)
<1>1. m \in 0 .. Z - 1 /\ m \in UsedIn(nd, Z) /\ Nodes(nd, Z)
  BY ArrivesFacts DEF UsedIn, Arrives
<1>2. q \in 0 .. Z - 1 /\ m \in R
  BY <1>1, ArrivesFacts DEF Reached
<1>. HIDE DEF q
<1>3. Closed(nd, R) /\ q \in R /\ R \subseteq 0 .. Z - 1
  BY <1>1, <1>2, ReachClosed, ReachStart
<1>4. ASSUME ~\E p \in R : nd[p].next = m PROVE FALSE
  <2>1. Closed(nd, R \ {m}) /\ R \ {m} \in SUBSET (0 .. Z - 1)
    BY <1>3, <1>4 DEF Closed
  <2>2. q \in R \ {m}
    BY <1>3 DEF q
  <2>3. R \subseteq R \ {m}
    <3>. DEFINE C == R \ {m}
    <3>1. C \in SUBSET (0 .. Z - 1) /\ q \in C /\ Closed(nd, C)
      BY <2>1, <2>2
    <3>. HIDE DEF C
    <3>2. Reach(nd, Z, q) \subseteq C
      BY <3>1, ReachLeast
    <3>. QED  BY <3>2 DEF C
  <2>. QED  BY <1>2, <2>3
<1>. QED  BY <1>4 DEF q

\* The node p links to m, which holds a key that does not belong there.
Stranger(hs, nd, Z, p, m) ==
  p \in 0 .. Z - 1 /\ nd[p].next = m /\ nd[m].key # Nil /\ hs[nd[m].key] % Z # m

\* The main position is taken by a key that does not belong there: its node moves
\* to the free place, in the same chain, and the key gets its main position.
LEMMA NetMoving ==
  ASSUME NEW hs, NEW nd, NEW md, NEW Z, NEW m, NEW key, Arrives(hs, nd, Z, m, key),
         NEW n, Offered(nd, Z, n), NEW p, Stranger(hs, nd, Z, p, m),
         Nodes(md, Z), IsMoving(nd, md, Z, p, m, n, key)
  PROVE  /\ Net(hs, md, Z) /\ UsedIn(md, Z) = UsedIn(nd, Z) \cup {n} /\ n \notin UsedIn(nd, Z)
         /\ \A ff \in Int : ff < n => Above(md, Z, ff)
<1>. p \in 0 .. Z - 1 /\ nd[p].next = m /\ nd[m].key # Nil /\ hs[nd[m].key] % Z # m
  BY DEF Stranger
<1>1. /\ m \in 0 .. Z - 1 /\ Z \in Nat \ {0} /\ key # Nil /\ key \in Keys
      /\ Ranked(nd, Z) /\ Single(nd, Z) /\ Distinct(nd, Z) /\ Reached(hs, nd, Z) /\ Settled(hs, nd, Z)
      /\ \A x \in UsedIn(nd, Z) : hs[nd[x].key] % Z \in 0 .. Z - 1
  BY ArrivesFacts
<1>2. /\ n \in 0 .. Z - 1 /\ nd[n].key = Nil /\ nd[n].next = NoNode /\ n \notin UsedIn(nd, Z) /\ n # m
      /\ \A x \in 0 .. Z - 1 : nd[x].next # n
      /\ \A x \in UsedIn(nd, Z) : hs[nd[x].key] % Z # n
  BY OfferedFacts
<1>3. /\ md[p].key = nd[p].key /\ md[p].next = n /\ md[n] = nd[m] /\ md[m].key = key /\ md[m].next = NoNode
      /\ \A x \in 0 .. Z - 1 : x # p /\ x # m /\ x # n => md[x] = nd[x]
  BY DEF IsMoving, SameBut
<1>4. /\ n # NoNode /\ m # NoNode /\ n \in Int /\ m \in UsedIn(nd, Z)
      /\ \A x \in 0 .. Z - 1 : nd[x].next # NoNode => nd[x].next \in 0 .. Z - 1
  <2>1. Nodes(nd, Z)
    BY DEF Arrives
  <2>2. NoNode \notin 0 .. Z - 1 /\ \A x \in 0 .. Z - 1 : nd[x].next # NoNode => nd[x].next \in 0 .. Z - 1
    BY <2>1, NodesFacts
  <2>3. n # NoNode /\ m # NoNode /\ n \in Int
    BY <1>1, <1>2, <2>2
  <2>4. m \in UsedIn(nd, Z)
    BY <1>1 DEF UsedIn
  <2>. QED  BY <2>2, <2>3, <2>4
<1>0. PICK r \in [0 .. Z - 1 -> Nat] : Falls(nd, Z, r)
  BY <1>1 DEF Ranked
<1>5. nd[m].next # m /\ p # m /\ p # n
  <2>1. \A x \in 0 .. Z - 1 : r[x] \in Nat
    OBVIOUS
  <2>2. ASSUME nd[m].next = m PROVE FALSE
    <3>1. r[m] < r[m] /\ r[m] \in Nat
      BY <1>0, <1>1, <1>4, <2>1, <2>2 DEF Falls
    <3>. QED  BY <3>1
  <2>. QED  BY <1>2, <1>4, <2>2
<1>6. \A x \in 0 .. Z - 1 : nd[x].next = m => x = p
  BY <1>1, <1>4 DEF Single
<1>7. Ranked(md, Z)
  <2>. DEFINE q == [x \in 0 .. Z - 1 |-> IF x = n THEN r[m] ELSE r[x]]
  <2>1. q \in [0 .. Z - 1 -> Nat] /\ q[n] = r[m] /\ \A x \in 0 .. Z - 1 : x # n => q[x] = r[x]
    BY <1>1, <1>2
  <2>. HIDE DEF q
  <2>2. ASSUME NEW x \in 0 .. Z - 1, md[x].next # NoNode PROVE q[md[x].next] < q[x]
    <3>1. CASE x = p
      <4>1. r[m] < r[p]
        BY <1>0, <1>4 DEF Falls
      <4>. QED  BY <1>3, <1>5, <2>1, <3>1, <4>1
    <3>2. CASE x = n
      <4>1. md[x].next = nd[m].next /\ nd[m].next # NoNode
        BY <1>3, <2>2, <3>2
      <4>2. nd[m].next \in 0 .. Z - 1 /\ nd[m].next # n /\ r[nd[m].next] < r[m]
        BY <1>0, <1>1, <1>2, <1>4, <4>1 DEF Falls
      <4>. QED  BY <2>1, <3>2, <4>1, <4>2
    <3>3. CASE x # p /\ x # n
      <4>1. x # m /\ md[x].next = nd[x].next /\ nd[x].next # NoNode
        BY <1>3, <2>2, <3>3
      <4>2. nd[x].next \in 0 .. Z - 1 /\ nd[x].next # n /\ r[nd[x].next] < r[x]
        BY <1>0, <1>2, <1>4, <4>1 DEF Falls
      <4>. QED  BY <2>1, <3>3, <4>1, <4>2
    <3>. QED  BY <3>1, <3>2, <3>3
  <2>. QED  BY <2>1, <2>2 DEF Ranked, Falls
<1>. DEFINE was(x) == IF x = n THEN m ELSE x
<1>8. Single(md, Z)
  <2>. SUFFICES ASSUME NEW x \in 0 .. Z - 1, NEW y \in 0 .. Z - 1, md[x].next # NoNode, md[x].next = md[y].next, x # y
                PROVE  FALSE
    BY DEF Single
  <2>0. x # m /\ y # m
    BY <1>3
  <2>1. CASE x = p
    BY <1>1, <1>2, <1>3, <2>0, <2>1
  <2>2. CASE y = p
    BY <1>1, <1>2, <1>3, <2>0, <2>2
  <2>3. CASE x # p /\ y # p
    <3>1. was(x) \in 0 .. Z - 1 /\ was(y) \in 0 .. Z - 1 /\ was(x) # was(y)
      BY <1>1, <2>0
    <3>2. md[x].next = nd[was(x)].next /\ md[y].next = nd[was(y)].next
      BY <1>3, <2>0, <2>3
    <3>. HIDE DEF was
    <3>. QED  BY <1>1, <3>1, <3>2 DEF Single
  <2>. QED  BY <2>1, <2>2, <2>3
<1>9. UsedIn(md, Z) = UsedIn(nd, Z) \cup {n}
  <2>1. \A x \in 0 .. Z - 1 : x # m /\ x # n => md[x].key = nd[x].key
    BY <1>3
  <2>2. md[m].key # Nil /\ md[n].key # Nil
    BY <1>1, <1>3
  <2>. QED  BY <1>1, <1>2, <2>1, <2>2 DEF UsedIn
<1>10. Distinct(md, Z)
  <2>1. \A x \in 0 .. Z - 1 : nd[x].key # key
    BY DEF Arrives
  <2>. SUFFICES ASSUME NEW x \in 0 .. Z - 1, NEW y \in 0 .. Z - 1, md[x].key # Nil, md[x].key = md[y].key, x # y
                PROVE  FALSE
    BY DEF Distinct
  <2>2. \A z \in 0 .. Z - 1 : z # m => was(z) \in 0 .. Z - 1 /\ md[z].key = nd[was(z)].key
    BY <1>1, <1>3
  <2>3. x # m /\ y # m
    BY <1>3, <2>1, <2>2
  <2>4. was(x) # was(y)
    BY <2>3
  <2>. HIDE DEF was
  <2>. QED  BY <1>1, <2>2, <2>3, <2>4, SMTT(40) DEF Distinct
<1>. HIDE DEF was
<1>11. ASSUME NEW i \in 0 .. Z - 1, i # m, NEW x \in Reach(nd, Z, i)
       PROVE  (IF x = m THEN n ELSE x) \in Reach(md, Z, i)
  <2>. SUFFICES ASSUME NEW C \in SUBSET (0 .. Z - 1), i \in C, Closed(md, C)
                PROVE  (IF x = m THEN n ELSE x) \in C
    <3>1. (IF x = m THEN n ELSE x) \in 0 .. Z - 1
      BY <1>2, ReachStart
    <3>. QED  BY <3>1 DEF Reach
  <2>. DEFINE D == (C \ {m}) \cup {y \in {m} : n \in C}
  <2>1. D \in SUBSET (0 .. Z - 1) /\ i \in D
    BY <1>1, <1>11
  <2>2. ASSUME NEW y \in D, nd[y].next # NoNode PROVE nd[y].next \in D
    <3>1. CASE y = m
      <4>1. n \in C /\ md[n].next = nd[m].next
        BY <1>3, <3>1
      <4>2. nd[m].next \in C
        BY <2>2, <3>1, <4>1 DEF Closed
      <4>. QED  BY <1>5, <3>1, <4>2
    <3>2. CASE y = p
      <4>1. n \in C
        BY <1>3, <1>4, <1>5, <3>2 DEF Closed
      <4>. QED  BY <3>2, <4>1
    <3>3. CASE y # m /\ y # p
      <4>1. y \in C /\ y \in 0 .. Z - 1 /\ y # n
        BY <1>2, <2>2, <3>3
      <4>2. md[y].next = nd[y].next /\ nd[y].next # m
        BY <1>3, <1>6, <3>3, <4>1
      <4>. QED  BY <2>2, <4>1, <4>2 DEF Closed
    <3>. QED  BY <3>1, <3>2, <3>3
  <2>3. Closed(nd, D)
    BY <2>2 DEF Closed
  <2>4. x \in D
    <3>. HIDE DEF D
    <3>. QED  BY <2>1, <2>3, ReachLeast
  <2>. QED  BY <2>4
<1>12. Reached(hs, md, Z)
  <2>. SUFFICES ASSUME NEW x \in UsedIn(md, Z) PROVE x \in Reach(md, Z, hs[md[x].key] % Z)
    BY DEF Reached
  <2>0. \A z \in UsedIn(nd, Z) : hs[nd[z].key] % Z \in 0 .. Z - 1 /\ hs[nd[z].key] % Z # m
    BY <1>1, <1>4 DEF Settled
  <2>1. CASE x = n
    <3>1. m \in Reach(nd, Z, hs[nd[m].key] % Z)
      BY <1>1, <1>4 DEF Reached
    <3>2. n \in Reach(md, Z, hs[nd[m].key] % Z)
      BY <1>4, <1>11, <2>0, <3>1
    <3>. QED  BY <1>3, <2>1, <3>2
  <2>2. CASE x = m
    <3>1. m = hs[md[x].key] % Z
      BY <1>3, <2>2 DEF Arrives
    <3>. QED  BY <1>1, <2>2, <3>1, ReachStart
  <2>3. CASE x # n /\ x # m
    <3>1. x \in UsedIn(nd, Z) /\ md[x].key = nd[x].key
      BY <1>3, <1>9, <2>3 DEF UsedIn
    <3>2. x \in Reach(nd, Z, hs[nd[x].key] % Z)
      BY <1>1, <3>1 DEF Reached
    <3>3. x \in Reach(md, Z, hs[nd[x].key] % Z)
      BY <1>11, <2>0, <2>3, <3>1, <3>2
    <3>. QED  BY <3>1, <3>3
  <2>. QED  BY <2>1, <2>2, <2>3
<1>13. Settled(hs, md, Z)
  <2>. SUFFICES ASSUME NEW x \in UsedIn(md, Z), NEW y \in UsedIn(md, Z), hs[md[x].key] % Z # x
                PROVE  hs[md[y].key] % Z # x
    BY DEF Settled
  <2>1. hs[md[m].key] % Z = m /\ md[n].key = nd[m].key
    BY <1>3 DEF Arrives
  <2>2. \A z \in UsedIn(md, Z) : z # n /\ z # m => z \in UsedIn(nd, Z) /\ md[z].key = nd[z].key
    BY <1>3, <1>9 DEF UsedIn
  <2>3. x # m
    BY <2>1
  <2>4. ASSUME hs[md[y].key] % Z = x PROVE FALSE
    <3>1. y # m
      BY <2>1, <2>3, <2>4
    <3>2. \E z \in UsedIn(nd, Z) : md[y].key = nd[z].key
      BY <1>4, <2>1, <2>2, <3>1
    <3>3. x # n
      BY <1>2, <2>4, <3>2
    <3>4. x \in UsedIn(nd, Z) /\ md[x].key = nd[x].key
      BY <2>2, <2>3, <3>3
    <3>. QED  BY <1>1, <2>4, <3>2, <3>4 DEF Settled
  <2>. QED  BY <2>4
<1>14. ASSUME NEW ff \in Int, ff < n PROVE Above(md, Z, ff)
  <2>. SUFFICES ASSUME NEW x \in 0 .. Z - 1, md[x].next # NoNode PROVE md[x].next > ff
    BY DEF Above
  <2>1. \A y \in 0 .. Z - 1 : nd[y].next # NoNode => nd[y].next > n /\ nd[y].next \in Int
    BY <1>1, <1>4 DEF Offered, Above
  <2>2. md[x].next = n \/ \E y \in 0 .. Z - 1 : md[x].next = nd[y].next
    BY <1>1, <1>3
  <2>. QED  BY <1>4, <1>14, <2>1, <2>2
<1>. QED  BY <1>2, <1>7, <1>8, <1>9, <1>10, <1>12, <1>13, <1>14 DEF Net

\* The key k has the value v.
Pair(nd, Z, k, v) == \E x \in 0 .. Z - 1 : nd[x].key = k /\ nd[x].val = v

\* Only used nodes are links.
Dense(nd, Z) == \A x \in 0 .. Z - 1 : nd[x].key = Nil => nd[x].next = NoNode

\* The values of the other keys are the same.
Others(nd, md, Z, key) == \A k \in Keys : \A v : k # key => (Pair(md, Z, k, v) <=> Pair(nd, Z, k, v))

OneMore(nd, md, Z) == \E u \in 0 .. Z - 1 : u \notin UsedIn(nd, Z) /\ UsedIn(md, Z) = UsedIn(nd, Z) \cup {u}

\* md is nd with key at the node at, when n was the place to hand out.
Put(hs, nd, md, Z, at, key, n) ==
  /\ Nodes(md, Z) /\ Net(hs, md, Z) /\ at \in 0 .. Z - 1 /\ md[at].key = key
  /\ OneMore(nd, md, Z)
  /\ \A ff \in 0 .. n : IsFree(md[ff]) => Above(md, Z, ff)
  /\ Dense(nd, Z) => Dense(md, Z)
  /\ Others(nd, md, Z, key)

LEMMA PutTaking ==
  ASSUME NEW hs, NEW nd, NEW md, NEW Z, NEW m, NEW key, Arrives(hs, nd, Z, m, key),
         NEW n, Offered(nd, Z, n), nd[m].key = Nil,
         Nodes(md, Z), IsTaking(nd, md, Z, m, key)
  PROVE  Put(hs, nd, md, Z, m, key, n)
<1>1. /\ Net(hs, md, Z) /\ UsedIn(md, Z) = UsedIn(nd, Z) \cup {m} /\ m \notin UsedIn(nd, Z)
      /\ SameNexts(nd, md, Z)
  BY NetTaking
<1>2. m \in 0 .. Z - 1 /\ key # Nil /\ n \in 0 .. Z - 1 /\ Z \in Nat \ {0}
  BY ArrivesFacts DEF Offered
<1>3. md[m].key = key /\ (\A x \in 0 .. Z - 1 : x # m => md[x] = nd[x]) /\ \A k \in Keys : k # Nil
  BY KeysAssumption DEF IsTaking, SameBut
<1>4. \A x \in 0 .. Z - 1 : nd[x].next # NoNode => nd[x].next \in 0 .. Z - 1
  BY NodesFacts DEF Arrives
<1>5. ASSUME NEW ff \in 0 .. n, NEW x \in 0 .. Z - 1, md[x].next # NoNode PROVE md[x].next > ff
  <2>1. nd[x].next # NoNode /\ md[x].next = nd[x].next
    BY <1>1, <1>5 DEF SameNexts
  <2>2. nd[x].next > n /\ nd[x].next \in 0 .. Z - 1
    BY <1>4, <2>1 DEF Offered, Above
  <2>. QED  BY <1>2, <2>1, <2>2
<1>6. Dense(nd, Z) => Dense(md, Z)
  BY <1>1, <1>2, <1>3 DEF Dense, SameNexts
<1>7. Others(nd, md, Z, key)
  BY <1>2, <1>3 DEF Others, Pair
<1>. QED  BY <1>1, <1>2, <1>3, <1>5, <1>6, <1>7 DEF Put, OneMore, Above

LEMMA PutLinking ==
  ASSUME NEW hs, NEW nd, NEW md, NEW Z, NEW m, NEW key, Arrives(hs, nd, Z, m, key),
         NEW n, Offered(nd, Z, n), nd[m].key # Nil, hs[nd[m].key] % Z = m,
         Nodes(md, Z), IsLinking(nd, md, Z, m, n, key)
  PROVE  Put(hs, nd, md, Z, n, key, n)
<1>1. /\ Net(hs, md, Z) /\ UsedIn(md, Z) = UsedIn(nd, Z) \cup {n} /\ n \notin UsedIn(nd, Z)
      /\ \A ff \in Int : ff < n => Above(md, Z, ff)
  BY NetLinking
<1>2. m \in 0 .. Z - 1 /\ key # Nil /\ n \in 0 .. Z - 1 /\ Z \in Nat \ {0} /\ nd[n].key = Nil
  BY ArrivesFacts, OfferedFacts
<1>3. /\ md[n].key = key /\ md[m].key = nd[m].key /\ md[m].val = nd[m].val
      /\ (\A x \in 0 .. Z - 1 : x # m /\ x # n => md[x] = nd[x]) /\ \A k \in Keys : k # Nil
  BY KeysAssumption DEF IsLinking, SameBut
<1>4. ASSUME NEW ff \in 0 .. n, IsFree(md[ff]) PROVE Above(md, Z, ff)
  <2>1. ff # n
    BY <1>2, <1>3, <1>4 DEF IsFree
  <2>2. ff \in Int /\ ff < n
    BY <1>2, <2>1
  <2>. QED  BY <1>1, <2>2
<1>6. Dense(nd, Z) => Dense(md, Z)
  BY <1>2, <1>3 DEF Dense
<1>7. Others(nd, md, Z, key)
  <2>1. \A x \in 0 .. Z - 1 : x # n => md[x].key = nd[x].key /\ md[x].val = nd[x].val
    BY <1>3
  <2>. QED  BY <1>2, <1>3, <2>1 DEF Others, Pair
<1>. QED  BY <1>1, <1>2, <1>3, <1>4, <1>6, <1>7 DEF Put, OneMore

LEMMA PutMoving ==
  ASSUME NEW hs, NEW nd, NEW md, NEW Z, NEW m, NEW key, Arrives(hs, nd, Z, m, key),
         NEW n, Offered(nd, Z, n), NEW p, Stranger(hs, nd, Z, p, m),
         Nodes(md, Z), IsMoving(nd, md, Z, p, m, n, key)
  PROVE  Put(hs, nd, md, Z, m, key, n)
<1>1. /\ Net(hs, md, Z) /\ UsedIn(md, Z) = UsedIn(nd, Z) \cup {n} /\ n \notin UsedIn(nd, Z)
      /\ \A ff \in Int : ff < n => Above(md, Z, ff)
  BY NetMoving
<1>. p \in 0 .. Z - 1 /\ nd[p].next = m /\ nd[m].key # Nil /\ hs[nd[m].key] % Z # m
  BY DEF Stranger
<1>2. m \in 0 .. Z - 1 /\ key # Nil /\ n \in 0 .. Z - 1 /\ Z \in Nat \ {0} /\ nd[n].key = Nil
  BY ArrivesFacts, OfferedFacts
<1>3. /\ md[m].key = key /\ md[n] = nd[m] /\ md[p].key = nd[p].key /\ md[p].val = nd[p].val
      /\ (\A x \in 0 .. Z - 1 : x # p /\ x # m /\ x # n => md[x] = nd[x]) /\ \A k \in Keys : k # Nil
  BY KeysAssumption DEF IsMoving, SameBut
<1>4. ASSUME NEW ff \in 0 .. n, IsFree(md[ff]) PROVE Above(md, Z, ff)
  <2>1. ff # n
    BY <1>2, <1>3, <1>4 DEF IsFree
  <2>2. ff \in Int /\ ff < n
    BY <1>2, <2>1
  <2>. QED  BY <1>1, <2>2
<1>5. Dense(nd, Z) => Dense(md, Z)
  <2>. SUFFICES ASSUME Dense(nd, Z), NEW x \in 0 .. Z - 1, md[x].key = Nil PROVE md[x].next = NoNode
    BY DEF Dense
  <2>1. x # m /\ x # n
    BY <1>2, <1>3
  <2>2. m # NoNode
    BY <1>2 DEF NoNode
  <2>3. x # p
    BY <1>2, <1>3, <2>2 DEF Dense
  <2>. QED  BY <1>3, <2>1, <2>3 DEF Dense
<1>6. Others(nd, md, Z, key)
  <2>1. \A x \in 0 .. Z - 1 : x # m /\ x # n => md[x].key = nd[x].key /\ md[x].val = nd[x].val
    BY <1>3
  <2>2. ASSUME NEW k \in Keys, NEW v, k # key, Pair(md, Z, k, v) PROVE Pair(nd, Z, k, v)
    <3>1. PICK x \in 0 .. Z - 1 : md[x].key = k /\ md[x].val = v
      BY <2>2 DEF Pair
    <3>2. CASE x = n
      BY <1>2, <1>3, <3>1, <3>2 DEF Pair
    <3>3. CASE x # n
      BY <1>3, <2>1, <2>2, <3>1, <3>3 DEF Pair
    <3>. QED  BY <3>2, <3>3
  <2>3. ASSUME NEW k \in Keys, NEW v, k # key, Pair(nd, Z, k, v) PROVE Pair(md, Z, k, v)
    <3>1. PICK x \in 0 .. Z - 1 : nd[x].key = k /\ nd[x].val = v
      BY <2>3 DEF Pair
    <3>2. CASE x = m
      BY <1>2, <1>3, <3>1, <3>2 DEF Pair
    <3>3. CASE x # m
      <4>1. x # n
        BY <1>2, <1>3, <3>1
      <4>. QED  BY <2>1, <3>1, <3>3, <4>1 DEF Pair
    <3>. QED  BY <3>2, <3>3
  <2>. QED  BY <2>2, <2>3 DEF Others
<1>. QED  BY <1>1, <1>2, <1>3, <1>4, <1>5, <1>6 DEF Put, OneMore

\* What NewSlot may count on before it places a key.
Ready(t, Z) == IsHash(hash) /\ Shape(t, Z) /\ Net(hash, t.nodes, Z) /\ Offered(t.nodes, Z, t.firstfree)

LEMMA PlaceFacts ==
  ASSUME NEW t, NEW Z, Ready(t, Z), NEW key \in Keys, \A x \in 0 .. Z - 1 : t.nodes[x].key # key
  PROVE  Put(hash, t.nodes, Place(t, key).nodes, Z, Place(t, key).at, key, t.firstfree)
<1>. DEFINE nd == t.nodes
            m == hash[key] % Z
            n == t.firstfree
            q == hash[nd[m].key] % Z
            prev == CHOOSE p \in Range(Chain(t, q)) : nd[p].next = m
<1>1. Size(t) = Z /\ Z \in Nat \ {0} /\ Nodes(nd, Z) /\ n \in 0 .. Z - 1 /\ LinkedIn(nd, Z)
  BY ShapeFacts, NodesFacts DEF Ready
<1>2. Arrives(hash, nd, Z, m, key) /\ Offered(nd, Z, n)
  BY <1>1 DEF Arrives, Ready
<1>3. m \in 0 .. Z - 1 /\ Ranked(nd, Z) /\ IsHash(hash)
  BY <1>2, ArrivesFacts DEF Arrives
<1>4. MainPos(t, key) = m /\ MainPos(t, nd[m].key) = q
  BY <1>1 DEF MainPos
<1>5. Place(t, key) = IF nd[m].key = Nil
                      THEN [at |-> m, nodes |-> Taking(nd, m, key)]
                      ELSE IF m > n /\ q # m
                      THEN [at |-> m, nodes |-> Moving(nd, prev, m, n, key)]
                      ELSE [at |-> n, nodes |-> Linking(nd, m, n, key)]
  BY <1>4 DEF Place, Taking, Moving, Linking
<1>6. CASE nd[m].key = Nil
  <2>1. Place(t, key).at = m /\ Place(t, key).nodes = Taking(nd, m, key)
    BY <1>5, <1>6
  <2>. DEFINE md == Taking(nd, m, key)
  <2>2. Nodes(md, Z) /\ IsTaking(nd, md, Z, m, key)
    BY <1>1, <1>3, TakingFacts
  <2>. HIDE DEF md, nd, m, n
  <2>3. Put(hash, nd, md, Z, m, key, n)
    BY <1>2, <1>6, <2>2, PutTaking
  <2>. QED  BY <2>1, <2>3 DEF md, nd, n
<1>7. CASE nd[m].key # Nil /\ q = m
  <2>0. m # n
    BY <1>2, <1>7, OfferedFacts
  <2>1. Place(t, key).at = n /\ Place(t, key).nodes = Linking(nd, m, n, key)
    BY <1>5, <1>7
  <2>. DEFINE md == Linking(nd, m, n, key)
  <2>2. Nodes(md, Z) /\ IsLinking(nd, md, Z, m, n, key)
    BY <1>1, <1>3, <2>0, LinkingFacts
  <2>3. hash[nd[m].key] % Z = m
    BY <1>7
  <2>. HIDE DEF md, nd, m, n, q
  <2>4. Put(hash, nd, md, Z, n, key, n)
    BY <1>2, <1>7, <2>2, <2>3, PutLinking
  <2>. QED  BY <2>1, <2>4 DEF md, nd, n
<1>8. CASE nd[m].key # Nil /\ q # m
  <2>1. q \in 0 .. Z - 1
    <3>1. m \in UsedIn(nd, Z)
      BY <1>3, <1>8 DEF UsedIn
    <3>. QED  BY <1>2, <3>1, ArrivesFacts
  <2>. DEFINE R == Reach(nd, Z, q)
  <2>2. \E p \in R : nd[p].next = m
    BY <1>2, <1>8, StrangerLinked
  <2>. HIDE DEF q
  <2>3. Range(Chain(t, q)) = R /\ R \subseteq 0 .. Z - 1
    <3>1. ListOf(nd, q, R) /\ R \subseteq 0 .. Z - 1
      BY <1>1, <1>3, <2>1, ChainIsList, ReachStart
    <3>. HIDE DEF R, nd
    <3>2. PICK k, s : Strung(nd, q, R, k, s)
      BY <3>1 DEF ListOf
    <3>3. NodesFrom(nd, q) = s
      BY <1>1, <3>1, <3>2, WalkIs
    <3>4. k \in Nat /\ DOMAIN s = 1 .. k /\ (\A i \in 1 .. k : s[i] \in R) /\ (\A x \in R : \E i \in 1 .. k : s[i] = x)
      BY <3>2 DEF Strung
    <3>5. Range(s) = R
      BY <3>4 DEF Range
    <3>. QED  BY <3>1, <3>3, <3>5 DEF Chain, nd
  <2>4. prev \in 0 .. Z - 1 /\ nd[prev].next = m
    <3>1. prev \in R /\ nd[prev].next = m
      BY <2>2, <2>3
    <3>. QED  BY <2>3, <3>1
  <2>. HIDE DEF prev, R
  <2>5. m > n /\ prev # n /\ m # n /\ m # NoNode
    <3>1. m # NoNode
      BY <1>3 DEF NoNode
    <3>2. m > n
      BY <1>2, <2>4, <3>1 DEF Offered, Above
    <3>3. nd[n].next = NoNode
      BY <1>2 DEF Offered, IsFree
    <3>. QED  BY <1>1, <1>3, <2>4, <3>1, <3>2, <3>3
  <2>6. prev # m
    <3>1. PICK r \in [0 .. Z - 1 -> Nat] : Falls(nd, Z, r)
      BY <1>3 DEF Ranked
    <3>2. r[m] \in Nat /\ (nd[m].next = m => r[m] < r[m])
      BY <1>3, <2>5, <3>1 DEF Falls
    <3>. QED  BY <2>4, <3>2
  <2>7. Place(t, key).at = m /\ Place(t, key).nodes = Moving(nd, prev, m, n, key)
    BY <1>5, <1>8, <2>5
  <2>. DEFINE md == Moving(nd, prev, m, n, key)
  <2>8. Nodes(md, Z) /\ IsMoving(nd, md, Z, prev, m, n, key)
    BY <1>1, <1>3, <2>4, <2>5, <2>6, MovingFacts
  <2>9. Stranger(hash, nd, Z, prev, m)
    BY <1>8, <2>4 DEF q, Stranger
  <2>. HIDE DEF md, nd, m, n
  <2>10. Put(hash, nd, md, Z, m, key, n)
    BY <1>2, <2>8, <2>9, PutMoving
  <2>. QED  BY <2>7, <2>10 DEF md, nd, n
<1>. QED  BY <1>6, <1>7, <1>8

-----------------------------------------------------------------------------
(* Values. *)

SameKeys(nd, md, Z) == \A x \in 0 .. Z - 1 : md[x].key = nd[x].key

\* Neither chains nor keys depend on the values.
LEMMA KeysKept ==
  ASSUME NEW nd, NEW md, NEW Z, Nodes(nd, Z), SameNexts(nd, md, Z), SameKeys(nd, md, Z)
  PROVE  /\ \A hs : Net(hs, nd, Z) => Net(hs, md, Z)
         /\ UsedIn(md, Z) = UsedIn(nd, Z)
         /\ \A ff : Above(nd, Z, ff) => Above(md, Z, ff)
         /\ \A x \in 0 .. Z - 1 : IsFree(md[x]) <=> IsFree(nd[x])
         /\ Dense(nd, Z) => Dense(md, Z)
<1>1. /\ Ranked(nd, Z) => Ranked(md, Z)
      /\ Single(nd, Z) => Single(md, Z)
      /\ \A i : Reach(md, Z, i) = Reach(nd, Z, i)
      /\ \A ff : Above(nd, Z, ff) => Above(md, Z, ff)
  BY LinksKept
<1>2. UsedIn(md, Z) = UsedIn(nd, Z)
  BY DEF UsedIn, SameKeys
<1>3. Distinct(nd, Z) => Distinct(md, Z)
  BY DEF Distinct, SameKeys
<1>4. \A x \in UsedIn(nd, Z) : md[x].key = nd[x].key
  BY DEF UsedIn, SameKeys
<1>5. ASSUME NEW hs PROVE Reached(hs, nd, Z) => Reached(hs, md, Z)
  BY <1>1, <1>2, <1>4 DEF Reached
<1>6. ASSUME NEW hs PROVE Settled(hs, nd, Z) => Settled(hs, md, Z)
  BY <1>2, <1>4 DEF Settled
<1>7. \A x \in 0 .. Z - 1 : IsFree(md[x]) <=> IsFree(nd[x])
  BY DEF IsFree, SameKeys, SameNexts
<1>8. Dense(nd, Z) => Dense(md, Z)
  BY DEF Dense, SameKeys, SameNexts
<1>. QED  BY <1>1, <1>2, <1>3, <1>5, <1>6, <1>7, <1>8 DEF Net

Valued(nd, n, v) == [nd EXCEPT ![n].val = v]

LEMMA ValuedFacts ==
  ASSUME NEW nd, NEW Z, Nodes(nd, Z), NEW n \in 0 .. Z - 1, NEW v \in Vals \cup {Nil}
  PROVE  /\ Nodes(Valued(nd, n, v), Z) /\ SameNexts(nd, Valued(nd, n, v), Z) /\ SameKeys(nd, Valued(nd, n, v), Z)
         /\ Valued(nd, n, v)[n].val = v /\ SameBut(nd, Valued(nd, n, v), Z, {n})
<1>. DEFINE node == [nd[n] EXCEPT !.val = v]
            md == [nd EXCEPT ![n] = node]
<1>1. Valued(nd, n, v) = md
  BY DEF Valued
<1>2. nd[n] \in NodeIn(Z)
  BY NodesFacts
<1>3. node \in NodeIn(Z) /\ node.key = nd[n].key /\ node.val = v /\ node.next = nd[n].next
  BY <1>2 DEF NodeIn
<1>. HIDE DEF node
<1>4. md \in [0 .. Z - 1 -> NodeIn(Z)] /\ md[n] = node /\ \A x \in 0 .. Z - 1 : x # n => md[x] = nd[x]
  BY <1>3 DEF Nodes
<1>. HIDE DEF md
<1>5. Nodes(md, Z) /\ SameNexts(nd, md, Z) /\ SameKeys(nd, md, Z) /\ md[n].val = v /\ SameBut(nd, md, Z, {n})
  BY <1>3, <1>4 DEF Nodes, SameNexts, SameKeys, SameBut
<1>. QED  BY <1>1, <1>5

\* The value of the key at n is v now, the other values are as they were.
LEMMA ValuedPairs ==
  ASSUME NEW nd, NEW Z, Nodes(nd, Z), NEW n \in 0 .. Z - 1, NEW v \in Vals \cup {Nil}, Distinct(nd, Z)
  PROVE  \A k \in Keys : \A w : Pair(Valued(nd, n, v), Z, k, w) <=> IF k = nd[n].key THEN w = v ELSE Pair(nd, Z, k, w)
<1>. DEFINE md == Valued(nd, n, v)
<1>1. SameKeys(nd, md, Z) /\ md[n].val = v /\ SameBut(nd, md, Z, {n})
  BY ValuedFacts
<1>. HIDE DEF md
<1>. SUFFICES ASSUME NEW k \in Keys, NEW w PROVE Pair(md, Z, k, w) <=> IF k = nd[n].key THEN w = v ELSE Pair(nd, Z, k, w)
  BY DEF md
<1>2. k # Nil
  BY KeysAssumption
<1>3. CASE k = nd[n].key
  <2>1. \A x \in 0 .. Z - 1 : md[x].key = k <=> x = n
    BY <1>1, <1>2, <1>3 DEF SameKeys, Distinct
  <2>. QED  BY <1>1, <1>3, <2>1 DEF Pair
<1>4. CASE k # nd[n].key
  <2>1. \A x \in 0 .. Z - 1 : md[x].key = k => x # n /\ md[x] = nd[x]
    BY <1>1, <1>4 DEF SameKeys, SameBut
  <2>2. \A x \in 0 .. Z - 1 : nd[x].key = k => x # n /\ md[x] = nd[x]
    BY <1>1, <1>4 DEF SameBut
  <2>. QED  BY <1>4, <2>1, <2>2 DEF Pair
<1>. QED  BY <1>3, <1>4

\* A table with some of its fields replaced.
WithNodes(t, nd) == [t EXCEPT !.nodes = nd]
WithNodesFirst(t, nd, f) == [t EXCEPT !.nodes = nd, !.firstfree = f]
WithNodesUsed(t, nd, n) == [t EXCEPT !.nodes = nd, !.used = n]
WithAll(t, nd, f, n) == [t EXCEPT !.nodes = nd, !.firstfree = f, !.used = n]

LEMMA NewNodes ==
  ASSUME NEW t, NEW Z, Shape(t, Z), NEW nd, Nodes(nd, Z)
  PROVE  Shape(WithNodes(t, nd), Z) /\ WithNodes(t, nd).nodes = nd
         /\ WithNodes(t, nd).firstfree = t.firstfree /\ WithNodes(t, nd).used = t.used
BY DEF WithNodes, Shape, Nodes

LEMMA NewNodesFirst ==
  ASSUME NEW t, NEW Z, Shape(t, Z), NEW nd, Nodes(nd, Z), NEW f \in 0 .. Z - 1
  PROVE  Shape(WithNodesFirst(t, nd, f), Z) /\ WithNodesFirst(t, nd, f).nodes = nd
         /\ WithNodesFirst(t, nd, f).firstfree = f /\ WithNodesFirst(t, nd, f).used = t.used
BY DEF WithNodesFirst, Shape, Nodes

LEMMA NewNodesUsed ==
  ASSUME NEW t, NEW Z, Shape(t, Z), NEW nd, Nodes(nd, Z), NEW n \in Nat
  PROVE  Shape(WithNodesUsed(t, nd, n), Z) /\ WithNodesUsed(t, nd, n).nodes = nd
         /\ WithNodesUsed(t, nd, n).firstfree = t.firstfree /\ WithNodesUsed(t, nd, n).used = n
BY DEF WithNodesUsed, Shape, Nodes

LEMMA NewAll ==
  ASSUME NEW t, NEW Z, Shape(t, Z), NEW nd, Nodes(nd, Z), NEW f \in 0 .. Z - 1, NEW n \in Nat
  PROVE  Shape(WithAll(t, nd, f, n), Z) /\ WithAll(t, nd, f, n).nodes = nd
         /\ WithAll(t, nd, f, n).firstfree = f /\ WithAll(t, nd, f, n).used = n
BY DEF WithAll, Shape, Nodes

\* The table with v at node n.
WithVal(t, n, v) == [t EXCEPT !.nodes[n].val = v]

LEMMA WithValFields ==
  ASSUME NEW t, NEW Z, Shape(t, Z), NEW n \in 0 .. Z - 1, NEW v \in Vals \cup {Nil}
  PROVE  /\ Shape(WithVal(t, n, v), Z) /\ WithVal(t, n, v).nodes = Valued(t.nodes, n, v)
         /\ WithVal(t, n, v).firstfree = t.firstfree /\ WithVal(t, n, v).used = t.used
<1>. DEFINE nd == Valued(t.nodes, n, v)
<1>1. WithVal(t, n, v) = WithNodes(t, nd)
  BY DEF WithVal, WithNodes, Valued
<1>2. Nodes(nd, Z)
  BY ShapeFacts, ValuedFacts
<1>. HIDE DEF nd
<1>. QED  BY <1>1, <1>2, NewNodes DEF nd

LEMMA WithValGood ==
  ASSUME NEW t, NEW Z, Good(hash, t, Z), NEW n \in 0 .. Z - 1, NEW v \in Vals \cup {Nil}
  PROVE  /\ Good(hash, WithVal(t, n, v), Z)
         /\ \A k \in Keys : \A w : Pair(WithVal(t, n, v).nodes, Z, k, w)
                                 <=> IF k = t.nodes[n].key THEN w = v ELSE Pair(t.nodes, Z, k, w)
         /\ SameKeys(t.nodes, WithVal(t, n, v).nodes, Z)
<1>. DEFINE u == WithVal(t, n, v)
<1>1. /\ IsHash(hash) /\ Shape(t, Z) /\ Net(hash, t.nodes, Z) /\ Above(t.nodes, Z, t.firstfree)
      /\ IsFree(t.nodes[t.firstfree]) /\ t.used = Cardinality(UsedIn(t.nodes, Z))
  BY DEF Good
<1>2. Shape(u, Z) /\ u.nodes = Valued(t.nodes, n, v) /\ u.firstfree = t.firstfree /\ u.used = t.used
  BY <1>1, WithValFields
<1>3. Nodes(t.nodes, Z) /\ SameNexts(t.nodes, u.nodes, Z) /\ SameKeys(t.nodes, u.nodes, Z) /\ t.firstfree \in 0 .. Z - 1
  <2>1. Nodes(t.nodes, Z) /\ t.firstfree \in 0 .. Z - 1
    BY <1>1, ShapeFacts
  <2>2. SameNexts(t.nodes, Valued(t.nodes, n, v), Z) /\ SameKeys(t.nodes, Valued(t.nodes, n, v), Z)
    BY <2>1, ValuedFacts
  <2>. QED  BY <1>2, <2>1, <2>2
<1>. HIDE DEF u
<1>4. Net(hash, u.nodes, Z) /\ UsedIn(u.nodes, Z) = UsedIn(t.nodes, Z) /\ Above(u.nodes, Z, t.firstfree) /\ IsFree(u.nodes[t.firstfree])
  BY <1>1, <1>3, KeysKept
<1>5. \A k \in Keys : \A w : Pair(u.nodes, Z, k, w) <=> IF k = t.nodes[n].key THEN w = v ELSE Pair(t.nodes, Z, k, w)
  BY <1>1, <1>2, <1>3, ValuedPairs DEF Net
<1>6. Good(hash, u, Z)
  BY <1>1, <1>2, <1>4 DEF Good
<1>. QED  BY <1>3, <1>5, <1>6 DEF u

-----------------------------------------------------------------------------
(* NewSlot without its rehash. *)

LEMMA GoodReady ==
  ASSUME NEW t, NEW Z, Good(hash, t, Z)
  PROVE  Ready(t, Z) /\ Z \in Nat \ {0} /\ Nodes(t.nodes, Z) /\ t.firstfree \in 0 .. Z - 1
         /\ t.used \in Nat /\ Size(t) = Z /\ DOMAIN t.nodes = 0 .. Z - 1
<1>1. Shape(t, Z)
  BY DEF Good
<1>2. Z \in Nat \ {0} /\ Nodes(t.nodes, Z) /\ t.firstfree \in 0 .. Z - 1 /\ t.used \in Nat /\ Size(t) = Z
      /\ DOMAIN t.nodes = 0 .. Z - 1
  BY <1>1, ShapeFacts
<1>. QED  BY <1>2 DEF Good, Ready, Offered

\* The key is there: its value is replaced.
LEMMA SlotHit ==
  ASSUME NEW t, NEW Z, Ready(t, Z), NEW key \in Keys, NEW val, NEW x \in 0 .. Z - 1, t.nodes[x].key = key
  PROVE  LET r == TryNewSlot(t, key, val)
         IN  r.tb = WithVal(t, x, val) /\ ~r.ok /\ ~r.full
<1>1. _Get(t, key) = x
  BY GetFacts DEF Ready
<1>2. x # NoNode
  BY ShapeFacts, NodesFacts DEF Ready
<1>3. TryNewSlot(t, key, val) = [tb |-> WithVal(t, x, val), ok |-> FALSE, full |-> FALSE]
  BY <1>1, <1>2 DEF TryNewSlot, WithVal
<1>. QED  BY <1>3

\* u is t with one key more, and with its value.
Added(t, u, Z, key, val) ==
  /\ Good(hash, u, Z) /\ OneMore(t.nodes, u.nodes, Z) /\ u.used = t.used + 1
  /\ \A k \in Keys : \A v : Pair(u.nodes, Z, k, v) <=> IF k = key THEN v = val ELSE Pair(t.nodes, Z, k, v)
  /\ Dense(t.nodes, Z) => Dense(u.nodes, Z)
  /\ u.firstfree <= t.firstfree
  /\ \A i \in 0 .. t.firstfree : i > u.firstfree => ~IsFree(u.nodes[i])

\* u is t with the key, which has no value yet and is not counted.
Crowded(t, u, Z, key) ==
  /\ Shape(u, Z) /\ Net(hash, u.nodes, Z) /\ OneMore(t.nodes, u.nodes, Z) /\ u.used = t.used
  /\ Others(t.nodes, u.nodes, Z, key)
  /\ \E x \in 0 .. Z - 1 : u.nodes[x].key = key
  /\ Dense(t.nodes, Z) => Dense(u.nodes, Z)
  /\ \A i \in 0 .. t.firstfree : ~IsFree(u.nodes[i])

LEMMA SlotResult ==
  ASSUME NEW t, NEW Z, Ready(t, Z), NEW key \in Keys, NEW val, \A x \in 0 .. Z - 1 : t.nodes[x].key # key
  PROVE  LET p == Place(t, key)
             free == {i \in 0 .. t.firstfree : IsFree(p.nodes[i])}
             r == TryNewSlot(t, key, val)
         IN  IF free # {}
             THEN r.tb = WithAll(t, Valued(p.nodes, p.at, val), Max(free), t.used + 1)
                  /\ r.ok /\ ~r.full
             ELSE r.tb = WithNodesFirst(t, p.nodes, 0) /\ ~r.ok /\ r.full
<1>1. _Get(t, key) = NoNode
  BY GetFacts DEF Ready
<1>. DEFINE p == Place(t, key)
            free == {i \in 0 .. t.firstfree : IsFree(p.nodes[i])}
<1>2. TryNewSlot(t, key, val) =
        IF free # {}
        THEN [tb |-> WithAll(t, Valued(p.nodes, p.at, val), Max(free), t.used + 1),
              ok |-> TRUE, full |-> FALSE]
        ELSE [tb |-> WithNodesFirst(t, p.nodes, 0), ok |-> FALSE, full |-> TRUE]
  BY <1>1 DEF TryNewSlot, Valued, WithAll, WithNodesFirst
<1>. HIDE DEF p, free
<1>3. CASE free # {}
  <2>1. TryNewSlot(t, key, val) = [tb |-> WithAll(t, Valued(p.nodes, p.at, val), Max(free), t.used + 1),
                                   ok |-> TRUE, full |-> FALSE]
    BY <1>2, <1>3
  <2>. QED  BY <1>3, <2>1 DEF p, free
<1>4. CASE free = {}
  <2>1. TryNewSlot(t, key, val) = [tb |-> WithNodesFirst(t, p.nodes, 0), ok |-> FALSE, full |-> TRUE]
    BY <1>2, <1>4
  <2>. QED  BY <1>4, <2>1 DEF p, free
<1>. QED  BY <1>3, <1>4

\* The greatest element of a set of indices.
LEMMA MaxFacts ==
  ASSUME NEW n \in Nat, NEW S \in SUBSET (0 .. n), S # {}
  PROVE  Max(S) \in S /\ \A x \in S : x <= Max(S)
<1>. DEFINE T == {m \in Nat : \E x \in S : m = n - x}
<1>1. T \subseteq Nat /\ T # {}
  <2>1. PICK x \in S : TRUE
    OBVIOUS
  <2>2. n - x \in Nat
    OBVIOUS
  <2>. QED  BY <2>2
<1>. HIDE DEF T
<1>2. PICK m \in T : \A l \in T : m <= l
  BY <1>1, LeastNatural
<1>3. PICK x \in S : m = n - x
  BY <1>2 DEF T
<1>4. \A y \in S : n - y \in T
  BY DEF T
<1>5. \A y \in S : y <= x
  <2>. SUFFICES ASSUME NEW y \in S PROVE y <= x
    OBVIOUS
  <2>1. m <= n - y
    BY <1>2, <1>4
  <2>. QED  BY <1>3, <2>1
<1>6. \E z \in S : \A y \in S : y <= z
  BY <1>5
<1>7. Max(S) = CHOOSE z \in S : \A y \in S : y <= z
  <2>1. \A z, y \in S : z >= y <=> y <= z
    OBVIOUS
  <2>. QED  BY <2>1 DEF Max
<1>. QED  BY <1>6, <1>7

\* One node more is in use.
LEMMA OneMoreCount ==
  ASSUME NEW nd, NEW md, NEW Z \in Nat, OneMore(nd, md, Z)
  PROVE  /\ Cardinality(UsedIn(md, Z)) = Cardinality(UsedIn(nd, Z)) + 1
         /\ Cardinality(UsedIn(md, Z)) \in 0 .. Z /\ Cardinality(UsedIn(nd, Z)) \in Nat
<1>1. PICK u \in 0 .. Z - 1 : u \notin UsedIn(nd, Z) /\ UsedIn(md, Z) = UsedIn(nd, Z) \cup {u}
  BY DEF OneMore
<1>2. IsFiniteSet(0 .. Z - 1) /\ Cardinality(0 .. Z - 1) = Z
  BY IndexCount
<1>3. UsedIn(nd, Z) \in SUBSET (0 .. Z - 1) /\ UsedIn(md, Z) \in SUBSET (0 .. Z - 1)
  BY DEF UsedIn
<1>4. /\ IsFiniteSet(UsedIn(nd, Z)) /\ IsFiniteSet(UsedIn(md, Z)) /\ Cardinality(UsedIn(md, Z)) <= Z
  BY <1>2, <1>3, FS_Subset, ZenonT(60)
<1>5. Cardinality(UsedIn(nd, Z)) \in Nat /\ Cardinality(UsedIn(md, Z)) \in Nat
  BY <1>4, FS_CardinalityType
<1>6. Cardinality(UsedIn(nd, Z) \cup {u}) = Cardinality(UsedIn(nd, Z)) + 1
  BY <1>1, <1>4, FS_AddElement
<1>. QED  BY <1>1, <1>4, <1>5, <1>6

LEMMA SlotNew ==
  ASSUME NEW t, NEW Z, Good(hash, t, Z), NEW key \in Keys, NEW val \in Vals \cup {Nil},
         \A x \in 0 .. Z - 1 : t.nodes[x].key # key
  PROVE  LET r == TryNewSlot(t, key, val)
         IN  \/ Added(t, r.tb, Z, key, val) /\ r.ok /\ ~r.full
             \/ Crowded(t, r.tb, Z, key) /\ ~r.ok /\ r.full
<1>. DEFINE r == TryNewSlot(t, key, val)
            md == Place(t, key).nodes
            at == Place(t, key).at
            n == t.firstfree
            free == {i \in 0 .. n : IsFree(md[i])}
<1>1. Ready(t, Z) /\ Z \in Nat \ {0} /\ Nodes(t.nodes, Z) /\ n \in 0 .. Z - 1 /\ t.used \in Nat
  BY GoodReady
<1>2. Put(hash, t.nodes, md, Z, at, key, n)
  BY <1>1, PlaceFacts
<1>3. IF free # {}
      THEN r.tb = WithAll(t, Valued(md, at, val), Max(free), t.used + 1) /\ r.ok /\ ~r.full
      ELSE r.tb = WithNodesFirst(t, md, 0) /\ ~r.ok /\ r.full
  BY <1>1, SlotResult
<1>4. IsHash(hash) /\ Shape(t, Z) /\ t.used = Cardinality(UsedIn(t.nodes, Z))
  BY DEF Good
<1>. HIDE DEF r, md, at
<1>5. Nodes(md, Z) /\ Net(hash, md, Z) /\ at \in 0 .. Z - 1 /\ md[at].key = key /\ OneMore(t.nodes, md, Z)
      /\ (Dense(t.nodes, Z) => Dense(md, Z)) /\ Others(t.nodes, md, Z, key)
  BY <1>2 DEF Put
<1>6. CASE free # {}
  <2>. DEFINE f == Max(free)
              vd == Valued(md, at, val)
              u == WithAll(t, vd, f, t.used + 1)
  <2>1. r.tb = u /\ r.ok /\ ~r.full
    BY <1>3, <1>6
  <2>2. f \in free /\ \A i \in free : i <= f
    <3>1. n \in Nat /\ free \in SUBSET (0 .. n)
      BY <1>1
    <3>. HIDE DEF free, n
    <3>. QED  BY <1>6, <3>1, MaxFacts
  <2>. HIDE DEF f
  <2>3. f \in 0 .. n /\ f \in 0 .. Z - 1 /\ IsFree(md[f]) /\ f <= n
    BY <1>1, <2>2
  <2>4. Above(md, Z, f)
    BY <1>2, <2>3 DEF Put
  <2>5. Nodes(vd, Z) /\ SameNexts(md, vd, Z) /\ SameKeys(md, vd, Z)
    BY <1>5, ValuedFacts
  <2>6. \A k \in Keys : \A w : Pair(vd, Z, k, w) <=> IF k = key THEN w = val ELSE Pair(md, Z, k, w)
    BY <1>5, ValuedPairs DEF Net
  <2>. HIDE DEF vd
  <2>7. Shape(u, Z) /\ u.nodes = vd /\ u.firstfree = f /\ u.used = t.used + 1
    <3>1. t.used + 1 \in Nat
      BY <1>1
    <3>. QED  BY <1>4, <2>3, <2>5, <3>1, NewAll
  <2>. HIDE DEF u
  <2>8. /\ Net(hash, vd, Z) /\ UsedIn(vd, Z) = UsedIn(md, Z) /\ Above(vd, Z, f) /\ (Dense(md, Z) => Dense(vd, Z))
        /\ \A x \in 0 .. Z - 1 : IsFree(vd[x]) <=> IsFree(md[x])
    BY <1>5, <2>4, <2>5, KeysKept
  <2>9. OneMore(t.nodes, vd, Z)
    BY <1>5, <2>8 DEF OneMore
  <2>10. t.used + 1 = Cardinality(UsedIn(vd, Z))
    BY <1>1, <1>4, <2>9, OneMoreCount
  <2>11. Good(hash, u, Z)
    BY <1>4, <2>3, <2>7, <2>8, <2>10 DEF Good
  <2>12. \A k \in Keys : \A w : Pair(vd, Z, k, w) <=> IF k = key THEN w = val ELSE Pair(t.nodes, Z, k, w)
    BY <1>5, <2>6 DEF Others
  <2>13. ASSUME NEW i \in 0 .. n, i > f PROVE ~IsFree(vd[i])
    <3>1. i \notin free /\ i \in 0 .. Z - 1
      BY <1>1, <2>2, <2>3, <2>13
    <3>. QED  BY <2>8, <3>1
  <2>14. Added(t, u, Z, key, val)
    BY <1>5, <2>3, <2>7, <2>8, <2>9, <2>11, <2>12, <2>13 DEF Added
  <2>. QED  BY <2>1, <2>14 DEF r
<1>7. CASE free = {}
  <2>. DEFINE u == WithNodesFirst(t, md, 0)
  <2>1. r.tb = u /\ ~r.ok /\ r.full
    BY <1>3, <1>7
  <2>2. Shape(u, Z) /\ u.nodes = md /\ u.used = t.used
    <3>1. 0 \in 0 .. Z - 1
      BY <1>1
    <3>. QED  BY <1>4, <1>5, <3>1, NewNodesFirst
  <2>. HIDE DEF u
  <2>3. Crowded(t, u, Z, key)
    BY <1>5, <1>7, <2>2 DEF Crowded
  <2>. QED  BY <2>1, <2>3 DEF r
<1>. QED  BY <1>6, <1>7

-----------------------------------------------------------------------------
(* Insertion of every key of one array into another. *)

Moved(t, new, i, before) ==
  IF i = 0 THEN new
  ELSE IF t.nodes[i - 1].key = Nil THEN before ELSE AddBack(before, t.nodes[i - 1])
IsMove(t, new, F, f) == f = [i \in 0 .. F |-> Moved(t, new, i, f[i - 1])]

\* The recursion of Reinsert has a solution.
LEMMA MoveExists ==
  ASSUME NEW t, NEW new, NEW F \in Nat
  PROVE  \E f : IsMove(t, new, F, f)
<1>. DEFINE S == {n \in Nat : \E f : IsMove(t, new, n, f)}
<1>0. \A x, y : Moved(t, new, 0, x) = Moved(t, new, 0, y)
  BY DEF Moved
<1>1. 0 \in S
  <2>. DEFINE f == [i \in 0 .. 0 |-> Moved(t, new, 0, 0)]
  <2>1. \A i \in 0 .. 0 : f[i] = Moved(t, new, i, f[i - 1])
    BY <1>0
  <2>2. f = [i \in 0 .. 0 |-> Moved(t, new, i, f[i - 1])]
    BY <2>1
  <2>. QED  BY <2>2 DEF IsMove
<1>2. ASSUME NEW n \in Nat, n \in S PROVE n + 1 \in S
  <2>1. PICK f : IsMove(t, new, n, f)
    BY <1>2
  <2>. DEFINE g == [i \in 0 .. n + 1 |-> IF i = n + 1 THEN Moved(t, new, n + 1, f[n]) ELSE f[i]]
  <2>2. \A i \in 0 .. n : f[i] = Moved(t, new, i, f[i - 1])
    BY <2>1 DEF IsMove
  <2>3. (\A i \in 0 .. n : g[i] = f[i]) /\ g[n + 1] = Moved(t, new, n + 1, f[n])
    OBVIOUS
  <2>4. g = [i \in 0 .. n + 1 |-> g[i]]
    OBVIOUS
  <2>. HIDE DEF g
  <2>5. ASSUME NEW i \in 0 .. n + 1 PROVE g[i] = Moved(t, new, i, g[i - 1])
    <3>1. CASE i = n + 1
      <4>1. i - 1 = n /\ n \in 0 .. n
        BY <3>1
      <4>. QED  BY <2>3, <3>1, <4>1
    <3>2. CASE i = 0
      <4>1. 0 \in 0 .. n
        OBVIOUS
      <4>. QED  BY <1>0, <2>2, <2>3, <3>2, <4>1
    <3>3. CASE i # 0 /\ i # n + 1
      <4>1. i \in 0 .. n /\ i - 1 \in 0 .. n
        BY <3>3
      <4>. QED  BY <2>2, <2>3, <4>1
    <3>. QED  BY <3>1, <3>2, <3>3
  <2>6. g = [i \in 0 .. n + 1 |-> Moved(t, new, i, g[i - 1])]
    BY <2>4, <2>5
  <2>7. IsMove(t, new, n + 1, g)
    BY <2>6 DEF IsMove
  <2>. QED  BY <2>7
<1>. HIDE DEF S
<1>3. \A n \in Nat : n \in S
  BY <1>1, <1>2, SetInduction
<1>. QED  BY <1>3 DEF S

LEMMA ReinsertMoves ==
  ASSUME NEW t, NEW Y, Shape(t, Y), NEW new
  PROVE  \E f : IsMove(t, new, Y, f) /\ Reinsert(new, t) = f[Y]
<1>1. Size(t) = Y /\ Y \in Nat
  BY ShapeFacts
<1>. DEFINE f == CHOOSE f : f = [i \in 0 .. Y |->
                   IF i = 0 THEN new
                   ELSE IF t.nodes[i - 1].key = Nil THEN f[i - 1] ELSE AddBack(f[i - 1], t.nodes[i - 1])]
<1>2. Reinsert(new, t) = f[Y]
  BY <1>1 DEF Reinsert
<1>3. \E g : g = [i \in 0 .. Y |->
                   IF i = 0 THEN new
                   ELSE IF t.nodes[i - 1].key = Nil THEN g[i - 1] ELSE AddBack(g[i - 1], t.nodes[i - 1])]
  <2>1. PICK g : IsMove(t, new, Y, g)
    BY <1>1, MoveExists
  <2>2. g = [i \in 0 .. Y |->
               IF i = 0 THEN new
               ELSE IF t.nodes[i - 1].key = Nil THEN g[i - 1] ELSE AddBack(g[i - 1], t.nodes[i - 1])]
    BY <2>1 DEF IsMove, Moved
  <2>. QED  BY <2>2
<1>4. IsMove(t, new, Y, f)
  BY <1>3 DEF IsMove, Moved
<1>. QED  BY <1>2, <1>4

\* A table into which keys were only ever inserted: what is not used is below the
\* place handed out next.
Packed(u, Z) ==
  /\ Good(hash, u, Z) /\ Dense(u.nodes, Z)
  /\ \A x \in 0 .. Z - 1 : x > u.firstfree => u.nodes[x].key # Nil

LEMMA AllocPacked ==
  ASSUME NEW Z \in Nat \ {0}, IsHash(hash)
  PROVE  Packed(AllocNodes(Z), Z) /\ UsedIn(AllocNodes(Z).nodes, Z) = {} /\ AllocNodes(Z).used = 0
<1>. DEFINE nd == [i \in 0 .. Z - 1 |-> EmptyNode]
            u == [nodes |-> nd, firstfree |-> Z - 1, used |-> 0, nested |-> FALSE]
<1>1. AllocNodes(Z) = u
  BY DEF AllocNodes
<1>2. EmptyNode \in NodeIn(Z) /\ EmptyNode.key = Nil /\ EmptyNode.next = NoNode
  BY DEF EmptyNode, NodeIn
<1>3. /\ nd \in [0 .. Z - 1 -> NodeIn(Z)]
      /\ \A x \in 0 .. Z - 1 : nd[x] = EmptyNode
  BY <1>2
<1>. HIDE DEF nd
<1>4. u.nodes = nd /\ u.firstfree = Z - 1 /\ u.used = 0 /\ ~u.nested
  OBVIOUS
<1>5. Z - 1 \in 0 .. Z - 1 /\ 0 \in Nat
  OBVIOUS
<1>6. Shape(u, Z)
  <2>1. u \in [nodes : [0 .. Z - 1 -> NodeIn(Z)], firstfree : 0 .. Z - 1, used : Nat, nested : BOOLEAN]
    BY <1>3, <1>5
  <2>. QED  BY <1>4, <2>1 DEF Shape
<1>. HIDE DEF u
<1>7. \A x \in 0 .. Z - 1 : nd[x].key = Nil /\ nd[x].next = NoNode
  BY <1>2, <1>3
<1>8. UsedIn(nd, Z) = {}
  BY <1>7 DEF UsedIn
<1>9. Ranked(nd, Z)
  <2>. DEFINE r == [x \in 0 .. Z - 1 |-> 0]
  <2>1. r \in [0 .. Z - 1 -> Nat] /\ Falls(nd, Z, r)
    BY <1>7 DEF Falls
  <2>. QED  BY <2>1 DEF Ranked
<1>10. Net(hash, nd, Z)
  BY <1>7, <1>8, <1>9 DEF Net, Single, Distinct, Reached, Settled
<1>11. Above(nd, Z, Z - 1) /\ IsFree(nd[Z - 1]) /\ Dense(nd, Z)
  BY <1>5, <1>7 DEF Above, IsFree, Dense
<1>12. Cardinality(UsedIn(nd, Z)) = 0
  BY <1>8, FS_EmptySet
<1>13. Good(hash, u, Z)
  BY <1>4, <1>6, <1>10, <1>11, <1>12 DEF Good
<1>14. \A x \in 0 .. Z - 1 : ~(x > Z - 1)
  OBVIOUS
<1>15. Packed(u, Z)
  BY <1>4, <1>11, <1>13, <1>14 DEF Packed
<1>. QED  BY <1>1, <1>4, <1>8, <1>15

\* While nodes are left, an insertion into such a table finds a place.
LEMMA PackedRoom ==
  ASSUME NEW u, NEW Z, Packed(u, Z), u.used + 1 < Z, NEW key, NEW w, Crowded(u, w, Z, key)
  PROVE  FALSE
<1>1. Good(hash, u, Z) /\ Dense(u.nodes, Z) /\ \A x \in 0 .. Z - 1 : x > u.firstfree => u.nodes[x].key # Nil
  BY DEF Packed
<1>2. Z \in Nat \ {0} /\ u.firstfree \in 0 .. Z - 1 /\ u.used = Cardinality(UsedIn(u.nodes, Z))
  BY <1>1, GoodReady DEF Good
<1>3. /\ OneMore(u.nodes, w.nodes, Z) /\ Dense(w.nodes, Z)
      /\ \A i \in 0 .. u.firstfree : ~IsFree(w.nodes[i])
  BY <1>1 DEF Crowded
<1>4. Cardinality(UsedIn(w.nodes, Z)) = u.used + 1
  BY <1>2, <1>3, OneMoreCount
<1>5. \E x \in 0 .. Z - 1 : x \notin UsedIn(w.nodes, Z)
  <2>. SUFFICES ASSUME \A x \in 0 .. Z - 1 : x \in UsedIn(w.nodes, Z) PROVE FALSE
    OBVIOUS
  <2>1. UsedIn(w.nodes, Z) = 0 .. Z - 1
    BY DEF UsedIn
  <2>2. u.used + 1 = Z
    BY <1>2, <1>4, <2>1, IndexCount
  <2>. QED  BY <1>2, <2>2
<1>6. PICK x \in 0 .. Z - 1 : w.nodes[x].key = Nil /\ x \notin UsedIn(w.nodes, Z)
  BY <1>5 DEF UsedIn
<1>7. UsedIn(u.nodes, Z) \subseteq UsedIn(w.nodes, Z)
  BY <1>3 DEF OneMore
<1>8. u.nodes[x].key = Nil
  BY <1>6, <1>7 DEF UsedIn
<1>9. x \in 0 .. u.firstfree
  BY <1>1, <1>2, <1>8
<1>10. IsFree(w.nodes[x])
  BY <1>3, <1>6 DEF Dense, IsFree
<1>. QED  BY <1>3, <1>9, <1>10

\* The flag stays down.
Flagged(t, b) == [t EXCEPT !.nested = @ \/ b]

LEMMA StillNested ==
  ASSUME NEW t, NEW Z, Shape(t, Z), NEW b, ~b
  PROVE  /\ Shape(Flagged(t, b), Z) /\ Flagged(t, b).nodes = t.nodes
         /\ Flagged(t, b).firstfree = t.firstfree /\ Flagged(t, b).used = t.used
BY DEF Flagged, Shape

LEMMA AddBackPacked ==
  ASSUME NEW u, NEW Z, Packed(u, Z), u.used + 1 < Z, NEW node, node.key \in Keys, node.val \in Vals \cup {Nil},
         \A x \in 0 .. Z - 1 : u.nodes[x].key # node.key
  PROVE  LET w == AddBack(u, node)
         IN  /\ Packed(w, Z) /\ w.used = u.used + 1
             /\ \A k \in Keys : \A v : Pair(w.nodes, Z, k, v)
                                         <=> IF k = node.key THEN v = node.val ELSE Pair(u.nodes, Z, k, v)
<1>. DEFINE key == node.key
            val == node.val
            r == TryNewSlot(u, key, val)
            y == r.tb
            b == r.full
            w == Flagged(y, b)
<1>1. AddBack(u, node) = w
  BY DEF AddBack, Flagged
<1>2. Good(hash, u, Z) /\ Dense(u.nodes, Z) /\ \A x \in 0 .. Z - 1 : x > u.firstfree => u.nodes[x].key # Nil
  BY DEF Packed
<1>3. \/ Added(u, y, Z, key, val) /\ ~b
      \/ Crowded(u, y, Z, key)
  BY <1>2, SlotNew
<1>. HIDE DEF r, y, b
<1>4. Added(u, y, Z, key, val) /\ ~b
  BY <1>3, PackedRoom
<1>. HIDE DEF key, val
<1>5. /\ Good(hash, y, Z) /\ OneMore(u.nodes, y.nodes, Z) /\ y.used = u.used + 1 /\ y.firstfree <= u.firstfree
      /\ \A k \in Keys : \A v : Pair(y.nodes, Z, k, v) <=> IF k = key THEN v = val ELSE Pair(u.nodes, Z, k, v)
      /\ Dense(y.nodes, Z) /\ \A i \in 0 .. u.firstfree : i > y.firstfree => ~IsFree(y.nodes[i])
  BY <1>2, <1>4 DEF Added
<1>6. Shape(y, Z)
  BY <1>5 DEF Good
<1>7. Shape(w, Z) /\ w.nodes = y.nodes /\ w.firstfree = y.firstfree /\ w.used = y.used
  BY <1>4, <1>6, StillNested
<1>. HIDE DEF w
<1>8. Good(hash, w, Z)
  BY <1>5, <1>7 DEF Good
<1>9. ASSUME NEW x \in 0 .. Z - 1, x > y.firstfree PROVE y.nodes[x].key # Nil
  <2>0. u.firstfree \in 0 .. Z - 1 /\ Z \in Nat \ {0}
    BY <1>2, GoodReady
  <2>1. CASE x > u.firstfree
    <3>1. x \in UsedIn(u.nodes, Z)
      BY <1>2, <2>1 DEF UsedIn
    <3>2. x \in UsedIn(y.nodes, Z)
      BY <1>5, <3>1 DEF OneMore
    <3>. QED  BY <3>2 DEF UsedIn
  <2>2. CASE ~(x > u.firstfree)
    <3>1. x \in 0 .. u.firstfree
      BY <2>0, <2>2
    <3>2. ~IsFree(y.nodes[x])
      BY <1>5, <1>9, <3>1
    <3>. QED  BY <1>5, <3>2 DEF IsFree, Dense
  <2>. QED  BY <2>1, <2>2
<1>10. Packed(w, Z)
  BY <1>5, <1>7, <1>8, <1>9 DEF Packed
<1>. QED  BY <1>1, <1>5, <1>7, <1>10 DEF key, val

\* The used nodes before index i.
Before(nd, Y, i) == {j \in UsedIn(nd, Y) : j < i}

LEMMA BeforeCount ==
  ASSUME NEW nd, NEW Y \in Nat, NEW i \in 0 .. Y - 1
  PROVE  /\ Cardinality(Before(nd, Y, i)) \in Nat
         /\ Cardinality(Before(nd, Y, i + 1)) <= Cardinality(UsedIn(nd, Y))
         /\ nd[i].key # Nil => Cardinality(Before(nd, Y, i + 1)) = Cardinality(Before(nd, Y, i)) + 1
         /\ nd[i].key = Nil => Before(nd, Y, i + 1) = Before(nd, Y, i)
<1>1. IsFiniteSet(0 .. Y - 1)
  BY IndexCount
<1>2. IsFiniteSet(UsedIn(nd, Y))
  <2>1. UsedIn(nd, Y) \in SUBSET (0 .. Y - 1)
    BY DEF UsedIn
  <2>. QED  BY <1>1, <2>1, FS_Subset
<1>3. Before(nd, Y, i) \in SUBSET UsedIn(nd, Y) /\ Before(nd, Y, i + 1) \in SUBSET UsedIn(nd, Y)
  BY DEF Before
<1>4. IsFiniteSet(Before(nd, Y, i)) /\ Cardinality(Before(nd, Y, i + 1)) <= Cardinality(UsedIn(nd, Y))
  BY <1>2, <1>3, FS_Subset, ZenonT(60)
<1>5. \A j \in 0 .. Y - 1 : j < i + 1 <=> j < i \/ j = i
  OBVIOUS
<1>6. i \notin Before(nd, Y, i)
  BY DEF Before
<1>7. nd[i].key # Nil => Before(nd, Y, i + 1) = Before(nd, Y, i) \cup {i}
  BY <1>5 DEF Before, UsedIn
<1>8. nd[i].key = Nil => Before(nd, Y, i + 1) = Before(nd, Y, i)
  BY <1>5 DEF Before, UsedIn
<1>9. Cardinality(Before(nd, Y, i) \cup {i}) = Cardinality(Before(nd, Y, i)) + 1
  BY <1>4, <1>6, FS_AddElement
<1>10. Cardinality(Before(nd, Y, i)) \in Nat
  BY <1>4, FS_CardinalityType
<1>. QED  BY <1>4, <1>7, <1>8, <1>9, <1>10

\* Everything of a table arrives in an array that is larger than the number of its keys.
LEMMA ReinsertGood ==
  ASSUME NEW t, NEW Y, Shape(t, Y), Distinct(t.nodes, Y), IsHash(hash),
         NEW Z \in Nat \ {0}, Cardinality(UsedIn(t.nodes, Y)) < Z
  PROVE  LET u == Reinsert(AllocNodes(Z), t)
         IN  /\ Good(hash, u, Z)
             /\ \A k \in Keys : \A v : Pair(u.nodes, Z, k, v) <=> Pair(t.nodes, Y, k, v)
<1>. DEFINE od == t.nodes
            new == AllocNodes(Z)
            N == Cardinality(UsedIn(od, Y))
<1>1. Y \in Nat \ {0} /\ Nodes(od, Y) /\ \A i \in 0 .. Y - 1 : od[i] \in NodeIn(Y)
  BY ShapeFacts, NodesFacts
<1>2. PICK f : IsMove(t, new, Y, f) /\ Reinsert(new, t) = f[Y]
  BY ReinsertMoves
<1>3. \A i \in 0 .. Y : f[i] = Moved(t, new, i, f[i - 1])
  BY <1>2 DEF IsMove
<1>4. \A i \in 0 .. Y - 1 : od[i].key \in Keys \cup {Nil} /\ od[i].val \in Vals \cup {Nil}
  BY <1>1 DEF NodeIn
<1>5. N \in Nat
  <2>1. UsedIn(od, Y) \in SUBSET (0 .. Y - 1) /\ IsFiniteSet(0 .. Y - 1)
    BY <1>1, IndexCount DEF UsedIn
  <2>2. IsFiniteSet(UsedIn(od, Y))
    BY <2>1, FS_Subset
  <2>. QED  BY <2>2, FS_CardinalityType
<1>. DEFINE Has(i, k, v) == \E j \in 0 .. Y - 1 : j < i /\ od[j].key = k /\ od[j].val = v
            OK(i) == /\ Packed(f[i], Z) /\ f[i].used = Cardinality(Before(od, Y, i))
                     /\ \A k \in Keys : \A v : Pair(f[i].nodes, Z, k, v) <=> Has(i, k, v)
            C == {i \in Nat : i <= Y => OK(i)}
<1>6. 0 \in C
  <2>1. f[0] = new
    BY <1>1, <1>3 DEF Moved
  <2>2. Packed(f[0], Z) /\ UsedIn(f[0].nodes, Z) = {} /\ f[0].used = 0
    BY <2>1, AllocPacked
  <2>3. Before(od, Y, 0) = {}
    <3>1. \A j \in UsedIn(od, Y) : ~(j < 0)
      BY <1>1 DEF UsedIn
    <3>. QED  BY <3>1 DEF Before
  <2>4. f[0].used = Cardinality(Before(od, Y, 0))
    BY <2>2, <2>3, FS_EmptySet
  <2>5. \A k \in Keys : \A v : ~Pair(f[0].nodes, Z, k, v)
    BY <2>2, KeysAssumption DEF Pair, UsedIn
  <2>6. \A k, v : ~Has(0, k, v)
    BY <1>1
  <2>. HIDE DEF Has
  <2>. QED  BY <2>2, <2>4, <2>5, <2>6
<1>7. ASSUME NEW i \in Nat, i \in C PROVE i + 1 \in C
  <2>. SUFFICES ASSUME i + 1 <= Y PROVE OK(i + 1)
    OBVIOUS
  <2>1. i \in 0 .. Y - 1 /\ i + 1 \in 0 .. Y /\ i + 1 # 0 /\ i + 1 - 1 = i /\ i <= Y
    BY <1>1
  <2>2. OK(i)
    BY <1>7, <2>1
  <2>. DEFINE u == f[i]
              w == f[i + 1]
              node == od[i]
  <2>3. w = IF node.key = Nil THEN u ELSE AddBack(u, node)
    BY <1>3, <2>1 DEF Moved
  <2>4. Packed(u, Z) /\ u.used = Cardinality(Before(od, Y, i)) /\ \A k \in Keys : \A v : Pair(u.nodes, Z, k, v) <=> Has(i, k, v)
    BY <2>2
  <2>5. node.key \in Keys \cup {Nil} /\ node.val \in Vals \cup {Nil}
    BY <1>4, <2>1
  <2>6. \A j \in 0 .. Y - 1 : j < i + 1 <=> j < i \/ j = i
    BY <2>1
  <2>7. \A k, v : Has(i + 1, k, v) <=> Has(i, k, v) \/ (k = node.key /\ v = node.val)
    BY <2>1, <2>6
  <2>8. /\ Cardinality(Before(od, Y, i)) \in Nat
        /\ Cardinality(Before(od, Y, i + 1)) <= N
        /\ node.key # Nil => Cardinality(Before(od, Y, i + 1)) = Cardinality(Before(od, Y, i)) + 1
        /\ node.key = Nil => Before(od, Y, i + 1) = Before(od, Y, i)
    BY <1>1, <2>1, BeforeCount
  <2>9. ASSUME node.key # Nil, NEW v PROVE ~Has(i, node.key, v)
    <3>. SUFFICES ASSUME NEW j \in 0 .. Y - 1, j < i, od[j].key = node.key PROVE FALSE
      OBVIOUS
    <3>1. j = i
      BY <2>1, <2>9 DEF Distinct
    <3>. QED  BY <2>1, <3>1
  <2>. HIDE DEF u, w, node, Has, od
  <2>10. CASE node.key = Nil
    <3>1. w = u
      BY <2>3, <2>10
    <3>2. \A k \in Keys : \A v : Has(i + 1, k, v) <=> Has(i, k, v)
      BY <2>7, <2>10, KeysAssumption
    <3>3. Packed(w, Z) /\ w.used = Cardinality(Before(od, Y, i + 1)) /\ \A k \in Keys : \A v : Pair(w.nodes, Z, k, v) <=> Has(i + 1, k, v)
      BY <2>4, <2>8, <2>10, <3>1, <3>2
    <3>. QED  BY <3>3 DEF w
  <2>11. CASE node.key # Nil
    <3>1. w = AddBack(u, node) /\ node.key \in Keys
      BY <2>3, <2>5, <2>11
    <3>2. u.used + 1 < Z
      <4>1. N < Z
        BY DEF od
      <4>. HIDE DEF N
      <4>. QED  BY <1>5, <2>4, <2>8, <2>11, <4>1
    <3>3. \A x \in 0 .. Z - 1 : u.nodes[x].key # node.key
      <4>. SUFFICES ASSUME NEW x \in 0 .. Z - 1, u.nodes[x].key = node.key PROVE FALSE
        OBVIOUS
      <4>1. Pair(u.nodes, Z, node.key, u.nodes[x].val)
        BY DEF Pair
      <4>2. Has(i, node.key, u.nodes[x].val)
        BY <2>4, <3>1, <4>1
      <4>. QED  BY <2>9, <2>11, <4>2
    <3>4. /\ Packed(w, Z) /\ w.used = u.used + 1
          /\ \A k \in Keys : \A v : Pair(w.nodes, Z, k, v) <=> IF k = node.key THEN v = node.val ELSE Pair(u.nodes, Z, k, v)
      BY <2>4, <2>5, <3>1, <3>2, <3>3, AddBackPacked
    <3>5. \A k \in Keys : \A v : Pair(w.nodes, Z, k, v) <=> Has(i + 1, k, v)
      BY <2>4, <2>7, <2>9, <2>11, <3>4
    <3>6. w.used = Cardinality(Before(od, Y, i + 1))
      BY <2>4, <2>8, <2>11, <3>4
    <3>. QED  BY <3>4, <3>5, <3>6 DEF w
  <2>. QED  BY <2>10, <2>11
<1>8. OK(Y)
  <2>1. \A i \in Nat : i \in C
    <3>. HIDE DEF C
    <3>. QED  BY <1>6, <1>7, SetInduction
  <2>. QED  BY <1>1, <2>1
<1>9. \A k \in Keys : \A v : Has(Y, k, v) <=> Pair(od, Y, k, v)
  <2>1. \A j \in 0 .. Y - 1 : j < Y
    BY <1>1
  <2>. QED  BY <2>1 DEF Pair
<1>10. Good(hash, f[Y], Z) /\ \A k \in Keys : \A v : Pair(f[Y].nodes, Z, k, v) <=> Has(Y, k, v)
  BY <1>8 DEF Packed
<1>. HIDE DEF Has
<1>. QED  BY <1>2, <1>9, <1>10

-----------------------------------------------------------------------------
(* Rehash and the operations. *)

SizeOK(Z) == Z \in Nat /\ Z >= 4 /\ IsPowerOfTwo(Z)

LEMMA SizeOKFacts ==
  ASSUME NEW Z, SizeOK(Z)
  PROVE  Z \in Nat \ {0} /\ Z >= 4
<1>1. Z \in Nat /\ Z >= 4
  BY DEF SizeOK
<1>. QED  BY <1>1

\* The three outcomes of Rehash's tests.
LEMMA RehashSizeIs ==
  ASSUME NEW t, NEW Y, Shape(t, Y), SizeOK(Y), NEW force \in BOOLEAN
  PROVE  RehashSize(t, force) = IF t.used >= Y - Y \div 4 THEN Y * 2
                                ELSE IF t.used <= Y \div 4 /\ Y > 4 THEN Y \div 2
                                ELSE IF force THEN Y ELSE 0
<1>1. Size(t) = Y /\ t.used \in Nat /\ Y \in Nat /\ MINPOWER2 = 4
  BY ShapeFacts DEF MINPOWER2
<1>. DEFINE a == t.used
            h == Y - Y \div 4
<1>2. a \in Nat /\ h \in Int
  BY <1>1
<1>3. a < h <=> ~(a >= h)
  BY <1>2
<1>4. RehashSize(t, force) = CASE a >= h -> Y * 2
                               [] a < h /\ a <= Y \div 4 /\ Y > 4 -> Y \div 2
                               [] OTHER -> IF force THEN Y ELSE 0
  BY <1>1 DEF RehashSize
<1>5. CASE a >= h
  <2>1. ~(a < h /\ a <= Y \div 4 /\ Y > 4)
    BY <1>3, <1>5
  <2>. HIDE DEF a, h
  <2>2. RehashSize(t, force) = Y * 2
    BY <1>4, <1>5, <2>1
  <2>. QED  BY <1>5, <2>2 DEF a, h
<1>6. CASE ~(a >= h) /\ a <= Y \div 4 /\ Y > 4
  <2>1. a < h
    BY <1>3, <1>6
  <2>. HIDE DEF a, h
  <2>2. RehashSize(t, force) = Y \div 2
    BY <1>4, <1>6, <2>1
  <2>. QED  BY <1>6, <2>2 DEF a, h
<1>7. CASE ~(a >= h) /\ ~(a <= Y \div 4 /\ Y > 4)
  <2>. HIDE DEF a, h
  <2>2. RehashSize(t, force) = IF force THEN Y ELSE 0
    BY <1>4, <1>7
  <2>. QED  BY <1>7, <2>2 DEF a, h
<1>. QED  BY <1>5, <1>6, <1>7

\* The size Rehash allocates is a legal one with room for one key more.
LEMMA RehashSizeFits ==
  ASSUME NEW t, NEW Y, Shape(t, Y), SizeOK(Y), NEW force \in BOOLEAN, t.used + 1 <= Y
  PROVE  LET n == RehashSize(t, force)
         IN  (n = 0 /\ ~force) \/ (SizeOK(n) /\ t.used + 1 < n)
<1>. DEFINE a == t.used
            n == RehashSize(t, force)
<1>1. a \in Nat /\ Y \in Nat \ {0} /\ Y >= 4 /\ IsPowerOfTwo(Y) /\ a + 1 <= Y
  BY ShapeFacts DEF SizeOK
<1>2. n = IF a >= Y - Y \div 4 THEN Y * 2
          ELSE IF a <= Y \div 4 /\ Y > 4 THEN Y \div 2
          ELSE IF force THEN Y ELSE 0
  BY RehashSizeIs
<1>. HIDE DEF a, n
<1>3. CASE a >= Y - Y \div 4
  <2>1. n = Y * 2
    BY <1>2, <1>3
  <2>2. IsPowerOfTwo(Y * 2)
    BY <1>1, PowerDoubled
  <2>3. Y * 2 \in Nat /\ Y * 2 >= 4 /\ a + 1 < Y * 2
    BY <1>1
  <2>. QED  BY <2>1, <2>2, <2>3 DEF SizeOK, a, n
<1>4. CASE ~(a >= Y - Y \div 4) /\ a <= Y \div 4 /\ Y > 4
  <2>1. n = Y \div 2
    BY <1>2, <1>4
  <2>. DEFINE h == Y \div 2
  <2>2. IsPowerOfTwo(h) /\ Y = 2 * h /\ h >= 4
    BY <1>1, <1>4, PowerHalved
  <2>3. h \in Nat /\ a + 1 < h
    BY <1>1, <1>4, <2>2
  <2>. QED  BY <2>1, <2>2, <2>3 DEF SizeOK, a, n
<1>5. CASE ~(a >= Y - Y \div 4) /\ ~(a <= Y \div 4 /\ Y > 4)
  <2>1. n = IF force THEN Y ELSE 0
    BY <1>2, <1>5
  <2>2. a + 1 < Y
    BY <1>1, <1>5
  <2>. QED  BY <1>1, <2>1, <2>2 DEF SizeOK, a, n
<1>. QED  BY <1>3, <1>4, <1>5

\* u, of Z nodes, is a good table of a legal size that holds what t holds.
Holding(t, Y, u, Z) ==
  /\ SizeOK(Z) /\ Good(hash, u, Z)
  /\ \A k \in Keys : \A v : Pair(u.nodes, Z, k, v) <=> Pair(t.nodes, Y, k, v)

LEMMA RehashGood ==
  ASSUME NEW t, NEW Y, Shape(t, Y), SizeOK(Y), Distinct(t.nodes, Y), IsHash(hash),
         Cardinality(UsedIn(t.nodes, Y)) <= t.used + 1, Cardinality(UsedIn(t.nodes, Y)) \in Nat, t.used + 1 <= Y,
         NEW force \in BOOLEAN
  PROVE  \/ ~force /\ Rehash(t, force) = t
         \/ \E Z : Holding(t, Y, Rehash(t, force), Z)
<1>. DEFINE n == RehashSize(t, force)
<1>1. (n = 0 /\ ~force) \/ (SizeOK(n) /\ t.used + 1 < n)
  BY RehashSizeFits
<1>2. Rehash(t, force) = IF n = 0 THEN t ELSE Reinsert(AllocNodes(n), t)
  BY DEF Rehash
<1>. HIDE DEF n
<1>3. CASE n = 0 /\ ~force
  BY <1>2, <1>3
<1>4. CASE SizeOK(n) /\ t.used + 1 < n
  <2>1. n \in Nat \ {0}
    BY <1>4, SizeOKFacts
  <2>2. Cardinality(UsedIn(t.nodes, Y)) < n
    <3>1. t.used \in Nat
      BY ShapeFacts
    <3>. QED  BY <1>4, <2>1, <3>1
  <2>. DEFINE u == Reinsert(AllocNodes(n), t)
  <2>3. Good(hash, u, n) /\ \A k \in Keys : \A v : Pair(u.nodes, n, k, v) <=> Pair(t.nodes, Y, k, v)
    BY <2>1, <2>2, ReinsertGood
  <2>4. Rehash(t, force) = u
    BY <1>2, <2>1
  <2>. HIDE DEF u
  <2>5. Holding(t, Y, u, n)
    BY <1>4, <2>3 DEF Holding
  <2>. QED  BY <2>4, <2>5
<1>. QED  BY <1>1, <1>3, <1>4

\* A free place is left between calls.
LEMMA UsedBound ==
  ASSUME NEW t, NEW Z, Good(hash, t, Z)
  PROVE  /\ Cardinality(UsedIn(t.nodes, Z)) = t.used /\ t.used + 1 <= Z /\ t.used \in Nat /\ Z \in Nat \ {0}
         /\ IsFiniteSet(UsedIn(t.nodes, Z))
<1>1. /\ Z \in Nat \ {0} /\ t.firstfree \in 0 .. Z - 1 /\ t.used \in Nat
      /\ t.used = Cardinality(UsedIn(t.nodes, Z)) /\ t.nodes[t.firstfree].key = Nil
  BY GoodReady DEF Good, IsFree
<1>2. UsedIn(t.nodes, Z) \in SUBSET (0 .. Z - 1) /\ UsedIn(t.nodes, Z) # 0 .. Z - 1
  BY <1>1 DEF UsedIn
<1>3. IsFiniteSet(0 .. Z - 1) /\ Cardinality(0 .. Z - 1) = Z
  BY <1>1, IndexCount
<1>4. /\ IsFiniteSet(UsedIn(t.nodes, Z)) /\ Cardinality(UsedIn(t.nodes, Z)) <= Z
      /\ (Z = Cardinality(UsedIn(t.nodes, Z)) => 0 .. Z - 1 = UsedIn(t.nodes, Z))
  BY <1>2, <1>3, FS_Subset, ZenonT(60)
<1>5. t.used # Z /\ t.used <= Z
  BY <1>1, <1>2, <1>4
<1>. QED  BY <1>1, <1>4, <1>5

\* u, of Z nodes, holds val for key and what t holds for the other keys.
Stored(t, Y, u, Z, key, val) ==
  /\ SizeOK(Z) /\ Good(hash, u, Z)
  /\ \A k \in Keys : \A v : Pair(u.nodes, Z, k, v) <=> IF k = key THEN v = val ELSE Pair(t.nodes, Y, k, v)

LEMMA NewSlotGood ==
  ASSUME NEW t, NEW Y, Good(hash, t, Y), SizeOK(Y), NEW key \in Keys, NEW val \in Vals
  PROVE  LET r == NewSlotResult(t, key, val)
         IN  /\ \E Z : Stored(t, Y, r.tb, Z, key, val)
             /\ r.ok <=> (\A x \in 0 .. Y - 1 : t.nodes[x].key # key) /\ ~TryNewSlot(t, key, val).full
<1>. DEFINE r == TryNewSlot(t, key, val)
            w == r.tb
            res == NewSlotResult(t, key, val)
<1>1. Ready(t, Y) /\ IsHash(hash) /\ Shape(t, Y) /\ val \in Vals \cup {Nil}
  BY GoodReady DEF Good
<1>2. res = IF r.full THEN TryNewSlot(Rehash(w, TRUE), key, val) ELSE r
  BY DEF NewSlotResult
<1>. HIDE DEF r, w, res
<1>3. CASE \E x \in 0 .. Y - 1 : t.nodes[x].key = key
  <2>1. PICK x \in 0 .. Y - 1 : t.nodes[x].key = key
    BY <1>3
  <2>. DEFINE u == WithVal(t, x, val)
  <2>2. w = u /\ ~r.ok /\ ~r.full
    BY <1>1, <2>1, SlotHit DEF r, w
  <2>3. Good(hash, u, Y) /\ \A k \in Keys : \A v : Pair(u.nodes, Y, k, v) <=> IF k = key THEN v = val ELSE Pair(t.nodes, Y, k, v)
    BY <1>1, <2>1, WithValGood
  <2>. HIDE DEF u
  <2>4. Stored(t, Y, u, Y, key, val)
    BY <2>3 DEF Stored
  <2>5. res = r
    BY <1>2, <2>2
  <2>6. res.tb = u /\ ~res.ok
    BY <2>2, <2>5 DEF w
  <2>. QED  BY <2>1, <2>4, <2>6 DEF res
<1>4. CASE \A x \in 0 .. Y - 1 : t.nodes[x].key # key
  <2>1. \/ Added(t, w, Y, key, val) /\ r.ok /\ ~r.full
        \/ Crowded(t, w, Y, key) /\ r.full
    BY <1>1, <1>4, SlotNew DEF r, w
  <2>2. CASE Added(t, w, Y, key, val) /\ r.ok /\ ~r.full
    <3>1. Stored(t, Y, w, Y, key, val)
      BY <2>2 DEF Added, Stored
    <3>2. res = r
      BY <1>2, <2>2
    <3>3. res.tb = w /\ res.ok
      BY <2>2, <3>2 DEF w
    <3>. QED  BY <1>4, <2>2, <3>1, <3>3 DEF res, r
  <2>3. CASE Crowded(t, w, Y, key) /\ r.full
    <3>1. /\ Shape(w, Y) /\ Net(hash, w.nodes, Y) /\ OneMore(t.nodes, w.nodes, Y) /\ w.used = t.used
          /\ Others(t.nodes, w.nodes, Y, key) /\ \E x \in 0 .. Y - 1 : w.nodes[x].key = key
      BY <2>3 DEF Crowded
    <3>2. Cardinality(UsedIn(t.nodes, Y)) = t.used /\ t.used + 1 <= Y /\ t.used \in Nat /\ Y \in Nat
      BY UsedBound
    <3>3. Cardinality(UsedIn(w.nodes, Y)) = w.used + 1
      BY <3>1, <3>2, OneMoreCount
    <3>4. Cardinality(UsedIn(w.nodes, Y)) <= w.used + 1 /\ Cardinality(UsedIn(w.nodes, Y)) \in Nat /\ w.used + 1 <= Y
      BY <3>1, <3>2, <3>3
    <3>. DEFINE y == Rehash(w, TRUE)
    <3>5. \E Z : Holding(w, Y, y, Z)
      BY <1>1, <3>1, <3>4, RehashGood DEF Net
    <3>. HIDE DEF y
    <3>6. PICK Z : Holding(w, Y, y, Z)
      BY <3>5
    <3>7. SizeOK(Z) /\ Good(hash, y, Z) /\ \A k \in Keys : \A v : Pair(y.nodes, Z, k, v) <=> Pair(w.nodes, Y, k, v)
      BY <3>6 DEF Holding
    <3>8. \E x \in 0 .. Z - 1 : y.nodes[x].key = key
      <4>1. PICK i \in 0 .. Y - 1 : w.nodes[i].key = key
        BY <3>1
      <4>2. Pair(w.nodes, Y, key, w.nodes[i].val)
        BY <4>1 DEF Pair
      <4>3. Pair(y.nodes, Z, key, w.nodes[i].val)
        BY <3>7, <4>2
      <4>. QED  BY <4>3 DEF Pair
    <3>9. PICK x \in 0 .. Z - 1 : y.nodes[x].key = key
      BY <3>8
    <3>. DEFINE u == WithVal(y, x, val)
                q == TryNewSlot(y, key, val)
    <3>10. Ready(y, Z)
      BY <3>7, GoodReady
    <3>11. q.tb = u /\ ~q.ok
      BY <3>9, <3>10, SlotHit
    <3>12. Good(hash, u, Z) /\ \A k \in Keys : \A v : Pair(u.nodes, Z, k, v) <=> IF k = key THEN v = val ELSE Pair(y.nodes, Z, k, v)
      BY <1>1, <3>7, <3>9, WithValGood
    <3>. HIDE DEF u, q
    <3>13. \A k \in Keys : \A v : Pair(u.nodes, Z, k, v) <=> IF k = key THEN v = val ELSE Pair(t.nodes, Y, k, v)
      BY <3>1, <3>7, <3>12 DEF Others
    <3>14. Stored(t, Y, u, Z, key, val)
      BY <3>7, <3>12, <3>13 DEF Stored
    <3>15. res = q
      BY <1>2, <2>3 DEF q, y
    <3>16. res.tb = u /\ ~res.ok
      BY <3>11, <3>15
    <3>. QED  BY <2>3, <3>14, <3>16 DEF res, r
  <2>. QED  BY <2>1, <2>2, <2>3
<1>. QED  BY <1>3, <1>4

\* The value Set writes: that of a present key, or one of an empty node if the key
\* is null, which no lookup sees.
Written(t, Y, key, val, u) ==
  /\ Good(hash, u, Y) /\ SameKeys(t.nodes, u.nodes, Y)
  /\ \A k \in Keys : \A v : Pair(u.nodes, Y, k, v)
        <=> IF k = key /\ (\E x \in 0 .. Y - 1 : t.nodes[x].key = key) THEN v = val ELSE Pair(t.nodes, Y, k, v)

LEMMA SetGood ==
  ASSUME NEW t, NEW Y, Good(hash, t, Y), NEW key \in Keys \cup {Nil}, NEW val \in Vals
  PROVE  LET r == SetResult(t, key, val)
         IN  /\ Written(t, Y, key, val, r.tb)
             /\ key \in Keys => (r.ok <=> \E x \in 0 .. Y - 1 : t.nodes[x].key = key)
<1>. DEFINE n == _Get(t, key)
            r == SetResult(t, key, val)
<1>1. /\ Shape(t, Y) /\ Net(hash, t.nodes, Y) /\ Ranked(t.nodes, Y) /\ IsHash(hash)
      /\ Y \in Nat \ {0} /\ Nodes(t.nodes, Y)
  BY GoodReady DEF Good, Net
<1>2. n # NoNode => n \in 0 .. Y - 1 /\ t.nodes[n].key = key
  BY <1>1, SearchFacts
<1>3. key \in Keys => (n # NoNode <=> \E x \in 0 .. Y - 1 : t.nodes[x].key = key)
  BY <1>1, GetFacts
<1>4. r.ok <=> n # NoNode
  BY DEF SetResult
<1>5. r.tb = IF n = NoNode THEN t ELSE WithVal(t, n, val)
  BY DEF SetResult, WithVal
<1>. HIDE DEF n, r
<1>6. Nil \notin Keys
  BY KeysAssumption
<1>7. CASE n = NoNode
  <2>1. Written(t, Y, key, val, t)
    BY <1>3, <1>6, <1>7 DEF Written, SameKeys
  <2>. QED  BY <1>3, <1>4, <1>5, <1>7, <2>1 DEF r
<1>8. CASE n # NoNode
  <2>. DEFINE u == WithVal(t, n, val)
  <2>1. n \in 0 .. Y - 1 /\ t.nodes[n].key = key /\ val \in Vals \cup {Nil}
    BY <1>2, <1>8
  <2>2. /\ Good(hash, u, Y) /\ SameKeys(t.nodes, u.nodes, Y)
        /\ \A k \in Keys : \A w : Pair(u.nodes, Y, k, w) <=> IF k = t.nodes[n].key THEN w = val ELSE Pair(t.nodes, Y, k, w)
    BY <2>1, WithValGood
  <2>. HIDE DEF u
  <2>3. \E x \in 0 .. Y - 1 : t.nodes[x].key = key
    BY <2>1
  <2>4. Written(t, Y, key, val, u)
    BY <2>1, <2>2, <2>3 DEF Written
  <2>5. r.tb = u
    BY <1>5, <1>8 DEF u
  <2>. QED  BY <1>3, <1>4, <1>8, <2>4, <2>5 DEF r
<1>. QED  BY <1>7, <1>8

\* The array with nothing at n, and one with nothing anywhere: the links stay.
Emptied(nd, n) == [nd EXCEPT ![n].key = Nil, ![n].val = Nil]
Wiped(nd) == [i \in DOMAIN nd |-> [EmptyNode EXCEPT !.next = nd[i].next]]

LEMMA EmptiedFacts ==
  ASSUME NEW nd, NEW Z, Nodes(nd, Z), NEW n \in 0 .. Z - 1
  PROVE  LET md == Emptied(nd, n)
         IN  /\ Nodes(md, Z) /\ SameNexts(nd, md, Z) /\ SameBut(nd, md, Z, {n})
             /\ md[n].key = Nil /\ md[n].val = Nil
<1>. DEFINE md == Emptied(nd, n)
<1>1. Z \in Nat \ {0} /\ nd \in [0 .. Z - 1 -> NodeIn(Z)]
  BY DEF Nodes
<1>2. \A x \in 0 .. Z - 1 : md[x] = IF x = n THEN [nd[n] EXCEPT !.key = Nil, !.val = Nil] ELSE nd[x]
  BY <1>1 DEF Emptied
<1>3. [nd[n] EXCEPT !.key = Nil, !.val = Nil] \in NodeIn(Z)
  BY <1>1 DEF NodeIn
<1>4. md \in [0 .. Z - 1 -> NodeIn(Z)]
  BY <1>1, <1>2, <1>3 DEF Emptied
<1>5. /\ [nd[n] EXCEPT !.key = Nil, !.val = Nil].key = Nil
      /\ [nd[n] EXCEPT !.key = Nil, !.val = Nil].val = Nil
      /\ [nd[n] EXCEPT !.key = Nil, !.val = Nil].next = nd[n].next
  BY <1>1 DEF NodeIn
<1>. HIDE DEF md
<1>6. SameNexts(nd, md, Z) /\ SameBut(nd, md, Z, {n}) /\ md[n].key = Nil /\ md[n].val = Nil
  BY <1>1, <1>2, <1>5 DEF SameNexts, SameBut
<1>. QED  BY <1>1, <1>4, <1>6 DEF Nodes, md

LEMMA WipedFacts ==
  ASSUME NEW nd, NEW Z, Nodes(nd, Z)
  PROVE  LET md == Wiped(nd)
         IN  Nodes(md, Z) /\ UsedIn(md, Z) = {}
<1>. DEFINE md == Wiped(nd)
<1>1. Z \in Nat \ {0} /\ nd \in [0 .. Z - 1 -> NodeIn(Z)]
  BY DEF Nodes
<1>2. ASSUME NEW x \in 0 .. Z - 1 PROVE md[x] \in NodeIn(Z) /\ md[x].key = Nil
  BY <1>1 DEF Wiped, EmptyNode, NodeIn
<1>3. md \in [0 .. Z - 1 -> NodeIn(Z)]
  BY <1>1, <1>2 DEF Wiped
<1>. QED  BY <1>1, <1>2, <1>3 DEF Nodes, UsedIn

\* A node that is emptied stays a link, so the chains still lead to the other keys.
LEMMA EmptiedGood ==
  ASSUME NEW t, NEW Y, Good(hash, t, Y), NEW n \in 0 .. Y - 1, t.nodes[n].key # Nil
  PROVE  LET u == WithNodesUsed(t, Emptied(t.nodes, n), t.used - 1)
         IN  /\ Good(hash, u, Y) /\ u.nodes = Emptied(t.nodes, n) /\ u.used = t.used - 1
             /\ \A k \in Keys : \A v : Pair(u.nodes, Y, k, v) <=> k # t.nodes[n].key /\ Pair(t.nodes, Y, k, v)
<1>. DEFINE nd == t.nodes
            md == Emptied(t.nodes, n)
            u == WithNodesUsed(t, md, t.used - 1)
            ff == t.firstfree
<1>1. /\ Shape(t, Y) /\ Net(hash, nd, Y) /\ IsHash(hash) /\ Y \in Nat \ {0} /\ Nodes(nd, Y) /\ ff \in 0 .. Y - 1
      /\ Above(nd, Y, ff) /\ IsFree(nd[ff]) /\ t.used = Cardinality(UsedIn(nd, Y))
  BY GoodReady DEF Good
<1>2. IsFiniteSet(UsedIn(nd, Y)) /\ t.used \in Nat
  BY UsedBound
<1>3. Nodes(md, Y) /\ SameNexts(nd, md, Y) /\ SameBut(nd, md, Y, {n}) /\ md[n].key = Nil /\ md[n].val = Nil
  BY <1>1, EmptiedFacts
<1>. HIDE DEF nd, md, ff
<1>4. UsedIn(md, Y) = UsedIn(nd, Y) \ {n} /\ n \in UsedIn(nd, Y)
  BY <1>3 DEF UsedIn, SameBut, nd
<1>5. Cardinality(UsedIn(md, Y)) = t.used - 1
  BY <1>1, <1>2, <1>4, FS_RemoveElement
<1>6. t.used - 1 \in Nat
  <2>1. IsFiniteSet(UsedIn(md, Y))
    BY <1>2, <1>4, FS_RemoveElement
  <2>2. Cardinality(UsedIn(md, Y)) \in Nat
    BY <2>1, FS_CardinalityType
  <2>. QED  BY <1>5, <2>2
<1>7. /\ Ranked(md, Y) /\ Single(md, Y) /\ Above(md, Y, ff) /\ \A i : Reach(md, Y, i) = Reach(nd, Y, i)
  BY <1>1, <1>3, LinksKept DEF Net
<1>8. \A x \in UsedIn(md, Y) : x \in UsedIn(nd, Y) /\ md[x] = nd[x]
  BY <1>3, <1>4 DEF SameBut, UsedIn
<1>9. Distinct(md, Y)
  <2>1. \A x \in 0 .. Y - 1 : md[x].key # Nil => md[x].key = nd[x].key
    BY <1>3 DEF SameBut
  <2>2. Distinct(nd, Y)
    BY <1>1 DEF Net
  <2>. QED  BY <2>1, <2>2 DEF Distinct
<1>10. Reached(hash, md, Y)
  BY <1>1, <1>7, <1>8 DEF Net, Reached
<1>11. Settled(hash, md, Y)
  BY <1>1, <1>8 DEF Net, Settled
<1>12. Net(hash, md, Y)
  BY <1>7, <1>9, <1>10, <1>11 DEF Net
<1>13. IsFree(md[ff])
  <2>1. ff # n
    BY <1>1 DEF IsFree, nd
  <2>. QED  BY <1>1, <1>3, <2>1 DEF SameBut
<1>14. Shape(u, Y) /\ u.nodes = md /\ u.firstfree = ff /\ u.used = t.used - 1
  <2>. DEFINE c == t.used - 1
  <2>1. c \in Nat
    BY <1>6
  <2>. HIDE DEF c
  <2>2. LET w == WithNodesUsed(t, md, c)
        IN  Shape(w, Y) /\ w.nodes = md /\ w.firstfree = t.firstfree /\ w.used = c
    BY <1>1, <1>3, <2>1, NewNodesUsed
  <2>. QED  BY <2>2 DEF c, ff
<1>. HIDE DEF u
<1>15. Good(hash, u, Y)
  BY <1>1, <1>5, <1>7, <1>12, <1>13, <1>14 DEF Good
<1>16. ASSUME NEW k \in Keys, NEW v
       PROVE  Pair(md, Y, k, v) <=> k # nd[n].key /\ Pair(nd, Y, k, v)
  <2>1. k # Nil
    BY KeysAssumption
  <2>2. ASSUME NEW x \in 0 .. Y - 1, md[x].key = k, md[x].val = v
        PROVE  x # n /\ nd[x].key = k /\ nd[x].val = v
    BY <1>3, <2>1, <2>2 DEF SameBut
  <2>3. ASSUME NEW x \in 0 .. Y - 1, nd[x].key = k, nd[n].key = k
        PROVE  x = n
    BY <1>1, <2>1, <2>3 DEF Net, Distinct
  <2>4. ASSUME NEW x \in 0 .. Y - 1, nd[x].key = k, nd[x].val = v, k # nd[n].key
        PROVE  md[x].key = k /\ md[x].val = v
    BY <1>3, <2>4 DEF SameBut
  <2>. QED  BY <2>2, <2>3, <2>4 DEF Pair
<1>. QED  BY <1>14, <1>15, <1>16 DEF u, md, nd

\* The key is gone, the others are as they were.
Without(t, Y, key, u, Z) ==
  /\ SizeOK(Z) /\ Good(hash, u, Z)
  /\ \A k \in Keys : \A v : Pair(u.nodes, Z, k, v) <=> k # key /\ Pair(t.nodes, Y, k, v)

RemoveResult(t, key) ==
  LET n == _Get(t, key)
      emptied == [t EXCEPT !.nodes = [@ EXCEPT ![n].key = Nil, ![n].val = Nil], !.used = @ - 1]
  IN  IF n = NoNode THEN t ELSE Rehash(emptied, FALSE)

LEMMA RemoveGood ==
  ASSUME NEW t, NEW Y, Good(hash, t, Y), SizeOK(Y), NEW key \in Keys
  PROVE  \E Z : Without(t, Y, key, RemoveResult(t, key), Z)
<1>. DEFINE n == _Get(t, key)
            e == WithNodesUsed(t, Emptied(t.nodes, n), t.used - 1)
            res == RemoveResult(t, key)
<1>1. Shape(t, Y) /\ Net(hash, t.nodes, Y) /\ IsHash(hash)
  BY DEF Good
<1>2. /\ n # NoNode => n \in 0 .. Y - 1 /\ t.nodes[n].key = key
      /\ n = NoNode <=> \A x \in 0 .. Y - 1 : t.nodes[x].key # key
  BY <1>1, GetFacts
<1>3. [t EXCEPT !.nodes = [@ EXCEPT ![n].key = Nil, ![n].val = Nil], !.used = @ - 1] = e
  BY DEF WithNodesUsed, Emptied
<1>4. res = IF n = NoNode THEN t ELSE Rehash(e, FALSE)
  BY <1>3 DEF RemoveResult
<1>. HIDE DEF n, res
<1>5. CASE n = NoNode
  <2>1. ASSUME NEW v PROVE ~Pair(t.nodes, Y, key, v)
    BY <1>2, <1>5 DEF Pair
  <2>2. Without(t, Y, key, t, Y)
    BY <2>1 DEF Without
  <2>. QED  BY <1>4, <1>5, <2>2 DEF res
<1>6. CASE n # NoNode
  <2>1. n \in 0 .. Y - 1 /\ t.nodes[n].key = key /\ key # Nil
    BY <1>2, <1>6, KeysAssumption
  <2>2. /\ Good(hash, e, Y) /\ e.used = t.used - 1
        /\ \A k \in Keys : \A v : Pair(e.nodes, Y, k, v) <=> k # t.nodes[n].key /\ Pair(t.nodes, Y, k, v)
    BY <2>1, EmptiedGood
  <2>. HIDE DEF e
  <2>3. /\ Shape(e, Y) /\ Distinct(e.nodes, Y) /\ Cardinality(UsedIn(e.nodes, Y)) = e.used
        /\ e.used \in Nat /\ e.used + 1 <= Y
    BY <2>2, UsedBound DEF Good, Net
  <2>4. Cardinality(UsedIn(e.nodes, Y)) <= e.used + 1 /\ Cardinality(UsedIn(e.nodes, Y)) \in Nat
    BY <2>3
  <2>. DEFINE u == Rehash(e, FALSE)
  <2>5. u = e \/ \E Z : Holding(e, Y, u, Z)
    BY <1>1, <2>3, <2>4, RehashGood
  <2>. HIDE DEF u
  <2>6. \E Z : Holding(e, Y, u, Z)
    <3>1. Holding(e, Y, e, Y)
      BY <2>2 DEF Holding
    <3>. QED  BY <2>5, <3>1
  <2>7. PICK Z : Holding(e, Y, u, Z)
    BY <2>6
  <2>8. Without(t, Y, key, u, Z)
    BY <2>1, <2>2, <2>7 DEF Holding, Without
  <2>9. res = u
    BY <1>4, <1>6 DEF u
  <2>. QED  BY <2>8, <2>9 DEF res
<1>. QED  BY <1>5, <1>6

\* Nothing is left.
Cleared(u, Z) == SizeOK(Z) /\ Good(hash, u, Z) /\ \A k \in Keys : \A v : ~Pair(u.nodes, Z, k, v)

LEMMA ClearGood ==
  ASSUME NEW t, NEW Y, Good(hash, t, Y), SizeOK(Y)
  PROVE  \E Z : Cleared(Rehash(WithNodesUsed(t, Wiped(t.nodes), 0), TRUE), Z)
<1>. DEFINE md == Wiped(t.nodes)
            w == WithNodesUsed(t, md, 0)
            u == Rehash(w, TRUE)
<1>1. Shape(t, Y) /\ IsHash(hash) /\ Nodes(t.nodes, Y) /\ Y \in Nat \ {0}
  BY GoodReady DEF Good
<1>2. Nodes(md, Y) /\ UsedIn(md, Y) = {}
  BY <1>1, WipedFacts
<1>. HIDE DEF md
<1>3. Shape(w, Y) /\ w.nodes = md /\ w.used = 0
  BY <1>1, <1>2, NewNodesUsed
<1>. HIDE DEF w
<1>4. Distinct(w.nodes, Y)
  BY <1>2, <1>3 DEF Distinct, UsedIn
<1>5. Cardinality(UsedIn(w.nodes, Y)) = 0
  BY <1>2, <1>3, FS_EmptySet
<1>6. Cardinality(UsedIn(w.nodes, Y)) <= w.used + 1 /\ Cardinality(UsedIn(w.nodes, Y)) \in Nat /\ w.used + 1 <= Y
  BY <1>1, <1>3, <1>5
<1>7. \E Z : Holding(w, Y, u, Z)
  BY <1>1, <1>3, <1>4, <1>6, RehashGood
<1>. HIDE DEF u
<1>8. PICK Z : Holding(w, Y, u, Z)
  BY <1>7
<1>9. ASSUME NEW k \in Keys, NEW v PROVE ~Pair(w.nodes, Y, k, v)
  <2>1. k # Nil
    BY KeysAssumption
  <2>. QED  BY <1>2, <1>3, <2>1 DEF Pair, UsedIn
<1>10. Cleared(u, Z)
  BY <1>8, <1>9 DEF Holding, Cleared
<1>. QED  BY <1>10 DEF u, w, md

-----------------------------------------------------------------------------
(* New tables and copies. *)

LEMMA MinFacts ==
  ASSUME NEW S, S \subseteq Nat, S # {}
  PROVE  Min(S) \in S /\ \A x \in S : Min(S) <= x
<1>1. \E n \in S : \A m \in S : n <= m
  BY LeastNatural
<1>. QED  BY <1>1 DEF Min

\* The sizes the constructor passes over and the one it stops at.
SizesFor(n) == {p \in 4 .. 2 * Max({n, 4}) : IsPowerOfTwo(p) /\ p >= n}

LEMMA SizesForFacts ==
  ASSUME NEW n \in Int
  PROVE  /\ SizesFor(n) # {} /\ SizesFor(n) \subseteq Nat
         /\ \A p \in SizesFor(n) : SizeOK(p) /\ p >= n
         /\ SizeOK(n) => n \in SizesFor(n)
<1>. DEFINE m == Max({n, 4})
<1>1. m \in Nat /\ m >= 4 /\ m >= n
  <2>1. CASE n >= 4
    <3>1. m = n
      BY <2>1 DEF Max
    <3>. QED  BY <2>1, <3>1
  <2>2. CASE ~(n >= 4)
    <3>1. m = 4
      BY <2>2 DEF Max
    <3>. QED  BY <2>2, <3>1
  <2>. QED  BY <2>1, <2>2
<1>2. SizesFor(n) = {p \in 4 .. 2 * m : IsPowerOfTwo(p) /\ p >= n}
  BY DEF SizesFor
<1>. HIDE DEF m
<1>3. PICK p \in m .. 2 * m : IsPowerOfTwo(p)
  BY <1>1, PowerBetween
<1>4. p \in 4 .. 2 * m /\ p >= n
  BY <1>1, <1>3
<1>5. p \in SizesFor(n)
  BY <1>2, <1>3, <1>4
<1>6. ASSUME NEW q \in SizesFor(n) PROVE q \in Nat /\ SizeOK(q) /\ q >= n
  <2>1. q \in 4 .. 2 * m /\ IsPowerOfTwo(q) /\ q >= n
    BY <1>2
  <2>2. q \in Nat /\ q >= 4
    BY <1>1, <2>1
  <2>. QED  BY <2>1, <2>2 DEF SizeOK
<1>7. ASSUME SizeOK(n) PROVE n \in SizesFor(n)
  <2>1. n \in Nat /\ n >= 4 /\ IsPowerOfTwo(n)
    BY <1>7 DEF SizeOK
  <2>2. n \in 4 .. 2 * m /\ n >= n
    BY <1>1, <2>1
  <2>. QED  BY <1>2, <2>1, <2>2
<1>. QED  BY <1>5, <1>6, <1>7

\* The constructor allocates a legal size, and a legal size as it is.
LEMMA NewTableIs ==
  ASSUME NEW n \in Int
  PROVE  \E Z : SizeOK(Z) /\ NewTable(n) = AllocNodes(Z) /\ (SizeOK(n) => Z = n)
<1>. DEFINE S == SizesFor(n)
            Z == Min(S)
<1>1. /\ S # {} /\ S \subseteq Nat /\ (\A p \in S : SizeOK(p) /\ p >= n)
      /\ (SizeOK(n) => n \in S)
  BY SizesForFacts
<1>2. NewTable(n) = AllocNodes(Z)
  BY DEF NewTable, SizesFor, MINPOWER2
<1>. HIDE DEF S
<1>3. Z \in S /\ \A x \in S : Z <= x
  BY <1>1, MinFacts
<1>. HIDE DEF Z
<1>4. SizeOK(n) => Z = n
  <2>1. Z \in Nat /\ Z >= n
    BY <1>1, <1>3
  <2>. QED  BY <1>1, <1>3, <2>1
<1>. QED  BY <1>1, <1>2, <1>3, <1>4

\* The copy has the size of the original, and everything fits.
LEMMA CloneGood ==
  ASSUME NEW t, NEW Y, Good(hash, t, Y), SizeOK(Y)
  PROVE  Holding(t, Y, Reinsert(NewTable(Size(t)), t), Y)
<1>1. Shape(t, Y) /\ IsHash(hash) /\ Distinct(t.nodes, Y) /\ Size(t) = Y /\ Y \in Nat \ {0}
  BY GoodReady DEF Good, Net
<1>2. Cardinality(UsedIn(t.nodes, Y)) < Y
  BY UsedBound
<1>3. NewTable(Y) = AllocNodes(Y)
  BY <1>1, NewTableIs
<1>. DEFINE u == Reinsert(AllocNodes(Y), t)
<1>4. Good(hash, u, Y) /\ \A k \in Keys : \A v : Pair(u.nodes, Y, k, v) <=> Pair(t.nodes, Y, k, v)
  BY <1>1, <1>2, ReinsertGood
<1>5. Reinsert(NewTable(Size(t)), t) = u
  BY <1>1, <1>3
<1>. HIDE DEF u
<1>6. Holding(t, Y, u, Y)
  BY <1>4 DEF Holding
<1>. QED  BY <1>5, <1>6

\* A new table is good and empty.
LEMMA NewTableGood ==
  ASSUME NEW n \in Int, IsHash(hash)
  PROVE  \E Z : Cleared(NewTable(n), Z)
<1>1. PICK Z : SizeOK(Z) /\ NewTable(n) = AllocNodes(Z)
  BY NewTableIs
<1>. DEFINE u == AllocNodes(Z)
<1>2. Z \in Nat \ {0}
  BY <1>1, SizeOKFacts
<1>3. Packed(u, Z) /\ UsedIn(u.nodes, Z) = {}
  BY <1>2, AllocPacked
<1>. HIDE DEF u
<1>4. ASSUME NEW k \in Keys, NEW v PROVE ~Pair(u.nodes, Z, k, v)
  <2>1. k # Nil
    BY KeysAssumption
  <2>. QED  BY <1>3, <2>1 DEF Pair, UsedIn
<1>5. Cleared(u, Z)
  BY <1>1, <1>3, <1>4 DEF Cleared, Packed
<1>. QED  BY <1>1, <1>5 DEF u

-----------------------------------------------------------------------------
(* Traversals. *)

\* A traversal has yielded the keys before its position and no others that are
\* still there, and one that ended has yielded them all.
IterOK(nd, Z, it) ==
  /\ it \in [pos : 0 .. Z \cup {NoNode}, seen : SUBSET Keys, twice : BOOLEAN] /\ ~it.twice
  /\ it.pos # NoNode => \A x \in UsedIn(nd, Z) : x < it.pos <=> nd[x].key \in it.seen
  /\ it.pos = NoNode => \A x \in UsedIn(nd, Z) : nd[x].key \in it.seen

LEMMA IdleOK ==
  ASSUME NEW nd, NEW Z \in Nat
  PROVE  IterOK(nd, Z, Idle)
<1>1. Idle \in [pos : 0 .. Z \cup {NoNode}, seen : SUBSET Keys, twice : BOOLEAN] /\ ~Idle.twice
  BY DEF Idle
<1>2. Idle.pos = 0 /\ Idle.seen = {} /\ 0 # NoNode
  BY DEF Idle, NoNode
<1>3. \A x \in UsedIn(nd, Z) : ~(x < 0)
  BY DEF UsedIn
<1>. QED  BY <1>1, <1>2, <1>3 DEF IterOK

\* While places are kept a traversal may go on.
LEMMA KeptOK ==
  ASSUME NEW t, NEW Y, Shape(t, Y), NEW u, NEW Z, Shape(u, Z), KeepsPlaces(t, u),
         NEW it, IterOK(t.nodes, Y, it)
  PROVE  IterOK(u.nodes, Z, it)
<1>1. Size(t) = Y /\ Size(u) = Z /\ DOMAIN u.nodes = 0 .. Z - 1
  BY ShapeFacts
<1>2. Y = Z /\ \A x \in 0 .. Z - 1 : u.nodes[x].key \in {t.nodes[x].key, Nil}
  BY <1>1 DEF KeepsPlaces
<1>3. \A x \in UsedIn(u.nodes, Z) : x \in UsedIn(t.nodes, Y) /\ u.nodes[x].key = t.nodes[x].key
  BY <1>2 DEF UsedIn
<1>. QED  BY <1>2, <1>3 DEF IterOK

\* One step of a traversal.
Onward(t, it) ==
  LET ahead == {i \in DOMAIN t.nodes : i >= it.pos /\ t.nodes[i].key # Nil}
      key == t.nodes[Min(ahead)].key
  IN  IF ahead = {} THEN [it EXCEPT !.pos = NoNode]
      ELSE [pos |-> Min(ahead) + 1, seen |-> it.seen \cup {key}, twice |-> it.twice \/ key \in it.seen]

LEMMA OnwardOK ==
  ASSUME NEW t, NEW Z, Shape(t, Z), Distinct(t.nodes, Z), NEW it, IterOK(t.nodes, Z, it), it.pos # NoNode
  PROVE  IterOK(t.nodes, Z, Onward(t, it))
<1>. DEFINE nd == t.nodes
            ahead == {i \in UsedIn(nd, Z) : i >= it.pos}
            m == Min(ahead)
            w == Onward(t, it)
<1>1. DOMAIN nd = 0 .. Z - 1 /\ Z \in Nat \ {0} /\ \A x \in 0 .. Z - 1 : nd[x].key \in Keys \cup {Nil}
  BY ShapeFacts, NodesFacts DEF NodeIn
<1>2. /\ it \in [pos : 0 .. Z \cup {NoNode}, seen : SUBSET Keys, twice : BOOLEAN] /\ ~it.twice
      /\ \A x \in UsedIn(nd, Z) : x < it.pos <=> nd[x].key \in it.seen
  BY DEF IterOK
<1>3. it.pos \in 0 .. Z
  BY <1>2
<1>4. {i \in DOMAIN t.nodes : i >= it.pos /\ t.nodes[i].key # Nil} = ahead
  BY <1>1 DEF UsedIn
<1>5. w = IF ahead = {} THEN [it EXCEPT !.pos = NoNode]
          ELSE [pos |-> m + 1, seen |-> it.seen \cup {nd[m].key}, twice |-> it.twice \/ nd[m].key \in it.seen]
  BY <1>4 DEF Onward
<1>6. UsedIn(nd, Z) \subseteq 0 .. Z - 1 /\ \A x \in UsedIn(nd, Z) : nd[x].key \in Keys /\ nd[x].key # Nil
  BY <1>1 DEF UsedIn
<1>. HIDE DEF nd, w
<1>7. CASE ahead = {}
  <2>1. w = [it EXCEPT !.pos = NoNode]
    BY <1>5, <1>7
  <2>2. w \in [pos : 0 .. Z \cup {NoNode}, seen : SUBSET Keys, twice : BOOLEAN] /\ w.pos = NoNode /\ w.seen = it.seen
        /\ w.twice = it.twice
    BY <1>2, <2>1
  <2>3. \A x \in UsedIn(nd, Z) : x < it.pos
    BY <1>3, <1>6, <1>7
  <2>. QED  BY <1>2, <2>2, <2>3 DEF IterOK, w, nd
<1>8. CASE ahead # {}
  <2>1. ahead \subseteq Nat
    BY <1>6
  <2>2. m \in ahead /\ \A x \in ahead : m <= x
    BY <1>8, <2>1, MinFacts
  <2>. HIDE DEF m
  <2>3. m \in UsedIn(nd, Z) /\ m \in 0 .. Z - 1 /\ m >= it.pos /\ nd[m].key \in Keys
    BY <1>6, <2>2
  <2>4. nd[m].key \notin it.seen
    BY <1>2, <1>3, <2>3
  <2>. DEFINE b == it.twice \/ nd[m].key \in it.seen
  <2>5. ~b
    BY <1>2, <2>4
  <2>6. w = [pos |-> m + 1, seen |-> it.seen \cup {nd[m].key}, twice |-> b]
    BY <1>5, <1>8
  <2>7. b \in BOOLEAN
    OBVIOUS
  <2>. HIDE DEF b
  <2>8. m + 1 \in 0 .. Z /\ m + 1 # NoNode
    BY <1>1, <2>3 DEF NoNode
  <2>9. it.seen \cup {nd[m].key} \in SUBSET Keys
    BY <1>2, <2>3
  <2>10. w.pos = m + 1 /\ w.seen = it.seen \cup {nd[m].key} /\ w.twice = b
    BY <2>6
  <2>11. w \in [pos : 0 .. Z \cup {NoNode}, seen : SUBSET Keys, twice : BOOLEAN]
    BY <2>6, <2>7, <2>8, <2>9
  <2>12. ASSUME NEW x \in UsedIn(nd, Z)
         PROVE  x < m + 1 <=> nd[x].key \in w.seen
    <3>1. x < m + 1 <=> x < it.pos \/ x = m
      <4>1. x \in Nat /\ m \in Nat
        BY <1>6, <2>3
      <4>2. ~(x < it.pos) => x >= it.pos
        BY <1>3, <4>1
      <4>3. ~(x < it.pos) => m <= x
        BY <2>2, <4>2
      <4>. QED  BY <1>3, <2>3, <4>1, <4>3
    <3>2. nd[x].key = nd[m].key <=> x = m
      BY <1>6, <2>3 DEF Distinct, nd
    <3>. QED  BY <1>2, <2>10, <3>1, <3>2
  <2>. QED  BY <2>5, <2>8, <2>10, <2>11, <2>12 DEF IterOK, w, nd
<1>. QED  BY <1>7, <1>8

-----------------------------------------------------------------------------
(* The mapping. *)

LEMMA MapFacts ==
  ASSUME NEW t, NEW Z, Shape(t, Z), Distinct(t.nodes, Z)
  PROVE  /\ DOMAIN MapOf(t) = {k \in Keys : \E v : Pair(t.nodes, Z, k, v)}
         /\ \A k \in DOMAIN MapOf(t) : \A v : Pair(t.nodes, Z, k, v) <=> MapOf(t)[k] = v
         /\ MapOf(t) = [k \in DOMAIN MapOf(t) |-> MapOf(t)[k]]
<1>. DEFINE nd == t.nodes
            U == UsedIn(nd, Z)
            D == {nd[i].key : i \in U}
<1>1. DOMAIN nd = 0 .. Z - 1 /\ \A x \in 0 .. Z - 1 : nd[x].key \in Keys \cup {Nil}
  BY ShapeFacts, NodesFacts DEF NodeIn
<1>2. Used(t) = U
  BY <1>1 DEF Used, UsedIn
<1>3. MapOf(t) = [k \in D |-> nd[CHOOSE i \in U : nd[i].key = k].val]
  BY <1>2 DEF MapOf
<1>4. U \subseteq 0 .. Z - 1 /\ \A x \in 0 .. Z - 1 : x \in U <=> nd[x].key # Nil
  BY DEF UsedIn
<1>5. Nil \notin Keys
  BY KeysAssumption
<1>. HIDE DEF nd, U
<1>6. D = {k \in Keys : \E v : Pair(nd, Z, k, v)}
  <2>1. ASSUME NEW k \in D PROVE k \in Keys /\ \E v : Pair(nd, Z, k, v)
    <3>1. PICK i \in U : k = nd[i].key
      OBVIOUS
    <3>. QED  BY <1>1, <1>4, <3>1 DEF Pair
  <2>2. ASSUME NEW k \in Keys, NEW v, Pair(nd, Z, k, v) PROVE k \in D
    <3>1. PICK i \in 0 .. Z - 1 : nd[i].key = k
      BY <2>2 DEF Pair
    <3>2. i \in U
      BY <1>4, <1>5, <3>1
    <3>. QED  BY <3>1, <3>2
  <2>. QED  BY <2>1, <2>2
<1>7. ASSUME NEW k \in D, NEW v PROVE Pair(nd, Z, k, v) <=> MapOf(t)[k] = v
  <2>. DEFINE j == CHOOSE i \in U : nd[i].key = k
  <2>1. \E i \in U : nd[i].key = k
    OBVIOUS
  <2>2. j \in U /\ nd[j].key = k
    BY <2>1
  <2>3. MapOf(t)[k] = nd[j].val
    BY <1>3
  <2>. HIDE DEF j
  <2>4. \A x \in 0 .. Z - 1 : nd[x].key = k => x = j
    BY <1>4, <2>2 DEF Distinct, nd
  <2>. QED  BY <1>4, <2>2, <2>3, <2>4 DEF Pair
<1>8. DOMAIN MapOf(t) = D /\ MapOf(t) = [k \in D |-> MapOf(t)[k]]
  BY <1>3
<1>. QED  BY <1>6, <1>7, <1>8 DEF nd

\* Tables that hold the same stand for the same mapping.
LEMMA SameMap ==
  ASSUME NEW t, NEW Y, Good(hash, t, Y), NEW u, NEW Z, Holding(t, Y, u, Z)
  PROVE  MapOf(u) = MapOf(t)
<1>1. Shape(t, Y) /\ Distinct(t.nodes, Y) /\ Shape(u, Z) /\ Distinct(u.nodes, Z)
  BY DEF Good, Net, Holding
<1>2. \A k \in Keys : \A v : Pair(u.nodes, Z, k, v) <=> Pair(t.nodes, Y, k, v)
  BY DEF Holding
<1>. DEFINE f == MapOf(t)
            g == MapOf(u)
<1>3. /\ DOMAIN f = {k \in Keys : \E v : Pair(t.nodes, Y, k, v)}
      /\ \A k \in DOMAIN f : \A v : Pair(t.nodes, Y, k, v) <=> f[k] = v
      /\ f = [k \in DOMAIN f |-> f[k]]
  BY <1>1, MapFacts
<1>4. /\ DOMAIN g = {k \in Keys : \E v : Pair(u.nodes, Z, k, v)}
      /\ \A k \in DOMAIN g : \A v : Pair(u.nodes, Z, k, v) <=> g[k] = v
      /\ g = [k \in DOMAIN g |-> g[k]]
  BY <1>1, MapFacts
<1>. HIDE DEF f, g
<1>5. DOMAIN f = DOMAIN g
  BY <1>2, <1>3, <1>4
<1>6. ASSUME NEW k \in DOMAIN f PROVE f[k] = g[k]
  <2>1. k \in Keys
    BY <1>3
  <2>2. Pair(t.nodes, Y, k, f[k])
    BY <1>3
  <2>3. Pair(u.nodes, Z, k, f[k])
    BY <1>2, <2>1, <2>2
  <2>. QED  BY <1>4, <1>5, <2>3
<1>7. f = g
  BY <1>3, <1>4, <1>5, <1>6
<1>. QED  BY <1>7 DEF f, g

\* A mapping with one more value, and without a key.
MapWith(f, k, v) == [x \in DOMAIN f \cup {k} |-> IF x = k THEN v ELSE f[x]]
MapWithout(f, k) == [x \in DOMAIN f \ {k} |-> f[x]]

LEMMA StoredMap ==
  ASSUME NEW t, NEW Y, Good(hash, t, Y), NEW u, NEW Z, NEW key \in Keys, NEW val, Stored(t, Y, u, Z, key, val)
  PROVE  MapOf(u) = MapWith(MapOf(t), key, val)
<1>1. Shape(t, Y) /\ Distinct(t.nodes, Y) /\ Shape(u, Z) /\ Distinct(u.nodes, Z)
  BY DEF Good, Net, Stored
<1>2. \A k \in Keys : \A v : Pair(u.nodes, Z, k, v) <=> IF k = key THEN v = val ELSE Pair(t.nodes, Y, k, v)
  BY DEF Stored
<1>. DEFINE f == MapOf(t)
            g == MapOf(u)
            h == [x \in DOMAIN f \cup {key} |-> IF x = key THEN val ELSE f[x]]
<1>3. /\ DOMAIN f = {k \in Keys : \E v : Pair(t.nodes, Y, k, v)}
      /\ \A k \in DOMAIN f : \A v : Pair(t.nodes, Y, k, v) <=> f[k] = v
  BY <1>1, MapFacts
<1>4. /\ DOMAIN g = {k \in Keys : \E v : Pair(u.nodes, Z, k, v)}
      /\ \A k \in DOMAIN g : \A v : Pair(u.nodes, Z, k, v) <=> g[k] = v
      /\ g = [k \in DOMAIN g |-> g[k]]
  BY <1>1, MapFacts
<1>. HIDE DEF f, g
<1>5. DOMAIN g = DOMAIN f \cup {key}
  <2>1. \A k \in Keys : k # key => (k \in DOMAIN g <=> k \in DOMAIN f)
    BY <1>2, <1>3, <1>4
  <2>2. key \in DOMAIN g
    BY <1>2, <1>4
  <2>3. DOMAIN f \subseteq Keys /\ DOMAIN g \subseteq Keys
    BY <1>3, <1>4
  <2>. QED  BY <2>1, <2>2, <2>3
<1>6. ASSUME NEW k \in DOMAIN g PROVE g[k] = h[k]
  <2>1. k \in Keys
    BY <1>4
  <2>2. CASE k = key
    <3>1. Pair(u.nodes, Z, k, val)
      BY <1>2, <2>1, <2>2
    <3>. QED  BY <1>4, <1>5, <2>2, <3>1
  <2>3. CASE k # key
    <3>1. k \in DOMAIN f
      BY <1>5, <2>3
    <3>2. Pair(t.nodes, Y, k, f[k])
      BY <1>3, <3>1
    <3>3. Pair(u.nodes, Z, k, f[k])
      BY <1>2, <2>1, <2>3, <3>2
    <3>. QED  BY <1>4, <1>5, <2>3, <3>3
  <2>. QED  BY <2>2, <2>3
<1>7. DOMAIN h = DOMAIN g /\ h = [k \in DOMAIN h |-> h[k]]
  BY <1>5
<1>. HIDE DEF h
<1>8. g = h
  BY <1>4, <1>6, <1>7
<1>. QED  BY <1>8 DEF f, g, h, MapWith

LEMMA WithoutMap ==
  ASSUME NEW t, NEW Y, Good(hash, t, Y), NEW u, NEW Z, NEW key, Without(t, Y, key, u, Z)
  PROVE  MapOf(u) = MapWithout(MapOf(t), key)
<1>1. Shape(t, Y) /\ Distinct(t.nodes, Y) /\ Shape(u, Z) /\ Distinct(u.nodes, Z)
  BY DEF Good, Net, Without
<1>2. \A k \in Keys : \A v : Pair(u.nodes, Z, k, v) <=> k # key /\ Pair(t.nodes, Y, k, v)
  BY DEF Without
<1>. DEFINE f == MapOf(t)
            g == MapOf(u)
            h == [x \in DOMAIN f \ {key} |-> f[x]]
<1>3. /\ DOMAIN f = {k \in Keys : \E v : Pair(t.nodes, Y, k, v)}
      /\ \A k \in DOMAIN f : \A v : Pair(t.nodes, Y, k, v) <=> f[k] = v
  BY <1>1, MapFacts
<1>4. /\ DOMAIN g = {k \in Keys : \E v : Pair(u.nodes, Z, k, v)}
      /\ \A k \in DOMAIN g : \A v : Pair(u.nodes, Z, k, v) <=> g[k] = v
      /\ g = [k \in DOMAIN g |-> g[k]]
  BY <1>1, MapFacts
<1>. HIDE DEF f, g
<1>5. DOMAIN g = DOMAIN f \ {key}
  BY <1>2, <1>3, <1>4
<1>6. ASSUME NEW k \in DOMAIN g PROVE g[k] = f[k]
  <2>1. k \in Keys /\ k # key /\ k \in DOMAIN f
    BY <1>4, <1>5
  <2>2. Pair(t.nodes, Y, k, f[k])
    BY <1>3, <2>1
  <2>3. Pair(u.nodes, Z, k, f[k])
    BY <1>2, <2>1, <2>2
  <2>. QED  BY <1>4, <2>3
<1>7. g = h
  BY <1>4, <1>5, <1>6
<1>. QED  BY <1>7 DEF f, g, h, MapWithout

LEMMA ClearedMap ==
  ASSUME NEW u, NEW Z, Cleared(u, Z)
  PROVE  MapOf(u) = [k \in {} |-> Nil]
<1>1. Shape(u, Z) /\ Distinct(u.nodes, Z) /\ \A k \in Keys : \A v : ~Pair(u.nodes, Z, k, v)
  BY DEF Good, Net, Cleared
<1>. DEFINE g == MapOf(u)
<1>2. /\ DOMAIN g = {k \in Keys : \E v : Pair(u.nodes, Z, k, v)} /\ g = [k \in DOMAIN g |-> g[k]]
  BY <1>1, MapFacts
<1>. HIDE DEF g
<1>3. DOMAIN g = {}
  BY <1>1, <1>2
<1>4. g = [k \in {} |-> Nil]
  BY <1>2, <1>3
<1>. QED  BY <1>4 DEF g

-----------------------------------------------------------------------------
(* The inductive invariant and the steps. *)

\* A good table of a legal size, and a traversal of it.
Sound(hs, t, it) == \E Z : SizeOK(Z) /\ Good(hs, t, Z) /\ IterOK(t.nodes, Z, it)

TInv == hash \in HashFuns /\ Sound(hash, tb, iter)

LEMMA BecomeSound ==
  ASSUME NEW Y, Good(hash, tb, Y), IterOK(tb.nodes, Y, iter), hash \in HashFuns,
         NEW u, NEW Z, SizeOK(Z), Good(hash, u, Z), Become(u)
  PROVE  tb' = u /\ TInv'
<1>1. tb' = u /\ hash' = hash /\ iter' = IF KeepsPlaces(tb, u) THEN iter ELSE Idle
  BY DEF Become
<1>2. Shape(tb, Y) /\ Shape(u, Z) /\ Z \in Nat
  BY DEF Good, SizeOK
<1>3. IterOK(u.nodes, Z, iter')
  <2>1. CASE KeepsPlaces(tb, u)
    <3>1. IterOK(u.nodes, Z, iter)
      BY <1>2, <2>1, KeptOK
    <3>. QED  BY <1>1, <2>1, <3>1
  <2>2. CASE ~KeepsPlaces(tb, u)
    <3>1. IterOK(u.nodes, Z, Idle)
      BY <1>2, IdleOK
    <3>. QED  BY <1>1, <2>2, <3>1
  <2>. QED  BY <2>1, <2>2
<1>4. Sound(hash, u, iter')
  BY <1>3 DEF Sound
<1>5. hash' \in HashFuns /\ Sound(hash', tb', iter')
  BY <1>1, <1>4
<1>. QED  BY <1>1, <1>5 DEF TInv

LEMMA InitSound ==
  ASSUME Init
  PROVE  TInv /\ MapOf(tb) = [k \in {} |-> Nil]
<1>1. hash \in HashFuns /\ iter = Idle
  BY DEF Init
<1>2. IsHash(hash)
  BY <1>1, HashAssumption DEF IsHash
<1>3. PICK n \in InitialSizes : tb = NewTable(n)
  BY DEF Init
<1>4. n \in Int
  BY SizesAssumption
<1>5. PICK Z : Cleared(NewTable(n), Z)
  BY <1>2, <1>4, NewTableGood
<1>6. Cleared(tb, Z)
  BY <1>3, <1>5
<1>7. SizeOK(Z) /\ Good(hash, tb, Z) /\ Z \in Nat
  BY <1>6 DEF Cleared, SizeOK
<1>8. IterOK(tb.nodes, Z, iter)
  BY <1>1, <1>7, IdleOK
<1>9. Sound(hash, tb, iter)
  BY <1>7, <1>8 DEF Sound
<1>. QED  BY <1>1, <1>6, <1>9, ClearedMap DEF TInv

\* What a step does to the mapping.
MapStep ==
  \/ \E k \in Keys, v \in Vals :
       \/ MapOf(tb)' = MapWith(MapOf(tb), k, v)
       \/ k \in DOMAIN MapOf(tb) /\ MapOf(tb)' = [MapOf(tb) EXCEPT ![k] = v]
  \/ \E k \in Keys : MapOf(tb)' = MapWithout(MapOf(tb), k)
  \/ MapOf(tb)' = [k \in {} |-> Nil]
  \/ MapOf(tb)' = MapOf(tb)

LEMMA StepSound ==
  ASSUME TInv, Step
  PROVE  TInv' /\ MapStep
<1>1. PICK Y : SizeOK(Y) /\ Good(hash, tb, Y) /\ IterOK(tb.nodes, Y, iter)
  BY DEF TInv, Sound
<1>2. hash \in HashFuns
  BY DEF TInv
<1>3. ASSUME NEW key \in Keys, NEW val \in Vals, NewSlot(key, val)
      PROVE  TInv' /\ MapStep
  <2>. DEFINE u == NewSlotResult(tb, key, val).tb
  <2>1. \E Z : Stored(tb, Y, u, Z, key, val)
    BY <1>1, NewSlotGood
  <2>2. Become(u)
    BY <1>3 DEF NewSlot
  <2>. HIDE DEF u
  <2>3. PICK Z : Stored(tb, Y, u, Z, key, val)
    BY <2>1
  <2>4. tb' = u /\ TInv'
    BY <1>1, <1>2, <2>2, <2>3, BecomeSound DEF Stored
  <2>5. MapOf(u) = MapWith(MapOf(tb), key, val)
    BY <1>1, <2>3, StoredMap
  <2>. QED  BY <2>4, <2>5 DEF MapStep
<1>4. ASSUME NEW key \in Keys \cup {Nil}, NEW val \in Vals, Set(key, val)
      PROVE  TInv' /\ MapStep
  <2>. DEFINE u == SetResult(tb, key, val).tb
              there == \E x \in 0 .. Y - 1 : tb.nodes[x].key = key
  <2>1. Written(tb, Y, key, val, u)
    BY <1>1, SetGood
  <2>2. Become(u)
    BY <1>4 DEF Set
  <2>. HIDE DEF u
  <2>3. Good(hash, u, Y) /\ \A k \in Keys : \A v : Pair(u.nodes, Y, k, v)
                                <=> IF k = key /\ there THEN v = val ELSE Pair(tb.nodes, Y, k, v)
    BY <2>1 DEF Written
  <2>4. tb' = u /\ TInv'
    BY <1>1, <1>2, <2>2, <2>3, BecomeSound
  <2>. HIDE DEF there
  <2>5. CASE key \in Keys /\ there
    <3>1. Stored(tb, Y, u, Y, key, val)
      BY <1>1, <2>3, <2>5 DEF Stored
    <3>. DEFINE f == MapOf(tb)
    <3>2. MapOf(u) = MapWith(f, key, val)
      BY <1>1, <2>5, <3>1, StoredMap
    <3>3. key \in DOMAIN f /\ f = [x \in DOMAIN f |-> f[x]]
      <4>1. DOMAIN f = {k \in Keys : \E v : Pair(tb.nodes, Y, k, v)} /\ f = [x \in DOMAIN f |-> f[x]]
        BY <1>1, MapFacts DEF Good, Net
      <4>2. \E v : Pair(tb.nodes, Y, key, v)
        BY <2>5 DEF there, Pair
      <4>. QED  BY <2>5, <4>1, <4>2
    <3>4. MapOf(tb)' = MapOf(u)
      BY <2>4
    <3>. HIDE DEF f
    <3>5. MapWith(f, key, val) = [f EXCEPT ![key] = val]
      BY <3>3 DEF MapWith
    <3>6. MapOf(tb)' = [f EXCEPT ![key] = val]
      BY <3>2, <3>4, <3>5
    <3>. QED  BY <2>4, <2>5, <3>3, <3>6 DEF MapStep, f
  <2>6. CASE ~(key \in Keys /\ there)
    <3>1. Holding(tb, Y, u, Y)
      BY <1>1, <2>3, <2>6 DEF Holding
    <3>2. MapOf(u) = MapOf(tb)
      BY <1>1, <3>1, SameMap
    <3>. QED  BY <2>4, <3>2 DEF MapStep
  <2>. QED  BY <2>5, <2>6
<1>5. ASSUME NEW key \in Keys, RemoveKey(key)
      PROVE  TInv' /\ MapStep
  <2>. DEFINE u == RemoveResult(tb, key)
  <2>1. \E Z : Without(tb, Y, key, u, Z)
    BY <1>1, RemoveGood
  <2>2. Become(u)
    BY <1>5 DEF RemoveKey, RemoveResult
  <2>. HIDE DEF u
  <2>3. PICK Z : Without(tb, Y, key, u, Z)
    BY <2>1
  <2>4. tb' = u /\ TInv'
    BY <1>1, <1>2, <2>2, <2>3, BecomeSound DEF Without
  <2>5. MapOf(u) = MapWithout(MapOf(tb), key)
    BY <1>1, <2>3, WithoutMap
  <2>. QED  BY <2>4, <2>5 DEF MapStep
<1>6. ASSUME Clear
      PROVE  TInv' /\ MapStep
  <2>. DEFINE w == WithNodesUsed(tb, Wiped(tb.nodes), 0)
              u == Rehash(w, TRUE)
  <2>1. \E Z : Cleared(u, Z)
    BY <1>1, ClearGood
  <2>2. [tb EXCEPT !.nodes = [i \in DOMAIN @ |-> [EmptyNode EXCEPT !.next = tb.nodes[i].next]], !.used = 0] = w
    BY DEF WithNodesUsed, Wiped
  <2>3. Become(u)
    BY <1>6, <2>2 DEF Clear
  <2>. HIDE DEF u
  <2>4. PICK Z : Cleared(u, Z)
    BY <2>1
  <2>5. tb' = u /\ TInv'
    BY <1>1, <1>2, <2>3, <2>4, BecomeSound DEF Cleared
  <2>6. MapOf(u) = [k \in {} |-> Nil]
    BY <2>4, ClearedMap
  <2>. QED  BY <2>5, <2>6 DEF MapStep
<1>7. ASSUME Clone
      PROVE  TInv' /\ MapStep
  <2>. DEFINE u == Reinsert(NewTable(Size(tb)), tb)
  <2>1. Holding(tb, Y, u, Y)
    BY <1>1, CloneGood
  <2>2. Become(u)
    BY <1>7 DEF Clone
  <2>. HIDE DEF u
  <2>3. tb' = u /\ TInv'
    BY <1>1, <1>2, <2>1, <2>2, BecomeSound DEF Holding
  <2>4. MapOf(u) = MapOf(tb)
    BY <1>1, <2>1, SameMap
  <2>. QED  BY <2>3, <2>4 DEF MapStep
<1>8. ASSUME Next
      PROVE  TInv' /\ MapStep
  <2>1. tb' = tb /\ hash' = hash /\ iter.pos # NoNode /\ iter' = Onward(tb, iter)
    BY <1>8 DEF Next, Onward
  <2>2. IterOK(tb.nodes, Y, iter')
    <3>1. IterOK(tb.nodes, Y, Onward(tb, iter))
      BY <1>1, <2>1, OnwardOK DEF Good, Net
    <3>. QED  BY <2>1, <3>1
  <2>3. Sound(hash, tb, iter')
    BY <1>1, <2>2 DEF Sound
  <2>4. hash' \in HashFuns /\ Sound(hash', tb', iter')
    BY <1>2, <2>1, <2>3
  <2>. QED  BY <2>1, <2>4 DEF TInv, MapStep
<1>9. ASSUME Restart
      PROVE  TInv' /\ MapStep
  <2>1. tb' = tb /\ hash' = hash /\ iter' = Idle
    BY <1>9 DEF Restart
  <2>2. IterOK(tb.nodes, Y, iter')
    BY <1>1, <2>1, IdleOK DEF SizeOK
  <2>3. Sound(hash, tb, iter')
    BY <1>1, <2>2 DEF Sound
  <2>4. hash' \in HashFuns /\ Sound(hash', tb', iter')
    BY <1>2, <2>1, <2>3
  <2>. QED  BY <2>1, <2>4 DEF TInv, MapStep
<1>. QED  BY <1>3, <1>4, <1>5, <1>6, <1>7, <1>8, <1>9 DEF Step

-----------------------------------------------------------------------------
(* What the invariant says of the table. *)

\* A walk along the next pointers ends at a node without one.
LEMMA ChainEnds ==
  ASSUME NEW t, NEW Z, Shape(t, Z), Ranked(t.nodes, Z), NEW i \in 0 .. Z - 1
  PROVE  t.nodes[Last(Chain(t, i))].next = NoNode
<1>. DEFINE nd == t.nodes
            S == Reach(nd, Z, i)
<1>1. Nodes(nd, Z) /\ LinkedIn(nd, Z) /\ NoNode \notin 0 .. Z - 1
  BY ShapeFacts, NodesFacts
<1>2. ListOf(nd, i, S)
  BY <1>1, ChainIsList
<1>3. S \subseteq 0 .. Z - 1
  BY ReachStart
<1>. HIDE DEF S, nd
<1>4. PICK k, s : Strung(nd, i, S, k, s)
  BY <1>2 DEF ListOf
<1>5. NodesFrom(nd, i) = s /\ s \in Seq(S) /\ Len(s) = k
  BY <1>1, <1>3, <1>4, WalkIs
<1>6. k \in Nat /\ k # 0 /\ \A j \in 1 .. k : nd[s[j]].next = IF j = k THEN NoNode ELSE s[j + 1]
  BY <1>1, <1>4 DEF Strung
<1>7. nd[s[k]].next = NoNode
  <2>1. k \in 1 .. k
    BY <1>6
  <2>. QED  BY <1>6, <2>1
<1>8. Last(Chain(t, i)) = s[k]
  BY <1>5 DEF Last, Chain, nd
<1>. QED  BY <1>7, <1>8 DEF nd

LEMMA SoundInv ==
  ASSUME TInv
  PROVE  Inv
<1>1. PICK Z : SizeOK(Z) /\ Good(hash, tb, Z) /\ IterOK(tb.nodes, Z, iter)
  BY DEF TInv, Sound
<1>. DEFINE nd == tb.nodes
<1>2. /\ Shape(tb, Z) /\ Net(hash, nd, Z) /\ IsHash(hash) /\ Z \in Nat \ {0} /\ Nodes(nd, Z)
      /\ tb.firstfree \in 0 .. Z - 1 /\ Size(tb) = Z /\ DOMAIN nd = 0 .. Z - 1 /\ IsFree(nd[tb.firstfree])
  BY <1>1, GoodReady DEF Good
<1>3. Cardinality(UsedIn(nd, Z)) = tb.used /\ tb.used + 1 <= Z /\ tb.used \in Nat
  BY <1>1, UsedBound
<1>4. Used(tb) = UsedIn(nd, Z)
  BY <1>2 DEF Used, UsedIn
<1>. HIDE DEF nd
<1>5. TypeOK
  <2>1. ASSUME NEW x \in 0 .. Z - 1 PROVE nd[x] \in NodeType /\ nd[x].next \in 0 .. Z - 1 \cup {NoNode}
    <3>1. nd[x] \in NodeIn(Z) /\ 0 .. Z - 1 \cup {NoNode} \subseteq Int
      BY <1>2, NodesFacts DEF NoNode
    <3>. QED  BY <3>1 DEF NodeIn, NodeType
  <2>2. IsPowerOfTwo(Z) /\ Z >= MINPOWER2
    BY <1>1 DEF SizeOK, MINPOWER2
  <2>3. tb.used \in 0 .. Z - 1
    BY <1>2, <1>3
  <2>4. iter.pos \in 0 .. Z \cup {NoNode}
    BY <1>1 DEF IterOK
  <2>5. hash \in HashFuns
    BY DEF TInv
  <2>. QED  BY <1>2, <2>1, <2>2, <2>3, <2>4, <2>5 DEF TypeOK, nd
<1>6. KeysReachable
  <2>. SUFFICES ASSUME NEW i \in Used(tb) PROVE _Get(tb, tb.nodes[i].key) = i
    BY DEF KeysReachable
  <2>1. i \in 0 .. Z - 1 /\ nd[i].key # Nil
    BY <1>4 DEF UsedIn
  <2>2. nd[i].key \in Keys
    <3>1. nd[i] \in NodeIn(Z)
      BY <1>2, <2>1, NodesFacts
    <3>. QED  BY <2>1, <3>1 DEF NodeIn
  <2>. DEFINE key == nd[i].key
  <2>3. key \in Keys /\ tb.nodes[i].key = key
    BY <2>2 DEF nd
  <2>. HIDE DEF key
  <2>4. \A x \in 0 .. Z - 1 : tb.nodes[x].key = key => _Get(tb, key) = x
    BY <1>2, <2>3, GetFacts DEF nd
  <2>. QED  BY <2>1, <2>3, <2>4
<1>7. ChainsAcyclic
  <2>1. ASSUME NEW i \in 0 .. Z - 1, NEW j \in 0 .. Z - 1, i # j, nd[i].next # NoNode
        PROVE  nd[i].next # nd[j].next
    BY <1>2, <2>1 DEF Net, Single
  <2>2. ASSUME NEW i \in 0 .. Z - 1 PROVE tb.nodes[Last(Chain(tb, i))].next = NoNode
    BY <1>2, ChainEnds DEF Net, nd
  <2>. QED  BY <1>2, <2>1, <2>2 DEF ChainsAcyclic, nd
<1>8. FreeAndUsed
  BY <1>2, <1>3, <1>4 DEF FreeAndUsed, IsFree, nd
<1>. QED  BY <1>5, <1>6, <1>7, <1>8 DEF Inv

LEMMA SoundAnswers ==
  ASSUME TInv
  PROVE  AnswersRight
<1>. SUFFICES ASSUME NEW key \in Keys
              PROVE  /\ GetResult(tb, key) = Abstract!Lookup(key)
                     /\ \A val \in Vals : /\ SetResult(tb, key, val).ok <=> Abstract!Lookup(key).ok
                                          /\ NewSlotResult(tb, key, val).ok
                                               <=> ~Abstract!Lookup(key).ok /\ ~TryNewSlot(tb, key, val).full
  BY DEF AnswersRight
<1>1. PICK Z : SizeOK(Z) /\ Good(hash, tb, Z)
  BY DEF TInv, Sound
<1>2. Shape(tb, Z) /\ Net(hash, tb.nodes, Z) /\ IsHash(hash) /\ Distinct(tb.nodes, Z)
  BY <1>1 DEF Good, Net
<1>. DEFINE f == MapOf(tb)
            n == _Get(tb, key)
            there == \E x \in 0 .. Z - 1 : tb.nodes[x].key = key
<1>3. /\ DOMAIN f = {k \in Keys : \E v : Pair(tb.nodes, Z, k, v)}
      /\ \A k \in DOMAIN f : \A v : Pair(tb.nodes, Z, k, v) <=> f[k] = v
  BY <1>2, MapFacts
<1>4. Abstract!Lookup(key) = IF key \in DOMAIN f THEN [ok |-> TRUE, val |-> f[key]] ELSE [ok |-> FALSE, val |-> Nil]
  BY DEF Abstract!Lookup
<1>5. /\ n # NoNode => n \in 0 .. Z - 1 /\ tb.nodes[n].key = key
      /\ n = NoNode <=> \A x \in 0 .. Z - 1 : tb.nodes[x].key # key
  BY <1>2, GetFacts
<1>6. key # Nil
  BY KeysAssumption
<1>7. GetResult(tb, key) = IF n = NoNode THEN [ok |-> FALSE, val |-> Nil] ELSE [ok |-> TRUE, val |-> tb.nodes[n].val]
  BY <1>6 DEF GetResult
<1>. HIDE DEF f, n
<1>8. key \in DOMAIN f <=> there
  BY <1>3 DEF Pair
<1>9. there <=> n # NoNode
  BY <1>5
<1>10. Abstract!Lookup(key).ok <=> there
  BY <1>4, <1>8
<1>11. GetResult(tb, key) = Abstract!Lookup(key)
  <2>1. CASE n = NoNode
    BY <1>4, <1>7, <1>8, <1>9, <2>1
  <2>2. CASE n # NoNode
    <3>1. Pair(tb.nodes, Z, key, tb.nodes[n].val)
      BY <1>5, <2>2 DEF Pair
    <3>2. f[key] = tb.nodes[n].val /\ key \in DOMAIN f
      BY <1>3, <1>8, <1>9, <2>2, <3>1
    <3>. QED  BY <1>4, <1>7, <2>2, <3>2
  <2>. QED  BY <2>1, <2>2
<1>12. ASSUME NEW val \in Vals
       PROVE  /\ SetResult(tb, key, val).ok <=> Abstract!Lookup(key).ok
              /\ NewSlotResult(tb, key, val).ok
                                               <=> ~Abstract!Lookup(key).ok /\ ~TryNewSlot(tb, key, val).full
  <2>1. SetResult(tb, key, val).ok <=> there
    BY <1>1, SetGood
  <2>2. NewSlotResult(tb, key, val).ok <=> ~there /\ ~TryNewSlot(tb, key, val).full
    BY <1>1, NewSlotGood
  <2>. QED  BY <1>10, <2>1, <2>2
<1>. QED  BY <1>11, <1>12

LEMMA SoundTraversal ==
  ASSUME TInv
  PROVE  TraversalComplete /\ NoNestedRehash
<1>1. PICK Z : SizeOK(Z) /\ Good(hash, tb, Z) /\ IterOK(tb.nodes, Z, iter)
  BY DEF TInv, Sound
<1>2. ~tb.nested /\ DOMAIN tb.nodes = 0 .. Z - 1
  BY <1>1, ShapeFacts DEF Good
<1>3. Used(tb) = UsedIn(tb.nodes, Z)
  BY <1>2 DEF Used, UsedIn
<1>4. TraversalComplete
  BY <1>1, <1>3 DEF TraversalComplete, IterOK
<1>. QED  BY <1>2, <1>4 DEF NoNestedRehash

-----------------------------------------------------------------------------
(* The theorems. *)

LEMMA Soundness ==
  Spec => []TInv
<1>1. Init => TInv
  BY InitSound
<1>2. TInv /\ [Step]_vars => TInv'
  <2>. SUFFICES ASSUME TInv, [Step]_vars PROVE TInv'
    OBVIOUS
  <2>1. CASE Step
    BY <2>1, StepSound
  <2>2. CASE UNCHANGED vars
    <3>1. tb' = tb /\ hash' = hash /\ iter' = iter
      BY <2>2 DEF vars
    <3>2. hash' \in HashFuns /\ Sound(hash', tb', iter')
      BY <3>1 DEF TInv
    <3>. QED  BY <3>2 DEF TInv
  <2>. QED  BY <2>1, <2>2
<1>. QED  BY <1>1, <1>2, PTL DEF Spec

\* Whatever the keys, their hash codes and the initial size: between calls of NewSlot,
\* Set, Remove, Clear, Clone and Next every key is found from its main position, no
\* chain closes on itself, _firstfree is a free place and _usednodes the number of keys.
THEOREM TableShape ==
  Spec => []Inv
<1>1. TInv => Inv
  BY SoundInv
<1>. QED  BY <1>1, Soundness, PTL

\* Get, Set and NewSlot answer as the mapping does that the node array stands for, NewSlot
\* with one exception: for a new key that takes the last place it answers false.
THEOREM TableAnswers ==
  Spec => []AnswersRight
<1>1. TInv => AnswersRight
  BY SoundAnswers
<1>. QED  BY <1>1, Soundness, PTL

\* The array that Rehash allocates, whether it doubles, halves or keeps the size, has room
\* for every key it reinserts: NewSlot never calls Rehash from inside Rehash or Clone.
THEOREM RehashNotNested ==
  Spec => []NoNestedRehash
<1>1. TInv => NoNestedRehash
  BY SoundTraversal
<1>. QED  BY <1>1, Soundness, PTL

\* A traversal with Next during which values change and keys are removed, but no node moves,
\* yields no key twice and every key that is there when it ends.
THEOREM TraversalYieldsAll ==
  Spec => []TraversalComplete
<1>1. TInv => TraversalComplete
  BY SoundTraversal
<1>. QED  BY <1>1, Soundness, PTL

\* The hash table implements the partial function of SQMap: relinking, rehashing and copying
\* are invisible, and every other operation changes the mapping as SQMap says.
THEOREM TableImplementsMap ==
  Spec => ImplementsMap
<1>1. Init => Abstract!MInit
  BY InitSound DEF Abstract!MInit, Abstract!Empty
<1>2. TInv /\ [Step]_vars => [Abstract!MNext]_(MapOf(tb))
  <2>. SUFFICES ASSUME TInv, [Step]_vars PROVE [Abstract!MNext]_(MapOf(tb))
    OBVIOUS
  <2>1. CASE Step
    <3>1. MapStep
      BY <2>1, StepSound
    <3>. QED  BY <3>1 DEF MapStep, MapWith, MapWithout, Abstract!MNext, Abstract!MNewSlot, Abstract!MSet,
                          Abstract!MRemove, Abstract!MClear, Abstract!Empty
  <2>2. CASE UNCHANGED vars
    BY <2>2 DEF vars
  <2>. QED  BY <2>1, <2>2
<1>. QED  BY <1>1, <1>2, Soundness, PTL DEF Spec, ImplementsMap, Abstract!MSpec
=============================================================================
