------------------------------ MODULE SQFacts -------------------------------
(***************************************************************************)
(* What the proofs of several modules rest on: induction, sequences, and  *)
(* lists threaded through arrays.                                          *)
(***************************************************************************)
EXTENDS Integers, SequencesExt, SQLinks, WellFoundedInduction, SequenceTheorems,
        FiniteSetTheorems, TLAPS

(* Induction over the natural numbers with a set in the place of a predicate. *)
(* The library states induction for an operator P(_), which no backend can    *)
(* instantiate; a set is an ordinary bound variable.  Proofs about walks of   *)
(* linked structures (bases of a class, frames of the call stack) define the  *)
(* set of the numbers for which their claim holds.                            *)

\* Every set of natural numbers that is not empty has a least element.
LEMMA LeastNatural ==
  ASSUME NEW T, T \subseteq Nat, T # {}
  PROVE  \E n \in T : \A m \in T : n <= m
<1>. DEFINE R == OpToRel(<, Nat)
<1>1. IsWellFoundedOn(R, Nat)
  BY NatLessThanWellFounded
<1>2. \E x \in T : \A y \in T : <<y, x>> \notin R
  <2>. HIDE DEF R
  <2>. QED  BY <1>1, WFMin
<1>3. \A x, y \in Nat : y < x => <<y, x>> \in R
  BY DEF OpToRel
<1>4. PICK x \in T : \A y \in T : <<y, x>> \notin R
  BY <1>2
<1>5. \A y \in T : ~(y < x)
  BY <1>3, <1>4
<1>6. \A y \in T : x <= y
  BY <1>5
<1>. QED  BY <1>6

\* A set that contains 0, and n + 1 whenever it contains n, contains every number.
LEMMA SetInduction ==
  ASSUME NEW S, 0 \in S, \A n \in Nat : n \in S => n + 1 \in S
  PROVE  \A n \in Nat : n \in S
<1>. SUFFICES ASSUME Nat \ S # {} PROVE FALSE
  OBVIOUS
<1>1. PICK n \in Nat \ S : \A m \in Nat \ S : n <= m
  BY LeastNatural
<1>2. n - 1 \in Nat /\ n - 1 \notin Nat \ S
  BY <1>1
<1>3. n - 1 + 1 \in S
  BY <1>2
<1>. QED  BY <1>1, <1>3

\* Course of values: a set that contains n whenever it contains every smaller
\* number contains every number.
LEMMA StrongInduction ==
  ASSUME NEW S, \A n \in Nat : (\A m \in Nat : m < n => m \in S) => n \in S
  PROVE  \A n \in Nat : n \in S
<1>. SUFFICES ASSUME Nat \ S # {} PROVE FALSE
  OBVIOUS
<1>1. PICK n \in Nat \ S : \A m \in Nat \ S : n <= m
  BY LeastNatural
<1>2. \A m \in Nat : m < n => m \in S
  BY <1>1
<1>. QED  BY <1>1, <1>2

-----------------------------------------------------------------------------
(* Sequences: what the provers need to know of Front, Last and Append. *)

LEMMA FunctionIsSeq ==
  ASSUME NEW T, NEW n \in Nat, NEW f \in [1 .. n -> T]
  PROVE  f \in Seq(T) /\ Len(f) = n
<1>1. f \in Seq(T)
  BY SeqDef
<1>2. Len(f) \in Nat /\ DOMAIN f = 1 .. Len(f)
  BY <1>1, LenProperties
<1>. QED  BY <1>1, <1>2

LEMMA FrontFacts ==
  ASSUME NEW T, NEW s \in Seq(T), s # <<>>
  PROVE  /\ Front(s) \in Seq(T) /\ Len(s) \in Nat \ {0} /\ Len(Front(s)) = Len(s) - 1
         /\ \A i \in 1 .. Len(s) - 1 : Front(s)[i] = s[i]
         /\ Last(s) = s[Len(s)] /\ Last(s) \in T
<1>1. Len(s) \in Nat \ {0}
  BY LenProperties, EmptySeq
<1>2. s[Len(s)] \in T
  BY <1>1, ElementOfSeq
<1>0. \A i \in 1 .. Len(s) - 1 : s[i] \in T
  BY <1>1, ElementOfSeq
<1>3. /\ SubSeq(s, 1, Len(s) - 1) \in Seq(T)
      /\ Len(SubSeq(s, 1, Len(s) - 1)) = Len(s) - 1
      /\ \A i \in 1 .. Len(s) - 1 : SubSeq(s, 1, Len(s) - 1)[i] = s[i]
  <2>1. Len(s) - 1 \in Int /\ 1 \in Int
    BY <1>1
  <2>2. \A i \in 1 .. Len(s) - 1 : 1 + i - 1 = i
    BY <1>1
  <2>3. /\ SubSeq(s, 1, Len(s) - 1) \in Seq(T)
        /\ Len(SubSeq(s, 1, Len(s) - 1)) = IF 1 <= Len(s) - 1 THEN Len(s) - 1 - 1 + 1 ELSE 0
        /\ \A i \in 1 .. Len(s) - 1 - 1 + 1 : SubSeq(s, 1, Len(s) - 1)[i] = s[1 + i - 1]
    BY <1>0, <2>1, SubSeqProperties
  <2>4. Len(s) - 1 - 1 + 1 = Len(s) - 1
    BY <1>1
  <2>. QED  BY <1>1, <2>2, <2>3, <2>4
<1>. QED  BY <1>1, <1>2, <1>3 DEF Front, Last

LEMMA AppendFacts ==
  ASSUME NEW T, NEW s \in Seq(T), NEW x \in T
  PROVE  /\ Append(s, x) \in Seq(T) /\ Len(s) \in Nat /\ Len(Append(s, x)) = Len(s) + 1
         /\ \A i \in 1 .. Len(s) : Append(s, x)[i] = s[i]
         /\ Append(s, x)[Len(s) + 1] = x
         /\ Append(s, x) # <<>>
BY AppendProperties, LenProperties

\* Replacing the last element.
Top(s, x) == [s EXCEPT ![Len(s)] = x]

LEMMA TopFacts ==
  ASSUME NEW T, NEW s \in Seq(T), s # <<>>, NEW x \in T
  PROVE  /\ Top(s, x) \in Seq(T) /\ Len(Top(s, x)) = Len(s) /\ Len(s) \in Nat \ {0}
         /\ \A i \in 1 .. Len(s) - 1 : Top(s, x)[i] = s[i]
         /\ Top(s, x)[Len(s)] = x
         /\ Top(s, x) # <<>>
<1>1. Len(s) \in Nat \ {0} /\ DOMAIN s = 1 .. Len(s)
  BY LenProperties, EmptySeq
<1>2. Top(s, x) \in Seq(T) /\ Len(Top(s, x)) = Len(s)
  BY <1>1, ExceptSeq DEF Top
<1>3. Top(s, x) # <<>>
  BY <1>1, <1>2, EmptySeq
<1>4. Len(s) \in DOMAIN s /\ \A i \in 1 .. Len(s) - 1 : i \in DOMAIN s /\ i # Len(s)
  <2>1. \A n \in Nat \ {0} : n \in 1 .. n /\ \A i \in 1 .. n - 1 : i \in 1 .. n /\ i # n
    OBVIOUS
  <2>. QED  BY <1>1, <2>1
<1>5. Top(s, x)[Len(s)] = x
  BY <1>4 DEF Top
<1>6. \A i \in DOMAIN s : i # Len(s) => Top(s, x)[i] = s[i]
  BY DEF Top
<1>. QED  BY <1>1, <1>2, <1>3, <1>4, <1>5, <1>6

-----------------------------------------------------------------------------
(* Lists threaded through an array of nodes (SQLinks). *)

\* From h on, the links of nd run through the nodes s[1] .. s[k], which are
\* those of S, each once.
Strung(nd, h, S, k, s) ==
  /\ k \in Nat /\ s \in [1 .. k -> S]
  /\ \A x \in S : \E i \in 1 .. k : s[i] = x
  /\ \A i, j \in 1 .. k : s[i] = s[j] => i = j
  /\ h = IF k = 0 THEN NoNode ELSE s[1]
  /\ \A i \in 1 .. k : nd[s[i]].next = IF i = k THEN NoNode ELSE s[i + 1]

ListOf(nd, h, S) == \E k, s : Strung(nd, h, S, k, s)

\* The links from the nodes of S are the same.
SameLinks(nd, md, S) == \A x \in S : md[x].next = nd[x].next

\* A list does not change while its links do not.
LEMMA ListKept ==
  ASSUME NEW nd, NEW md, NEW h, NEW S, ListOf(nd, h, S), SameLinks(nd, md, S)
  PROVE  ListOf(md, h, S)
<1>1. PICK k, s : Strung(nd, h, S, k, s)
  BY DEF ListOf
<1>2. \A i \in 1 .. k : s[i] \in S
  BY <1>1 DEF Strung
<1>3. Strung(md, h, S, k, s)
  BY <1>1, <1>2 DEF Strung, SameLinks
<1>. QED  BY <1>3 DEF ListOf

\* The list that has no nodes.
LEMMA ListOfNone ==
  ASSUME NEW nd
  PROVE  ListOf(nd, NoNode, {})
<1>. DEFINE s == [i \in 1 .. 0 |-> NoNode]
<1>1. Strung(nd, NoNode, {}, 0, s)
  BY DEF Strung
<1>. QED  BY <1>1 DEF ListOf

LEMMA ListHead ==
  ASSUME NEW nd, NEW h, NEW S, ListOf(nd, h, S), NoNode \notin S
  PROVE  (S = {} <=> h = NoNode) /\ (h # NoNode => h \in S)
<1>1. PICK k, s : Strung(nd, h, S, k, s)
  BY DEF ListOf
<1>2. CASE k = 0
  BY <1>1, <1>2 DEF Strung
<1>3. CASE k # 0
  <2>1. 1 \in 1 .. k
    BY <1>1, <1>3 DEF Strung
  <2>2. s[1] \in S /\ h = s[1]
    BY <1>1, <1>3, <2>1 DEF Strung
  <2>. QED  BY <2>2
<1>. QED  BY <1>2, <1>3

\* A node in front.
LEMMA ListPush ==
  ASSUME NEW nd, NEW md, NEW h, NEW S, ListOf(nd, h, S), SameLinks(nd, md, S),
         NEW x, x \notin S, md[x].next = h
  PROVE  ListOf(md, x, S \cup {x})
<1>1. PICK k, s : Strung(nd, h, S, k, s)
  BY DEF ListOf
<1>. DEFINE r == [i \in 1 .. k + 1 |-> IF i = 1 THEN x ELSE s[i - 1]]
<1>2. k \in Nat /\ \A i \in 1 .. k : s[i] \in S
  BY <1>1 DEF Strung
<1>3. r[1] = x /\ \A i \in 1 .. k : r[i + 1] = s[i]
  BY <1>2
<1>4. \A i \in 1 .. k + 1 : i = 1 \/ \E j \in 1 .. k : i = j + 1
  <2>1. \A i \in 1 .. k + 1 : i = 1 \/ (i - 1 \in 1 .. k /\ i = (i - 1) + 1)
    BY <1>2
  <2>. QED  BY <2>1
<1>5. DOMAIN r = 1 .. k + 1 /\ r = [i \in 1 .. k + 1 |-> r[i]]
  OBVIOUS
<1>. HIDE DEF r
<1>6. \A i \in 1 .. k + 1 : r[i] \in S \cup {x}
  BY <1>2, <1>3, <1>4
<1>7. r \in [1 .. k + 1 -> S \cup {x}]
  BY <1>5, <1>6
<1>8. \A y \in S \cup {x} : \E i \in 1 .. k + 1 : r[i] = y
  <2>. SUFFICES ASSUME NEW y \in S \cup {x} PROVE \E i \in 1 .. k + 1 : r[i] = y
    OBVIOUS
  <2>1. CASE y = x
    BY <1>2, <1>3, <2>1
  <2>2. CASE y # x
    <3>1. PICK i \in 1 .. k : s[i] = y
      BY <1>1, <2>2 DEF Strung
    <3>2. i + 1 \in 1 .. k + 1
      BY <1>2
    <3>. QED  BY <1>3, <3>1, <3>2
  <2>. QED  BY <2>1, <2>2
<1>9. \A i, j \in 1 .. k + 1 : r[i] = r[j] => i = j
  <2>. SUFFICES ASSUME NEW i \in 1 .. k + 1, NEW j \in 1 .. k + 1, r[i] = r[j] PROVE i = j
    OBVIOUS
  <2>1. CASE i = 1
    BY <1>2, <1>3, <1>4, <2>1
  <2>2. CASE j = 1
    BY <1>2, <1>3, <1>4, <2>2
  <2>3. CASE i # 1 /\ j # 1
    <3>1. PICK a \in 1 .. k : i = a + 1
      BY <1>4, <2>3
    <3>2. PICK b \in 1 .. k : j = b + 1
      BY <1>4, <2>3
    <3>3. s[a] = s[b]
      BY <1>3, <3>1, <3>2
    <3>4. a = b
      BY <1>1, <3>3 DEF Strung
    <3>. QED  BY <3>1, <3>2, <3>4
  <2>. QED  BY <2>1, <2>2, <2>3
<1>10. ASSUME NEW i \in 1 .. k + 1 PROVE md[r[i]].next = IF i = k + 1 THEN NoNode ELSE r[i + 1]
  <2>1. CASE i = 1
    <3>1. CASE k = 0
      <4>1. h = NoNode /\ i = k + 1
        BY <1>1, <2>1, <3>1 DEF Strung
      <4>. QED  BY <1>3, <2>1, <4>1
    <3>2. CASE k # 0
      <4>1. h = s[1] /\ i # k + 1 /\ 1 \in 1 .. k
        BY <1>1, <1>2, <2>1, <3>2 DEF Strung
      <4>. QED  BY <1>3, <2>1, <4>1
    <3>. QED  BY <3>1, <3>2
  <2>2. CASE i # 1
    <3>1. PICK a \in 1 .. k : i = a + 1
      BY <1>4, <2>2
    <3>2. md[s[a]].next = IF a = k THEN NoNode ELSE s[a + 1]
      BY <1>1, <1>2 DEF Strung, SameLinks
    <3>3. (a = k <=> i = k + 1) /\ (a # k => a + 1 \in 1 .. k)
      BY <1>2, <3>1
    <3>. QED  BY <1>3, <3>1, <3>2, <3>3
  <2>. QED  BY <2>1, <2>2
<1>11. k + 1 \in Nat /\ k + 1 # 0
  BY <1>2
<1>12. Strung(md, x, S \cup {x}, k + 1, r)
  BY <1>3, <1>7, <1>8, <1>9, <1>10, <1>11 DEF Strung
<1>. QED  BY <1>12 DEF ListOf


\* A node taken out: what linked to it links to what it linked to.
LEMMA ListDrop ==
  ASSUME NEW nd, NEW md, NEW h, NEW S, NEW k, NEW s, Strung(nd, h, S, k, s), NEW m \in 1 .. k,
         \A i \in 1 .. k : i # m /\ i + 1 # m => md[s[i]].next = nd[s[i]].next,
         m # 1 => md[s[m - 1]].next = nd[s[m]].next
  PROVE  ListOf(md, IF m = 1 THEN nd[s[1]].next ELSE h, S \ {s[m]})
<1>. DEFINE r == [i \in 1 .. k - 1 |-> IF i < m THEN s[i] ELSE s[i + 1]]
            g == IF m = 1 THEN nd[s[1]].next ELSE h
<1>1. /\ k \in Nat /\ (\A i \in 1 .. k : s[i] \in S) /\ (\A i, j \in 1 .. k : s[i] = s[j] => i = j)
      /\ \A x \in S : \E i \in 1 .. k : s[i] = x
  BY DEF Strung
<1>2. \A i \in 1 .. k : nd[s[i]].next = IF i = k THEN NoNode ELSE s[i + 1]
  BY DEF Strung
<1>3. k - 1 \in Nat /\ \A i \in 1 .. k - 1 : i \in 1 .. k /\ i + 1 \in 1 .. k
  BY <1>1
<1>4. \A i \in 1 .. k - 1 : r[i] = IF i < m THEN s[i] ELSE s[i + 1]
  OBVIOUS
<1>5. DOMAIN r = 1 .. k - 1 /\ r = [i \in 1 .. k - 1 |-> r[i]]
  OBVIOUS
<1>. HIDE DEF r
<1>6. ASSUME NEW i \in 1 .. k - 1 PROVE r[i] \in S \ {s[m]}
  <2>1. CASE i < m
    <3>1. i \in 1 .. k /\ i # m
      BY <1>3, <2>1
    <3>. QED  BY <1>1, <1>4, <2>1, <3>1
  <2>2. CASE ~(i < m)
    <3>1. i + 1 \in 1 .. k /\ i + 1 # m
      BY <1>3, <2>2
    <3>. QED  BY <1>1, <1>4, <2>2, <3>1
  <2>. QED  BY <2>1, <2>2
<1>7. r \in [1 .. k - 1 -> S \ {s[m]}]
  BY <1>5, <1>6
<1>8. ASSUME NEW x \in S \ {s[m]} PROVE \E i \in 1 .. k - 1 : r[i] = x
  <2>1. PICK j \in 1 .. k : s[j] = x
    BY <1>1
  <2>2. j # m
    BY <2>1
  <2>3. CASE j < m
    <3>1. j \in 1 .. k - 1
      BY <1>1, <2>3
    <3>. QED  BY <1>4, <2>1, <2>3, <3>1
  <2>4. CASE ~(j < m)
    <3>1. j - 1 \in 1 .. k - 1 /\ ~(j - 1 < m) /\ (j - 1) + 1 = j
      BY <1>1, <2>2, <2>4
    <3>. QED  BY <1>4, <2>1, <3>1
  <2>. QED  BY <2>3, <2>4
<1>9. ASSUME NEW i \in 1 .. k - 1, NEW j \in 1 .. k - 1, r[i] = r[j] PROVE i = j
  <2>. DEFINE p(a) == IF a < m THEN a ELSE a + 1
  <2>1. \A a \in 1 .. k - 1 : r[a] = s[p(a)] /\ p(a) \in 1 .. k
    BY <1>3, <1>4
  <2>2. \A a, b \in 1 .. k - 1 : p(a) = p(b) => a = b
    BY <1>1
  <2>. HIDE DEF p
  <2>3. s[p(i)] = s[p(j)]
    BY <1>9, <2>1
  <2>4. p(i) = p(j)
    BY <1>1, <2>1, <2>3
  <2>. QED  BY <2>2, <2>4
<1>10. g = IF k - 1 = 0 THEN NoNode ELSE r[1]
  <2>1. CASE m = 1
    <3>1. 1 \in 1 .. k /\ g = IF 1 = k THEN NoNode ELSE s[1 + 1]
      BY <1>1, <1>2, <2>1
    <3>2. CASE k = 1
      BY <3>1, <3>2
    <3>3. CASE k # 1
      <4>1. 1 \in 1 .. k - 1 /\ ~(1 < m) /\ k - 1 # 0
        BY <1>1, <2>1, <3>3
      <4>. QED  BY <1>4, <3>1, <3>3, <4>1
    <3>. QED  BY <3>2, <3>3
  <2>2. CASE m # 1
    <3>1. 1 \in 1 .. k - 1 /\ 1 < m /\ k # 0 /\ k - 1 # 0
      BY <1>1, <2>2
    <3>2. h = s[1]
      BY <3>1 DEF Strung
    <3>. QED  BY <1>4, <2>2, <3>1, <3>2
  <2>. QED  BY <2>1, <2>2
<1>11. ASSUME NEW i \in 1 .. k - 1 PROVE md[r[i]].next = IF i = k - 1 THEN NoNode ELSE r[i + 1]
  <2>1. CASE i + 1 = m
    <3>1. i \in 1 .. k /\ i < m /\ r[i] = s[i] /\ i = m - 1 /\ m # 1
      BY <1>3, <1>4, <2>1
    <3>2. md[r[i]].next = IF m = k THEN NoNode ELSE s[m + 1]
      BY <1>2, <3>1
    <3>3. (m = k <=> i = k - 1) /\ (i # k - 1 => i + 1 \in 1 .. k - 1 /\ ~(i + 1 < m))
      BY <1>1, <2>1
    <3>. QED  BY <1>4, <2>1, <3>2, <3>3
  <2>2. CASE i + 1 < m
    <3>1. /\ i \in 1 .. k /\ i < m /\ r[i] = s[i] /\ i # m /\ i + 1 # m /\ i # k
          /\ i # k - 1 /\ i + 1 \in 1 .. k - 1
      BY <1>1, <1>3, <1>4, <2>2
    <3>2. md[r[i]].next = s[i + 1]
      BY <1>2, <3>1
    <3>. QED  BY <1>4, <2>2, <3>1, <3>2
  <2>3. CASE ~(i + 1 < m) /\ i + 1 # m
    <3>1. ~(i < m) /\ i + 1 \in 1 .. k /\ i + 1 # m /\ (i + 1) + 1 # m /\ (i + 1 = k <=> i = k - 1)
      BY <1>1, <1>3, <2>3
    <3>2. r[i] = s[i + 1] /\ md[s[i + 1]].next = IF i + 1 = k THEN NoNode ELSE s[(i + 1) + 1]
      BY <1>2, <1>4, <3>1
    <3>3. i # k - 1 => i + 1 \in 1 .. k - 1 /\ ~(i + 1 < m)
      BY <1>1, <2>3
    <3>. QED  BY <1>4, <3>1, <3>2, <3>3
  <2>. QED  BY <2>1, <2>2, <2>3
<1>. HIDE DEF g
<1>12. Strung(md, g, S \ {s[m]}, k - 1, r)
  BY <1>3, <1>7, <1>8, <1>9, <1>10, <1>11 DEF Strung
<1>13. ListOf(md, g, S \ {s[m]})
  BY <1>12 DEF ListOf
<1>. QED  BY <1>13 DEF g

\* The head taken off.
LEMMA ListPop ==
  ASSUME NEW nd, NEW md, NEW h, NEW S, ListOf(nd, h, S), NoNode \notin S, h # NoNode,
         SameLinks(nd, md, S \ {h})
  PROVE  ListOf(md, nd[h].next, S \ {h})
<1>1. PICK k, s : Strung(nd, h, S, k, s)
  BY DEF ListOf
<1>2. k \in Nat /\ k # 0 /\ h = s[1] /\ 1 \in 1 .. k
  BY <1>1 DEF Strung
<1>3. \A i \in 1 .. k : s[i] \in S /\ (s[i] = s[1] => i = 1)
  BY <1>1, <1>2 DEF Strung
<1>4. \A i \in 1 .. k : i # 1 => md[s[i]].next = nd[s[i]].next
  BY <1>2, <1>3 DEF SameLinks
<1>5. ListOf(md, IF 1 = 1 THEN nd[s[1]].next ELSE h, S \ {s[1]})
  BY <1>1, <1>2, <1>4, ListDrop, ZenonT(60)
<1>. QED  BY <1>2, <1>5

(* The walk. *)

\* An array of Z nodes.
LinkedIn(nd, Z) == Z \in Nat \ {0} /\ DOMAIN nd = 0 .. Z - 1

LEMMA IndexCount ==
  ASSUME NEW Z \in Nat
  PROVE  IsFiniteSet(0 .. Z - 1) /\ Cardinality(0 .. Z - 1) = Z
<1>1. 0 \in Int /\ Z - 1 \in Int
  OBVIOUS
<1>2. IsFiniteSet(0 .. Z - 1) /\ Cardinality(0 .. Z - 1) = IF 0 > Z - 1 THEN 0 ELSE Z - 1 - 0 + 1
  BY <1>1, FS_Interval
<1>. QED  BY <1>2

\* The walks of f steps, from every node, when rest are the walks of f - 1 steps.
WalkRow(nd, Z, f, rest) == [j \in 0 .. Z - 1 \cup {NoNode} |->
                         IF f = 0 \/ j = NoNode THEN <<>> ELSE <<j>> \o rest[nd[j].next]]
IsWalk(nd, Z, F, w) == w = [f \in 0 .. F |-> WalkRow(nd, Z, f, w[f - 1])]

\* The recursion of NodesFrom has a solution.
LEMMA WalkExists ==
  ASSUME NEW nd, NEW Z, NEW F \in Nat
  PROVE  \E w : IsWalk(nd, Z, F, w)
<1>. DEFINE S == {n \in Nat : \E w : IsWalk(nd, Z, n, w)}
<1>0. \A x, y : WalkRow(nd, Z, 0, x) = WalkRow(nd, Z, 0, y)
  BY DEF WalkRow
<1>1. 0 \in S
  <2>. DEFINE w == [f \in 0 .. 0 |-> WalkRow(nd, Z, 0, 0)]
  <2>1. \A f \in 0 .. 0 : w[f] = WalkRow(nd, Z, f, w[f - 1])
    BY <1>0
  <2>2. w = [f \in 0 .. 0 |-> WalkRow(nd, Z, f, w[f - 1])]
    BY <2>1
  <2>. QED  BY <2>2 DEF IsWalk
<1>2. ASSUME NEW n \in Nat, n \in S PROVE n + 1 \in S
  <2>1. PICK w : IsWalk(nd, Z, n, w)
    BY <1>2
  <2>. DEFINE v == [f \in 0 .. n + 1 |-> IF f = n + 1 THEN WalkRow(nd, Z, n + 1, w[n]) ELSE w[f]]
  <2>2. \A f \in 0 .. n : w[f] = WalkRow(nd, Z, f, w[f - 1])
    BY <2>1 DEF IsWalk
  <2>3. (\A f \in 0 .. n : v[f] = w[f]) /\ v[n + 1] = WalkRow(nd, Z, n + 1, w[n])
    OBVIOUS
  <2>4. v = [f \in 0 .. n + 1 |-> v[f]]
    OBVIOUS
  <2>. HIDE DEF v
  <2>5. ASSUME NEW f \in 0 .. n + 1 PROVE v[f] = WalkRow(nd, Z, f, v[f - 1])
    <3>1. CASE f = n + 1
      <4>1. f - 1 = n /\ n \in 0 .. n
        BY <3>1
      <4>. QED  BY <2>3, <3>1, <4>1
    <3>2. CASE f = 0
      <4>1. 0 \in 0 .. n
        OBVIOUS
      <4>. QED  BY <1>0, <2>2, <2>3, <3>2, <4>1
    <3>3. CASE f # 0 /\ f # n + 1
      <4>1. f \in 0 .. n /\ f - 1 \in 0 .. n
        BY <3>3
      <4>. QED  BY <2>2, <2>3, <4>1
    <3>. QED  BY <3>1, <3>2, <3>3
  <2>6. v = [f \in 0 .. n + 1 |-> WalkRow(nd, Z, f, v[f - 1])]
    BY <2>4, <2>5
  <2>7. IsWalk(nd, Z, n + 1, v)
    BY <2>6 DEF IsWalk
  <2>. QED  BY <2>7
<1>. HIDE DEF S
<1>3. \A n \in Nat : n \in S
  BY <1>1, <1>2, SetInduction
<1>. QED  BY <1>3 DEF S

\* NodesFrom is the last row of such a solution.
LEMMA WalkRows ==
  ASSUME NEW nd, NEW Z, LinkedIn(nd, Z), NEW n
  PROVE  \E w : IsWalk(nd, Z, Z, w) /\ NodesFrom(nd, n) = w[Z][n]
<1>1. Cardinality(DOMAIN nd) = Z /\ DOMAIN nd = 0 .. Z - 1 /\ Z \in Nat
  BY IndexCount DEF LinkedIn
<1>. DEFINE w == CHOOSE w : w = [f \in 0 .. Z |-> [j \in 0 .. Z - 1 \cup {NoNode} |->
                   IF f = 0 \/ j = NoNode THEN <<>> ELSE <<j>> \o w[f - 1][nd[j].next]]]
<1>2. NodesFrom(nd, n) = w[Z][n]
  BY <1>1 DEF NodesFrom
<1>3. \E v : v = [f \in 0 .. Z |-> [j \in 0 .. Z - 1 \cup {NoNode} |->
                   IF f = 0 \/ j = NoNode THEN <<>> ELSE <<j>> \o v[f - 1][nd[j].next]]]
  <2>1. PICK v : IsWalk(nd, Z, Z, v)
    BY <1>1, WalkExists
  <2>2. v = [f \in 0 .. Z |-> [j \in 0 .. Z - 1 \cup {NoNode} |->
               IF f = 0 \/ j = NoNode THEN <<>> ELSE <<j>> \o v[f - 1][nd[j].next]]]
    BY <2>1 DEF IsWalk, WalkRow
  <2>. QED  BY <2>2
<1>4. IsWalk(nd, Z, Z, w)
  BY <1>3 DEF IsWalk, WalkRow
<1>. QED  BY <1>2, <1>4


\* A list is no longer than there are nodes.
LEMMA ListFits ==
  ASSUME NEW nd, NEW h, NEW S, NEW k, NEW s, Strung(nd, h, S, k, s),
         NEW Z \in Nat, S \subseteq 0 .. Z - 1
  PROVE  k <= Z
<1>1. k \in Nat /\ s \in [1 .. k -> 0 .. Z - 1] /\ \A i, j \in 1 .. k : s[i] = s[j] => i = j
  BY DEF Strung
<1>2. IsFiniteSet(1 .. k) /\ Cardinality(1 .. k) = k
  <2>1. 1 \in Int /\ k \in Int
    BY <1>1
  <2>2. IsFiniteSet(1 .. k) /\ Cardinality(1 .. k) = IF 1 > k THEN 0 ELSE k - 1 + 1
    BY <2>1, FS_Interval
  <2>. QED  BY <1>1, <2>2
<1>3. IsFiniteSet(0 .. Z - 1) /\ Cardinality(0 .. Z - 1) = Z
  <2>1. 0 \in Int /\ Z - 1 \in Int
    OBVIOUS
  <2>2. IsFiniteSet(0 .. Z - 1) /\ Cardinality(0 .. Z - 1) = IF 0 > Z - 1 THEN 0 ELSE Z - 1 - 0 + 1
    BY <2>1, FS_Interval
  <2>. QED  BY <2>2
<1>4. ASSUME Z < k PROVE FALSE
  <2>1. \E x, y \in 1 .. k : x # y /\ s[x] = s[y]
    BY <1>1, <1>2, <1>3, <1>4, FS_PigeonHole
  <2>. QED  BY <1>1, <2>1
<1>. QED  BY <1>1, <1>4

\* One element in front of a sequence.
LEMMA ConsFacts ==
  ASSUME NEW T, NEW x \in T, NEW n \in Nat, NEW r \in [1 .. n -> T]
  PROVE  <<x>> \o r = [i \in 1 .. n + 1 |-> IF i = 1 THEN x ELSE r[i - 1]]
<1>1. r \in Seq(T) /\ Len(r) = n
  BY FunctionIsSeq
<1>2. <<x>> \in Seq(T) /\ Len(<<x>>) = 1 /\ <<x>>[1] = x
  OBVIOUS
<1>. DEFINE c == <<x>> \o r
            d == [i \in 1 .. n + 1 |-> IF i = 1 THEN x ELSE r[i - 1]]
<1>3. c \in Seq(T) /\ Len(c) = 1 + n /\ \A i \in 1 .. 1 + n : c[i] = IF i <= 1 THEN <<x>>[i] ELSE r[i - 1]
  BY <1>1, <1>2, ConcatProperties
<1>4. DOMAIN c = 1 .. n + 1 /\ c = [i \in 1 .. n + 1 |-> c[i]]
  <2>1. 1 + n = n + 1
    OBVIOUS
  <2>2. c \in Seq(T) /\ Len(c) = n + 1
    BY <1>3, <2>1
  <2>. HIDE DEF c
  <2>3. DOMAIN c = 1 .. n + 1
    BY <2>2, LenProperties
  <2>4. c \in [1 .. n + 1 -> T]
    BY <2>2, SeqDef, LenProperties
  <2>. QED  BY <2>3, <2>4
<1>. HIDE DEF c
<1>5. \A i \in 1 .. n + 1 : i \in 1 .. 1 + n /\ (i <= 1 <=> i = 1)
  OBVIOUS
<1>6. \A i \in 1 .. n + 1 : c[i] = IF i = 1 THEN x ELSE r[i - 1]
  BY <1>2, <1>3, <1>5
<1>7. c = d
  BY <1>4, <1>6
<1>. QED  BY <1>7 DEF c

\* The walk from the head of a list meets its nodes in order.
LEMMA WalkIs ==
  ASSUME NEW nd, NEW Z, LinkedIn(nd, Z), NEW h, NEW S, NEW k, NEW s,
         Strung(nd, h, S, k, s), S \subseteq 0 .. Z - 1
  PROVE  NodesFrom(nd, h) = s /\ s \in Seq(S) /\ Len(s) = k
<1>1. PICK w : IsWalk(nd, Z, Z, w) /\ NodesFrom(nd, h) = w[Z][h]
  BY WalkRows
<1>2. /\ k \in Nat /\ s \in [1 .. k -> S] /\ h = IF k = 0 THEN NoNode ELSE s[1]
      /\ \A i \in 1 .. k : nd[s[i]].next = IF i = k THEN NoNode ELSE s[i + 1]
  BY DEF Strung
<1>3. Z \in Nat \ {0} /\ k <= Z
  BY ListFits DEF LinkedIn
<1>. DEFINE From(n) == IF n = 0 THEN NoNode ELSE s[k - n + 1]
            Rest(n) == [i \in 1 .. n |-> s[k - n + i]]
            C == {n \in Nat : n <= k => \A f \in 0 .. Z : f >= n => w[f][From(n)] = Rest(n)}
<1>4. \A f \in 0 .. Z : w[f] = WalkRow(nd, Z, f, w[f - 1])
  BY <1>1 DEF IsWalk
<1>5. \A f \in 0 .. Z : w[f][NoNode] = <<>>
  BY <1>4 DEF WalkRow
<1>6. ASSUME NEW f \in 1 .. Z, NEW j \in S PROVE w[f][j] = <<j>> \o w[f - 1][nd[j].next]
  <2>1. f \in 0 .. Z /\ f # 0 /\ j \in 0 .. Z - 1 /\ j # NoNode
    BY <1>3 DEF NoNode
  <2>. QED  BY <1>4, <2>1, ZenonT(60) DEF WalkRow
<1>7. 0 \in C
  <2>1. From(0) = NoNode /\ Rest(0) = <<>>
    OBVIOUS
  <2>. QED  BY <1>5, <2>1
<1>8. ASSUME NEW n \in Nat, n \in C PROVE n + 1 \in C
  <2>. SUFFICES ASSUME n + 1 <= k, NEW f \in 0 .. Z, f >= n + 1
                PROVE  w[f][From(n + 1)] = Rest(n + 1)
    OBVIOUS
  <2>1. f \in 1 .. Z /\ f - 1 \in 0 .. Z /\ f - 1 >= n /\ n <= k
    BY <1>2, <1>3
  <2>2. w[f - 1][From(n)] = Rest(n)
    BY <1>8, <2>1
  <2>. DEFINE a == k - n
  <2>3. a \in 1 .. k /\ k - (n + 1) + 1 = a /\ n + 1 # 0 /\ (n = 0 <=> a = k) /\ k - n + 1 = a + 1
    BY <1>2
  <2>4. From(n + 1) = s[a] /\ From(n) = nd[s[a]].next
    <3>1. nd[s[a]].next = IF a = k THEN NoNode ELSE s[a + 1]
      BY <1>2, <2>3
    <3>. QED  BY <2>3, <3>1
  <2>5. s[a] \in S /\ \A i \in 1 .. n : a + i \in 1 .. k /\ s[a + i] \in S
    BY <1>2, <2>3
  <2>6. Rest(n) \in [1 .. n -> S]
    BY <2>5
  <2>. HIDE DEF From
  <2>7. w[f][From(n + 1)] = <<s[a]>> \o Rest(n)
    <3>. HIDE DEF Rest, a, C
    <3>1. w[f][s[a]] = <<s[a]>> \o w[f - 1][nd[s[a]].next]
      BY <1>6, <2>1, <2>5
    <3>. QED  BY <2>2, <2>4, <3>1
  <2>8. <<s[a]>> \o Rest(n) = [i \in 1 .. n + 1 |-> IF i = 1 THEN s[a] ELSE Rest(n)[i - 1]]
    <3>. HIDE DEF Rest, a
    <3>. QED  BY <2>5, <2>6, ConsFacts
  <2>9. \A i \in 1 .. n + 1 : s[k - (n + 1) + i] = IF i = 1 THEN s[a] ELSE Rest(n)[i - 1]
    <3>1. \A i \in 1 .. n + 1 : i # 1 => i - 1 \in 1 .. n /\ k - (n + 1) + i = k - n + (i - 1)
      BY <1>2
    <3>2. k - (n + 1) + 1 = a
      BY <2>3
    <3>3. \A i \in 1 .. n : Rest(n)[i] = s[k - n + i]
      OBVIOUS
    <3>. HIDE DEF Rest, a
    <3>. QED  BY <3>1, <3>2, <3>3
  <2>10. Rest(n + 1) = [i \in 1 .. n + 1 |-> IF i = 1 THEN s[a] ELSE Rest(n)[i - 1]]
    BY <2>9
  <2>. QED  BY <2>7, <2>8, <2>10
<1>9. \A n \in Nat : n \in C
  <2>. HIDE DEF C
  <2>. QED  BY <1>7, <1>8, SetInduction
<1>10. w[Z][From(k)] = Rest(k)
  <2>1. Z \in 0 .. Z /\ Z >= k /\ k <= k
    BY <1>2, <1>3
  <2>. QED  BY <1>2, <1>9, <2>1
<1>11. From(k) = h /\ Rest(k) = s
  <2>1. k - k + 1 = 1 /\ \A i \in 1 .. k : k - k + i = i
    BY <1>2
  <2>2. s = [i \in 1 .. k |-> s[i]]
    BY <1>2
  <2>. QED  BY <1>2, <2>1, <2>2
<1>. HIDE DEF From, Rest
<1>12. s \in Seq(S) /\ Len(s) = k
  BY <1>2, FunctionIsSeq
<1>. QED  BY <1>1, <1>10, <1>11, <1>12
=============================================================================
