--------------------------- MODULE SQClassProofs ---------------------------
(***************************************************************************)
(* Proofs about SQClass.  One class at a time first: ClassOK is what every *)
(* class record keeps, Keeps what an operation on it may not change.       *)
(***************************************************************************)
EXTENDS SQClass, SQFacts

-----------------------------------------------------------------------------
(* One class. *)

ClassOK(c) == c \in ClassType /\ Indexed(c) /\ Constructs(c) /\ c.constructoridx <= Len(c.methods)

\* What NewSlot, SetAttributes and SetByHandle leave alone when they turn c into d.
Keeps(c, d) ==
  /\ d.base = c.base /\ d.locked = c.locked /\ (c.locked => d.udsize = c.udsize)
  /\ d.inherited = c.inherited
  /\ \A k \in Keys : IsField(c.members[k]) => d.members[k] = c.members[k]
  /\ Len(c.methods) <= Len(d.methods) /\ Len(c.defaultvalues) <= Len(d.defaultvalues)
  /\ c.locked => /\ Len(d.defaultvalues) = Len(c.defaultvalues)
                 /\ \A k \in Named(c) : d.members[k] = c.members[k]

\* A class has its fields, and the members are indexed or absent.
LEMMA ClassFields ==
  ASSUME NEW c \in ClassType
  PROVE  /\ c.members \in [Keys -> MemberIndex \cup {NoMember}]
         /\ c.defaultvalues \in Seq(ClassMember) /\ c.methods \in Seq(ClassMember)
         /\ c.metamethods \in [MetaNames -> Closures \cup {"null"}]
         /\ c.base \in Nat /\ c.locked \in BOOLEAN /\ c.constructoridx \in Nat /\ c.udsize \in Nat
         /\ c.inherited \subseteq Handle
         /\ Len(c.methods) \in Nat /\ Len(c.defaultvalues) \in Nat
         /\ DOMAIN c.methods = 1 .. Len(c.methods)
         /\ DOMAIN c.defaultvalues = 1 .. Len(c.defaultvalues)
BY LenProperties DEF ClassType

\* The kinds of members are told apart by their first component.
LEMMA MemberKinds ==
  /\ NoMember[1] = "none" /\ ~IsField(NoMember) /\ NoMember \notin MemberIndex
  /\ \A m \in MemberIndex : (m[1] = "field" \/ m[1] = "method") /\ m[2] \in Nat /\ m = <<m[1], m[2]>>
  /\ \A n \in Nat : /\ <<"field", n>> \in MemberIndex /\ <<"method", n>> \in MemberIndex
                    /\ IsField(<<"field", n>>) /\ ~IsField(<<"method", n>>)
BY DEF NoMember, IsField, MemberIndex

\* Values and attributes may change, the index and the lengths may not.
LEMMA SameShape ==
  ASSUME NEW c, ClassOK(c), NEW d \in ClassType,
         d.members = c.members, Len(d.methods) = Len(c.methods),
         Len(d.defaultvalues) = Len(c.defaultvalues), d.constructoridx = c.constructoridx,
         d.base = c.base, d.locked = c.locked, d.udsize = c.udsize, d.inherited = c.inherited
  PROVE  ClassOK(d) /\ Keeps(c, d)
<1>1. c \in ClassType
  BY DEF ClassOK
<1>2. Indexed(d)
  <2>. SUFFICES ASSUME NEW k \in Named(d)
                PROVE  /\ d.members[k][2] \in DOMAIN Vector(d, d.members[k])
                       /\ \A l \in Keys \ {k} : d.members[l] # d.members[k]
    BY DEF Indexed
  <2>1. k \in Named(c)
    BY DEF Named
  <2>2. /\ c.members[k][2] \in DOMAIN Vector(c, c.members[k])
        /\ \A l \in Keys \ {k} : c.members[l] # c.members[k]
    BY <2>1 DEF ClassOK, Indexed
  <2>. QED  BY <1>1, <2>2, ClassFields DEF Vector
<1>3. Constructs(d) /\ d.constructoridx <= Len(d.methods)
  BY DEF ClassOK, Constructs
<1>4. Keeps(c, d)
  BY <1>1, ClassFields DEF Keeps
<1>. QED  BY <1>2, <1>3, <1>4 DEF ClassOK

\* Writing one value or one attribute.
LEMMA WriteValue ==
  ASSUME NEW s \in Seq(ClassMember), NEW n \in DOMAIN s, NEW v \in Values
  PROVE  /\ [s EXCEPT ![n].val = v] \in Seq(ClassMember)
         /\ Len([s EXCEPT ![n].val = v]) = Len(s)
<1>1. n \in 1 .. Len(s)
  BY LenProperties
<1>2. s[n] \in ClassMember
  BY <1>1, ElementOfSeq
<1>3. [s[n] EXCEPT !.val = v] \in ClassMember
  BY <1>2 DEF ClassMember
<1>. QED  BY <1>1, <1>3, ExceptSeq

LEMMA WriteAttribute ==
  ASSUME NEW s \in Seq(ClassMember), NEW n \in DOMAIN s
  PROVE  /\ [s EXCEPT ![n].attrs = "attr"] \in Seq(ClassMember)
         /\ Len([s EXCEPT ![n].attrs = "attr"]) = Len(s)
<1>1. n \in 1 .. Len(s)
  BY LenProperties
<1>2. s[n] \in ClassMember
  BY <1>1, ElementOfSeq
<1>3. [s[n] EXCEPT !.attrs = "attr"] \in ClassMember
  BY <1>2 DEF ClassMember
<1>. QED  BY <1>1, <1>3, ExceptSeq

\* The updates of one member, by name.
PutField(c, n, v) == [c EXCEPT !.defaultvalues[n].val = v]
PutMethod(c, n, v) == [c EXCEPT !.methods[n].val = v]
NoteField(c, n) == [c EXCEPT !.defaultvalues[n].attrs = "attr"]
NoteMethod(c, n) == [c EXCEPT !.methods[n].attrs = "attr"]

LEMMA WriteField ==
  ASSUME NEW c, ClassOK(c), NEW n \in DOMAIN c.defaultvalues
  PROVE  /\ \A v \in Values : ClassOK(PutField(c, n, v)) /\ Keeps(c, PutField(c, n, v))
         /\ ClassOK(NoteField(c, n)) /\ Keeps(c, NoteField(c, n))
<1>1. c \in ClassType
  BY DEF ClassOK
<1>2. ASSUME NEW w \in Seq(ClassMember), Len(w) = Len(c.defaultvalues)
      PROVE  ClassOK([c EXCEPT !.defaultvalues = w]) /\ Keeps(c, [c EXCEPT !.defaultvalues = w])
  <2>1. [c EXCEPT !.defaultvalues = w] \in ClassType
    BY <1>1 DEF ClassType
  <2>. QED  BY <1>1, <1>2, <2>1, SameShape DEF ClassType
<1>. QED  BY <1>1, <1>2, ClassFields, WriteValue, WriteAttribute, ZenonT(40) DEF PutField, NoteField

LEMMA WriteMethod ==
  ASSUME NEW c, ClassOK(c), NEW n \in DOMAIN c.methods
  PROVE  /\ \A v \in Values : ClassOK(PutMethod(c, n, v)) /\ Keeps(c, PutMethod(c, n, v))
         /\ ClassOK(NoteMethod(c, n)) /\ Keeps(c, NoteMethod(c, n))
<1>1. c \in ClassType
  BY DEF ClassOK
<1>2. ASSUME NEW w \in Seq(ClassMember), Len(w) = Len(c.methods)
      PROVE  ClassOK([c EXCEPT !.methods = w]) /\ Keeps(c, [c EXCEPT !.methods = w])
  <2>1. [c EXCEPT !.methods = w] \in ClassType
    BY <1>1 DEF ClassType
  <2>. QED  BY <1>1, <1>2, <2>1, SameShape DEF ClassType
<1>. QED  BY <1>1, <1>2, ClassFields, WriteValue, WriteAttribute, ZenonT(40) DEF PutMethod, NoteMethod

\* Appending a member to a vector.
LEMMA AppendMember ==
  ASSUME NEW s \in Seq(ClassMember), NEW v \in Values
  PROVE  /\ Append(s, NewMemberOf(v)) \in Seq(ClassMember)
         /\ Len(Append(s, NewMemberOf(v))) = Len(s) + 1
         /\ Len(s) \in Nat
         /\ DOMAIN Append(s, NewMemberOf(v)) = 1 .. Len(s) + 1
<1>1. NewMemberOf(v) \in ClassMember
  BY DEF NewMemberOf, ClassMember
<1>. QED  BY <1>1, AppendProperties, LenProperties

\* The index of a member is inside its vector.
LEMMA IndexInside ==
  ASSUME NEW c, ClassOK(c), NEW k \in Keys, c.members[k] # NoMember
  PROVE  /\ c.members[k] \in MemberIndex
         /\ IsField(c.members[k]) => c.members[k][2] \in DOMAIN c.defaultvalues
         /\ ~IsField(c.members[k]) => c.members[k][2] \in DOMAIN c.methods
         /\ \A l \in Keys \ {k} : c.members[l] # c.members[k]
<1>1. c.members[k] \in MemberIndex
  BY ClassFields DEF ClassOK
<1>2. k \in Named(c)
  BY DEF Named
<1>. QED  BY <1>1, <1>2 DEF ClassOK, Indexed, Vector

\* One member more, at an index that was not there, keeps the index sound.
LEMMA AddedIndexed ==
  ASSUME NEW c, ClassOK(c), NEW d \in ClassType, NEW key \in Keys, NEW m \in MemberIndex,
         d.members = [c.members EXCEPT ![key] = m],
         Len(c.methods) <= Len(d.methods), Len(c.defaultvalues) <= Len(d.defaultvalues),
         m[2] \in DOMAIN Vector(d, m), m[2] \notin DOMAIN Vector(c, m)
  PROVE  Indexed(d)
<1>. SUFFICES ASSUME NEW k \in Keys, d.members[k] # NoMember
              PROVE  /\ d.members[k][2] \in DOMAIN Vector(d, d.members[k])
                     /\ \A l \in Keys \ {k} : d.members[l] # d.members[k]
  BY DEF Indexed, Named
<1>0. c \in ClassType
  BY DEF ClassOK
<1>1. \A l \in Keys : d.members[l] = IF l = key THEN m ELSE c.members[l]
  BY <1>0, ClassFields
<1>2. ASSUME NEW l \in Keys PROVE c.members[l] # m
  <2>1. c.members[l] = m => c.members[l] # NoMember
    BY MemberKinds
  <2>2. c.members[l] # NoMember => c.members[l][2] \in DOMAIN Vector(c, c.members[l])
    BY IndexInside DEF Vector
  <2>. QED  BY <2>1, <2>2
<1>3. CASE k = key
  BY <1>1, <1>2, <1>3
<1>4. CASE k # key
  <2>1. d.members[k] = c.members[k] /\ c.members[k] # NoMember
    BY <1>1, <1>4
  <2>2. d.members[k][2] \in DOMAIN Vector(d, d.members[k])
    BY <2>1, <1>0, IndexInside, ClassFields DEF Vector
  <2>3. \A l \in Keys \ {k} : d.members[l] # d.members[k]
    BY <2>1, <1>1, <1>2, IndexInside
  <2>. QED  BY <2>2, <2>3
<1>. QED  BY <1>3, <1>4

\* A new method, where there was no member of that name.
LEMMA NewMethodKeeps ==
  ASSUME NEW c, ClassOK(c), NEW key \in Keys, NEW val \in Values, c.members[key] = NoMember
  PROVE  ClassOK(NewMethod(c, key, val)) /\ Keeps(c, NewMethod(c, key, val))
<1>. DEFINE n == Len(c.methods) + 1
            w == Append(c.methods, NewMemberOf(val))
            d == NewMethod(c, key, val)
<1>0. c \in ClassType /\ n \in Nat \ {0}
  BY ClassFields DEF ClassOK
<1>1. w \in Seq(ClassMember) /\ Len(w) = n /\ DOMAIN w = 1 .. n /\ DOMAIN c.methods = 1 .. n - 1
  BY <1>0, ClassFields, AppendMember
<1>2. [c.members EXCEPT ![key] = <<"method", n>>] \in [Keys -> MemberIndex \cup {NoMember}]
  BY <1>0, ClassFields, MemberKinds
<1>. HIDE DEF n, w
<1>3. /\ d.members = [c.members EXCEPT ![key] = <<"method", n>>] /\ d.methods = w
      /\ d.constructoridx = IF key = "constructor" THEN n ELSE c.constructoridx
      /\ d.defaultvalues = c.defaultvalues /\ d.base = c.base /\ d.locked = c.locked
      /\ d.udsize = c.udsize /\ d.inherited = c.inherited /\ d \in ClassType
  BY <1>0, <1>1, <1>2 DEF NewMethod, ClassType, n, w
<1>. HIDE DEF d
<1>4. Indexed(d)
  <2>1. /\ <<"method", n>> \in MemberIndex
        /\ Vector(d, <<"method", n>>) = w /\ Vector(c, <<"method", n>>) = c.methods
    BY <1>0, <1>3, MemberKinds DEF Vector
  <2>2. Len(c.methods) <= Len(d.methods) /\ Len(c.defaultvalues) <= Len(d.defaultvalues)
    BY <1>0, <1>1, <1>3, ClassFields DEF n
  <2>3. n \in DOMAIN w /\ n \notin DOMAIN c.methods
    BY <1>0, <1>1
  <2>. QED  BY <1>3, <2>1, <2>2, <2>3, AddedIndexed
<1>5. Constructs(d) /\ d.constructoridx <= Len(d.methods)
  BY <1>0, <1>1, <1>3, ClassFields, ClassAssumption DEF ClassOK, Constructs, n
<1>6. Keeps(c, d)
  BY <1>0, <1>1, <1>3, ClassFields, MemberKinds DEF Keeps, Named, n
<1>. QED  BY <1>3, <1>4, <1>5, <1>6 DEF ClassOK, d

\* A new field of a class that is not locked, where there was none or a method.
NewField(c, key, val) ==
  [c EXCEPT !.members[key] = <<"field", Len(c.defaultvalues) + 1>>,
            !.defaultvalues = Append(@, NewMemberOf(val))]

LEMMA NewFieldKeeps ==
  ASSUME NEW c, ClassOK(c), NEW key \in Keys, NEW val \in Values, ~IsField(c.members[key]), ~c.locked
  PROVE  ClassOK(NewField(c, key, val)) /\ Keeps(c, NewField(c, key, val))
<1>. DEFINE n == Len(c.defaultvalues) + 1
            w == Append(c.defaultvalues, NewMemberOf(val))
            d == NewField(c, key, val)
<1>0. c \in ClassType /\ n \in Nat \ {0}
  BY ClassFields DEF ClassOK
<1>1. w \in Seq(ClassMember) /\ Len(w) = n /\ DOMAIN w = 1 .. n /\ DOMAIN c.defaultvalues = 1 .. n - 1
  BY <1>0, ClassFields, AppendMember
<1>2. [c.members EXCEPT ![key] = <<"field", n>>] \in [Keys -> MemberIndex \cup {NoMember}]
  BY <1>0, ClassFields, MemberKinds
<1>. HIDE DEF n, w
<1>3. /\ d.members = [c.members EXCEPT ![key] = <<"field", n>>] /\ d.defaultvalues = w
      /\ d.constructoridx = c.constructoridx /\ d.methods = c.methods
      /\ d.base = c.base /\ d.locked = c.locked /\ d.udsize = c.udsize /\ d.inherited = c.inherited /\ d \in ClassType
  BY <1>0, <1>1, <1>2 DEF NewField, ClassType, n, w
<1>. HIDE DEF d
<1>4. Indexed(d)
  <2>1. /\ <<"field", n>> \in MemberIndex
        /\ Vector(d, <<"field", n>>) = w /\ Vector(c, <<"field", n>>) = c.defaultvalues
    BY <1>0, <1>3, MemberKinds DEF Vector
  <2>2. Len(c.methods) <= Len(d.methods) /\ Len(c.defaultvalues) <= Len(d.defaultvalues)
    BY <1>0, <1>1, <1>3, ClassFields DEF n
  <2>3. n \in DOMAIN w /\ n \notin DOMAIN c.defaultvalues
    BY <1>0, <1>1
  <2>. QED  BY <1>3, <2>1, <2>2, <2>3, AddedIndexed
<1>5. Constructs(d) /\ d.constructoridx <= Len(d.methods)
  BY <1>0, <1>1, <1>3, ClassFields, ClassAssumption, MemberKinds DEF ClassOK, Constructs, n
<1>6. Keeps(c, d)
  BY <1>0, <1>1, <1>3, ClassFields DEF Keeps, n
<1>. QED  BY <1>3, <1>4, <1>5, <1>6 DEF ClassOK, d

\* SQClass::NewSlot, once it accepts.
LEMMA NewSlotKeeps ==
  ASSUME NEW c, ClassOK(c), NEW key \in Keys, NEW val \in Values, NEW bstatic \in BOOLEAN,
         Accepts(c, key, bstatic \/ val \in Closures)
  PROVE  ClassOK(NewSlot(c, key, val, bstatic)) /\ Keeps(c, NewSlot(c, key, val, bstatic))
<1>. DEFINE m == c.members[key]
            d == NewSlot(c, key, val, bstatic)
<1>0. c \in ClassType
  BY DEF ClassOK
<1>1. CASE IsField(m)
  <2>1. d = PutField(c, m[2], val)
    BY <1>1 DEF NewSlot, PutField
  <2>2. m[2] \in DOMAIN c.defaultvalues
    BY <1>1, IndexInside, MemberKinds
  <2>. QED  BY <2>1, <2>2, WriteField
<1>2. CASE ~IsField(m) /\ val \in Closures /\ key \in MetaNames
  <2>1. d = [c EXCEPT !.metamethods[key] = val]
    BY <1>2 DEF NewSlot
  <2>2. [c.metamethods EXCEPT ![key] = val] \in [MetaNames -> Closures \cup {"null"}]
    BY <1>0, <1>2, ClassFields
  <2>3. [c EXCEPT !.metamethods = [c.metamethods EXCEPT ![key] = val]] \in ClassType
    BY <1>0, <2>2 DEF ClassType
  <2>. QED  BY <1>0, <2>1, <2>3, SameShape DEF ClassType
<1>3. CASE ~IsField(m) /\ ~(val \in Closures /\ key \in MetaNames) /\ (bstatic \/ val \in Closures)
  <2>1. d = IF m = NoMember THEN NewMethod(c, key, val) ELSE PutMethod(c, m[2], val)
    BY <1>3 DEF NewSlot, PutMethod
  <2>2. CASE m = NoMember
    BY <2>1, <2>2, NewMethodKeeps
  <2>3. CASE m # NoMember
    <3>1. m[2] \in DOMAIN c.methods
      BY <1>3, <2>3, IndexInside
    <3>. QED  BY <2>1, <2>3, <3>1, WriteMethod
  <2>. QED  BY <2>2, <2>3
<1>4. CASE ~IsField(m) /\ ~(bstatic \/ val \in Closures)
  <2>1. d = NewField(c, key, val)
    BY <1>4 DEF NewSlot, NewField
  <2>2. ~c.locked
    BY <1>4 DEF Accepts
  <2>. QED  BY <1>4, <2>1, <2>2, NewFieldKeeps
<1>. QED  BY <1>1, <1>2, <1>3, <1>4

\* SQClass::SetAttributes.
LEMMA SetAttributesKeeps ==
  ASSUME NEW c, ClassOK(c), NEW key \in Keys
  PROVE  ClassOK(SetAttributes(c, key, "attr")) /\ Keeps(c, SetAttributes(c, key, "attr"))
<1>. DEFINE m == c.members[key]
            d == SetAttributes(c, key, "attr")
<1>0. c \in ClassType
  BY DEF ClassOK
<1>1. CASE m[1] = "field"
  <2>1. d = NoteField(c, m[2])
    BY <1>1 DEF SetAttributes, NoteField
  <2>2. m[2] \in DOMAIN c.defaultvalues
    BY <1>1, IndexInside, MemberKinds DEF IsField
  <2>. QED  BY <2>1, <2>2, WriteField
<1>2. CASE m[1] = "method"
  <2>1. d = NoteMethod(c, m[2])
    BY <1>2 DEF SetAttributes, NoteMethod
  <2>2. m[2] \in DOMAIN c.methods
    BY <1>2, IndexInside, MemberKinds DEF IsField
  <2>. QED  BY <2>1, <2>2, WriteMethod
<1>3. CASE m[1] # "field" /\ m[1] # "method"
  <2>1. d = c
    BY <1>3 DEF SetAttributes
  <2>. QED  BY <1>0, <2>1, SameShape
<1>. QED  BY <1>1, <1>2, <1>3

\* Two operations in a row.
LEMMA KeepsTransitive ==
  ASSUME NEW c, ClassOK(c), NEW d, ClassOK(d), NEW e, ClassOK(e), Keeps(c, d), Keeps(d, e)
  PROVE  Keeps(c, e)
<1>1. c \in ClassType /\ d \in ClassType /\ e \in ClassType
  BY DEF ClassOK
<1>2. \A k \in Keys : IsField(c.members[k]) => e.members[k] = c.members[k]
  BY DEF Keeps
<1>3. ASSUME c.locked, NEW k \in Named(c) PROVE e.members[k] = c.members[k]
  BY <1>3 DEF Keeps, Named
<1>. QED  BY <1>1, <1>2, <1>3, ClassFields DEF Keeps

-----------------------------------------------------------------------------
(* The walk from a class to its bases. *)

\* Lineage is a function with its recursive equation: the walk ends, since a
\* class is younger than its base.
LEMMA LineageDefined ==
  ASSUME TypeOK
  PROVE  Lineage = [c \in 0 .. Len(cls) |-> IF c = 0 THEN {} ELSE {c} \cup Lineage[cls[c].base]]
<1>. DEFINE N == Len(cls)
            Walk(f, n) == f = [c \in 0 .. n |-> IF c = 0 THEN {} ELSE {c} \cup f[cls[c].base]]
            S == {n \in Nat : n <= N => \E f : Walk(f, n)}
<1>0. N \in Nat /\ \A c \in 1 .. N : cls[c].base \in 0 .. c - 1
  <2>1. N \in Nat /\ DOMAIN cls = 1 .. N
    BY LenProperties DEF TypeOK
  <2>2. \A c \in 1 .. N : cls[c] \in ClassType
    BY ElementOfSeq DEF TypeOK
  <2>. QED  BY <2>1, <2>2, ClassFields DEF TypeOK
<1>. HIDE DEF N
<1>1. 0 \in S
  <2>1. Walk([c \in 0 .. 0 |-> {}], 0)
    <3>1. 0 .. 0 = {0}
      OBVIOUS
    <3>. QED  BY <3>1
  <2>. QED  BY <2>1
<1>2. ASSUME NEW n \in Nat, n \in S PROVE n + 1 \in S
  <2>. HIDE DEF Walk
  <2>. SUFFICES ASSUME n + 1 <= N PROVE \E f : Walk(f, n + 1)
    OBVIOUS
  <2>1. PICK f : Walk(f, n)
    BY <1>0, <1>2
  <2>. HIDE DEF S
  <2>. DEFINE Join(c, x) == IF c = 0 THEN {} ELSE {c} \cup x
              g == [c \in 0 .. n + 1 |-> IF c = n + 1 THEN Join(n + 1, f[cls[n + 1].base]) ELSE f[c]]
  <2>2. cls[n + 1].base \in 0 .. n
    BY <1>0
  <2>3. \A c \in 1 .. n : cls[c].base \in 0 .. n
    BY <1>0
  <2>4. \A x, y : Join(0, x) = Join(0, y)
    OBVIOUS
  <2>5. f = [c \in 0 .. n |-> Join(c, f[cls[c].base])]
    BY <2>1 DEF Walk
  <2>. HIDE DEF Join
  <2>6. \A c \in 0 .. n : f[c] = Join(c, f[cls[c].base])
    BY <2>5
  <2>7. \A c \in 0 .. n : g[c] = f[c]
    OBVIOUS
  <2>8. g[n + 1] = Join(n + 1, f[cls[n + 1].base]) /\ g = [c \in 0 .. n + 1 |-> g[c]]
    OBVIOUS
  <2>. HIDE DEF g
  <2>9. ASSUME NEW c \in 0 .. n + 1 PROVE g[c] = Join(c, g[cls[c].base])
    <3>1. CASE c = n + 1
      BY <2>2, <2>7, <2>8, <3>1
    <3>2. CASE c = 0
      BY <2>4, <2>6, <2>7, <3>2
    <3>3. CASE c \in 1 .. n
      BY <2>3, <2>6, <2>7, <3>3
    <3>. QED  BY <3>1, <3>2, <3>3
  <2>10. g = [c \in 0 .. n + 1 |-> Join(c, g[cls[c].base])]
    BY <2>8, <2>9
  <2>11. Walk(g, n + 1)
    BY <2>10 DEF Walk, Join
  <2>. QED  BY <2>11
<1>3. \A n \in Nat : n \in S
  <2>. HIDE DEF S
  <2>. QED  BY <1>1, <1>2, SetInduction
<1>4. \E f : Walk(f, N)
  <2>. HIDE DEF Walk
  <2>. QED  BY <1>0, <1>3
<1>. QED  BY <1>4 DEF Lineage, N

\* The walk stays among the classes, and meets the base of every class it meets.
LEMMA LineageClosed ==
  ASSUME TypeOK, NEW c \in DOMAIN cls
  PROVE  /\ c \in Lineage[c]
         /\ \A d \in Lineage[c] : d \in DOMAIN cls /\ (cls[d].base # 0 => cls[d].base \in Lineage[c])
<1>. DEFINE N == Len(cls)
            S == {n \in Nat : n \in 1 .. N =>
                    /\ n \in Lineage[n]
                    /\ \A d \in Lineage[n] : d \in 1 .. N /\ (cls[d].base # 0 => cls[d].base \in Lineage[n])}
<1>0. N \in Nat /\ DOMAIN cls = 1 .. N /\ \A d \in 1 .. N : cls[d].base \in 0 .. d - 1
  <2>1. N \in Nat /\ DOMAIN cls = 1 .. N
    BY LenProperties DEF TypeOK
  <2>2. \A d \in 1 .. N : cls[d] \in ClassType
    BY ElementOfSeq DEF TypeOK
  <2>. QED  BY <2>1, <2>2, ClassFields DEF TypeOK
<1>. HIDE DEF N
<1>1. \A n \in 1 .. N : Lineage[n] = {n} \cup Lineage[cls[n].base]
  BY <1>0, LineageDefined DEF N
<1>2. Lineage[0] = {}
  BY <1>0, LineageDefined DEF N
<1>3. ASSUME NEW n \in Nat, \A m \in Nat : m < n => m \in S PROVE n \in S
  <2>. SUFFICES ASSUME n \in 1 .. N
                PROVE  /\ n \in Lineage[n]
                       /\ \A d \in Lineage[n] : d \in 1 .. N /\ (cls[d].base # 0 => cls[d].base \in Lineage[n])
    OBVIOUS
  <2>. DEFINE b == cls[n].base
  <2>1. b \in Nat /\ b < n /\ (b # 0 => b \in 1 .. N)
    BY <1>0
  <2>2. b # 0 => /\ b \in Lineage[b]
                 /\ \A d \in Lineage[b] : d \in 1 .. N /\ (cls[d].base # 0 => cls[d].base \in Lineage[b])
    BY <2>1, <1>3
  <2>3. Lineage[n] = {n} \cup Lineage[b]
    BY <1>1
  <2>. HIDE DEF b, S
  <2>4. CASE b = 0
    BY <2>3, <2>4, <1>2 DEF b
  <2>5. CASE b # 0
    BY <2>1, <2>2, <2>3, <2>5 DEF b
  <2>. QED  BY <2>4, <2>5
<1>4. \A n \in Nat : n \in S
  <2>. HIDE DEF S
  <2>. QED  BY <1>3, StrongInduction
<1>. QED  BY <1>0, <1>4

-----------------------------------------------------------------------------
(* The system. *)

\* The inductive invariant: the invariants of the run, and that the bases of a
\* locked class are locked, without which a class that derives from one could
\* hand down fields its instances have no place for.  HandlesReachField is there
\* without the instances, which ValuesFit speaks of, and for every inherited member.
MembersReached ==
  /\ \A h \in handles : Reaches(cls[h.class], h)
  /\ \A c \in DOMAIN cls : \A h \in cls[c].inherited : Reaches(cls[c], h)
ClassInv == MembersIndexed /\ ValuesFit /\ ConstructorFound /\ MembersReached /\ BasesLocked

\* A class that changes as Keeps allows is reached by the handles it was reached by.
LEMMA KeepsReached ==
  ASSUME NEW c \in ClassType, NEW d \in ClassType, Keeps(c, d), NEW h, h.key \in Keys, Reaches(c, h)
  PROVE  Reaches(d, h)
<1>1. h.member[2] \in DOMAIN Vector(d, h.member)
  BY ClassFields, SMTT(30) DEF Vector, Keeps, Reaches
<1>. QED  BY <1>1 DEF Keeps, Reaches

\* What the invariant says of the single classes and instances.
LEMMA InvFacts ==
  ASSUME ClassInv
  PROVE  /\ Len(cls) \in Nat /\ DOMAIN cls = 1 .. Len(cls) /\ cls \in Seq(ClassType)
         /\ \A c \in DOMAIN cls : ClassOK(cls[c]) /\ cls[c] \in ClassType /\ cls[c].base < c /\ cls[c].base \in Nat
         /\ Len(inst) \in Nat /\ DOMAIN inst = 1 .. Len(inst)
         /\ \A i \in DOMAIN inst : /\ inst[i] \in [class : DOMAIN cls, udsize : Nat, values : Seq(Values)]
                                   /\ DOMAIN inst[i].values = 1 .. Len(inst[i].values)
         /\ \A h \in handles : h.class \in DOMAIN cls /\ h.key \in Keys /\ h.member \in MemberIndex
<1>1. TypeOK
  BY DEF ClassInv, MembersIndexed
<1>2. Len(cls) \in Nat /\ DOMAIN cls = 1 .. Len(cls) /\ Len(inst) \in Nat /\ DOMAIN inst = 1 .. Len(inst)
  BY <1>1, LenProperties DEF TypeOK
<1>3. \A c \in DOMAIN cls : cls[c] \in ClassType
  BY <1>1, <1>2, ElementOfSeq DEF TypeOK
<1>4. \A c \in DOMAIN cls : ClassOK(cls[c])
  BY <1>1, <1>3 DEF ClassInv, MembersIndexed, ConstructorFound, ClassOK, TypeOK
<1>5. \A i \in DOMAIN inst : inst[i] \in [class : DOMAIN cls, udsize : Nat, values : Seq(Values)]
  BY <1>1, <1>2, ElementOfSeq DEF TypeOK
<1>6. \A i \in DOMAIN inst : DOMAIN inst[i].values = 1 .. Len(inst[i].values)
  BY <1>5, LenProperties
<1>. QED  BY <1>1, <1>2, <1>3, <1>4, <1>5, <1>6, ClassFields DEF TypeOK

\* One class changes as Keeps allows, the rest does not.
LEMMA OneClassChanges ==
  ASSUME ClassInv, NEW c \in DOMAIN cls, NEW d, ClassOK(d), Keeps(cls[c], d),
         cls' = [cls EXCEPT ![c] = d], UNCHANGED <<inst, handles>>, CountersOK'
  PROVE  ClassInv' /\ FrozenStep
<1>0. /\ DOMAIN cls' = DOMAIN cls /\ cls'[c] = d /\ d \in ClassType /\ cls' \in Seq(ClassType)
      /\ \A e \in DOMAIN cls \ {c} : cls'[e] = cls[e]
      /\ DOMAIN cls = 1 .. Len(cls)
  BY InvFacts, ExceptSeq DEF ClassOK
<1>1. \A e \in DOMAIN cls : ClassOK(cls'[e]) /\ Keeps(cls[e], cls'[e]) /\ cls'[e] \in ClassType
  <2>1. \A e \in DOMAIN cls : Keeps(cls[e], cls[e])
    BY InvFacts, SameShape DEF ClassOK
  <2>. QED  BY <1>0, <2>1, InvFacts
<1>2. TypeOK'
  BY <1>0, <1>1, InvFacts DEF TypeOK, ClassInv, MembersIndexed, Keeps, ClassOK
<1>3. MembersIndexed' /\ ConstructorFound'
  BY <1>0, <1>1, <1>2 DEF MembersIndexed, ConstructorFound, ClassOK
<1>4. ValuesFit' /\ BasesLocked'
  <2>1. ValuesFit'
    BY <1>0, <1>1, InvFacts DEF ClassInv, ValuesFit, Fits, Keeps
  <2>2. BasesLocked'
    BY <1>0, <1>1, InvFacts DEF ClassInv, BasesLocked, Keeps
  <2>. QED  BY <2>1, <2>2
<1>5. MembersReached'
  <2>1. ASSUME NEW h \in handles PROVE Reaches(cls'[h.class], h)
    <3>1. h.class \in DOMAIN cls /\ h.key \in Keys /\ Reaches(cls[h.class], h)
      BY InvFacts DEF ClassInv, MembersReached
    <3>. QED  BY <3>1, <1>1, InvFacts, KeepsReached
  <2>2. ASSUME NEW e \in DOMAIN cls, NEW h \in cls'[e].inherited PROVE Reaches(cls'[e], h)
    <3>1. h \in cls[e].inherited /\ h.key \in Keys /\ Reaches(cls[e], h)
      BY <1>1, <2>2, InvFacts, ClassFields DEF ClassInv, MembersReached, Keeps, Handle
    <3>. QED  BY <3>1, <1>1, InvFacts, KeepsReached
  <2>. QED  BY <1>0, <2>1, <2>2 DEF MembersReached
<1>6. FrozenStep
  BY <1>1, InvFacts DEF FrozenStep, Keeps, ClassInv
<1>. QED  BY <1>3, <1>4, <1>5, <1>6 DEF ClassInv

LEMMA TickSteps ==
  ASSUME ClassInv, Tick
  PROVE  CountersOK'
<1>1. MaxSteps \in Nat
  BY ClassAssumption
<1>2. steps \in 0 .. MaxSteps /\ stray \in BOOLEAN
  BY DEF ClassInv, MembersIndexed, TypeOK, CountersOK
<1>3. steps < MaxSteps /\ steps' = steps + 1 /\ stray' = stray
  BY DEF Tick
<1>4. steps' \in 0 .. MaxSteps
  BY <1>1, <1>2, <1>3
<1>. QED  BY <1>2, <1>3, <1>4 DEF CountersOK

\* A new class, fresh or derived.
LEMMA NewClassStep ==
  ASSUME ClassInv, NewClass
  PROVE  ClassInv' /\ FrozenStep
<1>. DEFINE n == Len(cls) + 1
<1>1. PICK b \in 0 .. Len(cls) : cls' = Append(cls, IF b = 0 THEN Fresh ELSE Derived(b))
  BY DEF NewClass
<1>. DEFINE d == IF b = 0 THEN Fresh ELSE Derived(b)
<1>2. /\ ClassOK(d) /\ d \in ClassType /\ d.base = b /\ ~d.locked
      /\ \A h \in d.inherited : Reaches(d, h)
  <2>1. CASE b = 0
    <3>1. Fresh \in ClassType /\ Fresh.base = 0 /\ ~Fresh.locked /\ Fresh.inherited = {}
      BY DEF Fresh, ClassType, NoMember
    <3>2. \A k \in Keys : Fresh.members[k] = NoMember
      BY DEF Fresh
    <3>3. Indexed(Fresh) /\ Constructs(Fresh)
      BY <3>2, ClassAssumption, MemberKinds DEF Indexed, Named, Constructs
    <3>4. Fresh.constructoridx <= Len(Fresh.methods)
      BY DEF Fresh
    <3>. QED  BY <2>1, <3>1, <3>3, <3>4 DEF ClassOK
  <2>2. CASE b # 0
    <3>1. b \in DOMAIN cls /\ ClassOK(cls[b]) /\ cls[b] \in ClassType
      BY <2>2, InvFacts
    <3>2. /\ Derived(b).members = cls[b].members /\ Derived(b).methods = cls[b].methods
          /\ Derived(b).defaultvalues = cls[b].defaultvalues
          /\ Derived(b).constructoridx = cls[b].constructoridx
          /\ Derived(b).base = b /\ ~Derived(b).locked /\ Derived(b) \in ClassType
          /\ Derived(b).inherited = Inherited(b)
      <4>1. Inherited(b) \subseteq Handle
        <5>1. \A k \in Named(cls[b]) : k \in Keys /\ cls[b].members[k] \in MemberIndex
          BY <3>1, ClassFields DEF Named
        <5>2. b \in Nat
          OBVIOUS
        <5>. QED  BY <3>1, <5>1, <5>2, ClassFields DEF Inherited, HandleOf, Handle
      <4>. QED  BY <3>1, <4>1 DEF Derived, ClassType
    <3>3. ClassOK(Derived(b))
      BY <3>1, <3>2 DEF ClassOK, Indexed, Constructs, Named, Vector
    <3>4. ASSUME NEW h \in Inherited(b) PROVE Reaches(Derived(b), h)
      <4>1. CASE h \in cls[b].inherited
        BY <3>1, <3>2, <4>1 DEF ClassInv, MembersReached, Reaches, Vector
      <4>2. ASSUME NEW k \in Named(cls[b]), h = HandleOf(b, k) PROVE Reaches(Derived(b), h)
        <5>1. h.key = k /\ h.member = cls[b].members[k] /\ k \in Keys
          BY <4>2 DEF HandleOf, Named
        <5>2. cls[b].members[k][2] \in DOMAIN Vector(cls[b], cls[b].members[k])
          BY <3>1, <4>2 DEF ClassOK, Indexed
        <5>. QED  BY <3>2, <5>1, <5>2 DEF Reaches, Vector
      <4>. QED  BY <4>1, <4>2 DEF Inherited
    <3>. QED  BY <2>2, <3>2, <3>3, <3>4
  <2>. QED  BY <2>1, <2>2
<1>. HIDE DEF d
<1>3. /\ cls' \in Seq(ClassType) /\ Len(cls') = n /\ DOMAIN cls' = 1 .. n
      /\ \A c \in DOMAIN cls : cls'[c] = cls[c]
      /\ cls'[n] = d /\ n \in Nat \ {0} /\ DOMAIN cls = 1 .. n - 1
  BY <1>1, <1>2, InvFacts, AppendProperties, LenProperties DEF d
<1>4. UNCHANGED <<inst, handles>> /\ CountersOK'
  BY TickSteps DEF NewClass
<1>. HIDE DEF n
<1>5. DOMAIN cls \subseteq DOMAIN cls' /\ DOMAIN cls' = DOMAIN cls \cup {n}
  BY <1>3
<1>6. TypeOK'
  <2>1. \A c \in DOMAIN cls' : cls'[c].base < c /\ cls'[c].constructoridx <= Len(cls'[c].methods)
    <3>1. b < n
      BY <1>3 DEF n
    <3>. QED  BY <1>2, <1>3, <1>5, <3>1, InvFacts DEF ClassOK
  <2>2. inst \in Seq([class : DOMAIN cls', udsize : Nat, values : Seq(Values)])
    <3>1. [class : DOMAIN cls, udsize : Nat, values : Seq(Values)]
            \subseteq [class : DOMAIN cls', udsize : Nat, values : Seq(Values)]
      BY <1>5
    <3>. QED  BY <3>1, SeqMonotonic DEF ClassInv, MembersIndexed, TypeOK
  <2>3. handles \subseteq [class : DOMAIN cls', key : Keys, member : MemberIndex]
    BY <1>5 DEF ClassInv, MembersIndexed, TypeOK
  <2>. QED  BY <1>3, <1>4, <2>1, <2>2, <2>3 DEF TypeOK
<1>7. MembersIndexed' /\ ConstructorFound'
  BY <1>2, <1>3, <1>5, <1>6, InvFacts DEF MembersIndexed, ConstructorFound, ClassOK
<1>8. ValuesFit'
  BY <1>3, <1>4, InvFacts DEF ClassInv, ValuesFit
<1>9. BasesLocked'
  <2>. SUFFICES ASSUME NEW c \in DOMAIN cls', cls'[c].locked, cls'[c].base # 0
                PROVE  cls'[cls'[c].base].locked
    BY DEF BasesLocked
  <2>1. c \in DOMAIN cls /\ cls'[c] = cls[c]
    BY <1>2, <1>3, <1>5
  <2>2. cls[c].base \in DOMAIN cls
    BY <2>1, InvFacts
  <2>. QED  BY <1>3, <2>1, <2>2 DEF ClassInv, BasesLocked
<1>10. MembersReached'
  <2>1. \A h \in handles : h.class \in DOMAIN cls /\ Reaches(cls'[h.class], h)
    BY <1>3, InvFacts DEF ClassInv, MembersReached
  <2>2. \A c \in DOMAIN cls' : \A h \in cls'[c].inherited : Reaches(cls'[c], h)
    BY <1>2, <1>3, <1>5 DEF ClassInv, MembersReached
  <2>. QED  BY <1>4, <2>1, <2>2 DEF MembersReached
<1>11. FrozenStep
  BY <1>3 DEF FrozenStep, ClassInv
<1>. QED  BY <1>7, <1>8, <1>9, <1>10, <1>11 DEF ClassInv

\* The operations on one class.
LEMMA ClassStep ==
  ASSUME ClassInv, ClassNewSlot \/ NewSlotA \/ SetClassUdSize
  PROVE  ClassInv' /\ FrozenStep
<1>1. CASE ClassNewSlot
  <2>1. PICK c \in DOMAIN cls, key \in Keys, val \in Values, bstatic \in BOOLEAN :
          /\ Tick
          /\ Accepts(cls[c], key, bstatic \/ val \in Closures)
          /\ cls' = [cls EXCEPT ![c] = NewSlot(@, key, val, bstatic)]
          /\ UNCHANGED <<inst, handles>>
    BY <1>1 DEF ClassNewSlot
  <2>. DEFINE d == NewSlot(cls[c], key, val, bstatic)
  <2>2. ClassOK(d) /\ Keeps(cls[c], d)
    BY <2>1, InvFacts, NewSlotKeeps
  <2>3. cls' = [cls EXCEPT ![c] = d]
    BY <2>1
  <2>. HIDE DEF d
  <2>. QED  BY <2>1, <2>2, <2>3, TickSteps, OneClassChanges
<1>2. CASE NewSlotA
  <2>1. PICK c \in DOMAIN cls, key \in Keys, val \in Values, bstatic \in BOOLEAN :
          /\ Tick
          /\ Accepts(cls[c], key, bstatic \/ val \in Closures)
          /\ cls' = [cls EXCEPT ![c] = SetAttributes(NewSlot(@, key, val, bstatic), key, "attr")]
          /\ UNCHANGED <<inst, handles>>
    BY <1>2 DEF NewSlotA
  <2>. DEFINE e == NewSlot(cls[c], key, val, bstatic)
              d == SetAttributes(e, key, "attr")
  <2>2. ClassOK(e) /\ Keeps(cls[c], e) /\ ClassOK(cls[c])
    BY <2>1, InvFacts, NewSlotKeeps
  <2>3. cls' = [cls EXCEPT ![c] = d]
    BY <2>1
  <2>. HIDE DEF e
  <2>4. ClassOK(d) /\ Keeps(e, d)
    BY <2>2, SetAttributesKeeps
  <2>. HIDE DEF d
  <2>5. Keeps(cls[c], d)
    BY <2>2, <2>4, KeepsTransitive
  <2>. QED  BY <2>1, <2>3, <2>4, <2>5, TickSteps, OneClassChanges
<1>3. CASE SetClassUdSize
  <2>1. PICK c \in DOMAIN cls, n \in UdSizes :
          Tick /\ ~cls[c].locked /\ cls' = [cls EXCEPT ![c].udsize = n] /\ UNCHANGED <<inst, handles>>
    BY <1>3 DEF SetClassUdSize
  <2>. DEFINE d == [cls[c] EXCEPT !.udsize = n]
  <2>2. cls[c] \in ClassType /\ ClassOK(cls[c]) /\ n \in Nat
    BY InvFacts, ClassAssumption
  <2>3. /\ d \in ClassType /\ d.members = cls[c].members /\ d.methods = cls[c].methods
        /\ d.defaultvalues = cls[c].defaultvalues /\ d.constructoridx = cls[c].constructoridx
        /\ d.base = cls[c].base /\ d.locked = cls[c].locked /\ d.inherited = cls[c].inherited
    BY <2>2 DEF ClassType
  <2>4. cls' = [cls EXCEPT ![c] = d]
    BY <2>1
  <2>. HIDE DEF d
  <2>5. ClassOK(d)
    BY <2>2, <2>3 DEF ClassOK, Indexed, Constructs, Named, Vector
  <2>6. Keeps(cls[c], d)
    BY <2>1, <2>2, <2>3, ClassFields DEF Keeps
  <2>. QED  BY <2>1, <2>4, <2>5, <2>6, TickSteps, OneClassChanges
<1>. QED  BY <1>1, <1>2, <1>3

\* CreateInstance: the lock goes to the class and all its bases.
LEMMA CreateInstanceStep ==
  ASSUME ClassInv, CreateInstance
  PROVE  ClassInv' /\ FrozenStep
<1>1. PICK c \in DOMAIN cls :
        /\ Tick
        /\ cls' = [d \in DOMAIN cls |-> IF d \in Lineage[c] THEN [cls[d] EXCEPT !.locked = TRUE] ELSE cls[d]]
        /\ inst' = Append(inst, [class |-> c, udsize |-> cls[c].udsize,
                                 values |-> [n \in DOMAIN cls[c].defaultvalues |-> cls[c].defaultvalues[n].val]])
        /\ UNCHANGED handles
  BY DEF CreateInstance
<1>. DEFINE L == Lineage[c]
            v == [n \in DOMAIN cls[c].defaultvalues |-> cls[c].defaultvalues[n].val]
            o == [class |-> c, udsize |-> cls[c].udsize, values |-> v]
            Inst == [class : DOMAIN cls, udsize : Nat, values : Seq(Values)]
<1>2. c \in L /\ \A d \in L : d \in DOMAIN cls /\ (cls[d].base # 0 => cls[d].base \in L)
  BY LineageClosed DEF ClassInv, MembersIndexed
<1>3. ASSUME NEW d \in DOMAIN cls
      PROVE  /\ cls'[d] \in ClassType
             /\ cls'[d].members = cls[d].members /\ cls'[d].methods = cls[d].methods
             /\ cls'[d].defaultvalues = cls[d].defaultvalues /\ cls'[d].base = cls[d].base
             /\ cls'[d].constructoridx = cls[d].constructoridx /\ cls'[d].udsize = cls[d].udsize
             /\ cls'[d].inherited = cls[d].inherited
             /\ (cls'[d].locked <=> (cls[d].locked \/ d \in L))
  <2>1. cls[d] \in ClassType
    BY InvFacts
  <2>2. CASE d \in L
    <3>1. cls'[d] = [cls[d] EXCEPT !.locked = TRUE]
      BY <1>1, <2>2
    <3>. QED  BY <2>1, <2>2, <3>1 DEF ClassType
  <2>3. CASE d \notin L
    <3>1. cls'[d] = cls[d]
      BY <1>1, <2>3
    <3>. QED  BY <2>1, <2>3, <3>1 DEF ClassType
  <2>. QED  BY <2>2, <2>3
<1>4. DOMAIN cls' = DOMAIN cls /\ cls' \in Seq(ClassType)
  <2>1. DOMAIN cls' = 1 .. Len(cls) /\ Len(cls) \in Nat /\ cls' = [d \in 1 .. Len(cls) |-> cls'[d]]
    BY <1>1, InvFacts
  <2>2. cls' \in [1 .. Len(cls) -> ClassType]
    BY <2>1, <1>3, InvFacts
  <2>. QED  BY <2>1, <2>2, InvFacts, SeqDef
<1>5. /\ v \in Seq(Values) /\ Len(v) = Len(cls[c].defaultvalues) /\ DOMAIN v = DOMAIN cls[c].defaultvalues
      /\ o \in Inst /\ o.class = c /\ o.values = v /\ o.udsize = cls[c].udsize
  <2>1. /\ cls[c].defaultvalues \in Seq(ClassMember) /\ cls[c].udsize \in Nat
        /\ Len(cls[c].defaultvalues) \in Nat
        /\ DOMAIN cls[c].defaultvalues = 1 .. Len(cls[c].defaultvalues)
    BY InvFacts, ClassFields
  <2>2. \A n \in 1 .. Len(cls[c].defaultvalues) : cls[c].defaultvalues[n].val \in Values
    <3>1. \A n \in 1 .. Len(cls[c].defaultvalues) : cls[c].defaultvalues[n] \in ClassMember
      BY <2>1, ElementOfSeq
    <3>. QED  BY <3>1 DEF ClassMember
  <2>3. v \in [1 .. Len(cls[c].defaultvalues) -> Values]
    BY <2>1, <2>2
  <2>4. v \in Seq(Values) /\ Len(v) = Len(cls[c].defaultvalues)
    BY <2>1, <2>3, SeqDef
  <2>. QED  BY <2>1, <2>4
<1>. HIDE DEF L, v, o
<1>6. /\ inst' \in Seq(Inst) /\ Len(inst') = Len(inst) + 1 /\ DOMAIN inst' = DOMAIN inst \cup {Len(inst) + 1}
      /\ \A i \in DOMAIN inst : inst'[i] = inst[i]
      /\ inst'[Len(inst) + 1] = o
  <2>1. inst \in Seq(Inst) /\ Len(inst) \in Nat /\ DOMAIN inst = 1 .. Len(inst)
    BY InvFacts DEF ClassInv, MembersIndexed, TypeOK
  <2>2. inst' = Append(inst, o)
    BY <1>1 DEF v, o
  <2>. HIDE DEF Inst
  <2>. QED  BY <2>1, <2>2, <1>5, AppendProperties, LenProperties
<1>7. /\ handles' = handles /\ CountersOK'
      /\ handles \subseteq [class : DOMAIN cls, key : Keys, member : MemberIndex]
  BY <1>1, TickSteps DEF ClassInv, MembersIndexed, TypeOK
<1>8. TypeOK'
  BY <1>3, <1>4, <1>6, <1>7, InvFacts DEF TypeOK, ClassOK
<1>9. MembersIndexed' /\ ConstructorFound'
  <2>1. \A d \in DOMAIN cls : Indexed(cls'[d]) /\ Constructs(cls'[d])
    BY <1>3, InvFacts DEF ClassOK, Indexed, Constructs, Named, Vector
  <2>. QED  BY <1>4, <1>8, <2>1 DEF MembersIndexed, ConstructorFound
<1>10. BasesLocked'
  BY <1>2, <1>3, <1>4, InvFacts, SMTT(30) DEF ClassInv, BasesLocked
<1>11. ValuesFit'
  <2>1. ASSUME NEW i \in DOMAIN inst PROVE Fits(inst[i], cls'[inst[i].class])
    <3>1. inst[i].class \in DOMAIN cls
      BY InvFacts
    <3>. QED  BY <3>1, <1>3 DEF ClassInv, ValuesFit, Fits
  <2>2. Fits(o, cls'[o.class])
    BY <1>2, <1>3, <1>5 DEF Fits
  <2>. QED  BY <1>6, <2>1, <2>2 DEF ValuesFit
<1>12. MembersReached'
  <2>1. ASSUME NEW d \in DOMAIN cls, NEW h, Reaches(cls[d], h) PROVE Reaches(cls'[d], h)
    BY <1>3, <2>1 DEF Reaches, Vector
  <2>. QED  BY <1>3, <1>4, <1>7, <2>1, InvFacts DEF ClassInv, MembersReached
<1>13. FrozenStep
  BY <1>3 DEF FrozenStep, ClassInv
<1>. QED  BY <1>9, <1>10, <1>11, <1>12, <1>13 DEF ClassInv

\* Instances change, classes and handles do not.
LEMMA InstancesChange ==
  ASSUME ClassInv, UNCHANGED <<cls, handles>>, CountersOK',
         inst' \in Seq([class : DOMAIN cls, udsize : Nat, values : Seq(Values)]),
         \A j \in DOMAIN inst' : Fits(inst'[j], cls[inst'[j].class])
  PROVE  ClassInv' /\ FrozenStep
<1>1. TypeOK' /\ MembersIndexed' /\ ConstructorFound' /\ BasesLocked' /\ ValuesFit'
  BY DEF ClassInv, MembersIndexed, TypeOK, ConstructorFound, BasesLocked, ValuesFit
<1>3. MembersReached'
  BY DEF ClassInv, MembersReached
<1>4. FrozenStep
  BY DEF FrozenStep, ClassInv
<1>. QED  BY <1>1, <1>3, <1>4 DEF ClassInv

LEMMA SeqPut ==
  ASSUME NEW T, NEW s \in Seq(T), NEW i \in 1 .. Len(s), NEW e \in T
  PROVE  /\ [s EXCEPT ![i] = e] \in Seq(T) /\ DOMAIN [s EXCEPT ![i] = e] = DOMAIN s
         /\ \A j \in DOMAIN s : [s EXCEPT ![i] = e][j] = IF j = i THEN e ELSE s[j]
BY ExceptSeq, LenProperties

\* One value of one instance is written.
Stored(i, n, val) == [inst EXCEPT ![i].values[n] = val]

LEMMA WriteInstance ==
  ASSUME ClassInv, NEW i \in DOMAIN inst, NEW n \in DOMAIN inst[i].values, NEW val \in Values,
         inst' = Stored(i, n, val), UNCHANGED <<cls, handles>>, CountersOK'
  PROVE  ClassInv' /\ FrozenStep
<1>. DEFINE Inst == [class : DOMAIN cls, udsize : Nat, values : Seq(Values)]
            w == [inst[i].values EXCEPT ![n] = val]
            o == [inst[i] EXCEPT !.values = w]
<1>1. inst \in Seq(Inst) /\ i \in 1 .. Len(inst) /\ inst[i] \in Inst /\ n \in 1 .. Len(inst[i].values)
  BY InvFacts DEF ClassInv, MembersIndexed, TypeOK
<1>2. w \in Seq(Values) /\ Len(w) = Len(inst[i].values)
  BY <1>1, ExceptSeq
<1>. HIDE DEF w
<1>3. o \in Inst /\ o.values = w /\ o.class = inst[i].class /\ o.udsize = inst[i].udsize
  BY <1>1, <1>2
<1>4. inst' = [inst EXCEPT ![i] = o]
  BY DEF w, Stored
<1>. HIDE DEF o, Inst
<1>5. /\ inst' \in Seq(Inst) /\ DOMAIN inst' = DOMAIN inst
      /\ \A j \in DOMAIN inst : inst'[j] = IF j = i THEN o ELSE inst[j]
  BY <1>1, <1>3, <1>4, SeqPut
<1>6. \A j \in DOMAIN inst' : Fits(inst'[j], cls[inst'[j].class])
  BY <1>2, <1>3, <1>5, SMTT(30) DEF ClassInv, ValuesFit, Fits
<1>. QED  BY <1>5, <1>6, InstancesChange DEF Inst

LEMMA InstanceStep ==
  ASSUME ClassInv, Clone \/ InstanceSet
  PROVE  ClassInv' /\ FrozenStep
<1>1. CASE Clone
  <2>1. PICK i \in DOMAIN inst :
          /\ Tick
          /\ inst' = Append(inst, [inst[i] EXCEPT !.udsize = cls[inst[i].class].udsize])
          /\ UNCHANGED <<cls, handles>>
    BY <1>1 DEF Clone
  <2>. DEFINE Inst == [class : DOMAIN cls, udsize : Nat, values : Seq(Values)]
              o == [inst[i] EXCEPT !.udsize = cls[inst[i].class].udsize]
  <2>2. inst \in Seq(Inst) /\ inst[i] \in Inst /\ cls[inst[i].class].udsize \in Nat
    BY InvFacts, ClassFields DEF ClassInv, MembersIndexed, TypeOK
  <2>3. /\ o \in Inst /\ o.values = inst[i].values /\ o.class = inst[i].class
        /\ o.udsize = cls[inst[i].class].udsize
    BY <2>2
  <2>4. inst' = Append(inst, o)
    BY <2>1
  <2>. HIDE DEF o, Inst
  <2>5. /\ inst' \in Seq(Inst) /\ DOMAIN inst' = 1 .. Len(inst) + 1 /\ inst'[Len(inst) + 1] = o
        /\ \A j \in DOMAIN inst : inst'[j] = inst[j]
        /\ Len(inst) \in Nat /\ DOMAIN inst = 1 .. Len(inst)
    BY <2>2, <2>3, <2>4, AppendProperties, LenProperties
  <2>6. \A j \in DOMAIN inst' : j \in DOMAIN inst \/ j = Len(inst) + 1
    BY <2>5
  <2>7. \A j \in DOMAIN inst' : Fits(inst'[j], cls[inst'[j].class])
    BY <2>3, <2>5, <2>6 DEF ClassInv, ValuesFit, Fits
  <2>. QED  BY <2>1, <2>5, <2>7, TickSteps, InstancesChange DEF Inst
<1>2. CASE InstanceSet
  <2>1. PICK i \in DOMAIN inst, key \in Keys, val \in Values :
          /\ Tick
          /\ IsField(cls[inst[i].class].members[key])
          /\ inst' = [inst EXCEPT ![i].values[cls[inst[i].class].members[key][2]] = val]
          /\ UNCHANGED <<cls, handles>>
    BY <1>2 DEF InstanceSet
  <2>. DEFINE n == cls[inst[i].class].members[key][2]
  <2>2. inst[i].class \in DOMAIN cls /\ ClassOK(cls[inst[i].class]) /\ cls[inst[i].class] \in ClassType
    BY InvFacts
  <2>3. n \in DOMAIN cls[inst[i].class].defaultvalues
    BY <2>1, <2>2, IndexInside, MemberKinds
  <2>4. n \in DOMAIN inst[i].values
    BY <2>2, <2>3, InvFacts, ClassFields DEF ClassInv, ValuesFit, Fits
  <2>5. inst' = Stored(i, n, val)
    BY <2>1 DEF Stored
  <2>. HIDE DEF n
  <2>. QED  BY <2>1, <2>4, <2>5, TickSteps, WriteInstance
<1>. QED  BY <1>1, <1>2

LEMMA HandleStep ==
  ASSUME ClassInv, GetMemberHandle \/ SetByHandle
  PROVE  ClassInv' /\ FrozenStep
<1>1. CASE GetMemberHandle
  <2>1. PICK c \in DOMAIN cls : \E key \in Named(cls[c]) :
          /\ Tick
          /\ handles' = handles \cup {HandleOf(c, key)}
          /\ UNCHANGED <<cls, inst>>
    BY <1>1 DEF GetMemberHandle
  <2>2. PICK key \in Named(cls[c]) :
          /\ Tick
          /\ handles' = handles \cup {HandleOf(c, key)}
          /\ UNCHANGED <<cls, inst>>
    BY <2>1
  <2>3. /\ key \in Keys /\ cls[c].members[key] \in MemberIndex
        /\ cls[c].members[key][2] \in DOMAIN Vector(cls[c], cls[c].members[key])
    BY InvFacts, IndexInside DEF Named, Vector
  <2>4. TypeOK' /\ MembersIndexed' /\ ConstructorFound' /\ BasesLocked' /\ ValuesFit'
    BY <2>2, <2>3, TickSteps DEF ClassInv, MembersIndexed, TypeOK, ConstructorFound, BasesLocked, ValuesFit, HandleOf
  <2>5. MembersReached'
    <3>1. Reaches(cls[c], HandleOf(c, key)) /\ HandleOf(c, key).class = c
      BY <2>3 DEF Reaches, HandleOf
    <3>. QED  BY <2>2, <3>1 DEF ClassInv, MembersReached
  <2>6. FrozenStep
    BY <2>2 DEF FrozenStep, ClassInv
  <2>. QED  BY <2>4, <2>5, <2>6 DEF ClassInv
<1>2. ASSUME NEW h \in handles, NEW val \in Values, NEW i \in DOMAIN inst,
             Tick, h.member[2] \in DOMAIN inst[i].values,
             inst' = [inst EXCEPT ![i].values[h.member[2]] = val], UNCHANGED <<cls, handles>>
      PROVE  ClassInv' /\ FrozenStep
  <2>1. inst' = Stored(i, h.member[2], val)
    BY <1>2 DEF Stored
  <2>. QED  BY <1>2, <2>1, TickSteps, WriteInstance
<1>3. ASSUME NEW h \in handles, NEW val \in Values, NEW c \in DOMAIN cls, Tick,
             h.member[2] \in DOMAIN Vector(cls[c], h.member),
             cls' = IF IsField(h.member) THEN [cls EXCEPT ![c].defaultvalues[h.member[2]].val = val]
                    ELSE [cls EXCEPT ![c].methods[h.member[2]].val = val],
             UNCHANGED <<inst, handles>>
      PROVE  ClassInv' /\ FrozenStep
  <2>. DEFINE d == IF IsField(h.member) THEN PutField(cls[c], h.member[2], val)
                   ELSE PutMethod(cls[c], h.member[2], val)
  <2>1. ClassOK(cls[c])
    BY InvFacts
  <2>2. ClassOK(d) /\ Keeps(cls[c], d)
    BY <1>3, <2>1, WriteField, WriteMethod DEF Vector
  <2>3. cls' = [cls EXCEPT ![c] = d]
    BY <1>3 DEF PutField, PutMethod
  <2>. HIDE DEF d
  <2>. QED  BY <1>3, <2>1, <2>2, <2>3, TickSteps, OneClassChanges
<1>. QED  BY <1>1, <1>2, <1>3 DEF SetByHandle

\* An index that is not there: only the flag changes.
LEMMA StrayStep ==
  ASSUME ClassInv, UseStrayHandle
  PROVE  ClassInv' /\ FrozenStep
<1>1. UNCHANGED <<cls, inst, handles>> /\ CountersOK'
  <2>1. MaxSteps \in Nat /\ steps \in 0 .. MaxSteps
    BY ClassAssumption DEF ClassInv, MembersIndexed, TypeOK, CountersOK
  <2>2. steps < MaxSteps /\ steps' = steps + 1
    BY DEF UseStrayHandle
  <2>3. steps' \in 0 .. MaxSteps
    BY <2>1, <2>2
  <2>4. stray' \in BOOLEAN /\ UNCHANGED <<cls, inst, handles>>
    BY DEF UseStrayHandle
  <2>. QED  BY <2>3, <2>4 DEF CountersOK
<1>2. ClassInv'
  BY <1>1 DEF ClassInv, MembersIndexed, TypeOK, ConstructorFound, BasesLocked, ValuesFit, MembersReached
<1>. QED  BY <1>1, <1>2 DEF FrozenStep, ClassInv

\* Every step keeps the invariant and the layout of locked classes.
LEMMA ClassInvStep ==
  ASSUME ClassInv, [Next]_vars
  PROVE  ClassInv' /\ [FrozenStep]_vars
<1>1. CASE Next
  BY <1>1, NewClassStep, ClassStep, CreateInstanceStep, InstanceStep, HandleStep, StrayStep DEF Next
<1>2. CASE UNCHANGED vars
  <2>1. ClassInv'
    BY <1>2 DEF vars, ClassInv, MembersIndexed, TypeOK, ConstructorFound, BasesLocked, ValuesFit, MembersReached, CountersOK
  <2>. QED  BY <1>2, <2>1
<1>. QED  BY <1>1, <1>2

LEMMA ClassInvHolds == Spec => []ClassInv
<1>1. Init => ClassInv
  <2>. SUFFICES ASSUME Init PROVE ClassInv
    OBVIOUS
  <2>1. /\ DOMAIN cls = {} /\ DOMAIN inst = {} /\ handles = {} /\ CountersOK
        /\ cls \in Seq(ClassType) /\ inst \in Seq([class : DOMAIN cls, udsize : Nat, values : Seq(Values)])
    <3>1. MaxSteps \in Nat
      BY ClassAssumption
    <3>2. steps \in 0 .. MaxSteps
      BY <3>1 DEF Init
    <3>3. stray \in BOOLEAN
      BY DEF Init
    <3>4. CountersOK
      BY <3>2, <3>3 DEF CountersOK
    <3>. QED  BY <3>4 DEF Init
  <2>. QED  BY <2>1 DEF ClassInv, MembersIndexed, TypeOK, ConstructorFound, BasesLocked, ValuesFit, MembersReached, CountersOK
<1>2. ClassInv /\ [Next]_vars => ClassInv'
  BY ClassInvStep
<1>. QED  BY <1>1, <1>2, PTL DEF Spec

\* NewSlot and the derivation of classes (sqclass.cpp) keep the index sound: the
\* state has its type, no two members of a class share a place, none is outside
\* its vector, however methods turn into fields and classes derive from each other.
THEOREM MembersIndexedHolds == Spec => []MembersIndexed
<1>1. ClassInv => MembersIndexed
  BY DEF ClassInv
<1>. QED  BY <1>1, ClassInvHolds, PTL

\* SQInstance's block, allocated once, has room for all that Get, Set, Clone and
\* Finalize count by the class as it is later.
THEOREM ValuesFitHolds == Spec => []ValuesFit
<1>1. ClassInv => ValuesFit
  BY DEF ClassInv
<1>. QED  BY <1>1, ClassInvHolds, PTL

\* _constructoridx is the index of the method "constructor" names.
THEOREM ConstructorFoundHolds == Spec => []ConstructorFound
<1>1. ClassInv => ConstructorFound
  BY DEF ClassInv
<1>. QED  BY <1>1, ClassInvHolds, PTL

\* sq_getbyhandle and sq_setbyhandle, which do not look the key up again, reach the
\* member the handle was got for, in its class, in the classes that were derived
\* with that member, however far, and in their instances.
THEOREM HandlesReachFieldHolds == Spec => []HandlesReachField
<1>1. ASSUME ClassInv PROVE HandlesReachField
  <2>. SUFFICES ASSUME NEW h \in handles, NEW c \in DOMAIN cls, c = h.class \/ h \in cls[c].inherited
                PROVE  /\ Reaches(cls[c], h)
                       /\ \A i \in DOMAIN inst : inst[i].class = c /\ IsField(h.member) => h.member[2] \in DOMAIN inst[i].values
    BY DEF HandlesReachField
  <2>1. Reaches(cls[c], h)
    BY <1>1 DEF ClassInv, MembersReached
  <2>2. ASSUME NEW i \in DOMAIN inst, inst[i].class = c, IsField(h.member)
        PROVE  h.member[2] \in DOMAIN inst[i].values
    <3>1. h.member[2] \in DOMAIN cls[c].defaultvalues
      BY <2>1, <2>2 DEF Reaches, Vector
    <3>2. Len(inst[i].values) = Len(cls[c].defaultvalues)
      BY <1>1, <2>2 DEF ClassInv, ValuesFit, Fits
    <3>3. DOMAIN cls[c].defaultvalues = 1 .. Len(cls[c].defaultvalues) /\ DOMAIN inst[i].values = 1 .. Len(inst[i].values)
      BY <1>1, InvFacts, ClassFields
    <3>. QED  BY <3>1, <3>2, <3>3
  <2>. QED  BY <2>1, <2>2
<1>. QED  BY <1>1, ClassInvHolds, PTL

\* The lock of CreateInstance: no step changes the layout of a class that has
\* instances, or the layouts it derives from.
THEOREM LayoutFrozenHolds == Spec => LayoutFrozen
<1>1. ClassInv /\ [Next]_vars => [FrozenStep]_vars
  BY ClassInvStep
<1>. QED  BY <1>1, ClassInvHolds, PTL DEF Spec, LayoutFrozen
=============================================================================
