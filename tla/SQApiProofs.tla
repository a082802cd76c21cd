---------------------------- MODULE SQApiProofs -----------------------------
(***************************************************************************)
(* Proofs about SQApi: the stack discipline of native calls, the values on *)
(* the stack and in the heap, native closures, and delegates.              *)
(***************************************************************************)
EXTENDS SQApi, SQFacts

-----------------------------------------------------------------------------
(* Sequences of anything. *)

IsSeq(s) == \E T : s \in Seq(T)

LEMMA AnySeq ==
  ASSUME NEW s, IsSeq(s)
  PROVE  Len(s) \in Nat /\ DOMAIN s = 1 .. Len(s) /\ (s = <<>> <=> Len(s) = 0)
<1>1. PICK T : s \in Seq(T)
  BY DEF IsSeq
<1>. QED  BY <1>1, LenProperties, EmptySeq

LEMMA AnyAppend ==
  ASSUME NEW s, IsSeq(s), NEW x
  PROVE  /\ IsSeq(Append(s, x)) /\ Len(Append(s, x)) = Len(s) + 1 /\ Append(s, x) # <<>>
         /\ \A i \in 1 .. Len(s) : Append(s, x)[i] = s[i]
         /\ Append(s, x)[Len(s) + 1] = x
<1>1. PICK T : s \in Seq(T)
  BY DEF IsSeq
<1>. DEFINE U == T \cup {x}
<1>2. s \in Seq(U) /\ x \in U
  BY <1>1
<1>. HIDE DEF U
<1>. QED  BY <1>2, AppendFacts DEF IsSeq

LEMMA AnyFront ==
  ASSUME NEW s, IsSeq(s), s # <<>>
  PROVE  /\ IsSeq(Front(s)) /\ Len(s) \in Nat \ {0} /\ Len(Front(s)) = Len(s) - 1
         /\ \A i \in 1 .. Len(s) - 1 : Front(s)[i] = s[i]
         /\ Last(s) = s[Len(s)]
<1>1. PICK T : s \in Seq(T)
  BY DEF IsSeq
<1>. QED  BY <1>1, FrontFacts DEF IsSeq

\* A function on 1 .. n is a sequence.
LEMMA AnyFunction ==
  ASSUME NEW n \in Nat, NEW s, DOMAIN s = 1 .. n, s = [i \in 1 .. n |-> s[i]]
  PROVE  IsSeq(s) /\ Len(s) = n
<1>. DEFINE T == {s[i] : i \in 1 .. n}
<1>1. s \in [1 .. n -> T]
  OBVIOUS
<1>. HIDE DEF T
<1>. QED  BY <1>1, FunctionIsSeq DEF IsSeq

\* One element is replaced.
Put(s, o, x) == [s EXCEPT ![o] = x]

LEMMA AnyPut ==
  ASSUME NEW s, IsSeq(s), NEW o \in 1 .. Len(s), NEW x
  PROVE  /\ IsSeq(Put(s, o, x)) /\ Len(Put(s, o, x)) = Len(s)
         /\ Put(s, o, x)[o] = x
         /\ \A i \in 1 .. Len(s) : i # o => Put(s, o, x)[i] = s[i]
<1>1. PICK T : s \in Seq(T)
  BY DEF IsSeq
<1>2. Len(s) \in Nat /\ DOMAIN s = 1 .. Len(s)
  BY <1>1, LenProperties
<1>. DEFINE U == T \cup {x}
<1>3. s \in Seq(U) /\ x \in U
  BY <1>1
<1>. HIDE DEF U
<1>4. Put(s, o, x) \in Seq(U) /\ Len(Put(s, o, x)) = Len(s)
  BY <1>2, <1>3, ExceptSeq DEF Put
<1>5. Put(s, o, x)[o] = x /\ \A i \in DOMAIN s : i # o => Put(s, o, x)[i] = s[i]
  BY <1>2 DEF Put
<1>. QED  BY <1>2, <1>4, <1>5 DEF IsSeq

\* Sequences with the same elements are equal.
LEMMA AnyEqual ==
  ASSUME NEW s, IsSeq(s), NEW t, IsSeq(t), Len(s) = Len(t), \A i \in 1 .. Len(s) : s[i] = t[i]
  PROVE  s = t
<1>1. PICK T : s \in Seq(T)
  BY DEF IsSeq
<1>2. PICK U : t \in Seq(U)
  BY DEF IsSeq
<1>. DEFINE V == T \cup U
<1>3. s \in Seq(V) /\ t \in Seq(V)
  BY <1>1, <1>2
<1>. HIDE DEF V
<1>. QED  BY <1>3, SeqEqual


-----------------------------------------------------------------------------
(* Delegates.  The walk from an object is the least closed set, so a closed  *)
(* set that holds the first delegate bounds it.                              *)

Chained(h) == IsSeq(h) /\ \A o \in 1 .. Len(h) : h[o].delegate \in 0 .. Len(h)
Leads(h, o, S) == h[o].delegate # 0 => h[o].delegate \in S

LEMMA WalkFacts ==
  ASSUME NEW h, Chained(h), NEW o \in 1 .. Len(h)
  PROVE  /\ Delegates(h, o) \subseteq 1 .. Len(h) /\ Closed(h, Delegates(h, o))
         /\ Leads(h, o, Delegates(h, o))
<1>0. Len(h) \in Nat /\ DOMAIN h = 1 .. Len(h)
  BY AnySeq DEF Chained
<1>1. \A x : x \in Delegates(h, o) <=>
               x \in 1 .. Len(h) /\ \A S \in SUBSET (1 .. Len(h)) : Closed(h, S) /\ Leads(h, o, S) => x \in S
  BY <1>0 DEF Delegates, Leads
<1>2. \A x \in 1 .. Len(h) : h[x].delegate # 0 => h[x].delegate \in 1 .. Len(h)
  BY <1>0 DEF Chained
<1>3. ASSUME NEW x \in Delegates(h, o), h[x].delegate # 0 PROVE h[x].delegate \in Delegates(h, o)
  <2>1. x \in 1 .. Len(h)
    BY <1>1
  <2>2. ASSUME NEW S \in SUBSET (1 .. Len(h)), Closed(h, S), Leads(h, o, S) PROVE h[x].delegate \in S
    BY <1>1, <1>3, <2>2 DEF Closed
  <2>. QED  BY <1>1, <1>2, <1>3, <2>1, <2>2
<1>4. Leads(h, o, Delegates(h, o))
  BY <1>1, <1>2 DEF Leads
<1>. QED  BY <1>1, <1>3, <1>4 DEF Closed

LEMMA WalkWithin ==
  ASSUME NEW h, Chained(h), NEW o \in 1 .. Len(h),
         NEW S, S \subseteq 1 .. Len(h), Closed(h, S), Leads(h, o, S)
  PROVE  Delegates(h, o) \subseteq S
<1>0. DOMAIN h = 1 .. Len(h)
  BY AnySeq DEF Chained
<1>. QED  BY <1>0 DEF Delegates, Leads

Acyclic(h) == \A o \in 1 .. Len(h) : o \notin Delegates(h, o)

\* Objects whose delegates stay as they are.
SameDelegates(h, k) == /\ Len(k) = Len(h) /\ IsSeq(k)
                       /\ \A o \in 1 .. Len(h) : k[o].delegate = h[o].delegate

LEMMA AcyclicSame ==
  ASSUME NEW h, Chained(h), Acyclic(h), NEW k, SameDelegates(h, k)
  PROVE  Chained(k) /\ Acyclic(k)
<1>1. Chained(k)
  BY DEF Chained, SameDelegates
<1>2. ASSUME NEW o \in 1 .. Len(h) PROVE o \notin Delegates(k, o)
  <2>1. /\ Delegates(h, o) \subseteq 1 .. Len(h) /\ Closed(h, Delegates(h, o))
        /\ Leads(h, o, Delegates(h, o)) /\ o \notin Delegates(h, o)
    BY WalkFacts DEF Acyclic
  <2>2. Closed(k, Delegates(h, o)) /\ Leads(k, o, Delegates(h, o))
    BY <2>1 DEF Closed, Leads, SameDelegates
  <2>3. Delegates(k, o) \subseteq Delegates(h, o)
    BY <1>1, <2>1, <2>2, WalkWithin DEF SameDelegates
  <2>. QED  BY <2>1, <2>3
<1>. QED  BY <1>1, <1>2 DEF Acyclic, SameDelegates

\* A new object, with a delegate of those that were there or none.
LEMMA AcyclicNew ==
  ASSUME NEW h, Chained(h), Acyclic(h), NEW x, x.delegate \in 0 .. Len(h)
  PROVE  Chained(Append(h, x)) /\ Acyclic(Append(h, x))
<1>. DEFINE k == Append(h, x)
            N == Len(h)
<1>1. IsSeq(k) /\ Len(k) = N + 1 /\ N \in Nat /\ (\A i \in 1 .. N : k[i] = h[i]) /\ k[N + 1] = x
  BY AnyAppend, AnySeq DEF Chained
<1>2. /\ x.delegate \in 0 .. N /\ \A o \in 1 .. N : h[o].delegate \in 0 .. N
      /\ \A o \in 1 .. N : o \notin Delegates(h, o)
  BY DEF Chained, Acyclic
<1>. HIDE DEF k
<1>3. /\ \A o \in 1 .. N + 1 : o \in 1 .. N \/ o = N + 1
      /\ \A o \in 1 .. N : o \in 1 .. N + 1 /\ o # N + 1
      /\ \A d \in 0 .. N : d \in 0 .. N + 1 /\ (d # 0 => d \in 1 .. N)
      /\ N + 1 \in 1 .. N + 1
  BY <1>1
<1>4. Chained(k)
  <2>1. \A o \in 1 .. N + 1 : k[o].delegate \in 0 .. N
    BY <1>1, <1>2, <1>3
  <2>. QED  BY <1>1, <1>3, <2>1 DEF Chained
<1>5. ASSUME NEW o \in 1 .. N PROVE o \notin Delegates(k, o)
  <2>1. /\ Delegates(h, o) \subseteq 1 .. N /\ Closed(h, Delegates(h, o)) /\ Leads(h, o, Delegates(h, o))
        /\ o \notin Delegates(h, o)
    BY <1>2, WalkFacts
  <2>2. Closed(k, Delegates(h, o)) /\ Leads(k, o, Delegates(h, o)) /\ Delegates(h, o) \subseteq 1 .. Len(k)
    BY <1>1, <1>3, <2>1 DEF Closed, Leads
  <2>3. Delegates(k, o) \subseteq Delegates(h, o)
    BY <1>1, <1>3, <1>4, <2>2, WalkWithin
  <2>. QED  BY <2>1, <2>3
<1>6. N + 1 \notin Delegates(k, N + 1)
  <2>1. Closed(k, 1 .. N) /\ Leads(k, N + 1, 1 .. N) /\ 1 .. N \subseteq 1 .. Len(k)
    BY <1>1, <1>2, <1>3 DEF Closed, Leads
  <2>2. Delegates(k, N + 1) \subseteq 1 .. N
    <3>1. N + 1 \in 1 .. Len(k)
      BY <1>1, <1>3
    <3>. HIDE DEF N
    <3>. QED  BY <1>4, <2>1, <3>1, WalkWithin
  <2>. QED  BY <1>3, <2>2
<1>. QED  BY <1>1, <1>3, <1>4, <1>5, <1>6 DEF Acyclic, k

\* SQDelegable::SetDelegate: mt may become the delegate of o when o is not among
\* those mt falls back to.
LEMMA AcyclicSet ==
  ASSUME NEW h, Chained(h), Acyclic(h), NEW o \in 1 .. Len(h), NEW mt \in 0 .. Len(h),
         MayDelegate(h, o, mt), NEW k, IsSeq(k), Len(k) = Len(h), k[o].delegate = mt,
         \A x \in 1 .. Len(h) : x # o => k[x].delegate = h[x].delegate
  PROVE  Chained(k) /\ Acyclic(k)
<1>0. Chained(k)
  BY DEF Chained
<1>. DEFINE D(x) == Delegates(h, x)
<1>1. \A x \in 1 .. Len(h) : D(x) \subseteq 1 .. Len(h) /\ Closed(h, D(x)) /\ Leads(h, x, D(x)) /\ x \notin D(x)
  BY WalkFacts DEF Acyclic
<1>. HIDE DEF D
<1>2. \A x \in 1 .. Len(h) : \A S : S \subseteq 1 .. Len(h) /\ Closed(k, S) /\ Leads(k, x, S) => Delegates(k, x) \subseteq S
  BY <1>0, WalkWithin
<1>3. CASE mt = 0
  <2>1. \A x \in 1 .. Len(h) : Closed(k, D(x)) /\ Leads(k, x, D(x))
    BY <1>1, <1>3 DEF Closed, Leads
  <2>2. \A x \in 1 .. Len(h) : x \notin Delegates(k, x)
    BY <1>1, <1>2, <2>1
  <2>. QED  BY <1>0, <2>2 DEF Acyclic
<1>4. CASE mt # 0
  <2>. DEFINE A == D(mt) \cup {mt}
  <2>1. mt \in 1 .. Len(h) /\ o \notin A
    <3>1. Len(h) \in Nat
      BY AnySeq DEF Chained
    <3>. QED  BY <1>4, <3>1 DEF MayDelegate, D
  <2>2. A \subseteq 1 .. Len(h) /\ Closed(h, A)
    BY <1>1, <2>1 DEF Closed, Leads
  <2>. HIDE DEF A
  <2>3. Closed(k, A)
    BY <2>1, <2>2 DEF Closed
  <2>4. Leads(k, o, A)
    BY DEF Leads, A
  <2>5. o \notin Delegates(k, o)
    BY <1>2, <2>1, <2>2, <2>3, <2>4
  <2>6. ASSUME NEW x \in 1 .. Len(h), x # o, x \in A PROVE x \notin Delegates(k, x)
    <3>1. D(x) \subseteq A
      BY <2>2, <2>6, WalkWithin DEF D, Closed, Leads
    <3>2. Closed(k, D(x)) /\ Leads(k, x, D(x))
      BY <1>1, <2>1, <2>6, <3>1 DEF Closed, Leads
    <3>. QED  BY <1>1, <1>2, <3>2
  <2>7. ASSUME NEW x \in 1 .. Len(h), x # o, x \notin A PROVE x \notin Delegates(k, x)
    <3>1. Closed(k, D(x) \cup A)
      <4>1. ASSUME NEW y \in D(x) \cup A, k[y].delegate # 0 PROVE k[y].delegate \in D(x) \cup A
        <5>1. y \in 1 .. Len(h)
          BY <1>1, <2>2
        <5>2. CASE y = o
          BY <5>2 DEF A
        <5>3. CASE y # o
          BY <1>1, <2>2, <4>1, <5>1, <5>3 DEF Closed
        <5>. QED  BY <5>2, <5>3
      <4>. QED  BY <4>1 DEF Closed
    <3>2. Leads(k, x, D(x) \cup A)
      BY <1>1, <2>7 DEF Leads
    <3>3. Delegates(k, x) \subseteq D(x) \cup A
      BY <1>1, <1>2, <2>2, <3>1, <3>2
    <3>. QED  BY <1>1, <2>7, <3>3
  <2>. QED  BY <1>0, <2>5, <2>6, <2>7 DEF Acyclic
<1>. QED  BY <1>3, <1>4


-----------------------------------------------------------------------------
(* Values.  One that names an object or a closure names one there is. *)

Sound(v, h, c) ==
  /\ Type(v) \in {"table", "userdata"} => v[2] \in 1 .. Len(h) /\ h[v[2]].kind = Type(v)
  /\ Type(v) = "closure" => v[2] \in 1 .. Len(c)
  /\ Type(v) = "null" => v = Null

\* Objects are never removed and keep their kind; closures are never removed.
Grown(h, c, k, d) ==
  /\ Len(h) <= Len(k) /\ Len(c) <= Len(d)
  /\ \A o \in 1 .. Len(h) : k[o].kind = h[o].kind

ObjectOK(x, h, c) ==
  /\ x = [kind |-> x.kind, slots |-> x.slots, delegate |-> x.delegate]
  /\ x.kind \in {"table", "userdata"}
  /\ \A k \in DOMAIN x.slots : Sound(x.slots[k], h, c)

HeapOK(h, c) ==
  /\ Chained(h) /\ Acyclic(h)
  /\ \A o \in 1 .. Len(h) : ObjectOK(h[o], h, c)

\* The free variables are those the host gave, the pointer of the trampoline last.
Outers(x) == IF x.wrapped THEN Append(x.given, Pointer(x.data)) ELSE x.given

ClosureOK(x, h, c) ==
  /\ x = [outers |-> x.outers, wrapped |-> x.wrapped, nparamscheck |-> x.nparamscheck,
          env |-> x.env, given |-> x.given, data |-> x.data]
  /\ IsSeq(x.given) /\ x.wrapped \in BOOLEAN /\ x.outers = Outers(x)
  /\ \A i \in 1 .. Len(x.outers) : Sound(x.outers[i], h, c)
  /\ Sound(x.env, h, c)

ClosuresOK(h, c) == IsSeq(c) /\ \A n \in 1 .. Len(c) : ClosureOK(c[n], h, c)

LEMMA SoundGrows ==
  ASSUME NEW h, NEW c, NEW k, NEW d, Chained(h), Chained(k), IsSeq(c), IsSeq(d), Grown(h, c, k, d),
         NEW v, Sound(v, h, c)
  PROVE  Sound(v, k, d)
<1>1. Len(h) \in Nat /\ Len(k) \in Nat /\ Len(c) \in Nat /\ Len(d) \in Nat
  BY AnySeq DEF Chained
<1>2. \A n \in 1 .. Len(h) : n \in 1 .. Len(k)
  BY <1>1 DEF Grown
<1>3. \A n \in 1 .. Len(c) : n \in 1 .. Len(d)
  BY <1>1 DEF Grown
<1>. QED  BY <1>2, <1>3 DEF Sound, Grown

LEMMA PlainSound ==
  ASSUME NEW h, NEW c
  PROVE  /\ Sound(Null, h, c) /\ Sound(Error, h, c) /\ \A k : Sound(String(k), h, c)
         /\ \A k : Sound(Pointer(k), h, c)
         /\ \A k : /\ Sound(<<"_get", k>>, h, c) /\ Sound(<<"default", k>>, h, c)
                   /\ Sound(<<"_delslot", k>>, h, c)
BY DEF Sound, Null, Error, String, Pointer, Type

\* The objects that stay keep what makes them right.
LEMMA ObjectGrows ==
  ASSUME NEW h, NEW c, NEW k, NEW d, Chained(h), Chained(k), IsSeq(c), IsSeq(d), Grown(h, c, k, d),
         NEW x, ObjectOK(x, h, c)
  PROVE  ObjectOK(x, k, d)
BY SoundGrows DEF ObjectOK

LEMMA ClosureGrows ==
  ASSUME NEW h, NEW c, NEW k, NEW d, Chained(h), Chained(k), IsSeq(c), IsSeq(d), Grown(h, c, k, d),
         NEW x, ClosureOK(x, h, c)
  PROVE  ClosureOK(x, k, d)
BY SoundGrows DEF ClosureOK

-----------------------------------------------------------------------------
(* What the operations make of the heap. *)

WithSlots(x, s) == [x EXCEPT !.slots = s]
WithDelegate(x, d) == [x EXCEPT !.delegate = d]

LEMMA ObjectForms ==
  ASSUME NEW h, NEW o \in DOMAIN h
  PROVE  /\ \A k, v : [h EXCEPT ![o].slots = With(@, k, v)] = Put(h, o, WithSlots(h[o], With(h[o].slots, k, v)))
         /\ \A k : [h EXCEPT ![o].slots = Without(@, k)] = Put(h, o, WithSlots(h[o], Without(h[o].slots, k)))
         /\ [h EXCEPT ![o].slots = <<>>] = Put(h, o, WithSlots(h[o], <<>>))
         /\ \A d : [h EXCEPT ![o].delegate = d] = Put(h, o, WithDelegate(h[o], d))
BY DEF Put, WithSlots, WithDelegate

LEMMA SlotsSound ==
  ASSUME NEW h, NEW c, NEW x, ObjectOK(x, h, c), NEW k, NEW v, Sound(v, h, c)
  PROVE  /\ \A j \in DOMAIN With(x.slots, k, v) : Sound(With(x.slots, k, v)[j], h, c)
         /\ \A j \in DOMAIN Without(x.slots, k) : Sound(Without(x.slots, k)[j], h, c)
BY DEF ObjectOK, With, Without

\* Slots of one object change.
LEMMA HeapWrite ==
  ASSUME NEW h, NEW c, HeapOK(h, c), IsSeq(c), NEW o \in 1 .. Len(h),
         NEW s, \A j \in DOMAIN s : Sound(s[j], h, c)
  PROVE  LET k == Put(h, o, WithSlots(h[o], s)) IN HeapOK(k, c) /\ Grown(h, c, k, c)
<1>. DEFINE x == WithSlots(h[o], s)
            k == Put(h, o, x)
<1>1. Chained(h) /\ Acyclic(h) /\ IsSeq(h) /\ \A i \in 1 .. Len(h) : ObjectOK(h[i], h, c)
  BY DEF HeapOK, Chained
<1>2. /\ x = [kind |-> x.kind, slots |-> x.slots, delegate |-> x.delegate]
      /\ x.kind = h[o].kind /\ x.slots = s /\ x.delegate = h[o].delegate
  <2>1. h[o] = [kind |-> h[o].kind, slots |-> h[o].slots, delegate |-> h[o].delegate]
    BY <1>1 DEF ObjectOK
  <2>2. x = [kind |-> h[o].kind, slots |-> s, delegate |-> h[o].delegate]
    BY <2>1 DEF WithSlots
  <2>. QED  BY <2>2
<1>. HIDE DEF x
<1>3. IsSeq(k) /\ Len(k) = Len(h) /\ k[o] = x /\ \A i \in 1 .. Len(h) : i # o => k[i] = h[i]
  BY <1>1, AnyPut
<1>. HIDE DEF k
<1>4. Len(h) <= Len(k) /\ Len(c) <= Len(c)
  BY <1>1, <1>3, AnySeq
<1>5. Grown(h, c, k, c)
  BY <1>2, <1>3, <1>4 DEF Grown
<1>6. SameDelegates(h, k)
  BY <1>2, <1>3 DEF SameDelegates
<1>7. Chained(k) /\ Acyclic(k)
  BY <1>1, <1>6, AcyclicSame
<1>8. ASSUME NEW i \in 1 .. Len(h) PROVE ObjectOK(k[i], k, c)
  <2>1. ObjectOK(x, h, c)
    <3>1. x.kind \in {"table", "userdata"}
      BY <1>1, <1>2 DEF ObjectOK
    <3>. QED  BY <1>2, <3>1 DEF ObjectOK
  <2>2. ObjectOK(k[i], h, c)
    BY <1>1, <1>3, <2>1
  <2>. QED  BY <1>1, <1>5, <1>7, <2>2, ObjectGrows
<1>. QED  BY <1>3, <1>5, <1>7, <1>8 DEF HeapOK, k, x

\* A new object.
LEMMA HeapNew ==
  ASSUME NEW h, NEW c, HeapOK(h, c), IsSeq(c), NEW x, ObjectOK(x, h, c), x.delegate \in 0 .. Len(h)
  PROVE  HeapOK(Append(h, x), c) /\ Grown(h, c, Append(h, x), c)
<1>. DEFINE k == Append(h, x)
            N == Len(h)
<1>1. Chained(h) /\ Acyclic(h) /\ IsSeq(h) /\ \A i \in 1 .. Len(h) : ObjectOK(h[i], h, c)
  BY DEF HeapOK, Chained
<1>2. IsSeq(k) /\ Len(k) = N + 1 /\ N \in Nat /\ (\A i \in 1 .. N : k[i] = h[i]) /\ k[N + 1] = x
  BY <1>1, AnyAppend, AnySeq
<1>3. Chained(k) /\ Acyclic(k)
  BY <1>1, AcyclicNew
<1>. HIDE DEF k
<1>4. N <= Len(k) /\ Len(c) <= Len(c)
  BY <1>2, AnySeq
<1>5. Grown(h, c, k, c)
  BY <1>2, <1>4 DEF Grown
<1>6. ASSUME NEW i \in 1 .. N + 1 PROVE ObjectOK(k[i], k, c)
  <2>1. ObjectOK(k[i], h, c)
    <3>1. i \in 1 .. N \/ i = N + 1
      BY <1>2
    <3>. QED  BY <1>1, <1>2, <3>1
  <2>. QED  BY <1>1, <1>3, <1>5, <2>1, ObjectGrows
<1>. QED  BY <1>2, <1>3, <1>5, <1>6 DEF HeapOK, k

\* Another delegate.
LEMMA HeapSetDelegate ==
  ASSUME NEW h, NEW c, HeapOK(h, c), IsSeq(c), NEW o \in 1 .. Len(h), NEW mt \in 0 .. Len(h)
  PROVE  HeapOK(SetDelegate(h, o, mt), c) /\ Grown(h, c, SetDelegate(h, o, mt), c)
<1>. DEFINE x == WithDelegate(h[o], mt)
            k == Put(h, o, x)
<1>1. Chained(h) /\ Acyclic(h) /\ IsSeq(h) /\ \A i \in 1 .. Len(h) : ObjectOK(h[i], h, c)
  BY DEF HeapOK, Chained
<1>0. Len(h) <= Len(h) /\ Len(c) <= Len(c) /\ o \in DOMAIN h
  BY <1>1, AnySeq
<1>2. CASE ~MayDelegate(h, o, mt)
  BY <1>0, <1>2 DEF SetDelegate, Grown
<1>3. CASE MayDelegate(h, o, mt)
  <2>1. SetDelegate(h, o, mt) = k
    BY <1>0, <1>3, ObjectForms DEF SetDelegate
  <2>2. /\ x = [kind |-> x.kind, slots |-> x.slots, delegate |-> x.delegate]
        /\ x.kind = h[o].kind /\ x.slots = h[o].slots /\ x.delegate = mt
    <3>1. h[o] = [kind |-> h[o].kind, slots |-> h[o].slots, delegate |-> h[o].delegate]
      BY <1>1 DEF ObjectOK
    <3>2. x = [kind |-> h[o].kind, slots |-> h[o].slots, delegate |-> mt]
      BY <3>1 DEF WithDelegate
    <3>. QED  BY <3>2
  <2>. HIDE DEF x
  <2>3. IsSeq(k) /\ Len(k) = Len(h) /\ k[o] = x /\ \A i \in 1 .. Len(h) : i # o => k[i] = h[i]
    BY <1>1, AnyPut
  <2>. HIDE DEF k
  <2>4. Grown(h, c, k, c)
    BY <1>0, <2>2, <2>3 DEF Grown
  <2>5. Chained(k) /\ Acyclic(k)
    BY <1>1, <1>3, <2>2, <2>3, AcyclicSet
  <2>6. ASSUME NEW i \in 1 .. Len(h) PROVE ObjectOK(k[i], k, c)
    <3>1. ObjectOK(x, h, c)
      BY <1>1, <2>2 DEF ObjectOK
    <3>2. ObjectOK(k[i], h, c)
      BY <1>1, <2>3, <3>1
    <3>. QED  BY <1>1, <2>4, <2>5, <3>2, ObjectGrows
  <2>. QED  BY <2>1, <2>3, <2>4, <2>5, <2>6 DEF HeapOK
<1>. QED  BY <1>2, <1>3


-----------------------------------------------------------------------------
(* Get and Set along the delegates. *)

\* Get is the last of the answers that GetOne gives at each depth.
GetLevels(f, h, k, ends) ==
  f = [i \in 0 .. Len(h) |-> [x \in DOMAIN h |->
         GetOne(h, x, k, IF i = 0 \/ h[x].delegate = 0 THEN Missing ELSE f[i - 1][h[x].delegate], ends)]]

LEMMA GetDefined ==
  ASSUME NEW h, IsSeq(h), NEW k, NEW ends
  PROVE  \E f : GetLevels(f, h, k, ends) /\ \A o : Get(h, o, k, ends) = f[Len(h)][o]
<1>. DEFINE N == Len(h)
            Step(i, y) == [x \in DOMAIN h |->
              GetOne(h, x, k, IF i = 0 \/ h[x].delegate = 0 THEN Missing ELSE y[h[x].delegate], ends)]
            Walk(f, n) == f = [i \in 0 .. n |-> Step(i, f[i - 1])]
            S == {n \in Nat : \E f : Walk(f, n)}
<1>0. N \in Nat
  BY AnySeq
<1>1. \A x, y : Step(0, x) = Step(0, y)
  OBVIOUS
<1>2. 0 \in S
  <2>. HIDE DEF Step
  <2>. DEFINE f == [i \in 0 .. 0 |-> Step(0, <<>>)]
  <2>1. \A i \in 0 .. 0 : i = 0
    OBVIOUS
  <2>2. \A i \in 0 .. 0 : Step(i, f[i - 1]) = Step(0, <<>>)
    BY <1>1, <2>1
  <2>3. Walk(f, 0)
    BY <2>2
  <2>. QED  BY <2>3
<1>3. ASSUME NEW n \in Nat, n \in S PROVE n + 1 \in S
  <2>. HIDE DEF Step
  <2>1. PICK f : f = [i \in 0 .. n |-> Step(i, f[i - 1])]
    BY <1>3
  <2>. DEFINE g == [i \in 0 .. n + 1 |-> IF i = n + 1 THEN Step(n + 1, f[n]) ELSE f[i]]
  <2>2. \A i \in 0 .. n : f[i] = Step(i, f[i - 1])
    BY <2>1
  <2>3. \A i \in 0 .. n : g[i] = f[i]
    OBVIOUS
  <2>4. g[n + 1] = Step(n + 1, f[n]) /\ g = [i \in 0 .. n + 1 |-> g[i]]
    OBVIOUS
  <2>. HIDE DEF g
  <2>5. ASSUME NEW i \in 0 .. n + 1 PROVE g[i] = Step(i, g[i - 1])
    <3>1. CASE i = n + 1
      <4>1. g[n + 1 - 1] = f[n]
        BY <2>3
      <4>. QED  BY <2>4, <3>1, <4>1
    <3>2. CASE i = 0
      BY <1>1, <2>2, <2>3, <3>2
    <3>3. CASE i \in 1 .. n
      <4>1. i - 1 \in 0 .. n /\ i \in 0 .. n
        BY <3>3
      <4>. QED  BY <2>2, <2>3, <4>1
    <3>. QED  BY <3>1, <3>2, <3>3
  <2>6. Walk(g, n + 1)
    BY <2>4, <2>5
  <2>. QED  BY <2>6
<1>4. \A n \in Nat : n \in S
  <2>. HIDE DEF S
  <2>. QED  BY <1>2, <1>3, SetInduction
<1>5. \E f : Walk(f, N)
  <2>. HIDE DEF Walk
  <2>. QED  BY <1>0, <1>4
<1>. QED  BY <1>5 DEF Get, GetLevels


\* Set is the last of the answers that SetOne gives at each depth.
SetLevels(f, h, k, v, ends) ==
  f = [i \in 0 .. Len(h) |-> [x \in DOMAIN h |->
         SetOne(h, x, k, v, IF i = 0 \/ h[x].delegate = 0 THEN Did(h, Missing) ELSE f[i - 1][h[x].delegate], ends)]]

LEMMA SetDefined ==
  ASSUME NEW h, IsSeq(h), NEW k, NEW v, NEW ends
  PROVE  \E f : SetLevels(f, h, k, v, ends) /\ \A o : Set(h, o, k, v, ends) = f[Len(h)][o]
<1>. DEFINE N == Len(h)
            Step(i, y) == [x \in DOMAIN h |->
              SetOne(h, x, k, v, IF i = 0 \/ h[x].delegate = 0 THEN Did(h, Missing) ELSE y[h[x].delegate], ends)]
            Walk(f, n) == f = [i \in 0 .. n |-> Step(i, f[i - 1])]
            S == {n \in Nat : \E f : Walk(f, n)}
<1>0. N \in Nat
  BY AnySeq
<1>1. \A x, y : Step(0, x) = Step(0, y)
  OBVIOUS
<1>2. 0 \in S
  <2>. HIDE DEF Step
  <2>. DEFINE f == [i \in 0 .. 0 |-> Step(0, <<>>)]
  <2>1. \A i \in 0 .. 0 : i = 0
    OBVIOUS
  <2>2. \A i \in 0 .. 0 : Step(i, f[i - 1]) = Step(0, <<>>)
    BY <1>1, <2>1
  <2>3. Walk(f, 0)
    BY <2>2
  <2>. QED  BY <2>3
<1>3. ASSUME NEW n \in Nat, n \in S PROVE n + 1 \in S
  <2>. HIDE DEF Step
  <2>1. PICK f : f = [i \in 0 .. n |-> Step(i, f[i - 1])]
    BY <1>3
  <2>. DEFINE g == [i \in 0 .. n + 1 |-> IF i = n + 1 THEN Step(n + 1, f[n]) ELSE f[i]]
  <2>2. \A i \in 0 .. n : f[i] = Step(i, f[i - 1])
    BY <2>1
  <2>3. \A i \in 0 .. n : g[i] = f[i]
    OBVIOUS
  <2>4. g[n + 1] = Step(n + 1, f[n]) /\ g = [i \in 0 .. n + 1 |-> g[i]]
    OBVIOUS
  <2>. HIDE DEF g
  <2>5. ASSUME NEW i \in 0 .. n + 1 PROVE g[i] = Step(i, g[i - 1])
    <3>1. CASE i = n + 1
      <4>1. g[n + 1 - 1] = f[n]
        BY <2>3
      <4>. QED  BY <2>4, <3>1, <4>1
    <3>2. CASE i = 0
      BY <1>1, <2>2, <2>3, <3>2
    <3>3. CASE i \in 1 .. n
      <4>1. i - 1 \in 0 .. n /\ i \in 0 .. n
        BY <3>3
      <4>. QED  BY <2>2, <2>3, <4>1
    <3>. QED  BY <3>1, <3>2, <3>3
  <2>6. Walk(g, n + 1)
    BY <2>4, <2>5
  <2>. QED  BY <2>6
<1>4. \A n \in Nat : n \in S
  <2>. HIDE DEF S
  <2>. QED  BY <1>2, <1>3, SetInduction
<1>5. \E f : Walk(f, N)
  <2>. HIDE DEF Walk
  <2>. QED  BY <1>0, <1>4
<1>. QED  BY <1>5 DEF Set, SetLevels


\* Every metamethod ends in one of the ways there are.
Ending(h, ends) == \A o \in 1 .. Len(h) : ends[o] \in {"ok", "clean", "error"}

Answer(g, h, c) == g.r = "ok" => Sound(g.v, h, c)

LEMMA GetOneSound ==
  ASSUME NEW h, NEW c, HeapOK(h, c), NEW o \in 1 .. Len(h), NEW k, NEW ends, Ending(h, ends),
         NEW d, Answer(d, h, c)
  PROVE  Answer(GetOne(h, o, k, d, ends), h, c)
<1>0. /\ Missing.r # "ok" /\ Failed.r # "ok" /\ \A v : Found(v).v = v
  BY DEF Missing, Failed, Found
<1>1. CASE Has(h, o, k)
  <2>1. Sound(h[o].slots[k], h, c)
    BY <1>1 DEF Has, HeapOK, ObjectOK
  <2>. QED  BY <1>0, <1>1, <2>1 DEF GetOne, Answer
<1>2. CASE ~Has(h, o, k)
  <2>1. Answer(CallGet(h, o, ends), h, c)
    <3>1. CallGet(h, o, ends) \in {Missing, Failed, Found(<<"_get", o>>)}
      <4>1. ends[o] \in {"ok", "clean", "error"}
        BY DEF Ending
      <4>. QED  BY <4>1 DEF CallGet
    <3>. QED  BY <1>0, <3>1, PlainSound DEF Answer
  <2>2. Answer(FallBackGet(h, o, d, ends), h, c)
    <3>1. Answer(Missing, h, c)
      BY <1>0 DEF Answer
    <3>. QED  BY <2>1, <3>1 DEF FallBackGet
  <2>3. Answer(InvokeDefaultDelegate(h, o, k), h, c)
    <3>1. Sound(<<"default", k>>, h, c)
      BY PlainSound
    <3>. QED  BY <1>0, <3>1 DEF InvokeDefaultDelegate, Answer
  <2>. QED  BY <1>2, <2>2, <2>3 DEF GetOne
<1>. QED  BY <1>1, <1>2

LEMMA GetSound ==
  ASSUME NEW h, NEW c, HeapOK(h, c), NEW o \in 1 .. Len(h), NEW k, NEW ends, Ending(h, ends)
  PROVE  Answer(Get(h, o, k, ends), h, c)
<1>. DEFINE N == Len(h)
            From(f, i, x) == IF i = 0 \/ h[x].delegate = 0 THEN Missing ELSE f[i - 1][h[x].delegate]
<1>0. IsSeq(h) /\ N \in Nat /\ DOMAIN h = 1 .. N
  BY AnySeq DEF HeapOK, Chained
<1>1. PICK f : GetLevels(f, h, k, ends) /\ \A p : Get(h, p, k, ends) = f[N][p]
  BY <1>0, GetDefined
<1>2. \A i \in 0 .. N : \A x \in 1 .. N : f[i][x] = GetOne(h, x, k, From(f, i, x), ends)
  <2>. DEFINE Row(i) == [x \in DOMAIN h |-> GetOne(h, x, k, From(f, i, x), ends)]
  <2>1. f = [i \in 0 .. N |-> Row(i)]
    BY <1>1 DEF GetLevels
  <2>2. \A i : \A x \in 1 .. N : Row(i)[x] = GetOne(h, x, k, From(f, i, x), ends)
    <3>. HIDE DEF From
    <3>. QED  BY <1>0
  <2>. HIDE DEF From, Row
  <2>3. \A i \in 0 .. N : f[i] = Row(i)
    BY <2>1
  <2>. QED  BY <2>2, <2>3
<1>. DEFINE S == {i \in Nat : i <= N => \A x \in 1 .. N : Answer(f[i][x], h, c)}
<1>3. Answer(Missing, h, c)
  BY DEF Answer, Missing
<1>4. 0 \in S
  <2>1. 0 \in 0 .. N /\ \A x \in 1 .. N : From(f, 0, x) = Missing
    BY <1>0
  <2>. HIDE DEF From
  <2>2. \A x \in 1 .. N : Answer(f[0][x], h, c)
    BY <1>2, <1>3, <2>1, GetOneSound
  <2>. QED  BY <2>2
<1>5. ASSUME NEW i \in Nat, i \in S PROVE i + 1 \in S
  <2>. SUFFICES ASSUME i + 1 <= N PROVE \A x \in 1 .. N : Answer(f[i + 1][x], h, c)
    OBVIOUS
  <2>1. \A x \in 1 .. N : Answer(f[i][x], h, c)
    BY <1>0, <1>5
  <2>2. i + 1 \in 0 .. N /\ i + 1 - 1 = i
    BY <1>0
  <2>3. \A x \in 1 .. N : h[x].delegate # 0 => h[x].delegate \in 1 .. N
    BY <1>0 DEF HeapOK, Chained
  <2>. HIDE DEF S
  <2>4. \A x \in 1 .. N : Answer(From(f, i + 1, x), h, c)
    BY <1>3, <2>1, <2>2, <2>3
  <2>. HIDE DEF From
  <2>. QED  BY <1>2, <2>2, <2>4, GetOneSound
<1>6. \A i \in Nat : i \in S
  <2>. HIDE DEF S
  <2>. QED  BY <1>4, <1>5, SetInduction
<1>7. Answer(f[N][o], h, c)
  BY <1>0, <1>6
<1>. QED  BY <1>1, <1>7

\* The heap after an operation is one the one before can become.
Became(d, h, c) == HeapOK(d.h, c) /\ Grown(h, c, d.h, c)

LEMMA DidForms ==
  ASSUME NEW h, NEW r
  PROVE  Did(h, r).h = h /\ Did(h, r).r = r.r /\ Did(h, r).v = r.v
BY DEF Did

LEMMA BecameSame ==
  ASSUME NEW h, NEW c, HeapOK(h, c), IsSeq(c), NEW r
  PROVE  Became(Did(h, r), h, c)
<1>1. Len(h) <= Len(h) /\ Len(c) <= Len(c)
  BY AnySeq DEF HeapOK, Chained
<1>. QED  BY <1>1, DidForms DEF Became, Grown

LEMMA BecameWith ==
  ASSUME NEW h, NEW c, HeapOK(h, c), IsSeq(c), NEW o \in 1 .. Len(h), NEW k, NEW v, Sound(v, h, c), NEW r
  PROVE  /\ Became(Did([h EXCEPT ![o].slots = With(@, k, v)], r), h, c)
         /\ Became(Did([h EXCEPT ![o].slots = Without(@, k)], r), h, c)
         /\ Became(Did([h EXCEPT ![o].slots = <<>>], r), h, c)
<1>1. o \in DOMAIN h /\ ObjectOK(h[o], h, c)
  BY AnySeq DEF HeapOK, Chained
<1>2. /\ \A j \in DOMAIN With(h[o].slots, k, v) : Sound(With(h[o].slots, k, v)[j], h, c)
      /\ \A j \in DOMAIN Without(h[o].slots, k) : Sound(Without(h[o].slots, k)[j], h, c)
  BY <1>1, SlotsSound
<1>3. \A j \in DOMAIN <<>> : Sound(<<>>[j], h, c)
  OBVIOUS
<1>4. \A s : (\A j \in DOMAIN s : Sound(s[j], h, c)) =>
               HeapOK(Put(h, o, WithSlots(h[o], s)), c) /\ Grown(h, c, Put(h, o, WithSlots(h[o], s)), c)
  BY HeapWrite
<1>5. Became(Did(Put(h, o, WithSlots(h[o], With(h[o].slots, k, v))), r), h, c)
  BY <1>2, <1>4, DidForms DEF Became
<1>6. Became(Did(Put(h, o, WithSlots(h[o], Without(h[o].slots, k))), r), h, c)
  BY <1>2, <1>4, DidForms DEF Became
<1>7. Became(Did(Put(h, o, WithSlots(h[o], <<>>)), r), h, c)
  BY <1>3, <1>4, DidForms DEF Became
<1>8. /\ [h EXCEPT ![o].slots = With(@, k, v)] = Put(h, o, WithSlots(h[o], With(h[o].slots, k, v)))
      /\ [h EXCEPT ![o].slots = Without(@, k)] = Put(h, o, WithSlots(h[o], Without(h[o].slots, k)))
      /\ [h EXCEPT ![o].slots = <<>>] = Put(h, o, WithSlots(h[o], <<>>))
  BY <1>1 DEF Put, WithSlots
<1>. QED  BY <1>5, <1>6, <1>7, <1>8

LEMMA SetOneSound ==
  ASSUME NEW h, NEW c, HeapOK(h, c), IsSeq(c), NEW o \in 1 .. Len(h), NEW k, NEW v, Sound(v, h, c),
         NEW ends, Ending(h, ends), NEW d, Became(d, h, c)
  PROVE  Became(SetOne(h, o, k, v, d, ends), h, c)
<1>1. Became(FallBackSet(h, o, d, ends), h, c)
  <2>1. FallBackSet(h, o, d, ends) \in {d, Did(h, Missing), Did(h, Failed), Did(h, Found(<<"_set", o>>))}
    <3>1. ends[o] \in {"ok", "clean", "error"}
      BY DEF Ending
    <3>. QED  BY <3>1 DEF FallBackSet
  <2>. QED  BY <2>1, BecameSame
<1>. QED  BY <1>1, BecameWith DEF SetOne

LEMMA SetSound ==
  ASSUME NEW h, NEW c, HeapOK(h, c), IsSeq(c), NEW o \in 1 .. Len(h), NEW k, NEW v, Sound(v, h, c),
         NEW ends, Ending(h, ends)
  PROVE  Became(Set(h, o, k, v, ends), h, c)
<1>. DEFINE N == Len(h)
            From(f, i, x) == IF i = 0 \/ h[x].delegate = 0 THEN Did(h, Missing) ELSE f[i - 1][h[x].delegate]
<1>0. IsSeq(h) /\ N \in Nat /\ DOMAIN h = 1 .. N
  BY AnySeq DEF HeapOK, Chained
<1>1. PICK f : SetLevels(f, h, k, v, ends) /\ \A p : Set(h, p, k, v, ends) = f[N][p]
  BY <1>0, SetDefined
<1>2. \A i \in 0 .. N : \A x \in 1 .. N : f[i][x] = SetOne(h, x, k, v, From(f, i, x), ends)
  <2>. DEFINE Row(i) == [x \in DOMAIN h |-> SetOne(h, x, k, v, From(f, i, x), ends)]
  <2>1. f = [i \in 0 .. N |-> Row(i)]
    BY <1>1 DEF SetLevels
  <2>2. \A i : \A x \in 1 .. N : Row(i)[x] = SetOne(h, x, k, v, From(f, i, x), ends)
    <3>. HIDE DEF From
    <3>. QED  BY <1>0
  <2>. HIDE DEF From, Row
  <2>3. \A i \in 0 .. N : f[i] = Row(i)
    BY <2>1
  <2>. QED  BY <2>2, <2>3
<1>. DEFINE S == {i \in Nat : i <= N => \A x \in 1 .. N : Became(f[i][x], h, c)}
<1>3. Became(Did(h, Missing), h, c)
  BY BecameSame
<1>4. 0 \in S
  <2>1. 0 \in 0 .. N /\ \A x \in 1 .. N : From(f, 0, x) = Did(h, Missing)
    BY <1>0
  <2>. HIDE DEF From
  <2>2. \A x \in 1 .. N : Became(f[0][x], h, c)
    BY <1>2, <1>3, <2>1, SetOneSound
  <2>. QED  BY <2>2
<1>5. ASSUME NEW i \in Nat, i \in S PROVE i + 1 \in S
  <2>. SUFFICES ASSUME i + 1 <= N PROVE \A x \in 1 .. N : Became(f[i + 1][x], h, c)
    OBVIOUS
  <2>1. \A x \in 1 .. N : Became(f[i][x], h, c)
    BY <1>0, <1>5
  <2>2. i + 1 \in 0 .. N /\ i + 1 - 1 = i
    BY <1>0
  <2>3. \A x \in 1 .. N : h[x].delegate # 0 => h[x].delegate \in 1 .. N
    BY <1>0 DEF HeapOK, Chained
  <2>. HIDE DEF S
  <2>4. \A x \in 1 .. N : Became(From(f, i + 1, x), h, c)
    BY <1>3, <2>1, <2>2, <2>3
  <2>. HIDE DEF From
  <2>. QED  BY <1>2, <2>2, <2>4, SetOneSound
<1>6. \A i \in Nat : i \in S
  <2>. HIDE DEF S
  <2>. QED  BY <1>4, <1>5, SetInduction
<1>7. Became(f[N][o], h, c)
  BY <1>0, <1>6
<1>. QED  BY <1>1, <1>7

LEMMA NewSlotSound ==
  ASSUME NEW h, NEW c, HeapOK(h, c), IsSeq(c), NEW o \in 1 .. Len(h), NEW k, NEW v, Sound(v, h, c), NEW ends
  PROVE  Became(NewSlot(h, o, k, v, ends), h, c)
<1>1. NewSlot(h, o, k, v, ends) \in {Did(h, Failed), Did(h, Found(<<"_newslot", o>>)),
                                     Did([h EXCEPT ![o].slots = With(@, k, v)], Found(o))}
  BY DEF NewSlot
<1>2. Became(Did([h EXCEPT ![o].slots = With(@, k, v)], Found(o)), h, c)
  BY BecameWith
<1>. QED  BY <1>1, <1>2, BecameSame

LEMMA DeleteSlotSound ==
  ASSUME NEW h, NEW c, HeapOK(h, c), IsSeq(c), NEW o \in 1 .. Len(h), NEW k, NEW ends
  PROVE  Became(DeleteSlot(h, o, k, ends), h, c) /\ Answer(DeleteSlot(h, o, k, ends), h, c)
<1>. DEFINE d == DeleteSlot(h, o, k, ends)
            w == [h EXCEPT ![o].slots = Without(@, k)]
<1>1. \/ d = Did(h, Failed) \/ d = Did(h, Found(<<"_delslot", o>>))
      \/ Has(h, o, k) /\ d = Did(w, Found(h[o].slots[k]))
  BY DEF DeleteSlot
<1>2. /\ Failed.r # "ok" /\ \A v : Found(v).v = v
  BY DEF Failed, Found
<1>3. Became(Did(w, Found(h[o].slots[k])), h, c)
  BY PlainSound, BecameWith
<1>. HIDE DEF w, d
<1>4. CASE d = Did(h, Failed)
  BY <1>2, <1>4, BecameSame, DidForms DEF Answer, d
<1>5. CASE d = Did(h, Found(<<"_delslot", o>>))
  <2>1. Sound(<<"_delslot", o>>, h, c)
    BY PlainSound
  <2>2. d.v = <<"_delslot", o>>
    BY <1>2, <1>5, DidForms
  <2>. QED  BY <1>5, <2>1, <2>2, BecameSame DEF Answer, d
<1>6. CASE Has(h, o, k) /\ d = Did(w, Found(h[o].slots[k]))
  <2>1. Sound(h[o].slots[k], h, c)
    BY <1>6 DEF Has, HeapOK, ObjectOK
  <2>. QED  BY <1>2, <1>3, <1>6, <2>1, DidForms DEF Answer, d
<1>. QED  BY <1>1, <1>4, <1>5, <1>6

LEMMA CloneSound ==
  ASSUME NEW h, NEW c, HeapOK(h, c), IsSeq(c), NEW o \in 1 .. Len(h), NEW ends
  PROVE  LET d == Clone(h, o, ends)
         IN  Became(d, h, c) /\ (d.r = "ok" => Sound(<<"table", d.v>>, d.h, c))
<1>. DEFINE d == Clone(h, o, ends)
            k == Append(h, h[o])
<1>1. \/ d = Did(h, Failed)
      \/ h[o].kind = "table" /\ d = Did(k, Found(Len(h) + 1))
  BY DEF Clone
<1>2. Failed.r # "ok" /\ Found(Len(h) + 1).v = Len(h) + 1
  BY DEF Failed, Found
<1>3. IsSeq(h) /\ Len(h) \in Nat /\ ObjectOK(h[o], h, c) /\ h[o].delegate \in 0 .. Len(h)
  BY AnySeq DEF HeapOK, Chained
<1>4. HeapOK(k, c) /\ Grown(h, c, k, c)
  BY <1>3, HeapNew
<1>5. Len(k) = Len(h) + 1 /\ k[Len(h) + 1] = h[o]
  BY <1>3, AnyAppend
<1>. HIDE DEF d, k
<1>6. CASE d = Did(h, Failed)
  BY <1>2, <1>6, BecameSame, DidForms DEF d
<1>7. CASE h[o].kind = "table" /\ d = Did(k, Found(Len(h) + 1))
  <2>1. d.h = k /\ d.v = Len(h) + 1
    BY <1>2, <1>7, DidForms
  <2>2. Sound(<<"table", Len(h) + 1>>, k, c)
    <3>1. Len(h) + 1 \in 1 .. Len(k)
      BY <1>3, <1>5
    <3>. QED  BY <1>5, <1>7, <3>1 DEF Sound, Type
  <2>. QED  BY <1>4, <2>1, <2>2 DEF Became, d
<1>. QED  BY <1>1, <1>6, <1>7 DEF d


-----------------------------------------------------------------------------
(* The shape of the stack: frames lie on each other, what is below a frame is *)
(* what was there when it was entered, and what is above the top is null.     *)

FrameBase(cl, n) == IF n = 0 THEN 0 ELSE Len(cl[n].below)

FrameOK(f, prev, M) ==
  /\ IsSeq(f.below) /\ prev < Len(f.below) /\ f.prevstkbase = Len(f.below) - prev
  /\ f.nargs \in Nat \ {0} /\ f.prevtop = f.prevstkbase + f.nargs /\ Len(f.below) + f.nargs <= M
  /\ f.retval \in BOOLEAN /\ f.callback \in BOOLEAN /\ (f.callback => f.retval)
  /\ f.served

Kept(f, st) == \A j \in 1 .. Len(f.below) : f.below[j] = st[j - 1]

FramesOK(cl, M) ==
  /\ IsSeq(cl)
  /\ \A n \in 0 .. Len(cl) : FrameBase(cl, n) \in Nat
  /\ \A n \in 1 .. Len(cl) : FrameOK(cl[n], FrameBase(cl, n - 1), M)
  /\ \A m, n \in 0 .. Len(cl) : m <= n => FrameBase(cl, m) <= FrameBase(cl, n)

Shape(st, t, b, cl, M) ==
  /\ M \in Nat /\ t \in Nat /\ b \in Nat /\ b <= t /\ t <= M
  /\ DOMAIN st = 0 .. M - 1
  /\ \A i \in 0 .. M - 1 : i >= t => st[i] = Null
  /\ FramesOK(cl, M) /\ b = FrameBase(cl, Len(cl))
  /\ \A n \in 1 .. Len(cl) : Kept(cl[n], st)

OK(st, t, b, cl, M, le, h, c) ==
  /\ Shape(st, t, b, cl, M) /\ HeapOK(h, c) /\ ClosuresOK(h, c)
  /\ \A i \in 0 .. M - 1 : Sound(st[i], h, c)
  /\ Sound(le, h, c)

\* A frame may do what it likes with its own part of the stack.
LEMMA ShapeMove ==
  ASSUME NEW st, NEW t, NEW b, NEW cl, NEW M, Shape(st, t, b, cl, M),
         NEW sn, NEW u \in Nat, DOMAIN sn = 0 .. M - 1, b <= u, u <= M,
         \A i \in 0 .. M - 1 : i < b => sn[i] = st[i],
         \A i \in 0 .. M - 1 : i >= u => sn[i] = Null
  PROVE  Shape(sn, u, b, cl, M)
<1>1. /\ M \in Nat /\ t \in Nat /\ b \in Nat /\ b <= t /\ t <= M /\ FramesOK(cl, M)
      /\ b = FrameBase(cl, Len(cl)) /\ \A n \in 1 .. Len(cl) : Kept(cl[n], st)
  BY DEF Shape
<1>2. IsSeq(cl) /\ Len(cl) \in Nat
  BY <1>1, AnySeq DEF FramesOK
<1>3. ASSUME NEW n \in 1 .. Len(cl) PROVE Kept(cl[n], sn)
  <2>1. Len(cl[n].below) \in Nat /\ Len(cl[n].below) <= b
    <3>1. n \in 0 .. Len(cl) /\ Len(cl) \in 0 .. Len(cl) /\ n <= Len(cl) /\ n # 0
      BY <1>2
    <3>. QED  BY <1>1, <3>1 DEF FramesOK, FrameBase
  <2>2. \A j \in 1 .. Len(cl[n].below) : j - 1 \in 0 .. M - 1 /\ j - 1 < b
    BY <1>1, <2>1
  <2>3. \A j \in 1 .. Len(cl[n].below) : sn[j - 1] = st[j - 1]
    BY <2>2
  <2>. QED  BY <1>1, <2>3 DEF Kept
<1>. QED  BY <1>1, <1>3 DEF Shape

LEMMA OKMove ==
  ASSUME NEW st, NEW t, NEW b, NEW cl, NEW M, NEW le, NEW h, NEW c, OK(st, t, b, cl, M, le, h, c),
         NEW sn, NEW u \in Nat, DOMAIN sn = 0 .. M - 1, b <= u, u <= M,
         \A i \in 0 .. M - 1 : i < b => sn[i] = st[i],
         \A i \in 0 .. M - 1 : i >= u => sn[i] = Null,
         \A i \in 0 .. M - 1 : Sound(sn[i], h, c)
  PROVE  OK(sn, u, b, cl, M, le, h, c)
BY ShapeMove DEF OK

LEMMA OKFacts ==
  ASSUME NEW st, NEW t, NEW b, NEW cl, NEW M, NEW le, NEW h, NEW c, OK(st, t, b, cl, M, le, h, c)
  PROVE  /\ M \in Nat /\ t \in Nat /\ b \in Nat /\ b <= t /\ t <= M /\ DOMAIN st = 0 .. M - 1
         /\ \A i \in 0 .. M - 1 : (i >= t => st[i] = Null) /\ Sound(st[i], h, c)
         /\ HeapOK(h, c) /\ ClosuresOK(h, c) /\ IsSeq(h) /\ IsSeq(c) /\ Sound(le, h, c)
         /\ Len(h) \in Nat /\ Len(c) \in Nat /\ DOMAIN h = 1 .. Len(h) /\ DOMAIN c = 1 .. Len(c)
         /\ FramesOK(cl, M)
<1>1. IsSeq(h) /\ IsSeq(c)
  BY DEF OK, HeapOK, Chained, ClosuresOK
<1>. QED  BY <1>1, AnySeq DEF OK, Shape

LEMMA OKPush ==
  ASSUME NEW st, NEW t, NEW b, NEW cl, NEW M, NEW le, NEW h, NEW c, OK(st, t, b, cl, M, le, h, c),
         t < M, NEW v, Sound(v, h, c)
  PROVE  OK([st EXCEPT ![t] = v], t + 1, b, cl, M, le, h, c)
<1>. DEFINE sn == [st EXCEPT ![t] = v]
<1>1. /\ M \in Nat /\ t \in Nat /\ b \in Nat /\ b <= t /\ DOMAIN st = 0 .. M - 1
      /\ \A i \in 0 .. M - 1 : (i >= t => st[i] = Null) /\ Sound(st[i], h, c)
  BY OKFacts
<1>2. t + 1 \in Nat /\ b <= t + 1 /\ t + 1 <= M /\ t \in 0 .. M - 1
  BY <1>1
<1>3. DOMAIN sn = 0 .. M - 1 /\ sn[t] = v /\ \A i \in 0 .. M - 1 : i # t => sn[i] = st[i]
  BY <1>1, <1>2
<1>. HIDE DEF sn
<1>4. \A i \in 0 .. M - 1 : i < b => sn[i] = st[i]
  BY <1>1, <1>3
<1>5. \A i \in 0 .. M - 1 : i >= t + 1 => sn[i] = Null
  BY <1>1, <1>3
<1>6. \A i \in 0 .. M - 1 : Sound(sn[i], h, c)
  BY <1>1, <1>3
<1>7. OK(sn, t + 1, b, cl, M, le, h, c)
  BY <1>2, <1>3, <1>4, <1>5, <1>6, OKMove
<1>. QED  BY <1>7 DEF sn

LEMMA OKPop ==
  ASSUME NEW st, NEW t, NEW b, NEW cl, NEW M, NEW le, NEW h, NEW c, OK(st, t, b, cl, M, le, h, c),
         NEW n \in Nat, n <= t - b
  PROVE  OK(Popped(st, t, n), t - n, b, cl, M, le, h, c)
<1>. DEFINE sn == Popped(st, t, n)
<1>1. /\ M \in Nat /\ t \in Nat /\ b \in Nat /\ b <= t /\ t <= M /\ DOMAIN st = 0 .. M - 1
      /\ \A i \in 0 .. M - 1 : (i >= t => st[i] = Null) /\ Sound(st[i], h, c)
  BY OKFacts
<1>2. t - n \in Nat /\ b <= t - n /\ t - n <= M
  BY <1>1
<1>3. DOMAIN sn = 0 .. M - 1 /\ \A i \in 0 .. M - 1 : sn[i] = IF i >= t - n /\ i < t THEN Null ELSE st[i]
  BY <1>1 DEF Popped
<1>. HIDE DEF sn
<1>4. \A i \in 0 .. M - 1 : i < b => sn[i] = st[i]
  BY <1>1, <1>2, <1>3
<1>5. \A i \in 0 .. M - 1 : i >= t - n => sn[i] = Null
  BY <1>1, <1>2, <1>3
<1>6. \A i \in 0 .. M - 1 : Sound(sn[i], h, c)
  BY <1>1, <1>3, PlainSound
<1>7. OK(sn, t - n, b, cl, M, le, h, c)
  BY <1>2, <1>3, <1>4, <1>5, <1>6, OKMove
<1>. QED  BY <1>7 DEF sn

LEMMA OKReplace ==
  ASSUME NEW st, NEW t, NEW b, NEW cl, NEW M, NEW le, NEW h, NEW c, OK(st, t, b, cl, M, le, h, c),
         t > b, NEW v, Sound(v, h, c)
  PROVE  OK([st EXCEPT ![t - 1] = v], t, b, cl, M, le, h, c)
<1>. DEFINE sn == [st EXCEPT ![t - 1] = v]
<1>1. /\ M \in Nat /\ t \in Nat /\ b \in Nat /\ b <= t /\ t <= M /\ DOMAIN st = 0 .. M - 1
      /\ \A i \in 0 .. M - 1 : (i >= t => st[i] = Null) /\ Sound(st[i], h, c)
  BY OKFacts
<1>2. t - 1 \in 0 .. M - 1 /\ b <= t - 1
  BY <1>1
<1>3. DOMAIN sn = 0 .. M - 1 /\ sn[t - 1] = v /\ \A i \in 0 .. M - 1 : i # t - 1 => sn[i] = st[i]
  BY <1>1, <1>2
<1>. HIDE DEF sn
<1>4. \A i \in 0 .. M - 1 : i < b => sn[i] = st[i]
  BY <1>1, <1>2, <1>3
<1>5. \A i \in 0 .. M - 1 : i >= t => sn[i] = Null
  BY <1>1, <1>3
<1>6. \A i \in 0 .. M - 1 : Sound(sn[i], h, c)
  BY <1>1, <1>3
<1>7. OK(sn, t, b, cl, M, le, h, c)
  BY <1>1, <1>3, <1>4, <1>5, <1>6, OKMove
<1>. QED  BY <1>7 DEF sn

LEMMA OKHeap ==
  ASSUME NEW st, NEW t, NEW b, NEW cl, NEW M, NEW le, NEW h, NEW c, OK(st, t, b, cl, M, le, h, c),
         NEW k, HeapOK(k, c), Grown(h, c, k, c)
  PROVE  OK(st, t, b, cl, M, le, k, c)
<1>1. Chained(h) /\ Chained(k) /\ IsSeq(c)
  BY DEF OK, HeapOK, ClosuresOK
<1>2. \A v : Sound(v, h, c) => Sound(v, k, c)
  BY <1>1, SoundGrows
<1>3. ClosuresOK(k, c)
  BY <1>1, ClosureGrows DEF OK, ClosuresOK
<1>. QED  BY <1>2, <1>3 DEF OK

LEMMA OKClosures ==
  ASSUME NEW st, NEW t, NEW b, NEW cl, NEW M, NEW le, NEW h, NEW c, OK(st, t, b, cl, M, le, h, c),
         NEW d, ClosuresOK(h, d), Grown(h, c, h, d)
  PROVE  OK(st, t, b, cl, M, le, h, d)
<1>1. Chained(h) /\ IsSeq(c) /\ IsSeq(d)
  BY DEF OK, HeapOK, ClosuresOK
<1>2. \A v : Sound(v, h, c) => Sound(v, h, d)
  BY <1>1, SoundGrows
<1>3. HeapOK(h, d)
  BY <1>1, ObjectGrows DEF OK, HeapOK
<1>. QED  BY <1>2, <1>3 DEF OK

LEMMA OKError ==
  ASSUME NEW st, NEW t, NEW b, NEW cl, NEW M, NEW le, NEW h, NEW c, OK(st, t, b, cl, M, le, h, c),
         NEW v, Sound(v, h, c)
  PROVE  OK(st, t, b, cl, M, v, h, c)
BY DEF OK


-----------------------------------------------------------------------------
(* The invariant, and what the parts of an action make of it. *)

ApiInv == scene \in Scenes /\ OK(stack, top, base, calls, MaxStack, lasterror, heap, closures)

\* The state of the stack is right with what the action makes of errors and objects.
Mid == /\ scene \in Scenes
       /\ OK(stack, top, base, calls, MaxStack, lasterror', heap', closures')

LEMMA Untouched ==
  ASSUME ApiInv, NoError \/ Throw, SameData
  PROVE  Mid
<1>1. Sound(lasterror', heap, closures)
  BY OKFacts, PlainSound DEF ApiInv, NoError, Throw
<1>. QED  BY <1>1, OKError DEF ApiInv, Mid, SameData

LEMMA Touched ==
  ASSUME ApiInv, NoError \/ Throw, HeapOK(heap', closures), Grown(heap, closures, heap', closures), UNCHANGED closures
  PROVE  Mid
<1>1. Sound(lasterror', heap, closures)
  BY OKFacts, PlainSound DEF ApiInv, NoError, Throw
<1>2. OK(stack, top, base, calls, MaxStack, lasterror', heap, closures)
  BY <1>1, OKError DEF ApiInv
<1>. QED  BY <1>2, OKHeap DEF ApiInv, Mid

LEMMA Stayed ==
  ASSUME Mid, SameStack, SameRest
  PROVE  ApiInv'
<1>1. MaxStack' = MaxStack
  BY DEF MaxStack, SameRest
<1>. QED  BY <1>1 DEF Mid, SameStack, SameRest, ApiInv

LEMMA Refused ==
  ASSUME ApiInv, Refuse, SameRest
  PROVE  ApiInv'
BY Untouched, Stayed DEF Refuse

LEMMA Pushed ==
  ASSUME NEW v, Mid, Sound(v, heap', closures'), Push(v), SameRest
  PROVE  ApiInv'
<1>1. MaxStack' = MaxStack
  BY DEF MaxStack, SameRest
<1>2. OK(stack', top', base, calls, MaxStack, lasterror', heap', closures')
  BY OKPush DEF Mid, Push
<1>. QED  BY <1>1, <1>2 DEF Mid, SameRest, ApiInv

LEMMA PoppedRight ==
  ASSUME NEW n \in Nat, n <= top - base, Mid, Pop(n), SameRest
  PROVE  ApiInv'
<1>1. MaxStack' = MaxStack
  BY DEF MaxStack, SameRest
<1>2. OK(stack', top', base, calls, MaxStack, lasterror', heap', closures')
  BY OKPop DEF Mid, Pop
<1>. QED  BY <1>1, <1>2 DEF Mid, SameRest, ApiInv

LEMMA Replaced ==
  ASSUME NEW v, Mid, Sound(v, heap', closures'), top > base, Replace(v), SameRest
  PROVE  ApiInv'
<1>1. MaxStack' = MaxStack
  BY DEF MaxStack, SameRest
<1>2. OK(stack', top', base, calls, MaxStack, lasterror', heap', closures')
  BY OKReplace DEF Mid, Replace
<1>. QED  BY <1>1, <1>2 DEF Mid, SameRest, ApiInv

\* An index of the host names a value of its frame.
LEMMA IndexFacts ==
  ASSUME ApiInv, NEW idx \in Indices
  PROVE  /\ Slot(idx) \in base .. top - 1 /\ Slot(idx) \in 0 .. MaxStack - 1
         /\ Sound(At(idx), heap, closures) /\ top > base
<1>1. /\ MaxStack \in Nat /\ top \in Nat /\ base \in Nat /\ base <= top /\ top <= MaxStack
      /\ \A i \in 0 .. MaxStack - 1 : Sound(stack[i], heap, closures)
  BY OKFacts DEF ApiInv
<1>2. Slot(idx) \in base .. top - 1 /\ top > base
  <2>1. CASE idx \in 1 .. top - base
    BY <1>1, <2>1 DEF Slot
  <2>2. CASE idx \in {-i : i \in 1 .. top - base}
    <3>1. PICK i \in 1 .. top - base : idx = -i
      BY <2>2
    <3>. QED  BY <1>1, <3>1 DEF Slot
  <2>. QED  BY <2>1, <2>2 DEF Indices
<1>3. Slot(idx) \in 0 .. MaxStack - 1
  BY <1>1, <1>2
<1>. QED  BY <1>1, <1>2, <1>3 DEF At

\* The values on top.
LEMMA TopIndices ==
  ASSUME ApiInv
  PROVE  /\ top - base \in Nat
         /\ top > base => -1 \in Indices
         /\ top - base >= 2 => -2 \in Indices
         /\ \A n \in 1 .. top - base : -n \in Indices
<1>1. top \in Nat /\ base \in Nat /\ base <= top
  BY OKFacts DEF ApiInv
<1>2. top - base \in Nat /\ \A n \in 1 .. top - base : -n \in Indices
  BY <1>1 DEF Indices
<1>3. (top > base => 1 \in 1 .. top - base) /\ (top - base >= 2 => 2 \in 1 .. top - base)
  BY <1>1
<1>. QED  BY <1>2, <1>3

\* A value that is an object names one of the heap.
LEMMA ObjectFacts ==
  ASSUME NEW v, NEW h, NEW c, Sound(v, h, c), IsObject(v)
  PROVE  v[2] \in 1 .. Len(h)
BY DEF Sound, IsObject

LEMMA EndFacts ==
  ASSUME ApiInv, NEW end \in Ends
  PROVE  Ending(heap, AllEnd(end))
<1>1. DOMAIN heap = 1 .. Len(heap)
  BY OKFacts DEF ApiInv
<1>. QED  BY <1>1 DEF Ending, AllEnd, Ends

-----------------------------------------------------------------------------
(* Values on the stack. *)

LEMMA NewObjectRight ==
  ASSUME ApiInv, NEW kind \in {"table", "userdata"}, NewObject(kind)
  PROVE  ApiInv'
<1>. DEFINE x == [kind |-> kind, slots |-> <<>>, delegate |-> 0]
<1>1. /\ HeapOK(heap, closures) /\ IsSeq(heap) /\ IsSeq(closures) /\ Len(heap) \in Nat
  BY OKFacts DEF ApiInv
<1>2. ObjectOK(x, heap, closures) /\ x.delegate \in 0 .. Len(heap) /\ x.kind = kind
  <2>1. x = [kind |-> x.kind, slots |-> x.slots, delegate |-> x.delegate]
    OBVIOUS
  <2>2. \A k \in DOMAIN x.slots : Sound(x.slots[k], heap, closures)
    OBVIOUS
  <2>3. x.kind \in {"table", "userdata"} /\ x.delegate = 0 /\ 0 \in 0 .. Len(heap) /\ x.kind = kind
    BY <1>1
  <2>. HIDE DEF x
  <2>. QED  BY <2>1, <2>2, <2>3 DEF ObjectOK
<1>3. heap' = Append(heap, x) /\ UNCHANGED closures /\ NoError /\ SameRest /\ Push(<<kind, Len(heap) + 1>>)
  BY DEF NewObject
<1>. HIDE DEF x
<1>4. Mid
  BY <1>1, <1>2, <1>3, HeapNew, Touched
<1>5. Len(heap') = Len(heap) + 1 /\ heap'[Len(heap) + 1] = x /\ Len(heap) + 1 \in 1 .. Len(heap) + 1
  BY <1>1, <1>3, AnyAppend
<1>6. Sound(<<kind, Len(heap) + 1>>, heap', closures')
  BY <1>2, <1>5 DEF Sound, Type
<1>. QED  BY <1>3, <1>4, <1>6, Pushed

LEMMA PushesRight ==
  ASSUME ApiInv, PushNull \/ PushString \/ SqPush \/ NewTable \/ NewUserData \/ GetLastError
  PROVE  ApiInv'
<1>1. CASE PushNull
  <2>1. Sound(Null, heap', closures')
    BY PlainSound
  <2>. QED  BY <1>1, <2>1, Untouched, Pushed DEF PushNull
<1>2. CASE PushString
  <2>1. PICK k \in Names : Push(String(k)) /\ NoError /\ SameData /\ SameRest
    BY <1>2 DEF PushString
  <2>2. Sound(String(k), heap', closures')
    BY PlainSound
  <2>. QED  BY <2>1, <2>2, Untouched, Pushed
<1>3. CASE SqPush
  <2>1. PICK idx \in Indices : Push(At(idx)) /\ NoError /\ SameData /\ SameRest
    BY <1>3 DEF SqPush
  <2>2. Sound(At(idx), heap', closures')
    BY <2>1, IndexFacts DEF SameData
  <2>. QED  BY <2>1, <2>2, Untouched, Pushed
<1>4. CASE NewTable
  BY <1>4, NewObjectRight DEF NewTable
<1>5. CASE NewUserData
  BY <1>5, NewObjectRight DEF NewUserData
<1>6. CASE GetLastError
  <2>1. Push(lasterror) /\ NoError /\ SameData /\ SameRest
    BY <1>6 DEF GetLastError
  <2>2. Sound(lasterror, heap', closures')
    BY <2>1, OKFacts DEF SameData, ApiInv
  <2>. QED  BY <2>1, <2>2, Untouched, Pushed
<1>. QED  BY <1>1, <1>2, <1>3, <1>4, <1>5, <1>6

LEMMA PopsRight ==
  ASSUME ApiInv, SqPop \/ ThrowObject \/ ResetError
  PROVE  ApiInv'
<1>1. CASE SqPop
  <2>1. PICK n \in 1 .. top - base : Pop(n) /\ NoError /\ SameData /\ SameRest
    BY <1>1 DEF SqPop
  <2>2. n \in Nat /\ n <= top - base
    BY TopIndices
  <2>. QED  BY <2>1, <2>2, Untouched, PoppedRight
<1>2. CASE ThrowObject
  <2>1. top > base /\ lasterror' = At(-1) /\ Pop(1) /\ SameData /\ SameRest
    BY <1>2 DEF ThrowObject
  <2>2. Sound(At(-1), heap, closures)
    BY <2>1, TopIndices, IndexFacts
  <2>3. Mid
    BY <2>1, <2>2, OKError DEF ApiInv, Mid, SameData
  <2>4. 1 \in Nat /\ 1 <= top - base
    BY <2>1, OKFacts DEF ApiInv
  <2>. QED  BY <2>1, <2>3, <2>4, PoppedRight
<1>3. CASE ResetError
  <2>1. lasterror' = Null /\ SameStack /\ SameData /\ SameRest
    BY <1>3 DEF ResetError
  <2>2. Sound(Null, heap, closures)
    BY PlainSound
  <2>3. Mid
    BY <2>1, <2>2, OKError DEF ApiInv, Mid, SameData
  <2>. QED  BY <2>1, <2>3, Stayed
<1>. QED  BY <1>1, <1>2, <1>3

\* A frame's own part of the stack is rearranged.
LEMMA Moved ==
  ASSUME Mid, SameRest, DOMAIN stack' = DOMAIN stack, top' \in Nat, base <= top', top' <= MaxStack,
         \A i \in 0 .. MaxStack - 1 : i < base => stack'[i] = stack[i],
         \A i \in 0 .. MaxStack - 1 : i >= top' => stack'[i] = Null,
         \A i \in 0 .. MaxStack - 1 : Sound(stack'[i], heap', closures')
  PROVE  ApiInv'
<1>1. MaxStack' = MaxStack
  BY DEF MaxStack, SameRest
<1>2. DOMAIN stack = 0 .. MaxStack - 1
  BY OKFacts DEF Mid
<1>3. OK(stack', top', base, calls, MaxStack, lasterror', heap', closures')
  BY <1>2, OKMove DEF Mid
<1>. QED  BY <1>1, <1>3 DEF Mid, SameRest, ApiInv

LEMMA OrderRight ==
  ASSUME ApiInv, SetTop \/ SqRemove
  PROVE  ApiInv'
<1>0. /\ MaxStack \in Nat /\ top \in Nat /\ base \in Nat /\ base <= top /\ top <= MaxStack
      /\ DOMAIN stack = 0 .. MaxStack - 1
      /\ \A i \in 0 .. MaxStack - 1 : (i >= top => stack[i] = Null) /\ Sound(stack[i], heap, closures)
  BY OKFacts DEF ApiInv
<1>1. CASE SetTop
  <2>1. PICK newtop \in 0 .. MaxStack - base :
          /\ stack' = [i \in DOMAIN stack |->
               IF (i >= base + newtop /\ i < top) \/ (i >= top /\ i < base + newtop) THEN Null ELSE stack[i]]
          /\ top' = base + newtop /\ NoError /\ SameData /\ SameRest
    BY <1>1 DEF SetTop
  <2>2. \A i \in 0 .. MaxStack - 1 :
           stack'[i] = IF (i >= base + newtop /\ i < top) \/ (i >= top /\ i < base + newtop) THEN Null ELSE stack[i]
    BY <1>0, <2>1
  <2>3. DOMAIN stack' = DOMAIN stack
    BY <2>1
  <2>4. top' \in Nat /\ base <= top' /\ top' <= MaxStack
    BY <1>0, <2>1
  <2>5. \A i \in 0 .. MaxStack - 1 : i < base => stack'[i] = stack[i]
    BY <1>0, <2>1, <2>2
  <2>6. \A i \in 0 .. MaxStack - 1 : i >= top' => stack'[i] = Null
    BY <1>0, <2>1, <2>2
  <2>7. \A i \in 0 .. MaxStack - 1 : Sound(stack'[i], heap', closures')
    BY <1>0, <2>1, <2>2, PlainSound DEF SameData
  <2>. QED  BY <2>1, <2>3, <2>4, <2>5, <2>6, <2>7, Untouched, Moved
<1>2. CASE SqRemove
  <2>1. PICK idx \in Indices :
          /\ stack' = [i \in DOMAIN stack |-> CASE i >= Slot(idx) /\ i < top -> IF i + 1 < MaxStack THEN stack[i + 1] ELSE Null
                                                [] i = top -> Null
                                                [] OTHER -> stack[i]]
          /\ top' = top - 1 /\ NoError /\ SameData /\ SameRest
    BY <1>2 DEF SqRemove
  <2>. DEFINE p == Slot(idx)
  <2>2. p \in base .. top - 1 /\ top > base
    BY IndexFacts
  <2>. HIDE DEF p
  <2>3. \A i \in 0 .. MaxStack - 1 :
           stack'[i] = CASE i >= p /\ i < top -> IF i + 1 < MaxStack THEN stack[i + 1] ELSE Null
                         [] i = top -> Null
                         [] OTHER -> stack[i]
    BY <1>0, <2>1 DEF p
  <2>4. DOMAIN stack' = DOMAIN stack
    BY <2>1
  <2>5. top' \in Nat /\ base <= top' /\ top' <= MaxStack
    BY <1>0, <2>1, <2>2
  <2>6. \A i \in 0 .. MaxStack - 1 : i < base => stack'[i] = stack[i]
    BY <1>0, <2>2, <2>3
  <2>7. \A i \in 0 .. MaxStack - 1 : i + 1 < MaxStack => i + 1 \in 0 .. MaxStack - 1
    BY <1>0
  <2>8. \A i \in 0 .. MaxStack - 1 : i >= top' => stack'[i] = Null
    BY <1>0, <2>1, <2>2, <2>3, <2>7
  <2>9. \A i \in 0 .. MaxStack - 1 : Sound(stack'[i], heap', closures')
    BY <1>0, <2>1, <2>3, <2>7, PlainSound DEF SameData
  <2>. QED  BY <2>1, <2>4, <2>5, <2>6, <2>8, <2>9, Untouched, Moved
<1>. QED  BY <1>1, <1>2

-----------------------------------------------------------------------------
(* Slots. *)

\* An operation that gave d has changed the heap.
LEMMA Changed ==
  ASSUME ApiInv, NoError \/ Throw, NEW d, Became(d, heap, closures), heap' = d.h, UNCHANGED closures
  PROVE  Mid
BY Touched DEF Became

LEMMA SlotFacts ==
  ASSUME ApiInv
  PROVE  HeapOK(heap, closures) /\ IsSeq(closures) /\ IsSeq(heap) /\ DOMAIN heap = 1 .. Len(heap)
BY OKFacts DEF ApiInv

LEMMA SqNewSlotRight ==
  ASSUME ApiInv, SqNewSlot
  PROVE  ApiInv'
<1>0. SameRest
  BY DEF SqNewSlot
<1>1. PICK idx \in Indices :
       CASE top - base < 3 -> Refuse
         [] top - base >= 3 /\ Type(At(idx)) # "table" -> SameStack /\ SameData /\ NoError
         [] top - base >= 3 /\ Type(At(idx)) = "table" /\ At(-2) = Null -> Refuse
         [] OTHER -> /\ IsKey(At(-2))
                     /\ \E end \in Ends : \E d \in {NewSlot(heap, At(idx)[2], KeyOf(At(-2)), At(-1), AllEnd(end))} :
                          /\ heap' = d.h
                          /\ IF d.r = "ok" THEN NoError ELSE Throw
                     /\ Pop(2) /\ UNCHANGED closures
  BY DEF SqNewSlot
<1>2. CASE top - base < 3
  <2>1. top - base < 3 /\ ~(top - base >= 3)
    BY <1>2, TopIndices
  <2>2. Refuse
    BY <1>1, <2>1
  <2>. QED  BY <1>0, <2>2, Refused
<1>3. CASE ~(top - base < 3) /\ Type(At(idx)) # "table"
  <2>1. top - base >= 3
    BY <1>3, TopIndices
  <2>2. SameStack /\ SameData /\ NoError
    BY <1>1, <1>3, <2>1
  <2>. QED  BY <1>0, <2>2, Untouched, Stayed
<1>4. CASE ~(top - base < 3) /\ Type(At(idx)) = "table" /\ At(-2) = Null
  <2>1. top - base >= 3
    BY <1>4, TopIndices
  <2>2. Refuse
    BY <1>1, <1>4, <2>1
  <2>. QED  BY <1>0, <2>2, Refused
<1>5. CASE ~(top - base < 3) /\ Type(At(idx)) = "table" /\ At(-2) # Null
  <2>1. top - base >= 3
    BY <1>5, TopIndices
  <2>2. /\ \E end \in Ends : \E d \in {NewSlot(heap, At(idx)[2], KeyOf(At(-2)), At(-1), AllEnd(end))} :
             /\ heap' = d.h
             /\ IF d.r = "ok" THEN NoError ELSE Throw
        /\ Pop(2) /\ UNCHANGED closures
    BY <1>1, <1>5, <2>1
  <2>3. PICK end \in Ends : LET d == NewSlot(heap, At(idx)[2], KeyOf(At(-2)), At(-1), AllEnd(end))
                            IN  heap' = d.h /\ (NoError \/ Throw)
    BY <2>2
  <2>4. At(idx)[2] \in 1 .. Len(heap)
    BY <1>5, IndexFacts, ObjectFacts DEF IsObject
  <2>5. Sound(At(-1), heap, closures) /\ 2 \in Nat /\ 2 <= top - base
    BY <2>1, TopIndices, IndexFacts
  <2>. DEFINE d == NewSlot(heap, At(idx)[2], KeyOf(At(-2)), At(-1), AllEnd(end))
  <2>6. Became(d, heap, closures)
    BY <2>4, <2>5, SlotFacts, NewSlotSound
  <2>7. heap' = d.h /\ (NoError \/ Throw)
    BY <2>3
  <2>. HIDE DEF d
  <2>. QED  BY <1>0, <2>2, <2>5, <2>6, <2>7, Changed, PoppedRight
<1>. QED  BY <1>2, <1>3, <1>4, <1>5

\* What is deleted is pushed in place of the key or not.
LEMMA TakenRight ==
  ASSUME NEW pushval \in BOOLEAN, NEW v, Mid, Sound(v, heap', closures'), top > base, top - base \in Nat,
         Taken(pushval, v), SameRest
  PROVE  ApiInv'
<1>1. CASE pushval
  BY <1>1, Replaced DEF Taken
<1>2. CASE ~pushval
  <2>1. 1 \in Nat /\ 1 <= top - base
    BY OKFacts DEF Mid
  <2>. QED  BY <1>2, <2>1, PoppedRight DEF Taken
<1>. QED  BY <1>1, <1>2

LEMMA SqDeleteSlotRight ==
  ASSUME ApiInv, SqDeleteSlot
  PROVE  ApiInv'
<1>0. SameRest
  BY DEF SqDeleteSlot
<1>1. PICK idx \in Indices, pushval \in BOOLEAN :
       IF top - base < 2 \/ Type(At(idx)) # "table" \/ At(-1) = Null THEN Refuse
       ELSE /\ IsKey(At(-1))
            /\ \E end \in Ends : \E d \in {DeleteSlot(heap, At(idx)[2], KeyOf(At(-1)), AllEnd(end))} :
                 /\ heap' = d.h
                 /\ IF d.r = "ok" THEN Taken(pushval, d.v) /\ NoError ELSE Pop(1) /\ Throw
            /\ UNCHANGED closures
  BY DEF SqDeleteSlot
<1>2. CASE top - base < 2 \/ Type(At(idx)) # "table" \/ At(-1) = Null
  BY <1>0, <1>1, <1>2, Refused
<1>3. CASE ~(top - base < 2 \/ Type(At(idx)) # "table" \/ At(-1) = Null)
  <2>1. top > base /\ top - base \in Nat /\ 1 \in Nat /\ 1 <= top - base
    BY <1>3, OKFacts DEF ApiInv
  <2>2. PICK end \in Ends : \E d \in {DeleteSlot(heap, At(idx)[2], KeyOf(At(-1)), AllEnd(end))} :
          /\ heap' = d.h
          /\ IF d.r = "ok" THEN Taken(pushval, d.v) /\ NoError ELSE Pop(1) /\ Throw
          /\ UNCHANGED closures
    BY <1>1, <1>3
  <2>. DEFINE d == DeleteSlot(heap, At(idx)[2], KeyOf(At(-1)), AllEnd(end))
  <2>3. /\ heap' = d.h /\ UNCHANGED closures
        /\ IF d.r = "ok" THEN Taken(pushval, d.v) /\ NoError ELSE Pop(1) /\ Throw
    BY <2>2
  <2>4. At(idx)[2] \in 1 .. Len(heap)
    BY <1>3, IndexFacts, ObjectFacts DEF IsObject
  <2>5. Became(d, heap, closures) /\ Answer(d, heap, closures)
    BY <2>4, SlotFacts, DeleteSlotSound
  <2>. HIDE DEF d
  <2>6. Mid
    BY <2>3, <2>5, Changed
  <2>7. CASE d.r = "ok"
    <3>1. Sound(d.v, heap, closures) /\ Chained(heap) /\ Chained(heap') /\ IsSeq(closures)
          /\ Grown(heap, closures, heap', closures)
      BY <2>3, <2>5, <2>7, SlotFacts DEF Answer, Became, HeapOK
    <3>2. Sound(d.v, heap', closures')
      BY <2>3, <3>1, SoundGrows
    <3>. QED  BY <1>0, <2>1, <2>3, <2>6, <2>7, <3>2, TakenRight
  <2>8. CASE d.r # "ok"
    BY <1>0, <2>1, <2>3, <2>6, <2>8, PoppedRight
  <2>. QED  BY <2>7, <2>8
<1>. QED  BY <1>2, <1>3

LEMMA RawDeleteSlotRight ==
  ASSUME ApiInv, RawDeleteSlot
  PROVE  ApiInv'
<1>0. SameRest
  BY DEF RawDeleteSlot
<1>1. PICK idx \in Indices, pushval \in BOOLEAN :
       IF top - base < 2 \/ Type(At(idx)) # "table" THEN Refuse
       ELSE LET o == At(idx)[2]
                k == KeyOf(At(-1))
            IN  /\ IsKey(At(-1))
                /\ heap' = [heap EXCEPT ![o].slots = Without(@, k)]
                /\ Taken(pushval, IF Has(heap, o, k) THEN heap[o].slots[k] ELSE Null)
                /\ NoError /\ UNCHANGED closures
  BY DEF RawDeleteSlot
<1>2. CASE top - base < 2 \/ Type(At(idx)) # "table"
  BY <1>0, <1>1, <1>2, Refused
<1>3. CASE ~(top - base < 2 \/ Type(At(idx)) # "table")
  <2>1. top > base /\ top - base \in Nat
    BY <1>3, OKFacts DEF ApiInv
  <2>. DEFINE o == At(idx)[2]
              k == KeyOf(At(-1))
              w == [heap EXCEPT ![o].slots = Without(@, k)]
              v == IF Has(heap, o, k) THEN heap[o].slots[k] ELSE Null
  <2>2. heap' = w /\ Taken(pushval, v) /\ NoError /\ UNCHANGED closures
    BY <1>1, <1>3
  <2>3. o \in 1 .. Len(heap)
    BY <1>3, IndexFacts, ObjectFacts DEF IsObject
  <2>. HIDE DEF o, k
  <2>4. Sound(v, heap, closures)
    <3>1. ObjectOK(heap[o], heap, closures)
      BY <2>3, SlotFacts DEF HeapOK
    <3>. QED  BY <3>1, PlainSound DEF Has, ObjectOK
  <2>. HIDE DEF v
  <2>5. Became(Did(w, Missing), heap, closures) /\ Did(w, Missing).h = w
    BY <2>3, SlotFacts, PlainSound, BecameWith, DidForms
  <2>. HIDE DEF w
  <2>6. Mid
    BY <2>2, <2>5, Changed
  <2>7. Chained(heap) /\ Chained(heap') /\ IsSeq(closures) /\ Grown(heap, closures, heap', closures)
    BY <2>2, <2>5, SlotFacts DEF Became, HeapOK
  <2>8. Sound(v, heap', closures')
    BY <2>2, <2>4, <2>7, SoundGrows
  <2>. QED  BY <1>0, <2>1, <2>2, <2>6, <2>8, TakenRight
<1>. QED  BY <1>2, <1>3

LEMMA SqSetRight ==
  ASSUME ApiInv, SqSet
  PROVE  ApiInv'
<1>0. SameRest /\ top - base >= 2
  BY DEF SqSet
<1>1. PICK idx \in Indices :
        \/ ~IsObject(At(idx)) /\ Refuse
        \/ IsObject(At(idx)) /\ (SetUnusedNode(At(idx)[2]) \/ SetSlot(At(idx)[2]))
  BY DEF SqSet
<1>. DEFINE o == At(idx)[2]
            v == At(-1)
            key == KeyOf(At(-2))
<1>2. CASE ~IsObject(At(idx))
  BY <1>0, <1>1, <1>2, Refused
<1>3. Sound(v, heap, closures) /\ 2 \in Nat /\ 2 <= top - base
  BY <1>0, TopIndices, IndexFacts
<1>4. CASE IsObject(At(idx)) /\ SetUnusedNode(o)
  <2>1. o \in 1 .. Len(heap)
    BY <1>4, IndexFacts, ObjectFacts
  <2>. HIDE DEF o
  <2>2. PICK x \in Tried(o) : heap' = [heap EXCEPT ![x].slots = With(@, Unused, v)]
    BY <1>4 DEF SetUnusedNode
  <2>3. Pop(2) /\ NoError /\ UNCHANGED closures
    BY <1>4 DEF SetUnusedNode
  <2>4. x \in 1 .. Len(heap)
    BY <2>1, <2>2, SlotFacts, WalkFacts DEF Tried, HeapOK
  <2>. DEFINE w == [heap EXCEPT ![x].slots = With(@, Unused, v)]
  <2>5. Became(Did(w, Missing), heap, closures) /\ Did(w, Missing).h = w
    BY <1>3, <2>4, SlotFacts, BecameWith, DidForms
  <2>6. heap' = w
    BY <2>2
  <2>. HIDE DEF w
  <2>7. Mid
    BY <2>3, <2>5, <2>6, Changed
  <2>. QED  BY <1>0, <1>3, <2>3, <2>7, PoppedRight
<1>5. CASE IsObject(At(idx)) /\ SetSlot(o)
  <2>1. o \in 1 .. Len(heap)
    BY <1>5, IndexFacts, ObjectFacts
  <2>. HIDE DEF o
  <2>2. PICK end \in Ends : \E d \in {Set(heap, o, key, v, AllEnd(end))} :
          /\ heap' = d.h /\ UNCHANGED closures
          /\ IF d.r = "ok" THEN Pop(2) ELSE SameStack
          /\ IF d.r = "ok" /\ ~Raised(o, key) THEN NoError ELSE Throw
    BY <1>5 DEF SetSlot
  <2>. DEFINE d == Set(heap, o, key, v, AllEnd(end))
  <2>3. /\ heap' = d.h /\ UNCHANGED closures
        /\ IF d.r = "ok" THEN Pop(2) ELSE SameStack
        /\ NoError \/ Throw
    BY <2>2
  <2>4. Became(d, heap, closures)
    BY <1>3, <2>1, SlotFacts, EndFacts, SetSound
  <2>. HIDE DEF d
  <2>5. Mid
    BY <2>3, <2>4, Changed
  <2>. QED  BY <1>0, <1>3, <2>3, <2>5, PoppedRight, Stayed
<1>. QED  BY <1>1, <1>2, <1>4, <1>5

LEMMA RawSetRight ==
  ASSUME ApiInv, RawSet
  PROVE  ApiInv'
<1>0. SameRest /\ top - base >= 2 /\ Pop(2) /\ UNCHANGED closures
  BY DEF RawSet
<1>1. PICK idx \in Indices :
       IF At(-2) = Null \/ Type(At(idx)) # "table" THEN UNCHANGED heap /\ Throw
       ELSE heap' = [heap EXCEPT ![At(idx)[2]].slots = With(@, KeyOf(At(-2)), At(-1))] /\ NoError
  BY DEF RawSet
<1>2. Mid
  <2>1. CASE At(-2) = Null \/ Type(At(idx)) # "table"
    BY <1>0, <1>1, <2>1, Untouched DEF SameData
  <2>2. CASE ~(At(-2) = Null \/ Type(At(idx)) # "table")
    <3>. DEFINE w == [heap EXCEPT ![At(idx)[2]].slots = With(@, KeyOf(At(-2)), At(-1))]
    <3>1. heap' = w /\ NoError
      BY <1>1, <2>2
    <3>2. At(idx)[2] \in 1 .. Len(heap)
      BY <2>2, IndexFacts, ObjectFacts DEF IsObject
    <3>3. Sound(At(-1), heap, closures)
      BY <1>0, TopIndices, IndexFacts
    <3>4. Became(Did(w, Missing), heap, closures) /\ Did(w, Missing).h = w
      BY <3>2, <3>3, SlotFacts, BecameWith, DidForms
    <3>. HIDE DEF w
    <3>. QED  BY <1>0, <3>1, <3>4, Changed
  <2>. QED  BY <2>1, <2>2
<1>3. 2 \in Nat /\ 2 <= top - base
  BY <1>0, TopIndices
<1>. QED  BY <1>0, <1>2, <1>3, PoppedRight

LEMMA SqGetRight ==
  ASSUME ApiInv, SqGet \/ RawGet
  PROVE  ApiInv'
<1>0. SameData /\ SameRest /\ top > base
  BY DEF SqGet, RawGet
<1>1. 1 \in Nat /\ 1 <= top - base
  BY <1>0, OKFacts DEF ApiInv
<1>2. ASSUME Pop(1), Throw PROVE ApiInv'
  BY <1>0, <1>1, <1>2, Untouched, PoppedRight
<1>3. ASSUME NEW v, Sound(v, heap, closures), Replace(v), NoError PROVE ApiInv'
  <2>1. Sound(v, heap', closures')
    BY <1>0, <1>3 DEF SameData
  <2>. QED  BY <1>0, <1>3, <2>1, Untouched, Replaced
<1>4. CASE SqGet
  <2>1. PICK idx \in Indices :
          \/ ~IsObject(At(idx)) /\ Pop(1) /\ Throw
          \/ HasMethod(At(idx), KeyOf(At(-1))) /\ Replace(<<"default", KeyOf(At(-1))>>) /\ NoError
          \/ /\ IsObject(At(idx))
             /\ \E end \in Ends : \E g \in {Get(heap, At(idx)[2], KeyOf(At(-1)), AllEnd(end))} :
                  IF g.r = "ok" THEN Replace(g.v) /\ NoError ELSE Pop(1) /\ Throw
    BY <1>4 DEF SqGet
  <2>2. CASE Pop(1) /\ Throw
    BY <1>2, <2>2
  <2>4. CASE Replace(<<"default", KeyOf(At(-1))>>) /\ NoError
    BY <1>3, <2>4, PlainSound
  <2>3. CASE /\ IsObject(At(idx))
             /\ \E end \in Ends : \E g \in {Get(heap, At(idx)[2], KeyOf(At(-1)), AllEnd(end))} :
                  IF g.r = "ok" THEN Replace(g.v) /\ NoError ELSE Pop(1) /\ Throw
    <3>1. PICK end \in Ends : \E g \in {Get(heap, At(idx)[2], KeyOf(At(-1)), AllEnd(end))} :
             IF g.r = "ok" THEN Replace(g.v) /\ NoError ELSE Pop(1) /\ Throw
      BY <2>3
    <3>. DEFINE g == Get(heap, At(idx)[2], KeyOf(At(-1)), AllEnd(end))
    <3>2. IF g.r = "ok" THEN Replace(g.v) /\ NoError ELSE Pop(1) /\ Throw
      BY <3>1
    <3>3. At(idx)[2] \in 1 .. Len(heap)
      BY <2>3, IndexFacts, ObjectFacts
    <3>4. Answer(g, heap, closures)
      BY <3>3, SlotFacts, EndFacts, GetSound
    <3>. HIDE DEF g
    <3>. QED  BY <1>2, <1>3, <3>2, <3>4 DEF Answer
  <2>. QED  BY <2>1, <2>2, <2>3, <2>4
<1>5. CASE RawGet
  <2>1. PICK idx \in Indices :
         IF Type(At(idx)) = "table" /\ Has(heap, At(idx)[2], KeyOf(At(-1)))
         THEN Replace(heap[At(idx)[2]].slots[KeyOf(At(-1))]) /\ NoError
         ELSE Pop(1) /\ Throw
    BY <1>5 DEF RawGet
  <2>. DEFINE o == At(idx)[2]
              k == KeyOf(At(-1))
  <2>2. CASE Type(At(idx)) = "table" /\ Has(heap, o, k)
    <3>1. Replace(heap[o].slots[k]) /\ NoError
      BY <2>1, <2>2
    <3>2. o \in 1 .. Len(heap)
      BY <2>2, IndexFacts, ObjectFacts DEF IsObject
    <3>. HIDE DEF o, k
    <3>3. Sound(heap[o].slots[k], heap, closures)
      <4>1. ObjectOK(heap[o], heap, closures)
        BY <3>2, SlotFacts DEF HeapOK
      <4>. QED  BY <2>2, <4>1 DEF Has, ObjectOK
    <3>. QED  BY <1>3, <3>1, <3>3
  <2>3. CASE ~(Type(At(idx)) = "table" /\ Has(heap, o, k))
    BY <1>2, <2>1, <2>3
  <2>. QED  BY <2>2, <2>3
<1>. QED  BY <1>4, <1>5

LEMMA ClearRight ==
  ASSUME ApiInv, Clear
  PROVE  ApiInv'
<1>0. SameRest
  BY DEF Clear
<1>1. PICK idx \in Indices :
       IF Type(At(idx)) # "table" THEN Refuse
       ELSE /\ heap' = [heap EXCEPT ![At(idx)[2]].slots = <<>>]
            /\ SameStack /\ NoError /\ UNCHANGED closures
  BY DEF Clear
<1>2. CASE Type(At(idx)) # "table"
  BY <1>0, <1>1, <1>2, Refused
<1>3. CASE Type(At(idx)) = "table"
  <2>. DEFINE w == [heap EXCEPT ![At(idx)[2]].slots = <<>>]
  <2>1. heap' = w /\ SameStack /\ NoError /\ UNCHANGED closures
    BY <1>1, <1>3
  <2>2. At(idx)[2] \in 1 .. Len(heap)
    BY <1>3, IndexFacts, ObjectFacts DEF IsObject
  <2>3. Became(Did(w, Missing), heap, closures) /\ Did(w, Missing).h = w
    BY <2>2, SlotFacts, PlainSound, BecameWith, DidForms
  <2>. HIDE DEF w
  <2>. QED  BY <1>0, <2>1, <2>3, Changed, Stayed
<1>. QED  BY <1>2, <1>3

LEMMA SqCloneRight ==
  ASSUME ApiInv, SqClone
  PROVE  ApiInv'
<1>0. SameRest
  BY DEF SqClone
<1>1. PICK idx \in Indices :
       IF ~IsObject(At(idx)) THEN Refuse
       ELSE /\ \E end \in Ends : \E d \in {Clone(heap, At(idx)[2], AllEnd(end))} :
                 /\ Len(d.h) <= scene.objs
                 /\ heap' = d.h
                 /\ IF d.r = "ok" THEN Push(<<"table", d.v>>) /\ NoError ELSE SameStack /\ Throw
            /\ UNCHANGED closures
  BY DEF SqClone
<1>2. CASE ~IsObject(At(idx))
  BY <1>0, <1>1, <1>2, Refused
<1>3. CASE IsObject(At(idx))
  <2>1. PICK end \in Ends : \E d \in {Clone(heap, At(idx)[2], AllEnd(end))} :
          /\ heap' = d.h /\ UNCHANGED closures
          /\ IF d.r = "ok" THEN Push(<<"table", d.v>>) /\ NoError ELSE SameStack /\ Throw
    BY <1>1, <1>3
  <2>. DEFINE d == Clone(heap, At(idx)[2], AllEnd(end))
  <2>2. /\ heap' = d.h /\ UNCHANGED closures
        /\ IF d.r = "ok" THEN Push(<<"table", d.v>>) /\ NoError ELSE SameStack /\ Throw
    BY <2>1
  <2>3. At(idx)[2] \in 1 .. Len(heap)
    BY <1>3, IndexFacts, ObjectFacts
  <2>4. Became(d, heap, closures) /\ (d.r = "ok" => Sound(<<"table", d.v>>, d.h, closures))
    BY <2>3, SlotFacts, CloneSound
  <2>. HIDE DEF d
  <2>5. Mid
    BY <2>2, <2>4, Changed
  <2>6. CASE d.r = "ok"
    <3>1. Sound(<<"table", d.v>>, heap', closures')
      BY <2>2, <2>4, <2>6
    <3>. QED  BY <1>0, <2>2, <2>5, <2>6, <3>1, Pushed
  <2>7. CASE d.r # "ok"
    BY <1>0, <2>2, <2>5, <2>7, Stayed
  <2>. QED  BY <2>6, <2>7
<1>. QED  BY <1>2, <1>3

LEMMA SqSetDelegateRight ==
  ASSUME ApiInv, SqSetDelegate
  PROVE  ApiInv'
<1>0. SameRest /\ top > base
  BY DEF SqSetDelegate
<1>. DEFINE mt == IF At(-1) = Null THEN 0 ELSE At(-1)[2]
<1>1. PICK idx \in Indices :
       LET o == At(idx)[2]
       IN  IF ~IsObject(At(idx)) \/ Type(At(-1)) \notin {"null", "table"} THEN Refuse
           ELSE IF Type(At(idx)) = "table" /\ ~MayDelegate(heap, o, mt) THEN Refuse
           ELSE heap' = SetDelegate(heap, o, mt) /\ Pop(1) /\ NoError /\ UNCHANGED closures
  BY DEF SqSetDelegate
<1>2. CASE Refuse
  BY <1>0, <1>2, Refused
<1>3. CASE ~Refuse
  <2>. DEFINE o == At(idx)[2]
  <2>1. IsObject(At(idx)) /\ Type(At(-1)) \in {"null", "table"}
    BY <1>1, <1>3
  <2>2. heap' = SetDelegate(heap, o, mt) /\ Pop(1) /\ NoError /\ UNCHANGED closures
    BY <1>1, <1>3
  <2>3. o \in 1 .. Len(heap)
    BY <2>1, IndexFacts, ObjectFacts
  <2>4. Sound(At(-1), heap, closures) /\ Len(heap) \in Nat
    BY <1>0, TopIndices, IndexFacts, OKFacts DEF ApiInv
  <2>5. mt \in 0 .. Len(heap)
    BY <2>1, <2>4 DEF Sound
  <2>. HIDE DEF mt, o
  <2>6. HeapOK(heap', closures) /\ Grown(heap, closures, heap', closures)
    BY <2>2, <2>3, <2>5, SlotFacts, HeapSetDelegate
  <2>7. 1 \in Nat /\ 1 <= top - base
    BY <1>0, OKFacts DEF ApiInv
  <2>. QED  BY <1>0, <2>2, <2>6, <2>7, Touched, PoppedRight
<1>. QED  BY <1>2, <1>3

LEMMA GetDelegateRight ==
  ASSUME ApiInv, GetDelegate
  PROVE  ApiInv'
<1>0. SameRest
  BY DEF GetDelegate
<1>1. PICK idx \in Indices :
       IF ~IsObject(At(idx)) THEN Refuse
       ELSE LET mt == heap[At(idx)[2]].delegate
            IN  Push(IF mt = 0 THEN Null ELSE Object(heap, mt)) /\ NoError /\ SameData
  BY DEF GetDelegate
<1>2. CASE ~IsObject(At(idx))
  BY <1>0, <1>1, <1>2, Refused
<1>3. CASE IsObject(At(idx))
  <2>. DEFINE mt == heap[At(idx)[2]].delegate
              v == IF mt = 0 THEN Null ELSE Object(heap, mt)
  <2>1. Push(v) /\ NoError /\ SameData
    BY <1>1, <1>3
  <2>2. At(idx)[2] \in 1 .. Len(heap)
    BY <1>3, IndexFacts, ObjectFacts
  <2>3. mt \in 0 .. Len(heap)
    BY <2>2, SlotFacts DEF HeapOK, Chained
  <2>. HIDE DEF mt
  <2>4. Sound(v, heap, closures)
    <3>1. CASE mt = 0
      BY <3>1, PlainSound
    <3>2. CASE mt # 0
      <4>1. mt \in 1 .. Len(heap)
        BY <2>3, <3>2, OKFacts DEF ApiInv
      <4>2. heap[mt].kind \in {"table", "userdata"}
        BY <4>1, SlotFacts DEF HeapOK, ObjectOK
      <4>. QED  BY <3>2, <4>1, <4>2 DEF Sound, Object, Type
    <3>. QED  BY <3>1, <3>2
  <2>. HIDE DEF v
  <2>5. Sound(v, heap', closures')
    BY <2>1, <2>4 DEF SameData
  <2>. QED  BY <1>0, <2>1, <2>5, Untouched, Pushed
<1>. QED  BY <1>2, <1>3

-----------------------------------------------------------------------------
(* Native closures. *)

LEMMA AnyReverse ==
  ASSUME NEW s, IsSeq(s)
  PROVE  /\ IsSeq(Reverse(s)) /\ Len(Reverse(s)) = Len(s)
         /\ \A i \in 1 .. Len(s) : Reverse(s)[i] = s[Len(s) - i + 1]
<1>1. Len(s) \in Nat
  BY AnySeq
<1>2. DOMAIN Reverse(s) = 1 .. Len(s) /\ Reverse(s) = [i \in 1 .. Len(s) |-> Reverse(s)[i]]
      /\ \A i \in 1 .. Len(s) : Reverse(s)[i] = s[Len(s) - i + 1]
  BY DEF Reverse
<1>. QED  BY <1>1, <1>2, AnyFunction

LEMMA ReverseTwice ==
  ASSUME NEW s, IsSeq(s)
  PROVE  Reverse(Reverse(s)) = s
<1>. DEFINE r == Reverse(s)
            q == Reverse(r)
<1>1. IsSeq(r) /\ Len(r) = Len(s) /\ \A i \in 1 .. Len(s) : r[i] = s[Len(s) - i + 1]
  BY AnyReverse
<1>2. IsSeq(q) /\ Len(q) = Len(r) /\ \A i \in 1 .. Len(r) : q[i] = r[Len(r) - i + 1]
  BY <1>1, AnyReverse
<1>3. Len(s) \in Nat
  BY AnySeq
<1>. HIDE DEF q, r
<1>4. ASSUME NEW i \in 1 .. Len(s) PROVE q[i] = s[i]
  <2>1. Len(s) - i + 1 \in 1 .. Len(s) /\ Len(s) - (Len(s) - i + 1) + 1 = i
    BY <1>3
  <2>. QED  BY <1>1, <1>2, <2>1
<1>5. q = s
  BY <1>1, <1>2, <1>4, AnyEqual
<1>. QED  BY <1>5 DEF q, r

LEMMA AnyConcat ==
  ASSUME NEW s, NEW u, IsSeq(s), IsSeq(u)
  PROVE  /\ IsSeq(s \o u) /\ Len(s \o u) = Len(s) + Len(u)
         /\ \A i \in 1 .. Len(s) + Len(u) : (s \o u)[i] = IF i <= Len(s) THEN s[i] ELSE u[i - Len(s)]
<1>1. PICK S : s \in Seq(S)
  BY DEF IsSeq
<1>2. PICK T : u \in Seq(T)
  BY DEF IsSeq
<1>. DEFINE U == S \cup T
<1>3. s \in Seq(U) /\ u \in Seq(U)
  BY <1>1, <1>2
<1>. HIDE DEF U
<1>. QED  BY <1>3, ConcatProperties DEF IsSeq

LEMMA AnyOne ==
  ASSUME NEW x
  PROVE  IsSeq(<<x>>) /\ Len(<<x>>) = 1 /\ <<x>>[1] = x
<1>1. <<x>> \in Seq({x})
  OBVIOUS
<1>. QED  BY <1>1 DEF IsSeq

\* squirrel_vm_new_closure and sq_newclosure together: the free variables in the
\* order in which the host numbers them, and the pointer after them.
LEMMA ReverseOver ==
  ASSUME NEW s, IsSeq(s), NEW x
  PROVE  Reverse(<<x>> \o s) = Append(Reverse(s), x)
<1>. DEFINE n == Len(s)
            a == <<x>> \o s
            r == Reverse(s)
            p == Reverse(a)
            q == Append(r, x)
<1>1. IsSeq(a) /\ Len(a) = 1 + n /\ \A i \in 1 .. 1 + n : a[i] = IF i <= 1 THEN <<x>>[i] ELSE s[i - 1]
  BY AnyConcat, AnyOne
<1>2. n \in Nat
  BY AnySeq
<1>3. a[1] = x /\ \A i \in 1 .. n : a[i + 1] = s[i]
  <2>1. 1 \in 1 .. 1 + n /\ \A i \in 1 .. n : i + 1 \in 1 .. 1 + n /\ ~(i + 1 <= 1) /\ i + 1 - 1 = i
    BY <1>2
  <2>. QED  BY <1>1, <2>1, AnyOne
<1>4. IsSeq(r) /\ Len(r) = n /\ \A i \in 1 .. n : r[i] = s[n - i + 1]
  BY AnyReverse
<1>. HIDE DEF a
<1>5. IsSeq(p) /\ Len(p) = 1 + n /\ \A i \in 1 .. 1 + n : p[i] = a[1 + n - i + 1]
  BY <1>1, AnyReverse
<1>6. IsSeq(q) /\ Len(q) = n + 1 /\ (\A i \in 1 .. n : q[i] = r[i]) /\ q[n + 1] = x
  BY <1>4, AnyAppend
<1>. HIDE DEF r, p, q, n
<1>7. ASSUME NEW i \in 1 .. 1 + n PROVE p[i] = q[i]
  <2>1. CASE i = n + 1
    <3>1. 1 + n - i + 1 = 1
      BY <1>2, <2>1
    <3>. QED  BY <1>3, <1>5, <1>6, <2>1, <3>1
  <2>2. CASE i # n + 1
    <3>1. i \in 1 .. n /\ 1 + n - i + 1 = (n - i + 1) + 1 /\ n - i + 1 \in 1 .. n
      BY <1>2, <2>2
    <3>2. p[i] = a[(n - i + 1) + 1] /\ q[i] = r[i]
      BY <1>5, <1>6, <3>1
    <3>. QED  BY <1>3, <1>4, <3>1, <3>2
  <2>. QED  BY <2>1, <2>2
<1>8. 1 + n = n + 1
  BY <1>2
<1>9. p = q
  BY <1>5, <1>6, <1>7, <1>8, AnyEqual
<1>. QED  BY <1>9 DEF p, q, a, r

LEMMA ClosuresNew ==
  ASSUME NEW h, NEW c, HeapOK(h, c), ClosuresOK(h, c), NEW x, ClosureOK(x, h, c)
  PROVE  ClosuresOK(h, Append(c, x)) /\ Grown(h, c, h, Append(c, x))
<1>. DEFINE d == Append(c, x)
            N == Len(c)
<1>1. IsSeq(c) /\ Chained(h) /\ IsSeq(h) /\ \A n \in 1 .. N : ClosureOK(c[n], h, c)
  BY DEF ClosuresOK, HeapOK, Chained
<1>2. IsSeq(d) /\ Len(d) = N + 1 /\ N \in Nat /\ (\A i \in 1 .. N : d[i] = c[i]) /\ d[N + 1] = x
  BY <1>1, AnyAppend, AnySeq
<1>. HIDE DEF d
<1>3. Grown(h, c, h, d)
  <2>1. Len(h) <= Len(h) /\ N <= Len(d)
    BY <1>1, <1>2, AnySeq
  <2>. QED  BY <2>1 DEF Grown
<1>4. ASSUME NEW i \in 1 .. N + 1 PROVE ClosureOK(d[i], h, d)
  <2>1. i \in 1 .. N \/ i = N + 1
    BY <1>2
  <2>2. ClosureOK(d[i], h, c)
    BY <1>1, <1>2, <2>1
  <2>. QED  BY <1>1, <1>2, <1>3, <2>2, ClosureGrows
<1>. QED  BY <1>2, <1>3, <1>4 DEF ClosuresOK, d

LEMMA ClosuresPut ==
  ASSUME NEW h, NEW c, HeapOK(h, c), ClosuresOK(h, c), NEW o \in 1 .. Len(c), NEW x, ClosureOK(x, h, c)
  PROVE  ClosuresOK(h, Put(c, o, x)) /\ Grown(h, c, h, Put(c, o, x))
<1>. DEFINE d == Put(c, o, x)
            N == Len(c)
<1>1. IsSeq(c) /\ Chained(h) /\ IsSeq(h) /\ \A n \in 1 .. N : ClosureOK(c[n], h, c)
  BY DEF ClosuresOK, HeapOK, Chained
<1>2. IsSeq(d) /\ Len(d) = N /\ d[o] = x /\ \A i \in 1 .. N : i # o => d[i] = c[i]
  BY <1>1, AnyPut
<1>. HIDE DEF d
<1>3. Grown(h, c, h, d)
  <2>1. Len(h) <= Len(h) /\ N <= Len(d)
    BY <1>1, <1>2, AnySeq
  <2>. QED  BY <2>1 DEF Grown
<1>4. ASSUME NEW i \in 1 .. N PROVE ClosureOK(d[i], h, d)
  <2>1. ClosureOK(d[i], h, c)
    BY <1>1, <1>2
  <2>. QED  BY <1>1, <1>2, <1>3, <2>1, ClosureGrows
<1>. QED  BY <1>2, <1>3, <1>4 DEF ClosuresOK, d

LEMMA TouchedClosures ==
  ASSUME ApiInv, NoError, UNCHANGED heap, ClosuresOK(heap, closures'), Grown(heap, closures, heap, closures')
  PROVE  Mid
<1>1. OK(stack, top, base, calls, MaxStack, lasterror, heap, closures')
  BY OKClosures DEF ApiInv
<1>. QED  BY <1>1 DEF ApiInv, Mid, NoError

\* The values a new closure takes off the stack.
LEMMA FrameFacts ==
  ASSUME ApiInv, NEW from \in Nat, NEW to \in Nat, from <= to, to <= top
  PROVE  /\ IsSeq(Frame(from, to)) /\ Len(Frame(from, to)) = to - from
         /\ \A i \in 1 .. to - from :
              /\ Frame(from, to)[i] = stack[from + i - 1] /\ from + i - 1 \in 0 .. MaxStack - 1
              /\ Sound(Frame(from, to)[i], heap, closures)
<1>1. /\ MaxStack \in Nat /\ top \in Nat /\ top <= MaxStack
      /\ \A i \in 0 .. MaxStack - 1 : Sound(stack[i], heap, closures)
  BY OKFacts DEF ApiInv
<1>2. to - from \in Nat /\ \A i \in 1 .. to - from : from + i - 1 \in 0 .. MaxStack - 1
  BY <1>1
<1>. DEFINE f == Frame(from, to)
<1>3. /\ DOMAIN f = 1 .. to - from /\ f = [i \in 1 .. to - from |-> f[i]]
      /\ \A i \in 1 .. to - from : f[i] = stack[from + i - 1]
  BY DEF Frame
<1>. HIDE DEF f
<1>4. IsSeq(f) /\ Len(f) = to - from
  BY <1>2, <1>3, AnyFunction
<1>. QED  BY <1>1, <1>2, <1>3, <1>4 DEF f

LEMMA MakeClosureRight ==
  ASSUME ApiInv, MakeClosure
  PROVE  ApiInv'
<1>. DEFINE c == Len(closures) + 1
<1>1. PICK nfreevars \in 0 .. top - base, wrapped \in BOOLEAN :
        /\ top - nfreevars < MaxStack
        /\ closures' = Append(closures,
             [outers |-> NewClosure(IF wrapped THEN WithData(Frame(top - nfreevars, top), c) ELSE Frame(top - nfreevars, top)),
              wrapped |-> wrapped, nparamscheck |-> 0, env |-> Null,
              given |-> Reverse(Frame(top - nfreevars, top)), data |-> c])
        /\ stack' = [Popped(stack, top, nfreevars) EXCEPT ![top - nfreevars] = Closure(c)]
        /\ top' = top - nfreevars + 1
        /\ NoError /\ UNCHANGED heap /\ SameRest
  BY DEF MakeClosure
<1>2. /\ top \in Nat /\ base \in Nat /\ base <= top /\ HeapOK(heap, closures) /\ ClosuresOK(heap, closures)
      /\ IsSeq(closures) /\ Len(closures) \in Nat
  BY OKFacts DEF ApiInv
<1>3. /\ nfreevars \in Nat /\ nfreevars <= top - base /\ top - nfreevars \in Nat /\ top - nfreevars <= top
      /\ top - (top - nfreevars) = nfreevars /\ top <= top
  BY <1>2
<1>. DEFINE values == Frame(top - nfreevars, top)
            given == Reverse(values)
            outers == NewClosure(IF wrapped THEN WithData(values, c) ELSE values)
            x == [outers |-> outers, wrapped |-> wrapped, nparamscheck |-> 0, env |-> Null, given |-> given, data |-> c]
<1>4. IsSeq(values) /\ Len(values) = nfreevars /\ \A i \in 1 .. nfreevars : Sound(values[i], heap, closures)
  BY <1>2, <1>3, FrameFacts
<1>. HIDE DEF values
<1>5. /\ IsSeq(given) /\ Len(given) = nfreevars
      /\ \A i \in 1 .. nfreevars : given[i] = values[nfreevars - i + 1]
  BY <1>4, AnyReverse
<1>6. \A i \in 1 .. nfreevars : Sound(given[i], heap, closures)
  <2>1. \A i \in 1 .. nfreevars : nfreevars - i + 1 \in 1 .. nfreevars
    BY <1>3
  <2>. QED  BY <1>4, <1>5, <2>1
<1>7. outers = IF wrapped THEN Append(given, Pointer(c)) ELSE given
  <2>1. CASE wrapped
    <3>1. WithData(values, c) = <<Pointer(c)>> \o values
      BY <1>4, ReverseTwice DEF WithData
    <3>. QED  BY <1>4, <2>1, <3>1, ReverseOver DEF NewClosure
  <2>2. CASE ~wrapped
    BY <2>2 DEF NewClosure
  <2>. QED  BY <2>1, <2>2
<1>. HIDE DEF given, outers
<1>8. /\ x.outers = outers /\ x.wrapped = wrapped /\ x.env = Null /\ x.given = given /\ x.data = c
      /\ x = [outers |-> x.outers, wrapped |-> x.wrapped, nparamscheck |-> x.nparamscheck,
              env |-> x.env, given |-> x.given, data |-> x.data]
  OBVIOUS
<1>9. closures' = Append(closures, x)
  BY <1>1 DEF values, given, outers
<1>. HIDE DEF x
<1>10. ClosureOK(x, heap, closures)
  <2>1. x.outers = Outers(x)
    BY <1>7, <1>8 DEF Outers
  <2>2. ASSUME NEW i \in 1 .. Len(x.outers) PROVE Sound(x.outers[i], heap, closures)
    <3>1. CASE wrapped
      <4>1. /\ Len(outers) = nfreevars + 1 /\ outers[nfreevars + 1] = Pointer(c)
            /\ \A j \in 1 .. nfreevars : outers[j] = given[j]
        BY <1>5, <1>7, <3>1, AnyAppend
      <4>2. i \in 1 .. nfreevars \/ i = nfreevars + 1
        BY <1>3, <1>8, <4>1
      <4>3. Sound(Pointer(c), heap, closures)
        BY PlainSound
      <4>. QED  BY <1>6, <1>8, <4>1, <4>2, <4>3
    <3>2. CASE ~wrapped
      BY <1>5, <1>6, <1>7, <1>8, <3>2
    <3>. QED  BY <3>1, <3>2
  <2>. QED  BY <1>5, <1>8, <2>1, <2>2, PlainSound DEF ClosureOK
<1>11. Mid
  BY <1>1, <1>2, <1>9, <1>10, ClosuresNew, TouchedClosures
<1>12. Sound(Closure(c), heap', closures')
  <2>1. Len(closures') = Len(closures) + 1 /\ c \in 1 .. Len(closures) + 1
    BY <1>2, <1>9, AnyAppend
  <2>. QED  BY <2>1 DEF Sound, Closure, Type
<1>13. OK(Popped(stack, top, nfreevars), top - nfreevars, base, calls, MaxStack, lasterror', heap', closures')
  BY <1>3, <1>11, OKPop DEF Mid
<1>14. OK(stack', top', base, calls, MaxStack, lasterror', heap', closures')
  BY <1>1, <1>12, <1>13, OKPush
<1>15. MaxStack' = MaxStack
  BY <1>1 DEF MaxStack, SameRest
<1>. QED  BY <1>1, <1>11, <1>14, <1>15 DEF Mid, SameRest, ApiInv

\* The parts of a closure that the host may change.
WithCheck(x, n) == [x EXCEPT !.nparamscheck = n]
WithEnv(x, v) == [x EXCEPT !.env = v]
WithFree(x, n, v) == [x EXCEPT !.outers[n] = v, !.given[n] = v]

LEMMA ClosureForms ==
  ASSUME NEW h, NEW c, NEW x, ClosureOK(x, h, c), NEW v, Sound(v, h, c)
  PROVE  /\ \A n : ClosureOK(WithCheck(x, n), h, c)
         /\ ClosureOK(WithEnv(x, v), h, c)
<1>1. /\ x = [outers |-> x.outers, wrapped |-> x.wrapped, nparamscheck |-> x.nparamscheck,
              env |-> x.env, given |-> x.given, data |-> x.data]
      /\ IsSeq(x.given) /\ x.wrapped \in BOOLEAN /\ x.outers = Outers(x)
      /\ \A i \in 1 .. Len(x.outers) : Sound(x.outers[i], h, c)
      /\ Sound(x.env, h, c)
  BY DEF ClosureOK
<1>2. ASSUME NEW y, y.outers = x.outers, y.wrapped = x.wrapped, y.given = x.given, y.data = x.data,
             y = [outers |-> y.outers, wrapped |-> y.wrapped, nparamscheck |-> y.nparamscheck,
                  env |-> y.env, given |-> y.given, data |-> y.data], Sound(y.env, h, c)
      PROVE  ClosureOK(y, h, c)
  <2>1. Outers(y) = Outers(x)
    BY <1>2 DEF Outers
  <2>. QED  BY <1>1, <1>2, <2>1 DEF ClosureOK
<1>3. ASSUME NEW n PROVE ClosureOK(WithCheck(x, n), h, c)
  <2>. DEFINE y == WithCheck(x, n)
  <2>1. y = [outers |-> x.outers, wrapped |-> x.wrapped, nparamscheck |-> n,
             env |-> x.env, given |-> x.given, data |-> x.data]
    BY <1>1 DEF WithCheck
  <2>. HIDE DEF y
  <2>2. ClosureOK(y, h, c)
    BY <1>1, <1>2, <2>1
  <2>. QED  BY <2>2 DEF y
<1>4. ClosureOK(WithEnv(x, v), h, c)
  <2>. DEFINE y == WithEnv(x, v)
  <2>1. y = [outers |-> x.outers, wrapped |-> x.wrapped, nparamscheck |-> x.nparamscheck,
             env |-> v, given |-> x.given, data |-> x.data]
    BY <1>1 DEF WithEnv
  <2>. HIDE DEF y
  <2>2. ClosureOK(y, h, c)
    BY <1>1, <1>2, <2>1
  <2>. QED  BY <2>2 DEF y
<1>. QED  BY <1>3, <1>4

LEMMA WithFreeRight ==
  ASSUME NEW h, NEW c, NEW x, ClosureOK(x, h, c), NEW n \in DOMAIN x.given, NEW v, Sound(v, h, c)
  PROVE  ClosureOK(WithFree(x, n, v), h, c)
<1>1. /\ x = [outers |-> x.outers, wrapped |-> x.wrapped, nparamscheck |-> x.nparamscheck,
              env |-> x.env, given |-> x.given, data |-> x.data]
      /\ IsSeq(x.given) /\ x.wrapped \in BOOLEAN /\ x.outers = Outers(x)
      /\ \A i \in 1 .. Len(x.outers) : Sound(x.outers[i], h, c)
      /\ Sound(x.env, h, c)
  BY DEF ClosureOK
<1>. DEFINE y == WithFree(x, n, v)
            g == Put(x.given, n, v)
            q == Put(x.outers, n, v)
            N == Len(x.given)
            P == Pointer(x.data)
<1>2. y = [outers |-> q, wrapped |-> x.wrapped, nparamscheck |-> x.nparamscheck,
           env |-> x.env, given |-> g, data |-> x.data]
  <2>. DEFINE xo == x.outers
              xg == x.given
  <2>1. x.outers = xo /\ x.given = xg
    OBVIOUS
  <2>2. y = [x EXCEPT !.outers = q, !.given = g]
    BY DEF WithFree, Put
  <2>. HIDE DEF q, g, y
  <2>. QED  BY <1>1, <2>2
<1>3. N \in Nat /\ n \in 1 .. N
  BY <1>1, AnySeq
<1>4. IsSeq(x.outers) /\ n \in 1 .. Len(x.outers)
  <2>1. CASE x.wrapped
    <3>1. IsSeq(x.outers) /\ Len(x.outers) = N + 1
      BY <1>1, <2>1, AnyAppend DEF Outers
    <3>. QED  BY <1>3, <3>1
  <2>2. CASE ~x.wrapped
    BY <1>1, <1>3, <2>2 DEF Outers
  <2>. QED  BY <2>1, <2>2
<1>5. IsSeq(g) /\ Len(g) = N /\ g[n] = v /\ \A i \in 1 .. N : i # n => g[i] = x.given[i]
  BY <1>1, <1>3, AnyPut
<1>6. IsSeq(q) /\ Len(q) = Len(x.outers) /\ q[n] = v /\ \A i \in 1 .. Len(x.outers) : i # n => q[i] = x.outers[i]
  BY <1>4, AnyPut
<1>. HIDE DEF y, g, q
<1>7. q = IF x.wrapped THEN Append(g, P) ELSE g
  <2>1. CASE x.wrapped
    <3>. DEFINE a == Append(g, P)
    <3>1. IsSeq(a) /\ Len(a) = N + 1 /\ (\A i \in 1 .. N : a[i] = g[i]) /\ a[N + 1] = P
      BY <1>5, AnyAppend
    <3>2. Len(x.outers) = N + 1 /\ (\A i \in 1 .. N : x.outers[i] = x.given[i]) /\ x.outers[N + 1] = P
      BY <1>1, <2>1, AnyAppend DEF Outers
    <3>. HIDE DEF a, P
    <3>3. ASSUME NEW i \in 1 .. N + 1 PROVE q[i] = a[i]
      <4>1. i \in 1 .. N \/ (i = N + 1 /\ i # n)
        BY <1>3
      <4>. QED  BY <1>5, <1>6, <3>1, <3>2, <4>1
    <3>4. q = a
      BY <1>6, <3>1, <3>2, <3>3, AnyEqual
    <3>. QED  BY <2>1, <3>4 DEF a
  <2>2. CASE ~x.wrapped
    <3>1. q = g
      BY <1>1, <2>2 DEF Outers, q, g
    <3>. QED  BY <2>2, <3>1
  <2>. QED  BY <2>1, <2>2
<1>8. /\ y.outers = q /\ y.wrapped = x.wrapped /\ y.env = x.env /\ y.given = g /\ y.data = x.data
      /\ y = [outers |-> y.outers, wrapped |-> y.wrapped, nparamscheck |-> y.nparamscheck,
              env |-> y.env, given |-> y.given, data |-> y.data]
  BY <1>2
<1>9. y.outers = Outers(y)
  BY <1>7, <1>8 DEF Outers
<1>10. \A i \in 1 .. Len(y.outers) : Sound(y.outers[i], h, c)
  BY <1>1, <1>6, <1>8
<1>11. ClosureOK(y, h, c)
  BY <1>1, <1>5, <1>8, <1>9, <1>10 DEF ClosureOK
<1>. QED  BY <1>11 DEF y

LEMMA ClosureFacts ==
  ASSUME ApiInv, NEW v, Sound(v, heap, closures), Type(v) = "closure"
  PROVE  v[2] \in 1 .. Len(closures) /\ v[2] \in DOMAIN closures /\ ClosureOK(closures[v[2]], heap, closures)
<1>1. v[2] \in 1 .. Len(closures)
  BY DEF Sound
<1>2. ClosuresOK(heap, closures) /\ DOMAIN closures = 1 .. Len(closures)
  BY OKFacts DEF ApiInv
<1>. QED  BY <1>1, <1>2 DEF ClosuresOK

LEMMA ClosureActionsRight ==
  ASSUME ApiInv, SetParamsCheck \/ BindEnv \/ GetFreeVariable \/ SetFreeVariable
  PROVE  ApiInv'
<1>0. SameRest /\ HeapOK(heap, closures) /\ ClosuresOK(heap, closures) /\ IsSeq(closures) /\ Len(closures) \in Nat
  <2>1. SameRest
    BY DEF SetParamsCheck, BindEnv, GetFreeVariable, SetFreeVariable
  <2>. QED  BY <2>1, OKFacts DEF ApiInv
<1>1. CASE SetParamsCheck
  <2>0. top > base
    BY <1>1 DEF SetParamsCheck
  <2>1. PICK n \in Checks :
         IF Type(At(-1)) # "closure" THEN Refuse
         ELSE /\ closures' = [closures EXCEPT ![At(-1)[2]].nparamscheck = n]
              /\ SameStack /\ NoError /\ UNCHANGED heap
    BY <1>1 DEF SetParamsCheck
  <2>2. CASE Type(At(-1)) # "closure"
    BY <1>0, <2>1, <2>2, Refused
  <2>3. CASE Type(At(-1)) = "closure"
    <3>. DEFINE p == At(-1)[2]
    <3>1. closures' = [closures EXCEPT ![p].nparamscheck = n] /\ SameStack /\ NoError /\ UNCHANGED heap
      BY <2>1, <2>3
    <3>2. p \in 1 .. Len(closures) /\ p \in DOMAIN closures /\ ClosureOK(closures[p], heap, closures)
      BY <2>0, <2>3, TopIndices, IndexFacts, ClosureFacts
    <3>. HIDE DEF p
    <3>3. closures' = Put(closures, p, WithCheck(closures[p], n))
      BY <3>1 DEF Put, WithCheck
    <3>4. ClosureOK(WithCheck(closures[p], n), heap, closures)
      BY <3>2, PlainSound, ClosureForms
    <3>5. ClosuresOK(heap, closures') /\ Grown(heap, closures, heap, closures')
      BY <1>0, <3>2, <3>3, <3>4, ClosuresPut
    <3>. QED  BY <1>0, <3>1, <3>5, TouchedClosures, Stayed
  <2>. QED  BY <2>2, <2>3
<1>2. CASE BindEnv
  <2>0. top > base
    BY <1>2 DEF BindEnv
  <2>1. PICK idx \in Indices :
         IF Type(At(idx)) # "closure" \/ Type(At(-1)) # "table" THEN Refuse
         ELSE /\ closures' = Append(closures, [closures[At(idx)[2]] EXCEPT !.env = At(-1)])
              /\ stack' = [stack EXCEPT ![top - 1] = Closure(Len(closures) + 1)]
              /\ NoError /\ UNCHANGED <<top, heap>>
    BY <1>2 DEF BindEnv
  <2>2. CASE Type(At(idx)) # "closure" \/ Type(At(-1)) # "table"
    BY <1>0, <2>1, <2>2, Refused
  <2>3. CASE ~(Type(At(idx)) # "closure" \/ Type(At(-1)) # "table")
    <3>. DEFINE p == At(idx)[2]
                v == At(-1)
                n == Len(closures) + 1
    <3>1. /\ closures' = Append(closures, [closures[p] EXCEPT !.env = v]) /\ NoError /\ UNCHANGED heap
          /\ Replace(Closure(n))
      BY <2>1, <2>3 DEF Replace
    <3>2. ClosureOK(closures[p], heap, closures)
      BY <2>3, IndexFacts, ClosureFacts
    <3>3. Sound(v, heap, closures)
      BY <2>0, TopIndices, IndexFacts
    <3>. HIDE DEF p, v
    <3>4. closures' = Append(closures, WithEnv(closures[p], v))
      BY <3>1 DEF WithEnv
    <3>5. ClosureOK(WithEnv(closures[p], v), heap, closures)
      BY <3>2, <3>3, ClosureForms
    <3>6. Mid
      BY <1>0, <3>1, <3>4, <3>5, ClosuresNew, TouchedClosures
    <3>7. Sound(Closure(n), heap', closures')
      <4>1. Len(closures') = Len(closures) + 1 /\ n \in 1 .. Len(closures) + 1
        BY <1>0, <3>4, AnyAppend
      <4>. QED  BY <4>1 DEF Sound, Closure, Type
    <3>. HIDE DEF n
    <3>. QED  BY <1>0, <2>0, <3>1, <3>6, <3>7, Replaced
  <2>. QED  BY <2>2, <2>3
<1>3. CASE GetFreeVariable
  <2>1. PICK idx \in Indices :
          /\ Type(At(idx)) = "closure"
          /\ \E nval \in DOMAIN closures[At(idx)[2]].outers : Push(closures[At(idx)[2]].outers[nval])
          /\ NoError /\ SameData
    BY <1>3 DEF GetFreeVariable
  <2>. DEFINE x == closures[At(idx)[2]]
  <2>2. PICK nval \in DOMAIN x.outers : Push(x.outers[nval])
    BY <2>1
  <2>3. ClosureOK(x, heap, closures)
    BY <2>1, IndexFacts, ClosureFacts
  <2>. HIDE DEF x
  <2>4. IsSeq(x.outers)
    BY <2>3, AnyAppend DEF ClosureOK, Outers
  <2>5. nval \in 1 .. Len(x.outers)
    BY <2>4, AnySeq
  <2>6. Sound(x.outers[nval], heap', closures')
    BY <2>1, <2>3, <2>5 DEF ClosureOK, SameData
  <2>. QED  BY <1>0, <2>1, <2>2, <2>6, Untouched, Pushed
<1>4. CASE SetFreeVariable
  <2>0. top > base
    BY <1>4 DEF SetFreeVariable
  <2>1. PICK idx \in Indices :
         IF Type(At(idx)) # "closure" \/ closures[At(idx)[2]].outers = <<>> THEN Refuse
         ELSE /\ \E nval \in DOMAIN closures[At(idx)[2]].given :
                   closures' = [closures EXCEPT ![At(idx)[2]].outers[nval] = At(-1), ![At(idx)[2]].given[nval] = At(-1)]
              /\ Pop(1) /\ NoError /\ UNCHANGED heap
    BY <1>4 DEF SetFreeVariable
  <2>2. CASE Type(At(idx)) # "closure" \/ closures[At(idx)[2]].outers = <<>>
    BY <1>0, <2>1, <2>2, Refused
  <2>3. CASE ~(Type(At(idx)) # "closure" \/ closures[At(idx)[2]].outers = <<>>)
    <3>. DEFINE p == At(idx)[2]
                v == At(-1)
    <3>1. PICK nval \in DOMAIN closures[p].given :
            /\ closures' = [closures EXCEPT ![p].outers[nval] = v, ![p].given[nval] = v]
            /\ Pop(1) /\ NoError /\ UNCHANGED heap
      BY <2>1, <2>3
    <3>2. p \in 1 .. Len(closures) /\ p \in DOMAIN closures /\ ClosureOK(closures[p], heap, closures)
      BY <2>3, IndexFacts, ClosureFacts
    <3>3. Sound(v, heap, closures)
      BY <2>0, TopIndices, IndexFacts
    <3>. HIDE DEF p, v
    <3>4. closures' = Put(closures, p, WithFree(closures[p], nval, v))
      BY <3>1, <3>2 DEF Put, WithFree
    <3>5. ClosureOK(WithFree(closures[p], nval, v), heap, closures)
      BY <3>2, <3>3, WithFreeRight
    <3>8. ClosuresOK(heap, closures') /\ Grown(heap, closures, heap, closures')
      BY <1>0, <3>2, <3>4, <3>5, ClosuresPut
    <3>6. Mid
      BY <3>1, <3>8, TouchedClosures
    <3>7. 1 \in Nat /\ 1 <= top - base
      BY <2>0, OKFacts DEF ApiInv
    <3>. QED  BY <1>0, <3>1, <3>6, <3>7, PoppedRight
  <2>. QED  BY <2>2, <2>3
<1>. QED  BY <1>1, <1>2, <1>3, <1>4

-----------------------------------------------------------------------------
(* Calls. *)

\* A frame is entered above a part of the one below.
LEMMA ShapeEnter ==
  ASSUME NEW st, NEW t, NEW b, NEW cl, NEW M, Shape(st, t, b, cl, M),
         NEW f, FrameOK(f, b, M), Len(f.below) <= t, Kept(f, st)
  PROVE  Shape(st, t, Len(f.below), Append(cl, f), M)
<1>. DEFINE N == Len(cl)
            cn == Append(cl, f)
            nb == Len(f.below)
<1>1. /\ M \in Nat /\ t \in Nat /\ b \in Nat /\ b <= t /\ t <= M /\ FramesOK(cl, M)
      /\ DOMAIN st = 0 .. M - 1 /\ (\A i \in 0 .. M - 1 : i >= t => st[i] = Null)
      /\ b = FrameBase(cl, N) /\ \A n \in 1 .. N : Kept(cl[n], st)
  BY DEF Shape
<1>2. /\ IsSeq(cl) /\ N \in Nat
      /\ \A n \in 0 .. N : FrameBase(cl, n) \in Nat
      /\ \A n \in 1 .. N : FrameOK(cl[n], FrameBase(cl, n - 1), M)
      /\ \A m, n \in 0 .. N : m <= n => FrameBase(cl, m) <= FrameBase(cl, n)
  BY <1>1, AnySeq DEF FramesOK
<1>3. IsSeq(cn) /\ Len(cn) = N + 1 /\ (\A i \in 1 .. N : cn[i] = cl[i]) /\ cn[N + 1] = f
  BY <1>2, AnyAppend
<1>4. nb \in Nat /\ b < nb
  BY AnySeq DEF FrameOK
<1>. HIDE DEF cn, nb, N
<1>5. \A n \in 0 .. N : FrameBase(cn, n) = FrameBase(cl, n)
  <2>1. ASSUME NEW n \in 0 .. N, n # 0 PROVE n \in 1 .. N
    BY <1>2, <2>1
  <2>. QED  BY <1>3, <2>1 DEF FrameBase
<1>6. FrameBase(cn, N + 1) = nb
  <2>1. N + 1 # 0
    BY <1>2
  <2>. QED  BY <1>3, <2>1 DEF FrameBase, nb
<1>7. \A n \in 0 .. N + 1 : n \in 0 .. N \/ n = N + 1
  BY <1>2
<1>8. \A n \in 0 .. N : FrameBase(cl, n) <= b
  <2>1. \A n \in 0 .. N : n <= N /\ N \in 0 .. N
    BY <1>2
  <2>. QED  BY <1>1, <1>2, <2>1
<1>9. \A n \in 0 .. N + 1 : FrameBase(cn, n) \in Nat
  BY <1>2, <1>4, <1>5, <1>6, <1>7
<1>10. ASSUME NEW n \in 1 .. N + 1 PROVE FrameOK(cn[n], FrameBase(cn, n - 1), M) /\ Kept(cn[n], st)
  <2>1. CASE n \in 1 .. N
    <3>1. n - 1 \in 0 .. N
      BY <1>2, <2>1
    <3>. QED  BY <1>1, <1>2, <1>3, <1>5, <2>1, <3>1
  <2>2. CASE n = N + 1
    <3>1. n - 1 = N /\ N \in 0 .. N
      BY <1>2, <2>2
    <3>. QED  BY <1>1, <1>3, <1>5, <2>2, <3>1
  <2>3. n \in 1 .. N \/ n = N + 1
    BY <1>2
  <2>. QED  BY <2>1, <2>2, <2>3
<1>11. ASSUME NEW m \in 0 .. N + 1, NEW n \in 0 .. N + 1, m <= n
       PROVE  FrameBase(cn, m) <= FrameBase(cn, n)
  <2>1. CASE n \in 0 .. N
    <3>1. m \in 0 .. N
      BY <1>2, <1>11, <2>1
    <3>. QED  BY <1>2, <1>5, <1>11, <2>1, <3>1
  <2>2. CASE n = N + 1 /\ m \in 0 .. N
    <3>1. FrameBase(cn, m) <= b /\ FrameBase(cn, m) \in Nat /\ FrameBase(cn, n) = nb
      BY <1>2, <1>5, <1>6, <1>8, <2>2
    <3>. QED  BY <1>1, <1>4, <3>1
  <2>3. CASE n = N + 1 /\ m = N + 1
    BY <1>4, <1>6, <2>3
  <2>. QED  BY <1>7, <2>1, <2>2, <2>3
<1>12. FramesOK(cn, M)
  BY <1>3, <1>9, <1>10, <1>11 DEF FramesOK
<1>13. Shape(st, t, nb, cn, M)
  <2>1. nb <= t
    BY DEF nb
  <2>. QED  BY <1>1, <1>3, <1>4, <1>6, <1>10, <1>12, <2>1 DEF Shape
<1>. QED  BY <1>13 DEF nb, cn

\* The last frame is left.
LEMMA ShapeLeave ==
  ASSUME NEW st, NEW t, NEW b, NEW cl, NEW M, Shape(st, t, b, cl, M), cl # <<>>
  PROVE  LET f == Last(cl)
             prev == FrameBase(cl, Len(cl) - 1)
         IN  /\ FrameOK(f, prev, M) /\ prev \in Nat /\ b = Len(f.below) /\ Kept(f, st)
             /\ Shape(st, t, prev, Front(cl), M)
<1>. DEFINE N == Len(cl)
            cn == Front(cl)
            f == Last(cl)
            prev == FrameBase(cl, N - 1)
<1>1. /\ M \in Nat /\ t \in Nat /\ b \in Nat /\ b <= t /\ t <= M /\ FramesOK(cl, M)
      /\ DOMAIN st = 0 .. M - 1 /\ (\A i \in 0 .. M - 1 : i >= t => st[i] = Null)
      /\ b = FrameBase(cl, N) /\ \A n \in 1 .. N : Kept(cl[n], st)
  BY DEF Shape
<1>2. /\ IsSeq(cl)
      /\ \A n \in 0 .. N : FrameBase(cl, n) \in Nat
      /\ \A n \in 1 .. N : FrameOK(cl[n], FrameBase(cl, n - 1), M)
      /\ \A m, n \in 0 .. N : m <= n => FrameBase(cl, m) <= FrameBase(cl, n)
  BY <1>1 DEF FramesOK
<1>3. IsSeq(cn) /\ N \in Nat \ {0} /\ Len(cn) = N - 1 /\ (\A i \in 1 .. N - 1 : cn[i] = cl[i]) /\ f = cl[N]
  BY <1>2, AnyFront
<1>. HIDE DEF cn, f, N
<1>4. N \in 1 .. N /\ N \in 0 .. N /\ N - 1 \in 0 .. N /\ N - 1 <= N /\ N # 0
  BY <1>3
<1>5. FrameOK(f, prev, M) /\ prev \in Nat /\ Kept(f, st) /\ prev <= b
  BY <1>1, <1>2, <1>3, <1>4
<1>6. b = Len(f.below)
  BY <1>1, <1>3, <1>4 DEF FrameBase
<1>7. \A n \in 0 .. N - 1 : FrameBase(cn, n) = FrameBase(cl, n)
  <2>1. ASSUME NEW n \in 0 .. N - 1, n # 0 PROVE n \in 1 .. N - 1
    BY <1>3, <2>1
  <2>. QED  BY <1>3, <2>1 DEF FrameBase
<1>8. \A n \in 0 .. N - 1 : n \in 0 .. N
  BY <1>3
<1>9. \A n \in 1 .. N - 1 : n \in 1 .. N /\ n - 1 \in 0 .. N - 1
  BY <1>3
<1>10. FramesOK(cn, M)
  <2>1. \A n \in 0 .. N - 1 : FrameBase(cn, n) \in Nat
    BY <1>2, <1>7, <1>8
  <2>2. \A n \in 1 .. N - 1 : FrameOK(cn[n], FrameBase(cn, n - 1), M)
    BY <1>2, <1>3, <1>7, <1>9
  <2>3. \A m, n \in 0 .. N - 1 : m <= n => FrameBase(cn, m) <= FrameBase(cn, n)
    BY <1>2, <1>7, <1>8
  <2>. QED  BY <1>3, <2>1, <2>2, <2>3 DEF FramesOK
<1>11. prev = FrameBase(cn, N - 1)
  <2>1. N - 1 \in 0 .. N - 1
    BY <1>3
  <2>. QED  BY <1>7, <2>1
<1>. HIDE DEF prev
<1>12. Shape(st, t, prev, cn, M)
  <2>1. \A n \in 1 .. N - 1 : Kept(cn[n], st)
    BY <1>1, <1>3, <1>9
  <2>2. prev <= t
    BY <1>1, <1>5
  <2>. QED  BY <1>1, <1>3, <1>5, <1>10, <1>11, <2>1, <2>2 DEF Shape
<1>. QED  BY <1>5, <1>6, <1>12 DEF prev, f, cn, N

\* A call that has failed.
LEMMA FailedRight ==
  ASSUME NEW st, NEW t \in Nat, NEW n \in Nat, NEW b, NEW cl, NEW M, NEW h, NEW c, NEW callback \in BOOLEAN,
         NEW err, OK(Popped(st, t, n), t - n, b, cl, M, err, h, c), t - n < M, CallFailed(st, t, n, callback, err)
  PROVE  OK(stack', top', b, cl, M, lasterror', h, c)
<1>0. Sound(err, h, c)
  BY OKFacts
<1>1. CASE ~callback
  BY <1>1 DEF CallFailed
<1>2. CASE callback
  <2>1. /\ stack' = [Popped(st, t, n) EXCEPT ![t - n] = err] /\ top' = t - n + 1
        /\ lasterror' = IF Type(err) = "string" THEN err ELSE Error
    BY <1>2 DEF CallFailed
  <2>2. OK(stack', top', b, cl, M, err, h, c)
    BY <1>0, <2>1, OKPush
  <2>3. Sound(lasterror', h, c)
    BY <1>0, <2>1, PlainSound
  <2>. QED  BY <2>2, <2>3, OKError
<1>. QED  BY <1>1, <1>2

\* The frame a native function is entered with: what each of its slots holds.
LEMMA EnteredFacts ==
  ASSUME ApiInv, NEW obj, Sound(obj, heap, closures), NEW c \in 1 .. Len(closures), NEW nargs \in 1 .. top - base - 1,
         top + Len(closures[c].outers) <= MaxStack
  PROVE  LET nc == closures[c]
             g == Len(nc.given)
             n == Len(nc.outers)
             nb == top - nargs
             st == Entered(nc, obj, nb, nargs)
         IN  /\ g \in Nat /\ n \in Nat /\ nb \in Nat /\ nb > base /\ n = (IF nc.wrapped THEN g + 1 ELSE g)
             /\ nc.wrapped \in BOOLEAN /\ DOMAIN st = 0 .. MaxStack - 1 /\ IsSeq(nc.given)
             /\ \A i \in 0 .. MaxStack - 1 : i < nb => st[i] = stack[i]
             /\ st[nb] = IF nc.env # Null THEN obj ELSE stack[nb]
             /\ \A i \in 0 .. MaxStack - 1 : (i > nb /\ i < top) => st[i] = stack[i]
             /\ \A i \in 1 .. g : st[top + i - 1] = nc.given[i]
             /\ \A i \in 1 .. n : nc.wrapped /\ i = n => st[top + i - 1] = Pointer(nc.data)
             /\ \A i \in 0 .. MaxStack - 1 : i >= top + n => st[i] = Null
             /\ \A i \in 0 .. MaxStack - 1 : Sound(st[i], heap, closures)
<1>. DEFINE nc == closures[c]
            g == Len(nc.given)
            n == Len(nc.outers)
            nb == top - nargs
            M == MaxStack
            st == Entered(nc, obj, nb, nargs)
<1>1. /\ M \in Nat /\ top \in Nat /\ base \in Nat /\ base <= top /\ top <= M /\ DOMAIN stack = 0 .. M - 1
      /\ \A i \in 0 .. M - 1 : (i >= top => stack[i] = Null) /\ Sound(stack[i], heap, closures)
  BY OKFacts DEF ApiInv
<1>2. ClosureOK(nc, heap, closures)
  <2>1. ClosuresOK(heap, closures)
    BY OKFacts DEF ApiInv
  <2>. QED  BY <2>1 DEF ClosuresOK
<1>. HIDE DEF nc, M
<1>3. /\ IsSeq(nc.given) /\ nc.wrapped \in BOOLEAN /\ g \in Nat
      /\ \A i \in 1 .. n : Sound(nc.outers[i], heap, closures)
  BY <1>2, AnySeq DEF ClosureOK
<1>4. /\ n = (IF nc.wrapped THEN g + 1 ELSE g) /\ \A i \in 1 .. g : nc.outers[i] = nc.given[i]
      /\ nc.wrapped => nc.outers[n] = Pointer(nc.data)
  <2>1. nc.outers = Outers(nc)
    BY <1>2 DEF ClosureOK
  <2>2. CASE nc.wrapped
    BY <1>3, <2>1, <2>2, AnyAppend DEF Outers
  <2>3. CASE ~nc.wrapped
    BY <1>3, <2>1, <2>3 DEF Outers
  <2>. QED  BY <1>3, <2>2, <2>3
<1>. HIDE DEF n, g
<1>5. n \in Nat /\ nb \in Nat /\ nb > base /\ nb + nargs = top /\ nb < top /\ nargs \in Nat
  BY <1>1, <1>3, <1>4
<1>. HIDE DEF nb
<1>6. /\ DOMAIN st = 0 .. M - 1
      /\ \A i \in 0 .. M - 1 :
           st[i] = CASE i = nb /\ nc.env # Null -> obj
                     [] i >= nb + nargs /\ i < nb + nargs + n -> nc.outers[i - nb - nargs + 1]
                     [] OTHER -> stack[i]
  BY <1>1 DEF Entered, n
<1>. HIDE DEF st
<1>7. /\ \A i \in 0 .. M - 1 : (i # nb /\ ~(i >= top /\ i < top + n)) => st[i] = stack[i]
      /\ \A i \in 0 .. M - 1 : (i >= top /\ i < top + n) => st[i] = nc.outers[i - top + 1]
  <2>1. \A i \in 0 .. M - 1 : i - nb - nargs = i - top
    BY <1>1, <1>5
  <2>2. \A i \in 0 .. M - 1 : (i >= top /\ i < top + n) => i # nb
    BY <1>1, <1>5
  <2>. QED  BY <1>5, <1>6, <2>1, <2>2
<1>8. nb \in 0 .. M - 1 /\ ~(nb >= top /\ nb < top + n)
  BY <1>1, <1>5
<1>9. st[nb] = IF nc.env # Null THEN obj ELSE stack[nb]
  <2>1. ~(nb >= nb + nargs)
    BY <1>5
  <2>. QED  BY <1>6, <1>8, <2>1
<1>10. top + n <= M
  BY DEF M, n, nc
<1>11. ASSUME NEW i \in 1 .. n PROVE st[top + i - 1] = nc.outers[i]
  <2>. DEFINE p == top + i - 1
  <2>1. p \in 0 .. M - 1 /\ p >= top /\ p < top + n /\ p - top + 1 = i
    BY <1>1, <1>5, <1>10
  <2>. HIDE DEF p
  <2>2. st[p] = nc.outers[i]
    BY <1>7, <2>1
  <2>. QED  BY <2>2 DEF p
<1>12. \A i \in 1 .. g : st[top + i - 1] = nc.given[i]
  <2>1. \A i \in 1 .. g : i \in 1 .. n
    BY <1>3, <1>4, <1>5
  <2>. QED  BY <1>4, <1>11, <2>1
<1>13. \A i \in 1 .. n : nc.wrapped /\ i = n => st[top + i - 1] = Pointer(nc.data)
  BY <1>4, <1>11
<1>14. \A i \in 0 .. M - 1 : i < nb => st[i] = stack[i]
  BY <1>1, <1>5, <1>7
<1>15. \A i \in 0 .. M - 1 : (i > nb /\ i < top) => st[i] = stack[i]
  BY <1>1, <1>5, <1>7
<1>16. \A i \in 0 .. M - 1 : i >= top + n => st[i] = Null
  <2>1. \A i \in 0 .. M - 1 : i >= top + n => i >= top /\ i # nb /\ ~(i < top + n)
    BY <1>1, <1>5
  <2>. QED  BY <1>1, <1>7, <2>1
<1>17. ASSUME NEW i \in 0 .. M - 1 PROVE Sound(st[i], heap, closures)
  <2>1. CASE i = nb
    BY <1>1, <1>3, <1>8, <1>9, <2>1
  <2>2. CASE i >= top /\ i < top + n
    <3>1. i - top + 1 \in 1 .. n
      BY <1>1, <1>5, <2>2
    <3>. QED  BY <1>3, <1>7, <2>2, <3>1
  <2>3. CASE i # nb /\ ~(i >= top /\ i < top + n)
    BY <1>1, <1>7, <2>3
  <2>. QED  BY <2>1, <2>2, <2>3
<1>. QED  BY <1>3, <1>4, <1>5, <1>6, <1>9, <1>12, <1>13, <1>14, <1>15, <1>16, <1>17 DEF st, nb, n, g, nc, M

\* What the host's function sees when it starts.
LEMMA ServedRight ==
  ASSUME ApiInv, NEW obj, Sound(obj, heap, closures), NEW c \in 1 .. Len(closures), NEW nargs \in 1 .. top - base - 1,
         top + Len(closures[c].outers) <= MaxStack
  PROVE  LET nc == closures[c]
             nb == top - nargs
             used == top + Len(nc.given)
             st == Entered(nc, obj, nb, nargs)
         IN  [i \in 1 .. used - nb |-> st[nb + i - 1]]
               = (IF nc.env = Null THEN Frame(nb, top) ELSE <<obj>> \o Frame(nb + 1, top)) \o nc.given
<1>. DEFINE nc == closures[c]
            g == Len(nc.given)
            nb == top - nargs
            used == top + g
            st == Entered(nc, obj, nb, nargs)
            seen == [i \in 1 .. used - nb |-> st[nb + i - 1]]
            F == Frame(nb, top)
            G == Frame(nb + 1, top)
            args == IF nc.env = Null THEN F ELSE <<obj>> \o G
            all == args \o nc.given
            M == MaxStack
<1>1. /\ M \in Nat /\ top \in Nat /\ base \in Nat /\ base <= top /\ top <= M
  BY OKFacts DEF ApiInv
<1>2. /\ g \in Nat /\ nb \in Nat /\ nb > base /\ IsSeq(nc.given)
      /\ st[nb] = IF nc.env # Null THEN obj ELSE stack[nb]
      /\ \A i \in 0 .. M - 1 : (i > nb /\ i < top) => st[i] = stack[i]
      /\ \A i \in 1 .. g : st[top + i - 1] = nc.given[i]
  BY EnteredFacts
<1>3. /\ nb <= top /\ nb + 1 \in Nat /\ nb + 1 <= top /\ top - nb = nargs /\ nargs \in Nat \ {0}
      /\ top - (nb + 1) = nargs - 1 /\ used - nb = nargs + g /\ top <= top
  <2>1. g \in Nat /\ nargs \in Nat \ {0} /\ nargs < top
    BY <1>1, <1>2
  <2>. HIDE DEF g
  <2>. QED  BY <1>1, <2>1
<1>4. IsSeq(F) /\ Len(F) = nargs /\ \A i \in 1 .. nargs : F[i] = stack[nb + i - 1]
  <2>1. IsSeq(F) /\ Len(F) = top - nb /\ \A i \in 1 .. top - nb : F[i] = stack[nb + i - 1]
    BY <1>1, <1>2, <1>3, FrameFacts
  <2>. HIDE DEF F
  <2>. QED  BY <1>3, <2>1
<1>5. IsSeq(G) /\ Len(G) = nargs - 1 /\ \A i \in 1 .. nargs - 1 : G[i] = stack[nb + 1 + i - 1]
  <2>1. IsSeq(G) /\ Len(G) = top - (nb + 1) /\ \A i \in 1 .. top - (nb + 1) : G[i] = stack[nb + 1 + i - 1]
    BY <1>1, <1>2, <1>3, FrameFacts, ZenonT(40)
  <2>. HIDE DEF G
  <2>. QED  BY <1>3, <2>1
<1>. HIDE DEF F, G, st, nc, g, nb
<1>6. IsSeq(args) /\ Len(args) = nargs /\ \A i \in 1 .. nargs : args[i] = st[nb + i - 1]
  <2>0. \A i \in 1 .. nargs : i = 1 \/ (nb + i - 1 \in 0 .. M - 1 /\ nb + i - 1 > nb /\ nb + i - 1 < top)
    <3>1. nb \in Nat /\ top \in Nat /\ M \in Nat /\ top <= M /\ top = nb + nargs /\ nargs \in Nat
      BY <1>1, <1>2, <1>3
    <3>. HIDE DEF M
    <3>. QED  BY <3>1
  <2>1. nb + 1 - 1 = nb
    BY <1>2
  <2>2. CASE nc.env = Null
    <3>1. ASSUME NEW i \in 1 .. nargs PROVE F[i] = st[nb + i - 1]
      BY <1>2, <1>4, <2>0, <2>1, <2>2
    <3>. QED  BY <1>4, <2>2, <3>1
  <2>3. CASE nc.env # Null
    <3>. DEFINE a == <<obj>> \o G
    <3>1. /\ IsSeq(a) /\ Len(a) = 1 + (nargs - 1)
          /\ \A i \in 1 .. 1 + (nargs - 1) : a[i] = IF i <= 1 THEN <<obj>>[i] ELSE G[i - 1]
      BY <1>5, AnyOne, AnyConcat
    <3>. HIDE DEF a
    <3>2. 1 + (nargs - 1) = nargs
      BY <1>3
    <3>3. ASSUME NEW i \in 1 .. nargs PROVE a[i] = st[nb + i - 1]
      <4>1. CASE i = 1
        <5>1. a[1] = obj
          BY <3>1, <3>2, <4>1, AnyOne
        <5>. QED  BY <1>2, <2>1, <2>3, <4>1, <5>1
      <4>2. CASE i # 1
        <5>1. i - 1 \in 1 .. nargs - 1 /\ ~(i <= 1) /\ nb + 1 + (i - 1) - 1 = nb + i - 1
          BY <1>2, <1>3, <4>2
        <5>2. a[i] = G[i - 1]
          BY <3>1, <3>2, <5>1
        <5>3. G[i - 1] = stack[nb + i - 1]
          BY <1>5, <5>1
        <5>. QED  BY <1>2, <2>0, <4>2, <5>2, <5>3
      <4>. QED  BY <4>1, <4>2
    <3>. QED  BY <2>3, <3>1, <3>2, <3>3 DEF a
  <2>. QED  BY <2>2, <2>3
<1>. HIDE DEF args
<1>7. /\ IsSeq(all) /\ Len(all) = nargs + g
      /\ \A i \in 1 .. nargs + g : all[i] = IF i <= nargs THEN args[i] ELSE nc.given[i - nargs]
  <2>. DEFINE v == nc.given
  <2>1. IsSeq(v) /\ Len(v) = g
    BY <1>2 DEF g
  <2>. HIDE DEF v
  <2>2. /\ IsSeq(args \o v) /\ Len(args \o v) = nargs + g
        /\ \A i \in 1 .. nargs + g : (args \o v)[i] = IF i <= nargs THEN args[i] ELSE v[i - nargs]
    BY <1>6, <2>1, AnyConcat
  <2>. QED  BY <2>2 DEF v
<1>8. /\ DOMAIN seen = 1 .. nargs + g /\ seen = [i \in 1 .. nargs + g |-> seen[i]]
      /\ \A i \in 1 .. nargs + g : seen[i] = st[nb + i - 1]
  BY <1>3
<1>. HIDE DEF seen, all
<1>9. IsSeq(seen) /\ Len(seen) = nargs + g
  <2>1. nargs + g \in Nat
    BY <1>2, <1>3
  <2>. QED  BY <1>8, <2>1, AnyFunction
<1>10. ASSUME NEW i \in 1 .. nargs + g PROVE seen[i] = all[i]
  <2>1. CASE i <= nargs
    <3>1. i \in 1 .. nargs
      BY <1>2, <1>3, <2>1
    <3>. QED  BY <1>6, <1>7, <1>8, <2>1, <3>1
  <2>2. CASE ~(i <= nargs)
    <3>1. i - nargs \in 1 .. g /\ top + (i - nargs) - 1 = nb + i - 1
      BY <1>1, <1>2, <1>3, <2>2 DEF nb
    <3>. QED  BY <1>2, <1>7, <1>8, <2>2, <3>1
  <2>. QED  BY <2>1, <2>2
<1>11. seen = all
  BY <1>7, <1>9, <1>10, AnyEqual
<1>. QED  BY <1>11 DEF seen, all, args, F, G, st, nc, g, nb

\* CallNative with environment obj.
CalledWith(c, nargs, retval, callback, obj) ==
  LET nc == closures[c]
      newbase == top - nargs
      newtop == top + Len(nc.outers)
      used == IF nc.wrapped THEN newtop - 1 ELSE newtop
  IN  /\ newtop <= MaxStack
      /\ \E st \in {Entered(nc, obj, newbase, nargs)} :
           /\ stack' = Popped(st, newtop, newtop - used)
           /\ calls' = Append(calls,
                [closure |-> c, prevstkbase |-> newbase - base, prevtop |-> top - base, nargs |-> nargs,
                 retval |-> retval, callback |-> callback, below |-> Frame(0, newbase),
                 served |-> /\ nc.wrapped => st[newtop - 1] = Pointer(nc.data)
                            /\ [i \in 1 .. used - newbase |-> st[newbase + i - 1]]
                                 = (IF nc.env = Null THEN Frame(newbase, top)
                                    ELSE <<obj>> \o Frame(newbase + 1, top)) \o nc.given])
      /\ top' = used /\ base' = newbase
      /\ NoError /\ UNCHANGED <<heap, closures, scene>>

LEMMA CallNativeRight ==
  ASSUME ApiInv, NEW c \in 1 .. Len(closures), NEW nargs \in 1 .. top - base - 1,
         NEW retval \in BOOLEAN, NEW callback \in BOOLEAN, callback => retval,
         CallNative(c, nargs, retval, callback)
  PROVE  ApiInv'
<1>a. PICK unread \in BOOLEAN :
        \E obj \in {EnvObj(closures[c], unread)} : CalledWith(c, nargs, retval, callback, obj)
  BY DEF CallNative, CalledWith
<1>. DEFINE obj == EnvObj(closures[c], unread)
<1>b. CalledWith(c, nargs, retval, callback, obj)
  BY <1>a
<1>c. Sound(obj, heap, closures)
  <2>1. ClosureOK(closures[c], heap, closures)
    BY OKFacts DEF ApiInv, ClosuresOK
  <2>2. obj = closures[c].env \/ obj = Null
    BY DEF EnvObj
  <2>. QED  BY <2>1, <2>2, PlainSound DEF ClosureOK
<1>. HIDE DEF obj
<1>. DEFINE nc == closures[c]
            g == Len(nc.given)
            n == Len(nc.outers)
            nb == top - nargs
            newtop == top + n
            used == IF nc.wrapped THEN newtop - 1 ELSE newtop
            M == MaxStack
            st == Entered(nc, obj, nb, nargs)
            sn == Popped(st, newtop, newtop - used)
            served == /\ nc.wrapped => st[newtop - 1] = Pointer(nc.data)
                      /\ [i \in 1 .. used - nb |-> st[nb + i - 1]]
                           = (IF nc.env = Null THEN Frame(nb, top)
                              ELSE <<obj>> \o Frame(nb + 1, top)) \o nc.given
            below == Frame(0, nb)
            f == [closure |-> c, prevstkbase |-> nb - base, prevtop |-> top - base, nargs |-> nargs,
                  retval |-> retval, callback |-> callback, below |-> below, served |-> served]
<1>1. /\ newtop <= M /\ stack' = sn /\ calls' = Append(calls, f)
      /\ top' = used /\ base' = nb
      /\ NoError /\ UNCHANGED <<heap, closures, scene>>
  BY <1>b DEF CalledWith
<1>2. /\ M \in Nat /\ top \in Nat /\ base \in Nat /\ base <= top /\ top <= M /\ scene \in Scenes
      /\ Shape(stack, top, base, calls, M) /\ HeapOK(heap, closures) /\ ClosuresOK(heap, closures)
      /\ Sound(lasterror, heap, closures)
  BY OKFacts DEF ApiInv, OK
<1>3. top + Len(closures[c].outers) <= MaxStack
  BY <1>1
<1>4. /\ g \in Nat /\ n \in Nat /\ nb \in Nat /\ nb > base /\ n = (IF nc.wrapped THEN g + 1 ELSE g)
      /\ nc.wrapped \in BOOLEAN /\ DOMAIN st = 0 .. M - 1
      /\ \A i \in 0 .. M - 1 : i < nb => st[i] = stack[i]
      /\ nc.wrapped => st[newtop - 1] = Pointer(nc.data)
      /\ \A i \in 0 .. M - 1 : i >= newtop => st[i] = Null
      /\ \A i \in 0 .. M - 1 : Sound(st[i], heap, closures)
  <2>1. /\ g \in Nat /\ n \in Nat /\ nb \in Nat /\ nb > base /\ n = (IF nc.wrapped THEN g + 1 ELSE g)
        /\ nc.wrapped \in BOOLEAN /\ DOMAIN st = 0 .. M - 1
    BY <1>3, <1>c, EnteredFacts
  <2>2. /\ \A i \in 0 .. M - 1 : i < nb => st[i] = stack[i]
        /\ \A i \in 0 .. M - 1 : i >= newtop => st[i] = Null
        /\ \A i \in 0 .. M - 1 : Sound(st[i], heap, closures)
    BY <1>3, <1>c, EnteredFacts
  <2>3. ASSUME nc.wrapped PROVE st[newtop - 1] = Pointer(nc.data)
    <3>1. \A i \in 1 .. n : nc.wrapped /\ i = n => st[top + i - 1] = Pointer(nc.data)
      BY <1>3, <1>c, EnteredFacts
    <3>. HIDE DEF n, nc, st
    <3>2. n \in 1 .. n
      BY <2>1, <2>3
    <3>3. PICK i \in 1 .. n : i = n
      BY <3>2
    <3>4. st[top + i - 1] = Pointer(nc.data)
      BY <2>3, <3>1, <3>3
    <3>5. newtop - 1 = top + i - 1
      BY <1>2, <2>1, <3>3
    <3>. QED  BY <3>4, <3>5
  <2>. HIDE DEF g, n, nb, nc, st, newtop, M
  <2>. QED  BY <2>1, <2>2, <2>3
<1>5. served = TRUE
  <2>1. [i \in 1 .. (top + g) - nb |-> st[nb + i - 1]]
          = (IF nc.env = Null THEN Frame(nb, top) ELSE <<obj>> \o Frame(nb + 1, top)) \o nc.given
    BY <1>3, <1>c, ServedRight
  <2>2. used = top + g
    <3>. HIDE DEF n, g, nc
    <3>. QED  BY <1>2, <1>4
  <2>. HIDE DEF used, st, nb, g, nc, newtop
  <2>. QED  BY <1>4, <2>1, <2>2
<1>6. IsSeq(below) /\ Len(below) = nb /\ \A i \in 1 .. nb : below[i] = stack[i - 1]
  <2>1. nb <= top /\ nb - 0 = nb /\ 0 \in Nat /\ 0 <= nb /\ nb \in Nat /\ \A i \in 1 .. nb : 0 + i - 1 = i - 1
    BY <1>2, <1>4
  <2>. HIDE DEF nb
  <2>2. /\ IsSeq(below) /\ Len(below) = nb - 0
        /\ \A i \in 1 .. nb - 0 : below[i] = stack[0 + i - 1]
    BY <2>1, FrameFacts
  <2>. HIDE DEF below
  <2>. QED  BY <2>1, <2>2
<1>. HIDE DEF served, below
<1>7. /\ f.prevstkbase = nb - base /\ f.prevtop = top - base /\ f.nargs = nargs /\ f.retval = retval
      /\ f.callback = callback /\ f.below = below /\ f.served
  <2>1. /\ f.prevstkbase = nb - base /\ f.prevtop = top - base /\ f.nargs = nargs /\ f.below = below
    OBVIOUS
  <2>2. f.retval = retval /\ f.callback = callback /\ f.served = served
    OBVIOUS
  <2>. HIDE DEF f
  <2>. QED  BY <1>5, <2>1, <2>2
<1>8. /\ nargs \in Nat \ {0} /\ top - base = (nb - base) + nargs /\ nb + nargs <= M /\ base < nb /\ nb < top
  <2>1. nargs \in Nat \ {0} /\ nb > base
    BY <1>2, <1>4
  <2>. QED  BY <1>2, <2>1
<1>. HIDE DEF f, st, n, g, nc
<1>9. used \in Nat /\ used <= newtop /\ nb <= used /\ used <= M /\ newtop \in Nat /\ newtop - used \in Nat
      /\ newtop - (newtop - used) = used
  <2>1. used \in Nat /\ used <= newtop /\ newtop \in Nat /\ top <= used
    BY <1>2, <1>4
  <2>. HIDE DEF used, newtop, nb
  <2>. QED  BY <1>1, <1>2, <1>8, <2>1, <1>4
<1>. HIDE DEF used, newtop, nb
<1>10. DOMAIN sn = 0 .. M - 1 /\ \A i \in 0 .. M - 1 : sn[i] = IF i >= used /\ i < newtop THEN Null ELSE st[i]
  BY <1>4, <1>9 DEF Popped
<1>. HIDE DEF sn
<1>11. /\ \A i \in 0 .. M - 1 : i < nb => sn[i] = stack[i]
       /\ \A i \in 0 .. M - 1 : i < base => sn[i] = stack[i]
  BY <1>2, <1>4, <1>8, <1>9, <1>10
<1>12. \A i \in 0 .. M - 1 : i >= used => sn[i] = Null
  BY <1>4, <1>9, <1>10
<1>13. \A i \in 0 .. M - 1 : Sound(sn[i], heap, closures)
  BY <1>4, <1>10, PlainSound
<1>14. Shape(sn, used, base, calls, M)
  <2>1. base <= used
    BY <1>2, <1>4, <1>8, <1>9
  <2>. QED  BY <1>2, <1>9, <1>10, <1>11, <1>12, <2>1, ShapeMove
<1>15. FrameOK(f, base, M)
  BY <1>6, <1>7, <1>8 DEF FrameOK
<1>16. Kept(f, sn)
  <2>1. \A i \in 1 .. nb : i - 1 \in 0 .. M - 1 /\ i - 1 < nb
    BY <1>2, <1>4, <1>8
  <2>2. \A i \in 1 .. nb : below[i] = sn[i - 1]
    BY <1>6, <1>11, <2>1
  <2>. QED  BY <1>6, <1>7, <2>2 DEF Kept
<1>17. Shape(sn, used, nb, Append(calls, f), M)
  <2>1. Len(f.below) = nb /\ Len(f.below) <= used
    BY <1>6, <1>7, <1>9
  <2>. QED  BY <1>14, <1>15, <1>16, <2>1, ShapeEnter
<1>18. OK(sn, used, nb, Append(calls, f), M, lasterror, heap, closures)
  BY <1>2, <1>13, <1>17 DEF OK
<1>19. MaxStack' = M
  BY <1>1 DEF MaxStack
<1>. HIDE DEF M
<1>20. OK(stack', top', base', calls', MaxStack', lasterror', heap', closures')
  BY <1>1, <1>18, <1>19 DEF NoError
<1>. QED  BY <1>1, <1>2, <1>20 DEF ApiInv

LEMMA SqCallRight ==
  ASSUME ApiInv, SqCall
  PROVE  ApiInv'
<1>1. PICK nargs \in 1 .. top - base - 1, retval \in BOOLEAN, callback \in BOOLEAN :
        LET f == At(-(nargs + 1))
        IN  /\ callback => retval
            /\ IF Type(f) = "closure" /\ Len(calls) < scene.depth /\ ParamsFit(closures[f[2]], nargs)
               THEN CallNative(f[2], nargs, retval, callback)
               ELSE CallFailed(stack, top, nargs, callback, Error) /\ SameData /\ SameRest
  BY DEF SqCall
<1>. DEFINE f == At(-(nargs + 1))
            called == Type(f) = "closure" /\ Len(calls) < scene.depth /\ ParamsFit(closures[f[2]], nargs)
<1>2. top \in Nat /\ base \in Nat /\ base <= top /\ top <= MaxStack /\ MaxStack \in Nat
  BY OKFacts DEF ApiInv
<1>3. CASE called
  <2>1. nargs + 1 \in 1 .. top - base
    BY <1>2
  <2>2. -(nargs + 1) \in Indices
    BY <2>1, TopIndices
  <2>3. f[2] \in 1 .. Len(closures)
    BY <1>3, <2>2, IndexFacts, ClosureFacts
  <2>4. (callback => retval) /\ CallNative(f[2], nargs, retval, callback)
    BY <1>1, <1>3
  <2>. HIDE DEF f
  <2>. QED  BY <2>3, <2>4, CallNativeRight
<1>4. CASE ~called
  <2>1. CallFailed(stack, top, nargs, callback, Error) /\ SameData /\ SameRest
    BY <1>1, <1>4
  <2>2. OK(stack, top, base, calls, MaxStack, Error, heap', closures') /\ scene \in Scenes
    BY <2>1, PlainSound, OKError DEF ApiInv, SameData
  <2>3. nargs \in Nat /\ nargs <= top - base /\ top - nargs < MaxStack
    BY <1>2
  <2>4. OK(Popped(stack, top, nargs), top - nargs, base, calls, MaxStack, Error, heap', closures')
    BY <2>2, <2>3, OKPop
  <2>5. OK(stack', top', base, calls, MaxStack, lasterror', heap', closures')
    BY <1>2, <2>1, <2>3, <2>4, FailedRight
  <2>6. MaxStack' = MaxStack
    BY <2>1 DEF MaxStack, SameRest
  <2>. QED  BY <2>1, <2>2, <2>5, <2>6 DEF SameRest, ApiInv
<1>. QED  BY <1>3, <1>4

\* What a native function has left behind is gone, and so are its arguments.
LEMMA LeftFacts ==
  ASSUME ApiInv, calls # <<>>
  PROVE  LET f == Last(calls)
             prev == FrameBase(calls, Len(calls) - 1)
             oldtop == base - f.prevstkbase + f.prevtop
             left == Popped(LeftStack(oldtop), oldtop, f.nargs)
         IN  /\ prev \in Nat /\ base - f.prevstkbase = prev /\ base \in Nat /\ base < MaxStack
             /\ base = Len(f.below) /\ Kept(f, stack) /\ IsSeq(f.below)
             /\ oldtop \in Nat /\ f.nargs \in Nat /\ oldtop - f.nargs = base
             /\ f.retval \in BOOLEAN /\ f.callback \in BOOLEAN /\ (f.callback => f.retval)
             /\ OK(left, base, prev, Front(calls), MaxStack, lasterror, heap, closures)
             /\ \A i \in 0 .. MaxStack - 1 : i < base => left[i] = stack[i]
<1>. DEFINE f == Last(calls)
            prev == FrameBase(calls, Len(calls) - 1)
            oldtop == base - f.prevstkbase + f.prevtop
            mid == LeftStack(oldtop)
            left == Popped(mid, oldtop, f.nargs)
            M == MaxStack
<1>1. /\ M \in Nat /\ top \in Nat /\ base \in Nat /\ base <= top /\ top <= M /\ DOMAIN stack = 0 .. M - 1
      /\ \A i \in 0 .. M - 1 : (i >= top => stack[i] = Null) /\ Sound(stack[i], heap, closures)
      /\ Shape(stack, top, base, calls, M)
      /\ HeapOK(heap, closures) /\ ClosuresOK(heap, closures) /\ Sound(lasterror, heap, closures)
  BY OKFacts DEF ApiInv, OK
<1>2. /\ FrameOK(f, prev, M) /\ prev \in Nat /\ base = Len(f.below) /\ Kept(f, stack)
      /\ Shape(stack, top, prev, Front(calls), M)
  BY <1>1, ShapeLeave
<1>. HIDE DEF f, prev, M
<1>3. /\ IsSeq(f.below) /\ prev < base /\ f.prevstkbase = base - prev
      /\ f.nargs \in Nat \ {0} /\ f.prevtop = f.prevstkbase + f.nargs /\ base + f.nargs <= M
      /\ f.retval \in BOOLEAN /\ f.callback \in BOOLEAN /\ (f.callback => f.retval)
  BY <1>2 DEF FrameOK
<1>4. /\ oldtop = base + f.nargs /\ oldtop \in Nat /\ base - f.prevstkbase = prev /\ base < M
      /\ oldtop - f.nargs = base /\ prev <= base /\ base <= M
  BY <1>1, <1>2, <1>3, SMTT(30)
<1>. HIDE DEF oldtop
<1>5. DOMAIN mid = 0 .. M - 1 /\ \A i \in 0 .. M - 1 : mid[i] = IF i >= oldtop /\ i <= top THEN Null ELSE stack[i]
  BY <1>1 DEF LeftStack
<1>. HIDE DEF mid
<1>6. /\ DOMAIN left = 0 .. M - 1
      /\ \A i \in 0 .. M - 1 : left[i] = IF i >= base /\ i < oldtop THEN Null ELSE mid[i]
  BY <1>4, <1>5 DEF Popped
<1>. HIDE DEF left
<1>7. \A i \in 0 .. M - 1 : i < base => left[i] = stack[i]
  <2>1. \A i \in 0 .. M - 1 : i < base => ~(i >= base) /\ ~(i >= oldtop)
    BY <1>1, <1>3, <1>4
  <2>. QED  BY <1>5, <1>6, <2>1
<1>8. \A i \in 0 .. M - 1 : i >= base => left[i] = Null
  <2>1. \A i \in 0 .. M - 1 : i >= oldtop => i <= top \/ i >= top
    BY <1>1
  <2>2. \A i \in 0 .. M - 1 : i >= base => i < oldtop \/ i >= oldtop
    BY <1>1, <1>4
  <2>. QED  BY <1>1, <1>5, <1>6, <2>1, <2>2
<1>9. \A i \in 0 .. M - 1 : Sound(left[i], heap, closures)
  BY <1>1, <1>5, <1>6, PlainSound
<1>10. Shape(left, base, prev, Front(calls), M)
  <2>1. \A i \in 0 .. M - 1 : i < prev => left[i] = stack[i]
    BY <1>1, <1>2, <1>4, <1>7
  <2>. QED  BY <1>1, <1>2, <1>4, <1>6, <1>8, <2>1, ShapeMove
<1>11. OK(left, base, prev, Front(calls), M, lasterror, heap, closures)
  BY <1>1, <1>9, <1>10 DEF OK
<1>. QED  BY <1>1, <1>2, <1>3, <1>4, <1>7, <1>11 DEF f, prev, oldtop, left, mid, M

\* The stack after a return is the caller's, with the result on top or not.
LEMMA ReturnFacts ==
  ASSUME ApiInv, Return
  PROVE  LET f == Last(calls)
             prev == FrameBase(calls, Len(calls) - 1)
             left == Popped(LeftStack(base - f.prevstkbase + f.prevtop), base - f.prevstkbase + f.prevtop, f.nargs)
         IN  /\ calls # <<>> /\ base' = base - f.prevstkbase /\ calls' = Front(calls)
             /\ UNCHANGED <<heap, closures, scene>> /\ Sound(lasterror', heap, closures)
             /\ \/ stack' = left /\ top' = base
                \/ /\ f.retval /\ top' = base + 1
                   /\ \E v : Sound(v, heap, closures) /\ stack' = [left EXCEPT ![base] = v]
<1>. DEFINE f == Last(calls)
            oldtop == base - f.prevstkbase + f.prevtop
            left == Popped(LeftStack(oldtop), oldtop, f.nargs)
            t == oldtop - f.nargs
            res(ret) == IF ret = 1 THEN stack[top - 1] ELSE Null
<1>1. /\ calls # <<>> /\ base' = base - f.prevstkbase /\ calls' = Front(calls)
      /\ UNCHANGED <<heap, closures, scene>>
  BY DEF Return
<1>2. PICK ret \in {-1, 0, 1} :
        /\ ret = 1 => top > base
        /\ IF ret < 0 THEN CallFailed(LeftStack(oldtop), oldtop, f.nargs, f.callback, lasterror)
           ELSE /\ NoError
                /\ stack' = IF f.retval THEN [left EXCEPT ![t] = res(ret)] ELSE left
                /\ top' = IF f.retval THEN t + 1 ELSE t
  BY DEF Return
<1>3. /\ t = base /\ f.retval \in BOOLEAN /\ f.callback \in BOOLEAN /\ (f.callback => f.retval)
  BY <1>1, LeftFacts
<1>4. /\ MaxStack \in Nat /\ top \in Nat /\ base \in Nat /\ base <= top /\ top <= MaxStack /\ Sound(lasterror, heap, closures)
      /\ \A i \in 0 .. MaxStack - 1 : Sound(stack[i], heap, closures)
  BY OKFacts DEF ApiInv
<1>5. Sound(res(ret), heap, closures)
  <2>1. CASE ret = 1
    <3>1. top - 1 \in 0 .. MaxStack - 1
      BY <1>2, <1>4, <2>1
    <3>. QED  BY <1>4, <2>1, <3>1
  <2>2. CASE ret # 1
    BY <2>2, PlainSound
  <2>. QED  BY <2>1, <2>2
<1>. HIDE DEF res, f
<1>6. CASE ret < 0
  <2>1. CallFailed(LeftStack(oldtop), oldtop, f.nargs, f.callback, lasterror)
    BY <1>2, <1>6
  <2>2. \/ stack' = left /\ top' = t
        \/ f.callback /\ stack' = [left EXCEPT ![t] = lasterror] /\ top' = t + 1
    BY <2>1 DEF CallFailed
  <2>3. lasterror' = lasterror \/ lasterror' = Error
    BY <2>1 DEF CallFailed
  <2>4. Sound(lasterror', heap, closures)
    BY <1>4, <2>3, PlainSound
  <2>. HIDE DEF t, left
  <2>. QED  BY <1>1, <1>3, <1>4, <2>2, <2>4 DEF f, left
<1>7. CASE ~(ret < 0)
  <2>1. \/ stack' = left /\ top' = t
        \/ f.retval /\ stack' = [left EXCEPT ![t] = res(ret)] /\ top' = t + 1
    BY <1>2, <1>3, <1>7
  <2>2. Sound(lasterror', heap, closures)
    BY <1>2, <1>4, <1>7 DEF NoError
  <2>. HIDE DEF t, left
  <2>. QED  BY <1>1, <1>3, <1>5, <2>1, <2>2 DEF f, left
<1>. QED  BY <1>6, <1>7

LEMMA ReturnRight ==
  ASSUME ApiInv, Return
  PROVE  ApiInv'
<1>. DEFINE f == Last(calls)
            prev == FrameBase(calls, Len(calls) - 1)
            oldtop == base - f.prevstkbase + f.prevtop
            left == Popped(LeftStack(oldtop), oldtop, f.nargs)
<1>1. /\ calls # <<>> /\ base' = base - f.prevstkbase /\ calls' = Front(calls)
      /\ UNCHANGED <<heap, closures, scene>> /\ Sound(lasterror', heap, closures)
      /\ \/ stack' = left /\ top' = base
         \/ /\ f.retval /\ top' = base + 1
            /\ \E v : Sound(v, heap, closures) /\ stack' = [left EXCEPT ![base] = v]
  BY ReturnFacts
<1>2. /\ base - f.prevstkbase = prev /\ base < MaxStack
      /\ OK(left, base, prev, Front(calls), MaxStack, lasterror', heap, closures)
  BY <1>1, LeftFacts, OKError
<1>. HIDE DEF f, left, prev
<1>3. OK(stack', top', prev, Front(calls), MaxStack, lasterror', heap, closures)
  <2>1. CASE stack' = left /\ top' = base
    BY <1>2, <2>1
  <2>2. CASE top' = base + 1 /\ \E v : Sound(v, heap, closures) /\ stack' = [left EXCEPT ![base] = v]
    <3>1. PICK v : Sound(v, heap, closures) /\ stack' = [left EXCEPT ![base] = v]
      BY <2>2
    <3>2. OK([left EXCEPT ![base] = v], base + 1, prev, Front(calls), MaxStack, lasterror', heap, closures)
      BY <1>2, <3>1, OKPush
    <3>. QED  BY <2>2, <3>1, <3>2
  <2>. QED  BY <1>1, <2>1, <2>2
<1>4. MaxStack' = MaxStack
  BY <1>1 DEF MaxStack
<1>. QED  BY <1>1, <1>2, <1>3, <1>4 DEF ApiInv

-----------------------------------------------------------------------------
(* The theorems. *)

LEMMA InitRight == Init => ApiInv
<1>. SUFFICES ASSUME Init PROVE ApiInv
  OBVIOUS
<1>. DEFINE N == Len(heap)
            M == MaxStack
<1>1. /\ scene \in Scenes /\ heap = scene.heap /\ top = N /\ base = 0
      /\ stack = [i \in 0 .. M - 1 |-> IF i < N THEN Object(heap, i + 1) ELSE Null]
      /\ calls = <<>> /\ closures = <<>> /\ lasterror = Null
  BY DEF Init
<1>2. /\ scene.room \in Nat \ {0} /\ heap \in Seq(ToSet(heap))
      /\ \A o \in DOMAIN heap :
           /\ heap[o] = [kind |-> heap[o].kind, slots |-> heap[o].slots, delegate |-> heap[o].delegate]
           /\ heap[o].kind \in {"table", "userdata"} /\ heap[o].delegate \in 0 .. N
           /\ \A k \in DOMAIN heap[o].slots : heap[o].slots[k] = Null
           /\ o \notin Delegates(heap, o)
  BY <1>1, SceneAssumption
<1>3. IsSeq(heap) /\ N \in Nat /\ DOMAIN heap = 1 .. N
  <2>1. IsSeq(heap)
    BY <1>2 DEF IsSeq
  <2>. QED  BY <2>1, AnySeq
<1>4. M \in Nat /\ N <= M /\ 0 <= N
  BY <1>1, <1>2, <1>3 DEF MaxStack
<1>5. IsSeq(<<>>) /\ Len(<<>>) = 0
  <2>1. <<>> \in Seq({})
    OBVIOUS
  <2>. QED  BY <2>1 DEF IsSeq
<1>. HIDE DEF N, M
<1>6. HeapOK(heap, closures)
  <2>1. \A o \in 1 .. N : ObjectOK(heap[o], heap, closures)
    BY <1>2, <1>3, PlainSound DEF ObjectOK
  <2>2. Chained(heap) /\ Acyclic(heap)
    BY <1>2, <1>3 DEF Chained, Acyclic, N
  <2>. QED  BY <2>1, <2>2 DEF HeapOK, N
<1>7. ClosuresOK(heap, closures)
  BY <1>1, <1>5 DEF ClosuresOK
<1>8. /\ DOMAIN stack = 0 .. M - 1
      /\ \A i \in 0 .. M - 1 : stack[i] = IF i < N THEN Object(heap, i + 1) ELSE Null
  BY <1>1
<1>9. \A i \in 0 .. M - 1 : i >= N => stack[i] = Null
  BY <1>3, <1>8
<1>10. ASSUME NEW i \in 0 .. M - 1 PROVE Sound(stack[i], heap, closures)
  <2>1. CASE i < N
    <3>1. i + 1 \in 1 .. N
      BY <1>3, <2>1
    <3>2. heap[i + 1].kind \in {"table", "userdata"}
      BY <1>2, <1>3, <3>1
    <3>3. Sound(Object(heap, i + 1), heap, closures)
      BY <3>1, <3>2 DEF Sound, Object, Type, N
    <3>. QED  BY <1>8, <2>1, <3>3
  <2>2. CASE ~(i < N)
    BY <1>8, <2>2, PlainSound
  <2>. QED  BY <2>1, <2>2
<1>11. FramesOK(calls, M) /\ FrameBase(calls, Len(calls)) = 0
  <2>1. FrameBase(calls, 0) = 0
    BY DEF FrameBase
  <2>2. Len(calls) = 0 /\ IsSeq(calls) /\ (\A n \in 0 .. Len(calls) : n = 0) /\ ~(\E n \in 1 .. Len(calls) : TRUE)
    BY <1>1, <1>5
  <2>. QED  BY <2>1, <2>2 DEF FramesOK
<1>12. Shape(stack, top, base, calls, M)
  <2>1. \A n \in 1 .. Len(calls) : Kept(calls[n], stack)
    BY <1>1, <1>5
  <2>2. 0 \in Nat
    OBVIOUS
  <2>. QED  BY <1>1, <1>3, <1>4, <1>8, <1>9, <1>11, <2>1, <2>2 DEF Shape
<1>13. Sound(lasterror, heap, closures)
  BY <1>1, PlainSound
<1>. QED  BY <1>1, <1>6, <1>7, <1>10, <1>12, <1>13 DEF ApiInv, OK, M

LEMMA StepRight == ApiInv /\ [Next]_vars => ApiInv'
<1>. SUFFICES ASSUME ApiInv, [Next]_vars PROVE ApiInv'
  OBVIOUS
<1>1. CASE UNCHANGED vars
  <2>1. MaxStack' = MaxStack
    BY <1>1 DEF vars, MaxStack
  <2>. QED  BY <1>1, <2>1 DEF vars, ApiInv
<1>2. CASE Next
  <2>1. Operation
    BY <1>2 DEF Next
  <2>2. CASE Values
    BY <2>2, PushesRight, PopsRight DEF Values
  <2>3. CASE Order
    BY <2>3, PushesRight, OrderRight DEF Order
  <2>8. CASE SqRemove
    BY <2>8, OrderRight
  <2>4. CASE Errors
    BY <2>4, PushesRight, PopsRight DEF Errors
  <2>5. CASE Slots
    BY <2>5, SqNewSlotRight, SqDeleteSlotRight, RawDeleteSlotRight, SqSetRight, RawSetRight, SqGetRight, ClearRight
       DEF Slots
  <2>6. CASE Objects
    BY <2>6, PushesRight, SqCloneRight, SqSetDelegateRight, GetDelegateRight DEF Objects
  <2>7. CASE Functions
    BY <2>7, MakeClosureRight, ClosureActionsRight, SqCallRight, ReturnRight DEF Functions
  <2>. QED  BY <2>1, <2>2, <2>3, <2>4, <2>5, <2>6, <2>7, <2>8 DEF Operation
<1>. QED  BY <1>1, <1>2

\* Whatever the host does with the API, in any order and depth of calls: the frames
\* of the native functions under way (CallNative, EnterFrame) lie on each other
\* and what is below a frame is what its call found there; every value on the
\* stack, in a slot and among the free variables names an object or a closure that
\* exists; the free variables of a closure are those the host gave, the pointer to
\* its data after them; and the delegates form no cycle.
THEOREM ApiInvariant == Spec => []ApiInv
BY InitRight, StepRight, PTL DEF Spec

\* The slots above _top are null, so that the collector, which marks the whole
\* stack, keeps nothing alive that the host has given up.
THEOREM DeadSlotsNullHolds == Spec => []DeadSlotsNull
<1>1. ApiInv => DeadSlotsNull
  BY OKFacts DEF ApiInv, DeadSlotsNull
<1>. QED  BY <1>1, ApiInvariant, PTL

\* SQDelegable::SetDelegate lets no cycle of delegates come about, so that the
\* recursion of SQVM::Get and Set ends.
THEOREM DelegatesAcyclicHolds == Spec => []DelegatesAcyclic
<1>1. ApiInv => DelegatesAcyclic
  BY OKFacts DEF ApiInv, DelegatesAcyclic, HeapOK, Acyclic
<1>. QED  BY <1>1, ApiInvariant, PTL

\* Every function of the host is run by CallNative, through the trampoline
\* squirrel_exec_native_closure or not, with its own data, the arguments of the
\* call and its free variables by number; a bound environment comes first, or null
\* if nothing but weak references to it are left.
THEOREM FunctionsServedHolds == Spec => []FunctionsServed
<1>1. ASSUME ApiInv PROVE FunctionsServed
  <2>1. FramesOK(calls, MaxStack)
    BY <1>1, OKFacts DEF ApiInv
  <2>2. DOMAIN calls = 1 .. Len(calls)
    BY <2>1, AnySeq DEF FramesOK
  <2>. QED  BY <2>1, <2>2 DEF FramesOK, FrameOK, FunctionsServed
<1>. QED  BY <1>1, ApiInvariant, PTL

\* Only a return takes a frame away.
LEMMA OnlyReturns ==
  ASSUME ApiInv, Next
  PROVE  Return \/ Len(calls') >= Len(calls)
<1>1. IsSeq(calls) /\ Len(calls) \in Nat
  <2>1. IsSeq(calls)
    BY OKFacts DEF ApiInv, FramesOK
  <2>. QED  BY <2>1, AnySeq
<1>2. Operation
  BY DEF Next
<1>3. ASSUME calls' = calls PROVE Len(calls') >= Len(calls)
  BY <1>1, <1>3
<1>4. CASE Values
  BY <1>3, <1>4 DEF Values, PushString, SqPush, SqPop, SameRest
<1>5. CASE Order
  BY <1>3, <1>5 DEF Order, PushNull, SetTop, SameRest
<1>10. CASE SqRemove
  BY <1>3, <1>10 DEF SqRemove, SameRest
<1>6. CASE Errors
  BY <1>3, <1>6 DEF Errors, ThrowObject, ResetError, GetLastError, SameRest
<1>7. CASE Slots
  <2>1. SameRest
    BY <1>7 DEF Slots, SqNewSlot, SqDeleteSlot, RawDeleteSlot, SqSet, RawSet, SqGet, RawGet, Clear
  <2>. QED  BY <1>3, <2>1 DEF SameRest
<1>8. CASE Objects
  <2>1. SameRest
    BY <1>8 DEF Objects, NewTable, NewUserData, NewObject, SqClone, SqSetDelegate, GetDelegate
  <2>. QED  BY <1>3, <2>1 DEF SameRest
<1>9. CASE Functions
  <2>1. CASE MakeClosure \/ SetParamsCheck \/ BindEnv \/ GetFreeVariable \/ SetFreeVariable
    <3>1. SameRest
      BY <2>1 DEF MakeClosure, SetParamsCheck, BindEnv, GetFreeVariable, SetFreeVariable
    <3>. QED  BY <1>3, <3>1 DEF SameRest
  <2>2. CASE SqCall
    <3>1. (\E f : calls' = Append(calls, f)) \/ SameRest
      <4>1. ASSUME NEW c, NEW nargs, NEW retval, NEW callback, CallNative(c, nargs, retval, callback)
            PROVE  \E f : calls' = Append(calls, f)
        BY <4>1, Zenon DEF CallNative
      <4>2. SameRest \/ \E c, nargs, retval, callback : CallNative(c, nargs, retval, callback)
        BY <2>2, Zenon DEF SqCall
      <4>. QED  BY <4>1, <4>2, Zenon
    <3>2. ASSUME NEW f, calls' = Append(calls, f) PROVE Len(calls') >= Len(calls)
      <4>1. Len(calls') = Len(calls) + 1
        BY <1>1, <3>2, AnyAppend
      <4>. QED  BY <1>1, <4>1
    <3>. QED  BY <1>3, <3>1, <3>2 DEF SameRest
  <2>. QED  BY <1>9, <2>1, <2>2 DEF Functions
<1>. QED  BY <1>2, <1>4, <1>5, <1>6, <1>7, <1>8, <1>9, <1>10 DEF Operation

\* Balanced is what CallsBalanced says of one step.
Balanced ==
  LET f == Last(calls)
      now == Frame(0, top)'
  IN  /\ base' = base - f.prevstkbase
      /\ f.below = SubSeq(now, 1, Len(f.below))
      /\ Len(now) \in IF f.retval THEN {Len(f.below), Len(f.below) + 1} ELSE {Len(f.below)}

LEMMA ReturnBalanced ==
  ASSUME ApiInv, Return
  PROVE  Balanced
<1>. DEFINE f == Last(calls)
            prev == FrameBase(calls, Len(calls) - 1)
            oldtop == base - f.prevstkbase + f.prevtop
            left == Popped(LeftStack(oldtop), oldtop, f.nargs)
            M == MaxStack
            now == Frame(0, top)'
            part == SubSeq(now, 1, Len(f.below))
<1>1. /\ calls # <<>> /\ base' = base - f.prevstkbase
      /\ \/ stack' = left /\ top' = base
         \/ /\ f.retval /\ top' = base + 1
            /\ \E v : Sound(v, heap, closures) /\ stack' = [left EXCEPT ![base] = v]
  BY ReturnFacts
<1>2. /\ base \in Nat /\ base < M /\ base = Len(f.below) /\ Kept(f, stack) /\ IsSeq(f.below)
      /\ f.retval \in BOOLEAN
      /\ OK(left, base, prev, Front(calls), M, lasterror, heap, closures)
      /\ \A i \in 0 .. M - 1 : i < base => left[i] = stack[i]
  BY <1>1, LeftFacts
<1>3. DOMAIN left = 0 .. M - 1 /\ M \in Nat
  BY <1>2, OKFacts
<1>. HIDE DEF f, left, prev, M
<1>4. \A i \in 0 .. M - 1 : i < base => stack'[i] = stack[i]
  <2>1. CASE stack' = left
    BY <1>2, <2>1
  <2>2. CASE \E v : stack' = [left EXCEPT ![base] = v]
    <3>1. \A i \in 0 .. M - 1 : i < base => i # base
      BY <1>2, <1>3
    <3>. QED  BY <1>2, <1>3, <2>2, <3>1
  <2>. QED  BY <1>1, <2>1, <2>2
<1>5. top' \in Nat /\ base <= top' /\ top' \in IF f.retval THEN {base, base + 1} ELSE {base}
  BY <1>1, <1>2
<1>6. /\ DOMAIN now = 1 .. top' /\ now = [i \in 1 .. top' |-> now[i]]
      /\ \A i \in 1 .. top' : now[i] = stack'[i - 1]
  <2>0. PICK t \in Nat : t = top'
    BY <1>5
  <2>1. t - 0 = t /\ \A i \in 1 .. t : 0 + i - 1 = i - 1
    OBVIOUS
  <2>2. now = [i \in 1 .. t - 0 |-> stack'[0 + i - 1]]
    BY <2>0 DEF Frame
  <2>. HIDE DEF now
  <2>. QED  BY <2>0, <2>1, <2>2
<1>. HIDE DEF now
<1>7. IsSeq(now) /\ Len(now) = top'
  BY <1>5, <1>6, AnyFunction
<1>8. /\ DOMAIN part = 1 .. base /\ part = [i \in 1 .. base |-> part[i]]
      /\ \A i \in 1 .. base : part[i] = now[i]
  <2>1. Len(f.below) - 1 + 1 = base /\ \A i \in 1 .. base : 1 + i - 1 = i
    BY <1>2
  <2>2. part = [i \in 1 .. base |-> now[i]]
    BY <1>2, <2>1
  <2>. HIDE DEF part
  <2>. QED  BY <2>2
<1>. HIDE DEF part
<1>9. IsSeq(part) /\ Len(part) = base
  BY <1>2, <1>8, AnyFunction
<1>10. ASSUME NEW i \in 1 .. base PROVE part[i] = f.below[i]
  <2>1. i \in 1 .. top' /\ i - 1 \in 0 .. M - 1 /\ i - 1 < base
    BY <1>2, <1>3, <1>5
  <2>2. f.below[i] = stack[i - 1]
    BY <1>2 DEF Kept
  <2>. QED  BY <1>4, <1>6, <1>8, <2>1, <2>2
<1>11. f.below = part
  BY <1>2, <1>9, <1>10, AnyEqual
<1>12. base' = base - f.prevstkbase /\ Len(now) \in IF f.retval THEN {Len(f.below), Len(f.below) + 1} ELSE {Len(f.below)}
  BY <1>1, <1>2, <1>5, <1>7
<1>. QED  BY <1>11, <1>12 DEF Balanced, f, part, now

\* A native function that returns, whether it fails or not and whatever it has
\* pushed, popped, called or left behind, leaves its caller's frame as it was
\* (SQVM::CallNative, LeaveFrame, sq_call), its arguments gone and, only if it was
\* asked for, one value in their place.
THEOREM CallsBalancedHolds == Spec => CallsBalanced
<1>1. ApiInv /\ [Next]_vars => [Len(calls') < Len(calls) => Balanced]_vars
  <2>. SUFFICES ASSUME ApiInv, Next, Len(calls') < Len(calls) PROVE Balanced
    BY DEF vars
  <2>1. Return \/ Len(calls') >= Len(calls)
    BY OnlyReturns
  <2>2. Len(calls) \in Nat /\ Len(calls') \in Nat
    <3>1. IsSeq(calls) /\ IsSeq(calls')
      BY StepRight, OKFacts DEF ApiInv, FramesOK
    <3>. QED  BY <3>1, AnySeq
  <2>. QED  BY <2>1, <2>2, ReturnBalanced
<1>. QED  BY <1>1, ApiInvariant, PTL DEF Spec, CallsBalanced, Balanced
=============================================================================
