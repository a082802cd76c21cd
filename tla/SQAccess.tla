------------------------------ MODULE SQAccess ------------------------------
(***************************************************************************)
(* Reading, writing, creating and deleting slots of tables and userdata    *)
(* through delegates and metamethods (squirrel/sqvm.cpp), and              *)
(* SQDelegable::SetDelegate (sqobject.cpp).  A heap h has objects 1..n;    *)
(* h[o] is [kind, slots, delegate], delegate 0 for none.  Metamethods run  *)
(* script code: calls[o] says how one called for object o ends, "ok",      *)
(* "clean" (it throws null, which means not found) or "error".             *)
(***************************************************************************)
EXTENDS SQFold, FiniteSets

CONSTANT DefaultDelegate     \* names in _table_ddel, the functions every table has

ASSUME AccessAssumption == IsFiniteSet(DefaultDelegate)

Has(h, o, k) == k \in DOMAIN h[o].slots
With(f, k, v) == [x \in DOMAIN f \cup {k} |-> IF x = k THEN v ELSE f[x]]
Without(f, k) == [x \in DOMAIN f \ {k} |-> f[x]]

\* SQDelegable::GetMetaMethod: only the delegate itself is asked.
GetMetaMethod(h, o, mm) == h[o].delegate # 0 /\ Has(h, h[o].delegate, mm)

Found(v) == [r |-> "ok", v |-> v]
Missing == [r |-> "missing", v |-> "none"]
Failed == [r |-> "error", v |-> "none"]

-----------------------------------------------------------------------------
(* Get. *)

\* What the metamethod _get comes to for object o: FALLBACK_OK, _NO_MATCH, _ERROR.
CallGet(h, o, calls) ==
  CASE ~GetMetaMethod(h, o, "_get") \/ calls[o] = "clean" -> Missing
    [] GetMetaMethod(h, o, "_get") /\ calls[o] = "ok" -> Found(<<"_get", o>>)
    [] GetMetaMethod(h, o, "_get") /\ calls[o] = "error" -> Failed

InvokeDefaultDelegate(h, o, k) ==
  IF h[o].kind = "table" /\ k \in DefaultDelegate THEN Found(<<"default", k>>) ELSE Missing

\* Mutant: the metamethod is asked before the delegate.
FallBackGetEager(h, o, d, calls) ==
  LET m == CallGet(h, o, calls) IN IF m.r # "missing" \/ h[o].delegate = 0 THEN m ELSE d

\* FallBackGet: the delegate and all it falls back to, which answer d, then the
\* metamethod, which is asked whatever kept the delegate from answering.
FallBackGet(h, o, d, calls) ==
  IF h[o].delegate = 0 THEN Missing ELSE IF d.r = "ok" THEN d ELSE CallGet(h, o, calls)

\* Get for object o alone, its delegate's answer being d.
GetOne(h, o, k, d, calls) ==
  IF Has(h, o, k) THEN Found(h[o].slots[k])
  ELSE LET f == FallBackGet(h, o, d, calls)
       IN  IF f.r = "missing" THEN InvokeDefaultDelegate(h, o, k) ELSE f

\* Get without the fall back to the root table, which only instructions take.  It
\* calls itself for the delegate; without a cycle that is at most Len(h) deep.
Get(h, o, k, calls) ==
  LET get[i \in 0 .. Len(h)] ==
        [x \in DOMAIN h |->
           GetOne(h, x, k, IF i = 0 \/ h[x].delegate = 0 THEN Missing ELSE get[i - 1][h[x].delegate], calls)]
  IN  get[Len(h)][o]

-----------------------------------------------------------------------------
(* Set, NewSlot, DeleteSlot, Clone: the heap afterwards, and what happened. *)

Did(h, r) == [h |-> h, r |-> r.r, v |-> r.v]

\* FallBackSet: a table asks its delegate first, which answers d, userdata only
\* its metamethod.
FallBackSet(h, o, d, calls) ==
  IF h[o].kind = "table" /\ d.r = "ok" THEN d
  ELSE CASE ~GetMetaMethod(h, o, "_set") \/ calls[o] = "clean" -> Did(h, Missing)
         [] GetMetaMethod(h, o, "_set") /\ calls[o] = "ok" -> Did(h, Found(<<"_set", o>>))
         [] GetMetaMethod(h, o, "_set") /\ calls[o] = "error" -> Did(h, Failed)

\* Set for object o alone, its delegate's answer being d: only a slot that exists
\* is changed.
SetOne(h, o, k, v, d, calls) ==
  IF h[o].kind = "table" /\ Has(h, o, k)
  THEN Did([h EXCEPT ![o].slots = With(@, k, v)], Found(o))
  ELSE FallBackSet(h, o, d, calls)

Set(h, o, k, v, calls) ==
  LET set[i \in 0 .. Len(h)] ==
        [x \in DOMAIN h |->
           SetOne(h, x, k, v, IF i = 0 \/ h[x].delegate = 0 THEN Did(h, Missing) ELSE set[i - 1][h[x].delegate], calls)]
  IN  set[Len(h)][o]

NewSlot(h, o, k, v, calls) ==
  CASE h[o].kind # "table" -> Did(h, Failed)
    [] h[o].kind = "table" /\ ~Has(h, o, k) /\ GetMetaMethod(h, o, "_newslot") ->
         Did(h, IF calls[o] = "ok" THEN Found(<<"_newslot", o>>) ELSE Failed)
    [] OTHER -> Did([h EXCEPT ![o].slots = With(@, k, v)], Found(o))

DeleteSlot(h, o, k, calls) ==
  CASE GetMetaMethod(h, o, "_delslot") -> Did(h, IF calls[o] = "ok" THEN Found(<<"_delslot", o>>) ELSE Failed)
    [] ~GetMetaMethod(h, o, "_delslot") /\ h[o].kind = "table" /\ Has(h, o, k) ->
         Did([h EXCEPT ![o].slots = Without(@, k)], Found(h[o].slots[k]))
    [] OTHER -> Did(h, Failed)

\* A clone has the slots and the delegate of the original, and _cloned is called
\* on it; if that fails the clone is dropped.
Clone(h, o, calls) ==
  CASE h[o].kind # "table" -> Did(h, Failed)
    [] h[o].kind = "table" /\ GetMetaMethod(h, o, "_cloned") /\ calls[o] # "ok" -> Did(h, Failed)
    [] OTHER -> Did(Append(h, h[o]), Found(Len(h) + 1))

-----------------------------------------------------------------------------
(* Delegates. *)

\* Sets of objects that no delegate leads out of.
Closed(h, S) == \A x \in S : h[x].delegate # 0 => h[x].delegate \in S

\* What a walk along the delegates of o comes to: all that is in every closed set
\* with the first of them.
Delegates(h, o) ==
  {x \in DOMAIN h : \A S \in SUBSET DOMAIN h : Closed(h, S) /\ (h[o].delegate # 0 => h[o].delegate \in S) => x \in S}

\* Mutant: the delegate of the delegate is not looked at.
MayDelegateOne(h, o, mt) == mt = 0 \/ (mt # o /\ h[mt].delegate # o)

\* SetDelegate refuses mt if o is mt or a delegate of it.
MayDelegate(h, o, mt) == mt = 0 \/ (mt # o /\ o \notin Delegates(h, mt))

SetDelegate(h, o, mt) == IF MayDelegate(h, o, mt) THEN [h EXCEPT ![o].delegate = mt] ELSE h

-----------------------------------------------------------------------------
(* What the manual says: the nearest object of the chain that has the slot    *)
(* counts, metamethods only when there is none.  Written without recursion on *)
(* the chain, as the reference for Get and Set.                               *)

Chain(h, o) ==
  LET c[i \in 0 .. Len(h)] ==
        IF i = 0 THEN <<o>>
        ELSE IF h[c[i - 1][Len(c[i - 1])]].delegate = 0 THEN c[i - 1]
        ELSE Append(c[i - 1], h[c[i - 1][Len(c[i - 1])]].delegate)
  IN  c[Len(h)]

\* Of the metamethods, the one furthest from the object that succeeds; an error
\* counts only if it is the object's own metamethod that fails.
ByMetaMethod(h, c, mm, calls) ==
  LET good == {i \in 1 .. Len(c) - 1 : Has(h, c[i + 1], mm) /\ calls[c[i]] = "ok"}
  IN  IF good # {} THEN Found(<<mm, c[CHOOSE i \in good : \A j \in good : j <= i]>>)
      ELSE IF Len(c) > 1 /\ Has(h, c[2], mm) /\ calls[c[1]] = "error" THEN Failed
      ELSE Missing

ExpectedGet(h, o, k, calls) ==
  LET c == Chain(h, o)
      holders == {i \in DOMAIN c : Has(h, c[i], k)}
  IN  IF holders # {} THEN Found(h[c[CHOOSE i \in holders : \A j \in holders : i <= j]].slots[k])
      ELSE IF h[c[Len(c)]].kind = "table" /\ k \in DefaultDelegate THEN Found(<<"default", k>>)
      ELSE ByMetaMethod(h, c, "_get", calls)

\* Userdata has no slots of its own and passes no value on to its delegate.
ExpectedSet(h, o, k, v, calls) ==
  LET c == Chain(h, o)
      holders == {i \in DOMAIN c : Has(h, c[i], k)}
      near == c[CHOOSE i \in holders : \A j \in holders : i <= j]
  IN  CASE h[o].kind = "table" /\ holders # {} -> Did([h EXCEPT ![near].slots = With(@, k, v)], Found(near))
        [] h[o].kind = "table" /\ holders = {} -> Did(h, ByMetaMethod(h, c, "_set", calls))
        [] OTHER -> Did(h, ByMetaMethod(h, IF Len(c) > 1 THEN <<c[1], c[2]>> ELSE c, "_set", calls))
=============================================================================
