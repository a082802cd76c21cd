------------------------------ MODULE SQClass ------------------------------
(***************************************************************************)
(* Classes, instances and member handles (squirrel/sqclass.cpp, sqclass.h, *)
(* and the functions of sqapi.cpp that work on them).  A class finds a     *)
(* member by its key in _members, which holds an index into _defaultvalues *)
(* (fields) or _methods; an instance is one block of memory with a value   *)
(* for each field, sized when it is created.  Reference counts are those   *)
(* of SQHeap; methods are called in SQVMExec.  A class also remembers, for *)
(* the properties only, which members of its bases it was derived with.    *)
(***************************************************************************)
EXTENDS Integers, Sequences, FiniteSets

CONSTANTS Keys,            \* names of members
          MetaNames,       \* those of them that are names of metamethods
          Data, Closures,  \* values of fields, and functions
          MEMBER_MAX_COUNT,
          MaxClasses, MaxInstances, MaxHandles, MaxSteps,  \* bounds
          UdSizes          \* sizes of user data in an instance

ASSUME ClassAssumption ==
  /\ MetaNames \subseteq Keys /\ "constructor" \in Keys \ MetaNames /\ "_newmember" \in MetaNames
  /\ Data \cap Closures = {} /\ "null" \in Data
  /\ {MEMBER_MAX_COUNT, MaxClasses, MaxInstances, MaxHandles, MaxSteps} \cup UdSizes \subseteq Nat

VARIABLES cls,      \* the classes, by order of creation
          inst,     \* the instances
          steps,    \* operations so far
          stray,    \* an index was used outside of its vector
          handles   \* HSQMEMBERHANDLEs the host keeps, with the class and key they were got for
vars == <<cls, inst, handles, steps, stray>>

Values == Data \cup Closures
NoMember == <<"none", 0>>
Named(c) == {k \in Keys : c.members[k] # NoMember}
IsField(m) == m[1] = "field"
Vector(c, m) == IF IsField(m) THEN c.defaultvalues ELSE c.methods
NewMemberOf(v) == [val |-> v, attrs |-> "null"]
HandleOf(c, key) == [class |-> c, key |-> key, member |-> cls[c].members[key]]
Inherited(b) == {HandleOf(b, k) : k \in Named(cls[b])} \cup cls[b].inherited

-----------------------------------------------------------------------------
(* SQClass. *)

\* Mutant: the derived class is given its base's methods but not its constructor.
DerivedWithout(b) ==
  [members |-> cls[b].members, defaultvalues |-> cls[b].defaultvalues, methods |-> cls[b].methods,
   metamethods |-> cls[b].metamethods, base |-> b, locked |-> FALSE, constructoridx |-> 0, udsize |-> cls[b].udsize,
   inherited |-> Inherited(b)]

\* Mutant: the derived class counts its base's fields from the other end.
DerivedReversed(b) ==
  LET n == Len(cls[b].defaultvalues)
      Index(m) == IF IsField(m) THEN <<"field", n + 1 - m[2]>> ELSE m
  IN  [members |-> [k \in Keys |-> Index(cls[b].members[k])],
       defaultvalues |-> [i \in 1 .. n |-> cls[b].defaultvalues[n + 1 - i]], methods |-> cls[b].methods,
       metamethods |-> cls[b].metamethods, base |-> b, locked |-> FALSE,
       constructoridx |-> cls[b].constructoridx, udsize |-> cls[b].udsize, inherited |-> Inherited(b)]

\* The constructor with a base: everything but the lock is copied.
Derived(b) ==
  [members |-> cls[b].members, defaultvalues |-> cls[b].defaultvalues, methods |-> cls[b].methods,
   metamethods |-> cls[b].metamethods, base |-> b, locked |-> FALSE,
   constructoridx |-> cls[b].constructoridx, udsize |-> cls[b].udsize, inherited |-> Inherited(b)]

Fresh ==
  [members |-> [k \in Keys |-> NoMember], defaultvalues |-> <<>>, methods |-> <<>>,
   metamethods |-> [k \in MetaNames |-> "null"], base |-> 0, locked |-> FALSE, constructoridx |-> 0, udsize |-> 0,
   inherited |-> {}]

\* Mutant: a class that has instances still takes new fields.
AcceptsUnlocked(c, key, static) == ~IsField(c.members[key]) => Cardinality(Named(c)) < MEMBER_MAX_COUNT

\* When NewSlot refuses: a locked class takes functions and statics only, and
\* nothing new once the index is full.
Accepts(c, key, static) ==
  /\ c.locked => static
  /\ ~IsField(c.members[key]) => Cardinality(Named(c)) < MEMBER_MAX_COUNT

\* Mutant: a new method takes the index of the last one.
NewMethodOver(c, key, val) ==
  [c EXCEPT !.members[key] = <<"method", Len(c.methods)>>,
            !.methods = IF @ = <<>> THEN <<NewMemberOf(val)>> ELSE [@ EXCEPT ![Len(@)] = NewMemberOf(val)]]

\* A key that was not there becomes a method; the constructor's index is kept.
NewMethod(c, key, val) ==
  [c EXCEPT !.members[key] = <<"method", Len(c.methods) + 1>>,
            !.methods = Append(@, NewMemberOf(val)),
            !.constructoridx = IF key = "constructor" THEN Len(c.methods) + 1 ELSE @]

\* Mutant: a field that is given a new default value gets a new index.
NewSlotRenewing(c, key, val, bstatic) ==
  IF (IsField(c.members[key]) /\ ~c.locked) \/ (val \notin Closures /\ ~bstatic)
  THEN [c EXCEPT !.members[key] = <<"field", Len(c.defaultvalues) + 1>>,
                 !.defaultvalues = Append(@, NewMemberOf(val))]
  ELSE IF c.members[key] = NoMember THEN NewMethod(c, key, val) ELSE c

\* SQClass::NewSlot on c, once accepted.  A field stays a field whatever is put
\* there; a method can become a field, and leaves its old index unused.
NewSlot(c, key, val, bstatic) ==
  LET m == c.members[key]
      static == bstatic \/ val \in Closures
  IN  CASE IsField(m) -> [c EXCEPT !.defaultvalues[m[2]].val = val]
        [] ~IsField(m) /\ val \in Closures /\ key \in MetaNames -> [c EXCEPT !.metamethods[key] = val]
        [] ~IsField(m) /\ static /\ ~(val \in Closures /\ key \in MetaNames) ->
             IF m = NoMember THEN NewMethod(c, key, val) ELSE [c EXCEPT !.methods[m[2]].val = val]
        [] OTHER -> [c EXCEPT !.members[key] = <<"field", Len(c.defaultvalues) + 1>>,
                              !.defaultvalues = Append(@, NewMemberOf(val))]

\* SQClass::SetAttributes; a key that is no member is left alone.
SetAttributes(c, key, val) ==
  LET m == c.members[key]
  IN  CASE m[1] = "field" -> [c EXCEPT !.defaultvalues[m[2]].attrs = val]
        [] m[1] = "method" -> [c EXCEPT !.methods[m[2]].attrs = val]
        [] OTHER -> c

\* A class and all it derives from, as Lock and InstanceOf walk them; 0 is no class.
Lineage[c \in 0 .. Len(cls)] == IF c = 0 THEN {} ELSE {c} \cup Lineage[cls[c].base]

-----------------------------------------------------------------------------
(* What scripts and the host do. *)

\* Nothing is said of what a machine does after an access outside of a vector.
Tick == ~stray /\ steps < MaxSteps /\ steps' = steps + 1 /\ UNCHANGED stray

\* sq_newclass, CLASS_OP.
NewClass ==
  /\ Tick
  /\ Len(cls) < MaxClasses
  /\ \E b \in 0 .. Len(cls) : cls' = Append(cls, IF b = 0 THEN Fresh ELSE Derived(b))
  /\ UNCHANGED <<inst, handles>>

\* sq_newslot and the <- operator.  sq_newslot drops a refusal.
ClassNewSlot ==
  \E c \in DOMAIN cls, key \in Keys, val \in Values, bstatic \in BOOLEAN :
    /\ Tick
    /\ Accepts(cls[c], key, bstatic \/ val \in Closures)
    /\ cls' = [cls EXCEPT ![c] = NewSlot(@, key, val, bstatic)]
    /\ UNCHANGED <<inst, handles>>

\* NewSlotA, sq_newmember, sq_rawnewmember: a member with attributes, unless a
\* _newmember metamethod takes the call.
NewSlotA ==
  \E c \in DOMAIN cls, key \in Keys, val \in Values, bstatic \in BOOLEAN, raw \in BOOLEAN :
    /\ Tick
    /\ raw \/ cls[c].metamethods["_newmember"] = "null"
    /\ Accepts(cls[c], key, bstatic \/ val \in Closures)
    /\ cls' = [cls EXCEPT ![c] = SetAttributes(NewSlot(@, key, val, bstatic), key, "attr")]
    /\ UNCHANGED <<inst, handles>>

\* Mutant: only the class itself is locked.
CreateInstanceLockingOne ==
  \E c \in DOMAIN cls :
    /\ Tick
    /\ Len(inst) < MaxInstances
    /\ cls' = [cls EXCEPT ![c].locked = TRUE]
    /\ inst' = Append(inst, [class |-> c, udsize |-> cls[c].udsize,
                             values |-> [n \in DOMAIN cls[c].defaultvalues |-> cls[c].defaultvalues[n].val]])
    /\ UNCHANGED handles

\* CreateInstance locks the class and its bases, and copies the default values
\* into a block of their number and the size of the user data.
CreateInstance ==
  \E c \in DOMAIN cls :
    /\ Tick
    /\ Len(inst) < MaxInstances
    /\ cls' = [d \in DOMAIN cls |-> IF d \in Lineage[c] THEN [cls[d] EXCEPT !.locked = TRUE] ELSE cls[d]]
    /\ inst' = Append(inst, [class |-> c, udsize |-> cls[c].udsize,
                             values |-> [n \in DOMAIN cls[c].defaultvalues |-> cls[c].defaultvalues[n].val]])
    /\ UNCHANGED handles

\* SQInstance::Clone sizes the block by the class as it is now.
Clone ==
  \E i \in DOMAIN inst :
    /\ Tick
    /\ Len(inst) < MaxInstances
    /\ inst' = Append(inst, [inst[i] EXCEPT !.udsize = cls[inst[i].class].udsize])
    /\ UNCHANGED <<cls, handles>>

\* SQInstance::Set.
InstanceSet ==
  \E i \in DOMAIN inst, key \in Keys, val \in Values :
    LET m == cls[inst[i].class].members[key]
    IN  /\ Tick
        /\ IsField(m)
        /\ inst' = [inst EXCEPT ![i].values[m[2]] = val]
        /\ UNCHANGED <<cls, handles>>

\* sq_setclassudsize.
SetClassUdSize ==
  \E c \in DOMAIN cls, n \in UdSizes :
    /\ Tick
    /\ ~cls[c].locked
    /\ cls' = [cls EXCEPT ![c].udsize = n]
    /\ UNCHANGED <<inst, handles>>

\* sq_getmemberhandle.
GetMemberHandle ==
  \E c \in DOMAIN cls : \E key \in Named(cls[c]) :
    /\ Tick
    /\ Cardinality(handles) < MaxHandles
    /\ handles' = handles \cup {HandleOf(c, key)}
    /\ UNCHANGED <<cls, inst>>

\* sq_setbyhandle on any instance, or on any class; a static member is its class's
\* in both cases.  The index is used as it is, of whatever class the handle was got.
SetByHandle ==
  \E h \in handles, val \in Values :
    \/ \E i \in DOMAIN inst :
         /\ Tick
         /\ IsField(h.member) /\ h.member[2] \in DOMAIN inst[i].values
         /\ inst' = [inst EXCEPT ![i].values[h.member[2]] = val]
         /\ UNCHANGED <<cls, handles>>
    \/ \E c \in DOMAIN cls :
         /\ Tick
         /\ h.member[2] \in DOMAIN Vector(cls[c], h.member)
         /\ cls' = IF IsField(h.member) THEN [cls EXCEPT ![c].defaultvalues[h.member[2]].val = val]
                   ELSE [cls EXCEPT ![c].methods[h.member[2]].val = val]
         /\ UNCHANGED <<inst, handles>>

\* sq_getbyhandle and sq_setbyhandle with an index that is not there.
UseStrayHandle ==
  /\ ~stray /\ steps < MaxSteps /\ steps' = steps + 1
  /\ \E h \in handles :
       \/ \E i \in DOMAIN inst : IsField(h.member) /\ h.member[2] \notin DOMAIN inst[i].values
       \/ \E c \in DOMAIN cls : h.member[2] \notin DOMAIN Vector(cls[c], h.member)
  /\ stray' = TRUE
  /\ UNCHANGED <<cls, inst, handles>>

Init == cls = <<>> /\ inst = <<>> /\ handles = {} /\ steps = 0 /\ stray = FALSE
Next ==
  \/ NewClass \/ ClassNewSlot \/ NewSlotA \/ CreateInstance \/ Clone \/ InstanceSet \/ SetClassUdSize
  \/ GetMemberHandle \/ SetByHandle \/ UseStrayHandle
Spec == Init /\ [][Next]_vars

-----------------------------------------------------------------------------
(* Properties. *)

ClassMember == [val : Values, attrs : {"null", "attr"}]
MemberIndex == {"field", "method"} \X Nat
Handle == [class : Nat, key : Keys, member : MemberIndex]

ClassType == [members : [Keys -> MemberIndex \cup {NoMember}], defaultvalues : Seq(ClassMember),
              methods : Seq(ClassMember), metamethods : [MetaNames -> Closures \cup {"null"}], base : Nat, locked : BOOLEAN,
              constructoridx : Nat, udsize : Nat, inherited : SUBSET Handle]

CountersOK == steps \in 0 .. MaxSteps /\ stray \in BOOLEAN

\* The types of classes, instances and handles.
TypeOK ==
  /\ CountersOK
  /\ cls \in Seq(ClassType)
  /\ \A c \in DOMAIN cls : cls[c].base < c /\ cls[c].constructoridx <= Len(cls[c].methods)
  /\ inst \in Seq([class : DOMAIN cls, udsize : Nat, values : Seq(Values)])
  /\ handles \subseteq [class : DOMAIN cls, key : Keys, member : MemberIndex]

\* Every index in _members of c is inside its vector and is that of one key only.
Indexed(c) ==
  \A k \in Named(c) :
    /\ c.members[k][2] \in DOMAIN Vector(c, c.members[k])
    /\ \A l \in Keys \ {k} : c.members[l] # c.members[k]

\* No two members of a class share a value, and none lies outside its vector.
MembersIndexed == TypeOK /\ \A c \in DOMAIN cls : Indexed(cls[c])

\* The block of instance o has a place for each field of class c and its user data.
Fits(o, c) == c.locked /\ Len(o.values) = Len(c.defaultvalues) /\ o.udsize = c.udsize

\* The block of an instance has a place for each field its class has now, and
\* the user data the class has now: Get, Set, Clone and Finalize, which all
\* count with the class as it is, stay inside it.
ValuesFit == \A i \in DOMAIN inst : Fits(inst[i], cls[inst[i].class])

\* "constructor" names the method c's instances are constructed by.
Constructs(c) == LET m == c.members["constructor"] IN m[1] = "method" => c.constructoridx = m[2]

\* While "constructor" names a method, instances are constructed by it, in
\* derived classes too.
ConstructorFound == \A c \in DOMAIN cls : Constructs(cls[c])

\* The member of handle h is in class c: its index is inside the vector, and a
\* field has that index by its name.
Reaches(c, h) ==
  /\ h.member[2] \in DOMAIN Vector(c, h.member)
  /\ IsField(h.member) => c.members[h.key] = h.member

\* A handle stays inside the vector it indexes, and a handle of a field goes on
\* designating the field of that name, in its class, in every class that was derived
\* from it with that member, and in each of their instances.  Of a class that was
\* derived before its base got the member nothing is said: there the index is that
\* of another field, or of none (sqapi.cpp:1447-1460).
HandlesReachField ==
  \A h \in handles, c \in DOMAIN cls :
    (c = h.class \/ h \in cls[c].inherited) =>
      /\ Reaches(cls[c], h)
      /\ \A i \in DOMAIN inst : inst[i].class = c /\ IsField(h.member) => h.member[2] \in DOMAIN inst[i].values

\* A class is locked before any class that derives from it.
BasesLocked == \A c \in DOMAIN cls : cls[c].locked /\ cls[c].base # 0 => cls[cls[c].base].locked

\* One step on locked classes.
FrozenStep ==
  BasesLocked /\ \A c \in DOMAIN cls : cls[c].locked =>
    /\ cls'[c].locked
    /\ Len(cls'[c].defaultvalues) = Len(cls[c].defaultvalues)
    /\ \A k \in Named(cls[c]) : cls'[c].members[k] = cls[c].members[k]

\* Once a class has an instance its fields keep their indexes and get no more,
\* and it stays locked, and so are the classes it derives from.
LayoutFrozen == [][FrozenStep]_vars
=============================================================================
