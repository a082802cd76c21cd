------------------------------ MODULE SQSerial ------------------------------
(***************************************************************************)
(* Closures in a stream (squirrel/sqobject.cpp: SQClosure and              *)
(* SQFunctionProto, Save and Load; sqapi.cpp: sq_writeclosure and          *)
(* sq_readclosure).  A stream is a sequence of units, each a tag, a number *)
(* or a character; the host's write function may fail after any number of  *)
(* them and its read function run dry.  A function is a record of the      *)
(* fields that are saved, in the order of Save; a closure has a function   *)
(* and the values of its default parameters, which no Save writes.         *)
(***************************************************************************)
EXTENDS SQFold

Tag(t) == <<"tag", t>>
Number(n) == <<"number", n>>
Concat(ss) == Fold(LAMBDA a, b : a \o b, <<>>, ss)
Each(Op(_), s) == Concat([i \in DOMAIN s |-> Op(s[i])])

-----------------------------------------------------------------------------
(* Writing. *)

\* A value: <<"null">>, <<"int", n>>, <<"bool", n>>, or <<"str", c1, c2...>>.
WriteObject(o) ==
  <<Tag(o[1])>> \o CASE o[1] = "str" -> <<Number(Len(o) - 1)>> \o [i \in 1 .. Len(o) - 1 |-> Number(o[i + 1])]
                     [] o[1] \in {"int", "bool"} -> <<Number(o[2])>>
                     [] o[1] = "null" -> <<>>

Part == Tag("PART")
WriteNumbers(s) == [i \in DOMAIN s |-> Number(s[i])]

Counts(f) == <<Len(f.literals), Len(f.parameters), Len(f.outervalues), Len(f.localvarinfos),
               Len(f.lineinfos), Len(f.defaultparams), Len(f.instructions), Len(f.functions)>>

RECURSIVE SaveProto(_)
SaveProto(f) ==
  Concat(<<
    <<Part>>, WriteObject(f.sourcename), WriteObject(f.name),
    <<Part>>, WriteNumbers(Counts(f)),
    <<Part>>, Each(WriteObject, f.literals),
    <<Part>>, Each(WriteObject, f.parameters),
    <<Part>>, Each(LAMBDA v : <<Number(v.type)>> \o WriteObject(v.src) \o WriteObject(v.name), f.outervalues),
    <<Part>>, Each(LAMBDA v : WriteObject(v.name) \o WriteNumbers(<<v.pos, v.start_op, v.end_op>>), f.localvarinfos),
    <<Part>>, WriteNumbers(f.lineinfos),
    <<Part>>, WriteNumbers(f.defaultparams),
    <<Part>>, WriteNumbers(f.instructions),
    <<Part>>, Each(SaveProto, f.functions),
    WriteNumbers(<<f.stacksize, f.bgenerator, f.varparams>>) >>)

Widths == <<Tag("sizeof SQChar"), Tag("sizeof SQInteger"), Tag("sizeof SQFloat")>>
SaveClosure(c) == <<Tag("BYTECODE"), Tag("HEAD")>> \o Widths \o SaveProto(c.function) \o <<Tag("TAIL")>>

\* sq_writeclosure through a write function that takes room units: whether it
\* succeeded, and what is in the stream.
WriteClosure(c, room) ==
  LET s == SaveClosure(c)
  IN  IF c.function.outervalues # <<>> THEN [ok |-> FALSE, stream |-> <<>>]
      ELSE [ok |-> Len(s) <= room, stream |-> IF Len(s) <= room THEN s ELSE SubSeq(s, 1, room)]

-----------------------------------------------------------------------------
(* Reading.  r is the rest of the stream, whether reading has failed, and the   *)
(* value read last; after a failure nothing more is read.                       *)

Got(r, n, v) == [r EXCEPT !.rest = SubSeq(@, n + 1, Len(@)), !.v = v]
Broken(r) == [r EXCEPT !.ok = FALSE]

\* SafeRead of n numbers: nothing is read for none.
ReadNumbers(r, n) ==
  IF ~r.ok \/ Len(r.rest) < n \/ n < 0 THEN Broken(r)
  ELSE Got(r, n, [i \in 1 .. n |-> r.rest[i][2]])

CheckTag(r, t) == IF r.ok /\ r.rest # <<>> /\ Head(r.rest) = t THEN Got(r, 1, r.v) ELSE Broken(r)

ReadObject(r) ==
  LET t == Head(r.rest)[2]
      in == Got(r, 1, r.v)
      n == ReadNumbers(in, 1)
      s == ReadNumbers(n, n.v[1])
  IN  IF ~r.ok \/ r.rest = <<>> THEN Broken(r)
      ELSE CASE t = "str" -> IF n.ok /\ s.ok THEN [s EXCEPT !.v = <<"str">> \o @] ELSE Broken(r)
             [] t \in {"int", "bool"} -> IF n.ok THEN [n EXCEPT !.v = <<t, n.v[1]>>] ELSE Broken(r)
             [] t = "null" -> [in EXCEPT !.v = <<"null">>]
             [] OTHER -> Broken(r)

\* n times Op, which leaves what it read in v: the sequence of it all.
Times(r, n, Op(_)) ==
  LET f[i \in 0 .. n] ==
        IF i = 0 THEN [r EXCEPT !.v = <<>>]
        ELSE LET e == Op(f[i - 1]) IN [e EXCEPT !.v = IF e.ok THEN Append(f[i - 1].v, e.v) ELSE <<>>]
  IN  f[n]

ReadOuter(r) ==
  LET t == ReadNumbers(r, 1)  o == ReadObject(t)  n == ReadObject(o)
  IN  IF n.ok THEN [n EXCEPT !.v = [type |-> t.v[1], src |-> o.v, name |-> n.v]] ELSE n
ReadLocal(r) ==
  LET n == ReadObject(r)  p == ReadNumbers(n, 3)
  IN  IF p.ok THEN [p EXCEPT !.v = [name |-> n.v, pos |-> p.v[1], start_op |-> p.v[2], end_op |-> p.v[3]]] ELSE p

\* The counts, in the order in which they are written.
CountOf(counts, field) ==
  LET order == <<"literals", "parameters", "outervalues", "localvarinfos", "lineinfos", "defaultparams", "instructions", "functions">>
  IN  counts.v[CHOOSE i \in 1 .. 8 : order[i] = field]

RECURSIVE LoadProto(_)
LoadProto(r) ==
  LET source == ReadObject(CheckTag(r, Part))
      name == ReadObject(source)
      counts == ReadNumbers(CheckTag(name, Part), 8)
      N(field) == CountOf(counts, field)
      literals == Times(CheckTag(counts, Part), N("literals"), ReadObject)
      parameters == Times(CheckTag(literals, Part), N("parameters"), ReadObject)
      outervalues == Times(CheckTag(parameters, Part), N("outervalues"), ReadOuter)
      locals == Times(CheckTag(outervalues, Part), N("localvarinfos"), ReadLocal)
      lines == ReadNumbers(CheckTag(locals, Part), N("lineinfos"))
      defaults == ReadNumbers(CheckTag(lines, Part), N("defaultparams"))
      instructions == ReadNumbers(CheckTag(defaults, Part), N("instructions"))
      functions == Times(CheckTag(instructions, Part), N("functions"), LoadProto)
      last == ReadNumbers(functions, 3)
  IN  IF ~counts.ok THEN Broken(counts)
      ELSE IF ~last.ok THEN last
      ELSE [last EXCEPT !.v =
              [sourcename |-> source.v, name |-> name.v, literals |-> literals.v, parameters |-> parameters.v,
               outervalues |-> outervalues.v, localvarinfos |-> locals.v, lineinfos |-> lines.v,
               defaultparams |-> defaults.v, instructions |-> instructions.v, functions |-> functions.v,
               stacksize |-> last.v[1], bgenerator |-> last.v[2], varparams |-> last.v[3]]]

CheckTags(r, tags) == Fold(CheckTag, r, tags)

\* SQClosure::Create: the default parameters are null.
Create(f) == [function |-> f, defaultparams |-> [i \in DOMAIN f.defaultparams |-> <<"null">>]]

\* Mutant: what follows the function is not looked at.
ReadClosureOpen(stream) ==
  LET r == LoadProto(CheckTags([rest |-> stream, ok |-> TRUE, v |-> <<>>], <<Tag("BYTECODE"), Tag("HEAD")>> \o Widths))
  IN  [ok |-> r.ok, pushed |-> IF r.ok THEN <<Create(r.v)>> ELSE <<>>]

\* sq_readclosure: a closure of the function read, or a failure and nothing pushed.
ReadClosure(stream) ==
  LET r == LoadProto(CheckTags([rest |-> stream, ok |-> TRUE, v |-> <<>>], <<Tag("BYTECODE"), Tag("HEAD")>> \o Widths))
      t == CheckTag(r, Tag("TAIL"))
  IN  [ok |-> t.ok, pushed |-> IF t.ok THEN <<Create(t.v)>> ELSE <<>>]
=============================================================================
