-------------------------------- MODULE Genpy --------------------------------
(***************************************************************************)
(* The serializers that genpy_electric.py generates, and a process that    *)
(* uses the library: it loads packages, derives what gendeps prints, and   *)
(* generates classes from a recorded full text with generate_dynamic,      *)
(* perhaps on another machine.                                             *)
(*                                                                         *)
(* Generated code is a sequence of operations.  Its variables are "self",  *)
(* <<"val", n>> and <<"_v", n>>; an operand is a variable and the names of *)
(* fields to follow from it.                                               *)
(***************************************************************************)
EXTENDS Messages

CONSTANT MaxRecords   \* bound: recorded full texts

VARIABLES
  made,        \* what the last call has made: the md5, or classes
  bag          \* recorded full texts

genpyVars == <<vars, made, bag>>

-----------------------------------------------------------------------------
(* The md5.                                                                *)

\* Fault: the name of an embedded type takes the place of its md5.
Md5Shallow(s, fields, package) ==
  [i \in DOMAIN fields |-> [type |-> fields[i].type[2], arr |-> fields[i].arr,
                            name |-> fields[i].name, md5 |-> <<>>]]

\* compute_md5_text: packages are stripped, embedded types replaced by their
\* md5, whatever the array.  An md5 stands for the text it is the hash of.
RECURSIVE Md5Text(_, _, _)
Md5Text(s, fields, package) ==
  [i \in DOMAIN fields |->
     LET f == fields[i]
         t == IF f.type = Header THEN StdHeader
              ELSE IF IsRegistered(s, f.type) THEN f.type ELSE <<package, f.type[2]>>
     IN IF Builtin(f.type)
        THEN [type |-> f.type[2], arr |-> f.arr, name |-> f.name, md5 |-> <<>>]
        ELSE [type |-> "", arr |-> "", name |-> f.name,
              md5 |-> Md5Text(s, s.registered[t].fields, t[1])]]

-----------------------------------------------------------------------------
(* Serializers.                                                            *)

\* flatten: fields of embedded messages become fields of their own, named
\* by a path.
RECURSIVE Flatten(_, _, _)
Flatten(s, fields, path) ==
  FoldLeft(LAMBDA out, f :
             out \o IF f.arr = "no" /\ IsRegistered(s, f.type)
                    THEN Flatten(s, s.registered[f.type].fields, Append(path, f.name))
                    ELSE <<[type |-> f.type, arr |-> f.arr, path |-> Append(path, f.name)]>>,
           <<>>, fields)

Named(fields) ==
  [i \in DOMAIN fields |-> [type |-> fields[i].type, arr |-> fields[i].arr,
                            path |-> <<fields[i].name>>]]

IsSimple(f) == f.arr = "no" /\ f.type[1] = "" /\ f.type[2] \in Simple
Bytes == {<<"", "uint8">>, <<"", "byte">>}

Op(op, var, fields, to, body) ==
  [op |-> op, var |-> var, fields |-> fields, to |-> to, body |-> body]

Self == <<"self", 0>>

\* Fault: of the fields collected so far the last one is left out.
ChunkCut(out, var, chunk) ==
  IF Len(chunk) < 2 THEN out
  ELSE [out EXCEPT !.code = Append(@, Op("pack", var, Front(chunk), Self, <<>>))]

\* simple_serializer_generator for the fields collected so far
WithChunk(out, var, chunk) ==
  IF chunk = <<>> THEN out
  ELSE [out EXCEPT !.code = Append(@, Op("pack", var, chunk, Self, <<>>))]

Emit(out, o) == [out EXCEPT !.code = Append(@, o)]

\* string_serializer_generator, the length included
StringSerializer(out, var, f) == Emit(out, Op("string", var, <<f>>, Self, <<>>))

\* serializer_generator: out has the code so far, the count of next_var and
\* what was raised; chunk has the simple fields that wait, and depth is the
\* length of the context stack.
RECURSIVE Serializer(_, _, _, _, _, _, _), ComplexSerializer(_, _, _, _, _, _)

\* The fields of a message that stands in variable v, or get_registered_ex
\* raises.
Embedded(s, t, v, depth, reading, out) ==
  IF ~IsRegistered(s, t) THEN [out EXCEPT !.err = "MsgGenerationException"]
  ELSE Serializer(s, Named(s.registered[t].fields), <<>>, v, depth + 1, reading, out)

\* array_serializer_generator: simple values in one go, others in a loop.
ArraySerializer(s, f, var, depth, reading, out) ==
  LET loop == <<"val", depth>>
      element == [f EXCEPT !.arr = "no", !.path = <<>>]
      empty == [out EXCEPT !.code = <<>>]
      body == IF f.type = <<"", "string">> THEN StringSerializer(empty, loop, element)
              ELSE Embedded(s, f.type, loop, depth, reading, empty)
      appended == IF reading THEN <<Op("append", var, <<f>>, loop, <<>>)>> ELSE <<>>
  IN IF f.type \in Bytes \/ IsSimple(element) THEN Emit(out, Op("array", var, <<f>>, Self, <<>>))
     ELSE [body EXCEPT !.code =
             Append(out.code, Op("for", var, <<f>>, loop, body.code \o appended))]

\* complex_serializer_generator: an embedded message gets a variable.
ComplexSerializer(s, f, var, depth, reading, out) ==
  LET alias == <<"_v", out.vars + 1>>
      named == Emit([out EXCEPT !.vars = @ + 1], Op("let", var, <<f>>, alias, <<>>))
  IN IF f.arr # "no" THEN ArraySerializer(s, f, var, depth, reading, out)
     ELSE IF f.type = <<"", "string">> THEN StringSerializer(out, var, f)
     ELSE Embedded(s, f.type, alias, depth, reading, named)

Serializer(s, fields, chunk, var, depth, reading, out) ==
  IF out.err # "none" THEN out
  ELSE IF fields = <<>> THEN WithChunk(out, var, chunk)
  ELSE IF IsSimple(Head(fields))
  THEN Serializer(s, Tail(fields), Append(chunk, Head(fields)), var, depth, reading, out)
  ELSE LET after == ComplexSerializer(s, Head(fields), var, depth, reading, WithChunk(out, var, chunk))
       IN Serializer(s, Tail(fields), <<>>, var, depth, reading, after)

\* serialize_fn_generator and deserialize_fn_generator
Program(s, fields, reading) ==
  Serializer(s, Flatten(s, fields, <<>>), <<>>, Self, 1, reading,
             [code |-> <<>>, vars |-> 0, err |-> "none"])

-----------------------------------------------------------------------------
(* The classes that the code of a message refers to.                       *)

\* compute_pkg_type: the type that a name means inside package
PkgType(package, t) == <<IF t[1] = "" THEN package ELSE t[1], t[2]>>

\* is_header_type
IsHeader(t) == t \in {Header, StdHeader, RoslibHeader}

\* compute_import: the packages that have to be imported for a field's type
RECURSIVE Imports(_, _, _)
Imports(s, package, t) ==
  LET type == PkgType(package, t)
  IN IF Builtin(t) THEN {}
     ELSE IF IsHeader(t) THEN {"std_msgs"}
     ELSE IF ~IsRegistered(s, type) THEN {}
     ELSE {type[1]} \cup UNION {Imports(s, package, f.type) : f \in Range(s.registered[type].fields)}

\* compute_constructor: the class of message that is instantiated, if any.
\* Time and Duration are classes of the library.
Constructor(s, package, t) ==
  IF t = Header THEN {StdHeader}
  ELSE IF Builtin(t) \/ ~IsRegistered(s, PkgType(package, t)) THEN {}
  ELSE {PkgType(package, t)}

\* default_value: an array of variable length is empty.
Default(s, package, f) == IF f.arr = "var" THEN {} ELSE Constructor(s, package, f.type)

\* The code that reads an array instantiates its elements one by one.
RECURSIVE Elements(_, _, _)
Elements(s, package, code) ==
  UNION {Constructor(s, package, o.fields[1].type) \cup Elements(s, package, o.body) :
           o \in {x \in Range(code) : x.op = "for"}}

\* __init__ and deserialize of the class
Refers(s, package, fields) ==
  UNION {Default(s, package, f) : f \in Range(fields)}
    \cup Elements(s, package, Program(s, fields, TRUE).code)

-----------------------------------------------------------------------------
(* What generated code does.                                               *)

Item(at, type, arr) ==
  [at |-> at, type |-> IF Builtin(type) THEN type[2] ELSE "message", arr |-> arr]

\* What the code writes or reads, in order: values and array lengths, each
\* with the place in the message.  env tells what the variables stand for.
RECURSIVE Execute(_, _, _)
Execute(code, env, wire) ==
  IF code = <<>> THEN [env |-> env, wire |-> wire]
  ELSE
  LET o == Head(code)
      At(f) == env[o.var] \o f.path
      items == [i \in DOMAIN o.fields |->
                  Item(At(o.fields[i]), o.fields[i].type, o.fields[i].arr)]
      each == (o.to :> At(o.fields[1]) \o <<"[]">>) @@ env
      body == Execute(o.body, each, wire \o items)
      now ==
        CASE o.op = "for" -> body
          [] o.op = "let" -> [env |-> (o.to :> At(o.fields[1])) @@ env, wire |-> wire]
          [] o.op = "append" /\ env[o.to] = At(o.fields[1]) \o <<"[]">> ->
               [env |-> env, wire |-> wire]
          [] OTHER -> [env |-> env, wire |-> wire \o items]
  IN Execute(Tail(code), now.env, now.wire)

-----------------------------------------------------------------------------
(* The process.                                                            *)

NotMade ==
  [md5 |-> <<>>, written |-> <<>>, read |-> <<>>, of |-> {}, refers |-> {}, imports |-> {}]

GenpyInit == Init /\ made = NotMade /\ bag = {}

Loads == (Load \/ LoadDependencies) /\ made' = NotMade /\ UNCHANGED bag

\* Bound: nothing is asked about once MaxRecords texts are kept.
Asks == Cardinality(bag) < MaxRecords /\ Ask /\ made' = NotMade /\ UNCHANGED bag

Looks == AddMsgsDepends /\ UNCHANGED <<made, bag>>

\* gendeps prints the md5, too.
Tells ==
  /\ Tell
  /\ made' = IF answer'.err # "none" THEN NotMade
             ELSE [NotMade EXCEPT !.md5 = Md5Text(globals, Joined(Halves(machine, asked)), asked[1])]
  /\ UNCHANGED bag

\* Somebody keeps the full text of a message, as in the header of a bag. A
\* process in which generate_dynamic raised has foreign types in its registry,
\* and what it would record is left out.
Record ==
  /\ ~upset
  /\ Answered("gendeps")
  /\ answer.type \in DOMAIN machine.files
  /\ Cardinality(bag) < MaxRecords
  /\ bag' = bag \cup {[type |-> answer.type, text |-> answer.text, md5 |-> made.md5,
                       machine |-> machine]}
  /\ UNCHANGED <<vars, made>>

\* generate_dynamic: roslib/Header is renamed, the registry made anew from
\* the recorded texts, and code generated for each of their types.
Renamed(t) == IF t = RoslibHeader THEN StdHeader ELSE t

Recorded(type, text) ==
  LoadFromString([i \in DOMAIN text |-> [text[i] EXCEPT !.type = Renamed(@)]], type[1])

Specs(rec) ==
  (rec.type :> Recorded(rec.type, rec.text.main[1]))
  @@ [t \in {Renamed(d.type) : d \in Range(rec.text.deps)} |->
        LET d == CHOOSE d \in Range(rec.text.deps) : Renamed(d.type) = t
        IN Recorded(t, d.text)]

RECURSIVE Looked(_, _, _)
Looked(w, s, context) == IF Busy(s) THEN Looked(w, Look(w, s, context), context) ELSE s

\* msg_generator for type t
Generate(w, s0, t, spec) ==
  LET s == Looked(w, Begin(w, [s0 EXCEPT !.deps = <<>>], spec.fields), t[1])
      program == Program(s, spec.fields, FALSE)
  IN IF s0.err # "none" THEN s0
     ELSE IF Error(s) = "MsgSpecException" \/ program.err # "none"
     THEN Fail(s, "MsgGenerationException") ELSE s

\* _gen_dyn_modify_references: in the one module for all types a class is named
\* after package and type. A declaration has the type only, and is renamed for
\* whichever package comes first.
Retrievable(types) == \A t, u \in types : t[2] = u[2] => t = u

\* Imports of the packages of types are removed.
ImportsLeft(s, specs) ==
  UNION {UNION {Imports(s, t[1], f.type) : f \in Range(specs[t].fields)} : t \in DOMAIN specs}
    \ {t[1] : t \in DOMAIN specs}

\* The code of all types, made from the recorded specs; or an error.
Generated(w, new, specs) ==
  LET filled == FoldSet(LAMBDA t, r : Generate(w, r, t, specs[t]), Register(new, specs), DOMAIN specs)
  IN IF filled.err = "none" /\ ~Retrievable(DOMAIN specs)
     THEN Fail(filled, "MsgGenerationException") ELSE filled

Wire(s, fields, reading) == Execute(Program(s, fields, reading).code, Self :> <<>>, <<>>).wire

\* What the generated classes do, once the module is loaded.
Played(s, specs, rec) ==
  LET fields == specs[rec.type].fields
  IN [md5 |-> Md5Text(s, fields, rec.type[1]), of |-> {rec},
      written |-> Wire(s, fields, FALSE), read |-> Wire(s, fields, TRUE),
      refers |-> UNION {Refers(s, t[1], specs[t].fields) : t \in DOMAIN specs} \ DOMAIN specs,
      imports |-> ImportsLeft(s, specs)]

GenerateDynamic(w, new, specs) == IF new.err # "none" THEN new ELSE Generated(w, new, specs)

Play ==
  /\ \E rec \in bag :
       LET specs == Specs(rec)
           s == GenerateDynamic(machine, Reinit(machine, globals), specs)
       IN IF s.err = "none" THEN Cleared(rec.type) /\ made' = Played(s, specs, rec)
          ELSE Raised(rec.type, s) /\ made' = [NotMade EXCEPT !.of = {rec}]
  /\ UNCHANGED bag

Restarts == Restart /\ made' = NotMade /\ UNCHANGED bag

GenpyNext == Loads \/ Asks \/ Looks \/ Tells \/ Record \/ Play \/ Restarts

GenpySpec == GenpyInit /\ [][GenpyNext]_genpyVars

-----------------------------------------------------------------------------
(* Properties, against the files of a machine.                             *)

RECURSIVE Needed(_, _, _)
Needed(w, todo, found) ==
  IF todo = {} THEN found
  ELSE Needed(w, UNION {NeededBy(TrueFields(w, t)) : t \in todo} \ (found \cup todo), found \cup todo)

RECURSIVE TrueWire(_, _, _)
TrueWire(w, fields, at) ==
  FoldLeft(LAMBDA wire, f :
      LET here == Append(at, f.name)
          message == f.type \notin {<<"", "string">>} /\ ~IsSimple([f EXCEPT !.arr = "no"])
          inner == IF f.arr = "no" THEN here ELSE Append(here, "[]")
      IN wire \o (IF f.arr = "no" /\ message THEN <<>> ELSE <<Item(here, f.type, f.arr)>>)
              \o (IF message THEN TrueWire(w, TrueFields(w, f.type), inner)
                  ELSE IF f.arr # "no" /\ f.type = <<"", "string">>
                  THEN <<Item(inner, f.type, "no")>> ELSE <<>>),
    <<>>, fields)

WireOf(rec) == TrueWire(rec.machine, TrueFields(rec.machine, rec.type), <<>>)

\* Two recordings with the same md5 describe the same sequence of values,
\* unless a message is embedded as an array (gentools.py:112; see README), and
\* two of the same type on the same machine have the same md5.
SameMd5SameWire ==
  \A a, b \in bag :
    /\ a.md5 = b.md5 => \/ WireOf(a) = WireOf(b)
                        \/ \E i \in DOMAIN WireOf(a) : WireOf(a)[i].type = "message"
    /\ a.type = b.type /\ a.machine = b.machine => a.md5 = b.md5

\* Two of the types have one name.
Namesakes(rec) ==
  \E d, e \in Needed(rec.machine, {rec.type}, {}) : d # e /\ d[2] = e[2]

\* The recorded text is all that is needed: any machine that has the standard
\* messages generates the class from it, with the md5 of the original, and the
\* class uses none but those generated with it (genpy_electric.py:1155,
\* gentools.py:226), unless two types have one name (see README).
SelfContained ==
  (answer.op = "play" /\ "std_msgs" \in machine.packages) =>
    /\ \A rec \in made.of : answer.err = "none" \/ Namesakes(rec)
    /\ answer.err = "none" =>
         /\ \A rec \in made.of : made.md5 = rec.md5
         /\ made.refers = {} /\ made.imports = {}

\* The generated serializer writes, and the deserializer reads, all fields
\* of the original message in the order of its definition
\* (genpy_electric.py:840).
LayoutRight ==
  Answered("play") =>
    \A rec \in made.of : made.written = WireOf(rec) /\ made.read = WireOf(rec)
=============================================================================
