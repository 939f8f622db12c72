------------------------------ MODULE Messages ------------------------------
(***************************************************************************)
(* The registry of message specifications (core/roslib/src/roslib/msgs.py) *)
(* and what gentools.py derives from it: the types a message or service    *)
(* depends on, its md5 text and its full text.                             *)
(*                                                                         *)
(* A type is <<package, name>>, the package "" where none is written.  A   *)
(* field is [type, arr, name], arr one of "no", "var" and "fixed".  The    *)
(* text of a message is the sequence of its fields, that of a service the  *)
(* two texts of its halves; a duplicate name stands for whatever makes     *)
(* load_from_string reject a text.  A machine w has                        *)
(*   w.packages  the packages that are found, each with                    *)
(*   w.direct    w.direct[p]: the packages its manifest depends on         *)
(*   w.depends   w.depends[p]: all packages that p depends on, defined     *)
(*               when all of them are found                                *)
(*   w.files     w.files[t]: text of the .msg file of type t               *)
(*   w.services  w.services[t]: the halves of the .srv file of t           *)
(* The globals of a process are a record s: registered, loaded, init, and  *)
(* of the call in progress stack, deps and err, the exception it ends      *)
(* with.  The process loads packages and asks for the dependencies of      *)
(* files, one field after the other; that generate_dynamic changes the     *)
(* registry, too, is an action here, and Genpy has the whole of it.        *)
(***************************************************************************)
EXTENDS Integers, FiniteSets, SequencesExt

CONSTANTS
  Names,       \* names of packages and types
  Machines,    \* bound: the machines that are modelled
  Targets,     \* bound: the types whose files are asked about
  Loadable,    \* bound: the packages that are loaded
  MaxDepth,    \* depth at which Python gives up
  MaxCalls     \* bound: calls in one process

VARIABLES
  machine,
  globals,     \* the registry and the call in progress
  calls,
  asked,       \* the type whose dependencies are being computed, or Nothing
  answer,      \* what the last call returned
  twin,        \* globals of a process that does this call first (no code reads it)
  upset        \* has generate_dynamic raised in this process? (no code reads it)

vars == <<machine, globals, calls, asked, answer, twin, upset>>

Simple == {"int8", "uint8", "bool", "int16", "uint16", "int32", "uint32", "int64",
           "uint64", "float32", "float64", "char", "byte"}
Extended == {"time", "duration"}

Builtin(t) == t[1] = "" /\ t[2] \in Simple \cup Extended \cup {"string"}

Types == Names \X Names
Fields == [type : Types, arr : {"no", "var", "fixed"}, name : Names]
Texts == Seq(Fields)

Header == <<"", "Header">>
StdHeader == <<"std_msgs", "Header">>
RoslibHeader == <<"roslib", "Header">>

ASSUME NamesAssumption ==
  Simple \cup Extended \cup {"", "string", "Header", "std_msgs", "roslib", "secs", "nsecs"} \subseteq Names

\* A file is in a package.  The Header of std_msgs has builtin fields, and roslib
\* had messages in older releases only.
ASSUME MachinesAssumption ==
  \A w \in Machines :
    /\ \A t \in DOMAIN w.files : t \in Types /\ t[1] # "" /\ w.files[t] \in Texts
    /\ \A t \in DOMAIN w.services : w.services[t] \in Texts \X Texts
    /\ "std_msgs" \in w.packages => StdHeader \in DOMAIN w.files
    /\ StdHeader \in DOMAIN w.files => \A f \in Range(w.files[StdHeader]) : Builtin(f.type)
    /\ RoslibHeader \notin DOMAIN w.files

ASSUME TargetsAssumption == \A t \in Targets : t \in Types /\ t[1] # ""

ASSUME MaxDepthAssumption == MaxDepth \in Nat

Nothing == <<"", "">>

Fresh == [registered |-> <<>>, loaded |-> {}, init |-> FALSE, stack |-> <<>>, deps |-> <<>>, err |-> "none"]

Fail(s, e) == [s EXCEPT !.err = e]

\* REGISTERED_TYPES takes the entries of a table.
Register(s, table) ==
  [s EXCEPT !.registered = [t \in DOMAIN table \cup DOMAIN @ |-> IF t \in DOMAIN table THEN table[t] ELSE @[t]]]

-----------------------------------------------------------------------------
(* Specifications.                                                         *)

Legal(text) == \A i, j \in DOMAIN text : text[i].name = text[j].name => i = j

\* load_from_string: with a package as context every type gets one, except
\* builtin types and Header.
LoadFromString(text, context) ==
  [fields |-> [i \in DOMAIN text |->
     LET t == text[i].type
     IN IF context # "" /\ t[1] = "" /\ ~Builtin(t) /\ t # Header
        THEN [text[i] EXCEPT !.type = <<context, t[2]>>] ELSE text[i]],
   text |-> text]

\* load_from_file, for a file that is legal
LoadFromFile(w, key) == LoadFromString(w.files[key], key[1])

\* The package of a type is the context when none is written.
Resolve(t, context) == <<IF t[1] = "" THEN context ELSE t[1], t[2]>>

\* load_by_type: the key and the specification, or the exception.
LoadByType(w, t, context) ==
  LET key == Resolve(t, context)
  IN IF key[1] \notin w.packages THEN [err |-> "MsgSpecException"]
     ELSE IF key \notin DOMAIN w.files THEN [err |-> "IOError"]
     ELSE IF ~Legal(w.files[key]) THEN [err |-> "MsgSpecException"]
     ELSE [err |-> "none", key |-> key, spec |-> LoadFromFile(w, key)]

Integer(type, name) == [type |-> <<"", type>>, arr |-> "no", name |-> name]
Time == <<"", "time">>
Duration == <<"", "duration">>
TimeMsg == <<Integer("uint32", "secs"), Integer("uint32", "nsecs")>>
DurationMsg == <<Integer("int32", "secs"), Integer("int32", "nsecs")>>

\* _init
Initialised(w, s) ==
  IF s.init THEN s
  ELSE IF "std_msgs" \notin w.packages THEN Fail(s, "NoSuchPackage")
  ELSE LET Text(t) == IF t = Time THEN TimeMsg ELSE IF t = Duration THEN DurationMsg ELSE w.files[StdHeader]
           table == [t \in {Header, StdHeader, RoslibHeader, Time, Duration} |-> LoadFromString(Text(t), "")]
       IN [Register(s, table) EXCEPT !.init = TRUE]

Reinit(w, s) == Initialised(w, [s EXCEPT !.registered = <<>>, !.loaded = {}, !.init = FALSE])

\* The messages of some packages; those that do not load are left out.
SpecsOf(w, packages) ==
  [t \in {u \in DOMAIN w.files : u[1] \in packages /\ Legal(w.files[u])} |-> LoadFromFile(w, t)]

\* get_pkg_msg_specs
PkgMsgSpecs(w, p) == SpecsOf(w, {p})

\* load_package; nothing happens for a package that counts as loaded.
LoadPackage(w, s0, p) ==
  LET s == Initialised(w, s0)
      marked == [s EXCEPT !.loaded = @ \cup {p}]
  IN IF s.err # "none" \/ p \in s.loaded THEN s
     ELSE IF p \notin w.packages THEN Fail(marked, "NoSuchPackage")
     ELSE Register(marked, PkgMsgSpecs(w, p))

\* load_package_dependencies: packages are marked one by one, and their
\* messages registered when all have been read.
LoadPackageDependencies(w, s0, p, recursive) ==
  LET s == Initialised(w, s0)
      depends == IF recursive THEN w.depends ELSE w.direct
      new == SelectSeq(depends[p], LAMBDA d : d \notin s.loaded \cup {p})
      lost == {i \in DOMAIN new : new[i] \notin w.packages}
      Upto(n) == [s EXCEPT !.loaded = @ \cup {new[i] : i \in 1 .. n}]
  IN IF s.err # "none" THEN s
     ELSE IF p \notin DOMAIN depends THEN Fail(s, "NoSuchPackage")
     ELSE IF lost # {} THEN Fail(Upto(Min(lost)), "NoSuchPackage")
     ELSE Register(Upto(Len(new)), SpecsOf(w, Range(new)))

-----------------------------------------------------------------------------
(* Dependencies.                                                           *)

IsRegistered(s, t) == t \in DOMAIN s.registered

\* Fault: the types of a registered type of another package are not looked at.
OwnFields(s, t, context) == IF t[1] = context THEN s.registered[t].fields ELSE <<>>

\* The fields of a registered type, whose types are looked at again.
RegisteredFields(s, t, context) == s.registered[t].fields

Into(s, fields) ==
  IF Len(s.stack) >= MaxDepth THEN Fail(s, "RuntimeError")
  ELSE [s EXCEPT !.stack = Append(@, fields)]

\* What get_dependencies removes at the end is not added here: duplicates.
Depend(s, d) == [s EXCEPT !.deps = IF d \in Range(@) THEN @ ELSE Append(@, d)]

Valid(w, context) ==
  {"", context} \cup (IF context \in DOMAIN w.depends THEN Range(w.depends[context]) ELSE {})

\* The type t of a field: its own fields are next.
Embeds(w, s, t, context) ==
  LET loaded == LoadByType(w, t, context)
      key == Resolve(t, context)
  IN IF Builtin(t) THEN s
     ELSE IF t = Header THEN Into(Depend(s, StdHeader), s.registered[t].fields)
     ELSE IF IsRegistered(s, t) THEN Into(Depend(s, key), RegisteredFields(s, t, context))
     ELSE IF t[1] \notin Valid(w, context) THEN Fail(s, "KeyError")
     ELSE IF loaded.err # "none" THEN Fail(s, loaded.err)
     ELSE Into(Register(Depend(s, key), [k \in {key} |-> loaded.spec]), loaded.spec.fields)

\* _add_msgs_depends for the next field of the message on top of the stack; the
\* context stays that of the message asked about.
Look(w, s, context) ==
  LET fields == Last(s.stack)
  IN IF fields = <<>> THEN [s EXCEPT !.stack = Front(@)]
     ELSE Embeds(w, [s EXCEPT !.stack[Len(s.stack)] = Tail(@)], Head(fields).type, context)

Busy(s) == s.err = "none" /\ s.stack # <<>>

\* get_dependencies of a specification with these fields, up to the first one
Begin(w, s0, fields) ==
  LET s == Initialised(w, s0) IN IF s.err # "none" THEN s ELSE Into(s, fields)

\* What a call returns with; the globals afterwards are Idle(s).
Error(s) == IF s.err = "KeyError" THEN "MsgSpecException" ELSE s.err

Idle(s) == [s EXCEPT !.stack = <<>>, !.deps = <<>>, !.err = "none"]

-----------------------------------------------------------------------------
(* The process.                                                            *)

DepTexts(s, deps) == [i \in DOMAIN deps |-> [type |-> deps[i], text |-> s.registered[deps[i]].text]]

\* Fault: only the types of the fields themselves are appended.
FullTextShallow(s, texts) ==
  LET own == UNION {{f.type : f \in Range(text)} : text \in Range(texts)}
  IN [main |-> texts, deps |-> DepTexts(s, SelectSeq(s.deps, LAMBDA d : d \in own))]

\* compute_full_text
FullText(s, texts) == [main |-> texts, deps |-> DepTexts(s, s.deps)]

\* The texts of a file, one of a message and two of a service
Halves(w, t) == IF t \in DOMAIN w.services THEN w.services[t] ELSE <<w.files[t]>>

Joined(texts) == IF Len(texts) = 1 THEN texts[1] ELSE texts[1] \o texts[2]

\* get_file_dependencies reads the file without a context.
Asked(w, s, t) ==
  IF \E h \in DOMAIN Halves(w, t) : ~Legal(Halves(w, t)[h]) THEN Fail(s, "MsgSpecException")
  ELSE Begin(w, s, Joined(Halves(w, t)))

NoText == [main |-> <<>>, deps |-> <<>>]

Returned(op, t, s) == [op |-> op, type |-> t, err |-> Error(s), deps |-> <<>>, text |-> NoText]

\* The files of these types are somewhere, whether they exist or not.
Located(w, types) == \A t \in types : t[1] \in w.packages

\* gendeps prints the dependencies, or the full text.  It looks for the file of
\* every dependency, of the registered ones, too.
Gendeps(w, s, t) ==
  IF s.err # "none" THEN Returned("gendeps", t, s)
  ELSE IF ~Located(w, Range(s.deps))
  THEN [Returned("gendeps", t, s) EXCEPT !.err = "InvalidROSPkgException"]
  ELSE [Returned("gendeps", t, s) EXCEPT !.deps = s.deps, !.text = FullText(s, Halves(w, t))]

Init ==
  /\ machine \in Machines
  /\ globals = Fresh
  /\ calls = 0
  /\ asked = Nothing
  /\ answer = Returned("none", Nothing, Fresh)
  /\ twin = Fresh
  /\ upset = FALSE

\* A call returns a and leaves the globals as in s.
Call(s, a) ==
  /\ asked = Nothing /\ calls < MaxCalls
  /\ calls' = calls + 1
  /\ globals' = Idle(s)
  /\ answer' = a
  /\ twin' = Fresh
  /\ UNCHANGED <<machine, asked>>

Load ==
  \E p \in Loadable :
    LET s == LoadPackage(machine, globals, p)
    IN Call(s, Returned("load", <<p, "">>, s)) /\ UNCHANGED upset

LoadDependencies ==
  \E p \in Loadable, recursive \in BOOLEAN :
    LET s == LoadPackageDependencies(machine, globals, p, recursive)
    IN Call(s, Returned("load", <<p, "">>, s)) /\ UNCHANGED upset

Ask ==
  /\ asked = Nothing /\ calls < MaxCalls
  /\ \E t \in Targets :
       /\ t \in DOMAIN machine.files \cup DOMAIN machine.services
       /\ asked' = t
       /\ globals' = Asked(machine, globals, t)
       /\ twin' = Asked(machine, Fresh, t)
  /\ calls' = calls + 1
  /\ answer' = Returned("none", Nothing, Fresh)
  /\ UNCHANGED <<machine, upset>>

AddMsgsDepends ==
  /\ asked # Nothing /\ Busy(globals)
  /\ globals' = Look(machine, globals, asked[1])
  /\ twin' = IF Busy(twin) THEN Look(machine, twin, asked[1]) ELSE twin
  /\ UNCHANGED <<machine, calls, asked, answer, upset>>

Tell ==
  /\ asked # Nothing /\ ~Busy(globals)
  /\ answer' = Gendeps(machine, globals, asked)
  /\ globals' = Idle(globals)
  /\ asked' = Nothing
  /\ UNCHANGED <<machine, calls, twin, upset>>

\* generate_dynamic for the type t clears the registry at its end.
Cleared(t) ==
  /\ Reinit(machine, globals).err = "none"
  /\ Call(Reinit(machine, globals), Returned("play", t, Fresh))
  /\ UNCHANGED upset

\* When it raises the registry has whatever it had been filled with.
Raised(t, s) == Call(s, Returned("play", t, s)) /\ upset' = TRUE

\* A new process, perhaps on another machine.
Restart ==
  /\ calls > 0 /\ asked = Nothing
  /\ machine' \in Machines
  /\ globals' = Fresh
  /\ calls' = 0
  /\ asked' = Nothing
  /\ answer' = Returned("none", Nothing, Fresh)
  /\ twin' = Fresh
  /\ upset' = FALSE

Next ==
  \/ Load \/ LoadDependencies
  \/ Ask \/ AddMsgsDepends \/ Tell
  \/ \E t : Cleared(t)
  \/ \E t, s : Raised(t, s)
  \/ Restart

Spec == Init /\ [][Next]_vars

-----------------------------------------------------------------------------
(* Properties, against the files of a machine.                             *)

TrueFields(w, t) ==
  LET text == IF t \in {Header, RoslibHeader} THEN w.files[StdHeader]
              ELSE IF t = Time THEN TimeMsg
              ELSE IF t = Duration THEN DurationMsg
              ELSE w.files[t]
  IN LoadFromString(text, t[1]).fields

NeededBy(fields) ==
  {IF f.type = Header THEN StdHeader ELSE f.type : f \in {g \in Range(fields) : ~Builtin(g.type)}}

Direct(w, t) ==
  UNION {NeededBy(LoadFromString(text, t[1]).fields) : text \in Range(Halves(w, t))}

Answered(op) == answer.op = op /\ answer.err = "none"

\* The dependencies that are reported are the types that the message embeds,
\* directly or not, each once and after something that embeds it, whatever
\* the process has loaded before (gentools.py:60, get_dependencies), as long as
\* generate_dynamic has not left its types behind.
DepsExact ==
  Answered("gendeps") /\ ~upset =>
    LET d == answer.deps
        direct == Direct(machine, answer.type)
    IN /\ direct \subseteq Range(d)
       /\ \A i \in DOMAIN d :
            /\ NeededBy(TrueFields(machine, d[i])) \subseteq Range(d)
            /\ \A j \in 1 .. i - 1 : d[i] # d[j]
            /\ \/ d[i] \in direct
               \/ \E j \in 1 .. i - 1 : d[i] \in NeededBy(TrueFields(machine, d[j]))

\* What a process has loaded before does not change an answer that a fresh
\* process would give; it may only turn an error into an answer.  That is so
\* until generate_dynamic raises and leaves its types behind
\* (genpy_electric.py:1189).
HistoryFree ==
  answer.op = "gendeps" /\ ~upset =>
    LET fresh == Gendeps(machine, twin, answer.type)
    IN fresh.err = "none" => answer = fresh
=============================================================================
