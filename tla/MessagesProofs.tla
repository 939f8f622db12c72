--------------------------- MODULE MessagesProofs ---------------------------
(***************************************************************************)
(* Proofs about Messages, for every set of machines, types and packages.   *)
(***************************************************************************)
EXTENDS Messages, SequenceTheorems, TLAPS

Headers == {Header, StdHeader, RoslibHeader}
Basic == Headers \cup {Time, Duration}

\* The type that a field of type t stands for in a message of package p.
Need(p, t) == IF t = Header THEN StdHeader ELSE Resolve(t, p)

\* The packages that a message can be in
Contexts == Names \ {""}

Needs(p, F) == {Need(p, f.type) : f \in {g \in F : ~Builtin(g.type)}}

\* Types whose specification is known from the files, and the specification.
Known(w, t) == IF t \in Headers THEN StdHeader \in DOMAIN w.files ELSE t \in DOMAIN w.files

SpecOf(w, t) ==
  IF t \in Headers THEN LoadFromString(w.files[StdHeader], "") ELSE LoadFromFile(w, t)

-----------------------------------------------------------------------------
(* Specifications.                                                         *)

LEMMA TypeFacts ==
  /\ Header \in Types /\ StdHeader \in Types /\ RoslibHeader \in Types
  /\ ~Builtin(Header) /\ ~Builtin(StdHeader) /\ ~Builtin(RoslibHeader)
  /\ Header # StdHeader /\ Header # RoslibHeader /\ StdHeader # RoslibHeader
  /\ Header[1] = "" /\ StdHeader[1] # "" /\ RoslibHeader[1] # ""
<1>1. Header \in Types /\ StdHeader \in Types /\ RoslibHeader \in Types
  BY NamesAssumption DEF Header, StdHeader, RoslibHeader, Types
<1>2. Header # StdHeader /\ Header # RoslibHeader /\ StdHeader # RoslibHeader
  BY DEF Header, StdHeader, RoslibHeader
<1>3. ~Builtin(StdHeader) /\ ~Builtin(RoslibHeader)
  BY DEF Builtin, StdHeader, RoslibHeader
<1>4. ~Builtin(Header)
  BY DEF Builtin, Header, Simple, Extended
<1>5. Header[1] = "" /\ StdHeader[1] # "" /\ RoslibHeader[1] # ""
  BY DEF Header, StdHeader, RoslibHeader
<1> QED
  BY <1>1, <1>2, <1>3, <1>4, <1>5

LEMMA BuiltinFacts ==
  /\ \A t : Builtin(t) => t[1] = ""
  /\ Builtin(Time) /\ Builtin(Duration)
  BY DEF Builtin, Extended, Time, Duration

LEMMA PairFacts ==
  ASSUME NEW t \in Types
  PROVE  /\ t = <<t[1], t[2]>> /\ t[1] \in Names /\ t[2] \in Names
         /\ \A p \in Names : <<p, t[2]>> \in Types /\ <<p, t[2]>>[1] = p /\ <<p, t[2]>>[2] = t[2]
  BY DEF Types

LEMMA FieldFacts ==
  ASSUME NEW f \in Fields
  PROVE  /\ f.type \in Types
         /\ \A t \in Types : [f EXCEPT !.type = t] \in Fields /\ [f EXCEPT !.type = t].type = t
  BY DEF Fields

\* Within the package p the type t becomes u.
LEMMA QualifiedType ==
  ASSUME NEW p \in Names, NEW t \in Types,
         NEW u, u = IF p # "" /\ t[1] = "" /\ ~Builtin(t) /\ t # Header THEN <<p, t[2]>> ELSE t
  PROVE  /\ u \in Types
         /\ Builtin(u) <=> Builtin(t)
         /\ p # "" /\ ~Builtin(t) =>
              /\ u # Header => u[1] # ""
              /\ (IF u = Header THEN StdHeader ELSE u) = Need(p, t)
<1>1. CASE p # "" /\ t[1] = "" /\ ~Builtin(t) /\ t # Header
  <2>1. u = <<p, t[2]>> /\ u \in Types /\ u[1] = p
    BY <1>1, PairFacts
  <2>2. u # Header /\ ~Builtin(u)
    BY <1>1, <2>1, TypeFacts, BuiltinFacts
  <2>3. Need(p, t) = u
    BY <1>1, <2>1 DEF Need, Resolve
  <2> QED
    BY <1>1, <2>1, <2>2, <2>3
<1>2. CASE ~(p # "" /\ t[1] = "" /\ ~Builtin(t) /\ t # Header)
  <2>1. u = t
    BY <1>2
  <2>2. p # "" /\ ~Builtin(t) /\ t # Header => t[1] # "" /\ Need(p, t) = t
    BY <1>2, PairFacts DEF Need, Resolve
  <2>3. t = Header => Need(p, t) = StdHeader
    BY DEF Need, Resolve
  <2> QED
    BY <2>1, <2>2, <2>3
<1> QED
  BY <1>1, <1>2

\* Loading a text gives every type a package, builtin types and Header excepted.
LEMMA LoadedFields ==
  ASSUME NEW text \in Texts, NEW p \in Names
  PROVE  LET fields == LoadFromString(text, p).fields
         IN /\ fields \in Texts /\ DOMAIN fields = DOMAIN text
            /\ \A i \in DOMAIN text :
                 /\ text[i].type \in Types /\ fields[i].type \in Types
                 /\ Builtin(fields[i].type) <=> Builtin(text[i].type)
                 /\ p # "" /\ ~Builtin(text[i].type) =>
                      /\ fields[i].type # Header => fields[i].type[1] # ""
                      /\ (IF fields[i].type = Header THEN StdHeader ELSE fields[i].type)
                           = Need(p, text[i].type)
<1> DEFINE Applies(t) == p # "" /\ t[1] = "" /\ ~Builtin(t) /\ t # Header
           new == [i \in DOMAIN text |->
                     IF Applies(text[i].type)
                     THEN [text[i] EXCEPT !.type = <<p, text[i].type[2]>>] ELSE text[i]]
<1>1. LoadFromString(text, p).fields = new
  BY DEF LoadFromString
<1>2. ASSUME NEW i \in DOMAIN text
      PROVE  /\ text[i].type \in Types /\ new[i] \in Fields
             /\ new[i].type = IF Applies(text[i].type) THEN <<p, text[i].type[2]>> ELSE text[i].type
  <2>1. text[i] \in Fields
    BY DEF Texts
  <2>2. text[i].type \in Types
    BY <2>1, FieldFacts
  <2>3. <<p, text[i].type[2]>> \in Types
    BY <2>2, PairFacts
  <2>4. new[i] = IF Applies(text[i].type)
                 THEN [text[i] EXCEPT !.type = <<p, text[i].type[2]>>] ELSE text[i]
    OBVIOUS
  <2> HIDE DEF Applies, new
  <2> QED
    BY <2>1, <2>2, <2>3, <2>4, FieldFacts
<1>3. new \in Texts /\ DOMAIN new = DOMAIN text
  <2>1. text \in Seq(Fields)
    BY DEF Texts
  <2>2. DOMAIN text = 1 .. Len(text) /\ Len(text) \in Nat
    BY <2>1, LenProperties
  <2>3. new \in [1 .. Len(text) -> Fields]
    BY <1>2, <2>2
  <2> QED
    BY <2>2, <2>3, SeqDef DEF Texts
<1>4. ASSUME NEW i \in DOMAIN text
      PROVE  /\ new[i].type \in Types
             /\ Builtin(new[i].type) <=> Builtin(text[i].type)
             /\ p # "" /\ ~Builtin(text[i].type) =>
                  /\ new[i].type # Header => new[i].type[1] # ""
                  /\ (IF new[i].type = Header THEN StdHeader ELSE new[i].type)
                       = Need(p, text[i].type)
  <2> HIDE DEF new
  <2> QED
    BY <1>2, QualifiedType
<1> HIDE DEF new
<1> QED
  BY <1>1, <1>2, <1>3, <1>4

\* What the specification of a type needs is what its file says.
LEMMA KnownSpec ==
  ASSUME NEW w \in Machines, NEW t \in Types, ~Builtin(t), Known(w, t), NEW p \in Names
  PROVE  /\ SpecOf(w, t).fields \in Texts
         /\ Needs(p, Range(SpecOf(w, t).fields)) = NeededBy(TrueFields(w, t))
<1>1. CASE t \in Headers
  <2>1. /\ StdHeader \in DOMAIN w.files /\ w.files[StdHeader] \in Texts
        /\ \A f \in Range(w.files[StdHeader]) : Builtin(f.type)
    BY <1>1, MachinesAssumption DEF Known
  <2>2. \A i \in DOMAIN w.files[StdHeader] : Builtin(w.files[StdHeader][i].type)
    BY <2>1 DEF Range
  <2>3. ASSUME NEW q \in Names
        PROVE  /\ LoadFromString(w.files[StdHeader], q).fields \in Texts
               /\ \A f \in Range(LoadFromString(w.files[StdHeader], q).fields) : Builtin(f.type)
    BY <2>1, <2>2, LoadedFields DEF Range
  <2>4. "" \in Names /\ t[1] \in Names
    BY NamesAssumption, PairFacts
  <2>5. TrueFields(w, t) = LoadFromString(w.files[StdHeader], t[1]).fields
    <3>1. t # Time /\ t # Duration
      BY BuiltinFacts
    <3>2. t \in {Header, RoslibHeader} \/ t = StdHeader
      BY <1>1 DEF Headers
    <3> QED
      BY <3>1, <3>2 DEF TrueFields
  <2>6. NeededBy(TrueFields(w, t)) = {}
    BY <2>3, <2>4, <2>5 DEF NeededBy
  <2>7. SpecOf(w, t).fields = LoadFromString(w.files[StdHeader], "").fields
    BY <1>1 DEF SpecOf
  <2> QED
    BY <2>3, <2>4, <2>6, <2>7 DEF Needs
<1>2. CASE t \notin Headers
  <2>1. t \in DOMAIN w.files /\ t[1] # "" /\ w.files[t] \in Texts /\ t[1] \in Names
    BY <1>2, MachinesAssumption, PairFacts DEF Known
  <2> DEFINE F == LoadFromString(w.files[t], t[1]).fields
  <2>2. SpecOf(w, t).fields = F
    BY <1>2 DEF SpecOf, LoadFromFile
  <2>3. t # Time /\ t # Duration
    BY BuiltinFacts
  <2>4. TrueFields(w, t) = F
    BY <1>2, <2>3 DEF TrueFields, Headers
  <2>5. F \in Texts
    BY <2>1, LoadedFields
  <2>6. ASSUME NEW f \in Range(F), ~Builtin(f.type)
        PROVE  Need(p, f.type) = IF f.type = Header THEN StdHeader ELSE f.type
    <3>0. PICK i \in DOMAIN F : f = F[i]
      BY <2>6 DEF Range
    <3>1. f.type \in Types /\ (f.type # Header => f.type[1] # "")
      BY <2>1, <2>6, <3>0, LoadedFields
    <3> QED
      BY <3>1, PairFacts DEF Need, Resolve
  <2> HIDE DEF F
  <2> QED
    BY <2>2, <2>4, <2>5, <2>6 DEF Needs, NeededBy
<1> QED
  BY <1>1, <1>2

-----------------------------------------------------------------------------
(* The stack of calls.                                                     *)

Pending(stack) == UNION {Range(stack[k]) : k \in DOMAIN stack}

LEMMA TextFacts ==
  ASSUME NEW text \in Texts
  PROVE  /\ \A f \in Range(text) : f \in Fields
         /\ text # <<>> => /\ Head(text) \in Fields /\ Tail(text) \in Texts
                           /\ Range(text) = Range(Tail(text)) \cup {Head(text)}
<1>1. text \in Seq(Fields) /\ DOMAIN text = 1 .. Len(text) /\ Len(text) \in Nat
  BY LenProperties DEF Texts
<1>2. \A f \in Range(text) : f \in Fields
  BY <1>1 DEF Range
<1>3. ASSUME text # <<>>
      PROVE  /\ Head(text) \in Fields /\ Tail(text) \in Texts
             /\ Range(text) = Range(Tail(text)) \cup {Head(text)}
  <2>1. /\ Head(text) \in Fields /\ Tail(text) \in Seq(Fields)
        /\ Len(text) # 0 /\ Len(Tail(text)) = Len(text) - 1
        /\ \A i \in 1 .. Len(Tail(text)) : Tail(text)[i] = text[i + 1]
    BY <1>1, <1>3, HeadTailProperties, EmptySeq
  <2>2. Head(text) = text[1] /\ DOMAIN Tail(text) = 1 .. Len(Tail(text))
    BY <1>1, <1>3, <2>1, HeadTailProperties, LenProperties
  <2>3. ASSUME NEW i \in DOMAIN text PROVE text[i] \in Range(Tail(text)) \cup {Head(text)}
    <3>1. CASE i = 1
      BY <2>2, <3>1
    <3>2. CASE i # 1
      <4>1. i - 1 \in DOMAIN Tail(text) /\ Tail(text)[i - 1] = text[i]
        BY <1>1, <2>1, <2>2, <3>2
      <4> QED
        BY <4>1 DEF Range
    <3> QED
      BY <3>1, <3>2
  <2>4. ASSUME NEW i \in DOMAIN Tail(text) PROVE Tail(text)[i] \in Range(text)
    <3>1. i + 1 \in DOMAIN text /\ Tail(text)[i] = text[i + 1]
      BY <1>1, <2>1, <2>2
    <3> QED
      BY <3>1 DEF Range
  <2>5. Head(text) \in Range(text)
    BY <1>1, <2>1, <2>2 DEF Range
  <2> QED
    BY <2>1, <2>3, <2>4, <2>5 DEF Range, Texts
<1> QED
  BY <1>2, <1>3

LEMMA PushPending ==
  ASSUME NEW stack \in Seq(Texts), NEW text \in Texts
  PROVE  /\ Append(stack, text) \in Seq(Texts)
         /\ Pending(Append(stack, text)) = Pending(stack) \cup Range(text)
<1>1. /\ Append(stack, text) \in Seq(Texts) /\ Len(Append(stack, text)) = Len(stack) + 1
      /\ \A i \in 1 .. Len(stack) : Append(stack, text)[i] = stack[i]
      /\ Append(stack, text)[Len(stack) + 1] = text
  BY AppendProperties
<1>2. Len(stack) \in Nat /\ DOMAIN stack = 1 .. Len(stack)
      /\ DOMAIN Append(stack, text) = 1 .. Len(stack) + 1
  BY <1>1, LenProperties
<1> QED
  BY <1>1, <1>2 DEF Pending

LEMMA PopPending ==
  ASSUME NEW stack \in Seq(Texts), stack # <<>>, Last(stack) = <<>>
  PROVE  Front(stack) \in Seq(Texts) /\ Pending(Front(stack)) = Pending(stack)
<1>1. Len(stack) \in Nat /\ DOMAIN stack = 1 .. Len(stack) /\ Len(stack) # 0
  BY LenProperties, EmptySeq
<1>2. /\ Front(stack) \in Seq(Texts) /\ DOMAIN Front(stack) = 1 .. Len(stack) - 1
      /\ \A i \in 1 .. Len(stack) - 1 : Front(stack)[i] = stack[i]
  BY <1>1 DEF Front
<1>3. Range(<<>>) = {}
  BY DEF Range
<1>4. Range(stack[Len(stack)]) = {}
  BY <1>3 DEF Last
<1>5. ASSUME NEW k \in DOMAIN stack, NEW f \in Range(stack[k])
      PROVE  f \in Pending(Front(stack))
  <2>1. k # Len(stack)
    BY <1>4, <1>5
  <2>2. k \in DOMAIN Front(stack) /\ Front(stack)[k] = stack[k]
    BY <1>1, <1>2, <2>1
  <2> QED
    BY <1>5, <2>2 DEF Pending
<1>6. ASSUME NEW k \in DOMAIN Front(stack) PROVE k \in DOMAIN stack /\ Front(stack)[k] = stack[k]
  BY <1>1, <1>2
<1> QED
  BY <1>2, <1>5, <1>6 DEF Pending

LEMMA NextPending ==
  ASSUME NEW stack \in Seq(Texts), stack # <<>>, Last(stack) # <<>>
  PROVE  LET rest == [stack EXCEPT ![Len(stack)] = Tail(@)]
         IN /\ rest \in Seq(Texts) /\ Len(rest) = Len(stack)
            /\ Head(Last(stack)) \in Fields
            /\ Pending(stack) = Pending(rest) \cup {Head(Last(stack))}
<1> DEFINE rest == [stack EXCEPT ![Len(stack)] = Tail(@)]
           n == Len(stack)
<1>1. n \in Nat /\ DOMAIN stack = 1 .. n /\ n # 0 /\ n \in DOMAIN stack
  BY LenProperties, EmptySeq
<1>2. stack[n] \in Texts /\ stack[n] = Last(stack)
  BY <1>1 DEF Last
<1>3. /\ Head(stack[n]) \in Fields /\ Tail(stack[n]) \in Texts
      /\ Range(stack[n]) = Range(Tail(stack[n])) \cup {Head(stack[n])}
  BY <1>2, TextFacts
<1>4. rest \in Seq(Texts) /\ Len(rest) = n /\ DOMAIN rest = DOMAIN stack
  <2>1. \A i \in 1 .. n : stack[i] \in Texts
    BY <1>1
  <2>2. rest \in [1 .. n -> Texts]
    BY <1>1, <1>3, <2>1
  <2> QED
    BY <1>1, <2>2, SeqDef, LenProperties
<1>5. \A i \in DOMAIN stack : rest[i] = IF i = n THEN Tail(stack[n]) ELSE stack[i]
  BY <1>1
<1>6. Pending(stack) = Pending(rest) \cup {Head(stack[n])}
  <2> HIDE DEF rest, n
  <2> QED
    BY <1>1, <1>3, <1>4, <1>5 DEF Pending
<1> QED
  BY <1>2, <1>3, <1>4, <1>6

-----------------------------------------------------------------------------
(* The registry has nothing but what the files say.                        *)

IsGlobals(s) ==
  s = [registered |-> s.registered, loaded |-> s.loaded, init |-> s.init,
       stack |-> s.stack, deps |-> s.deps, err |-> s.err]

True(w, table) ==
  \A t \in DOMAIN table : Builtin(t) \/ (Known(w, t) /\ table[t] = SpecOf(w, t))

Sound(w, s) ==
  /\ IsGlobals(s)
  /\ True(w, s.registered)
  /\ s.init => Basic \subseteq DOMAIN s.registered
  /\ s.stack \in Seq(Texts) /\ s.deps \in Seq(Types)

LEMMA KnownTypes ==
  ASSUME NEW w \in Machines, NEW t, Known(w, t)
  PROVE  t \in Types
  BY TypeFacts, MachinesAssumption DEF Known, Headers

LEMMA FreshSound ==
  ASSUME NEW w
  PROVE  Sound(w, Fresh)
  BY DEF Sound, IsGlobals, True, Fresh

LEMMA Registers ==
  ASSUME NEW w, NEW s, Sound(w, s), NEW table, True(w, table)
  PROVE  LET r == Register(s, table)
         IN /\ Sound(w, r)
            /\ DOMAIN r.registered = DOMAIN table \cup DOMAIN s.registered
            /\ r.init = s.init /\ r.stack = s.stack /\ r.deps = s.deps /\ r.err = s.err
<1> DEFINE all == [t \in DOMAIN table \cup DOMAIN s.registered |->
                     IF t \in DOMAIN table THEN table[t] ELSE s.registered[t]]
           r == Register(s, table)
<1>1. DOMAIN all = DOMAIN table \cup DOMAIN s.registered
      /\ \A t \in DOMAIN all : all[t] = IF t \in DOMAIN table THEN table[t] ELSE s.registered[t]
  OBVIOUS
<1>2. True(w, all)
  BY <1>1 DEF True, Sound
<1>3. r = [registered |-> all, loaded |-> s.loaded, init |-> s.init,
           stack |-> s.stack, deps |-> s.deps, err |-> s.err]
  BY DEF Register, Sound, IsGlobals
<1> HIDE DEF all, r
<1>4. /\ r.registered = all /\ r.init = s.init /\ r.stack = s.stack
      /\ r.deps = s.deps /\ r.err = s.err /\ IsGlobals(r)
  BY <1>3 DEF IsGlobals
<1>5. Sound(w, r)
  BY <1>1, <1>2, <1>4 DEF Sound
<1> QED
  BY <1>1, <1>4, <1>5 DEF r

LEMMA InitialisedSound ==
  ASSUME NEW w \in Machines, NEW s, Sound(w, s), s.err = "none"
  PROVE  LET r == Initialised(w, s)
         IN /\ Sound(w, r)
            /\ r.err = "none" => r.init
            /\ r.err = "none" <=> s.init \/ "std_msgs" \in w.packages
            /\ r.stack = s.stack /\ r.deps = s.deps
            /\ DOMAIN s.registered \subseteq DOMAIN r.registered
            /\ DOMAIN r.registered \subseteq DOMAIN s.registered \cup Basic
<1> DEFINE r == Initialised(w, s)
<1>1. CASE s.init
  BY <1>1 DEF Initialised, Sound
<1>2. CASE ~s.init /\ "std_msgs" \notin w.packages
  <2>1. r = [s EXCEPT !.err = "NoSuchPackage"]
    BY <1>2 DEF Initialised, Fail
  <2>2. /\ r.registered = s.registered /\ r.init = s.init /\ r.stack = s.stack
        /\ r.deps = s.deps /\ r.err = "NoSuchPackage" /\ IsGlobals(r)
    BY <2>1 DEF Sound, IsGlobals
  <2> HIDE DEF r
  <2> QED
    BY <1>2, <2>2 DEF Sound, r
<1>3. CASE ~s.init /\ "std_msgs" \in w.packages
  <2> DEFINE Text(t) == IF t = Time THEN TimeMsg ELSE IF t = Duration THEN DurationMsg ELSE w.files[StdHeader]
             table == [t \in {Header, StdHeader, RoslibHeader, Time, Duration} |-> LoadFromString(Text(t), "")]
             spec == LoadFromString(w.files[StdHeader], "")
             q == Register(s, table)
  <2>1. DOMAIN table = Basic /\ \A t \in Headers : table[t] = spec
    <3>1. \A t \in Headers : t # Time /\ t # Duration
      BY TypeFacts, BuiltinFacts DEF Headers
    <3> QED
      BY <3>1 DEF Headers, Basic
  <2>2. StdHeader \in DOMAIN w.files
    BY <1>3, MachinesAssumption
  <2>3. True(w, table)
    <3>1. \A t \in Headers : Known(w, t) /\ SpecOf(w, t) = spec
      BY <2>2 DEF Known, SpecOf
    <3> HIDE DEF table, spec
    <3>2. ASSUME NEW t \in DOMAIN table
          PROVE  Builtin(t) \/ (Known(w, t) /\ table[t] = SpecOf(w, t))
      <4>1. CASE t \in Headers
        BY <2>1, <3>1, <4>1
      <4>2. CASE t \notin Headers
        BY <2>1, <4>2, BuiltinFacts DEF Basic
      <4> QED
        BY <4>1, <4>2
    <3> QED
      BY <3>2 DEF True
  <2>4. r = [q EXCEPT !.init = TRUE]
    BY <1>3 DEF Initialised
  <2> HIDE DEF table, q, r
  <2>5. /\ Sound(w, q) /\ q.stack = s.stack /\ q.deps = s.deps /\ q.err = s.err
        /\ DOMAIN q.registered = DOMAIN table \cup DOMAIN s.registered
    BY <2>3, Registers DEF q
  <2>6. /\ r.registered = q.registered /\ r.init = TRUE /\ r.stack = q.stack
        /\ r.deps = q.deps /\ r.err = q.err /\ IsGlobals(r)
    BY <2>4, <2>5 DEF Sound, IsGlobals
  <2> QED
    BY <1>3, <2>1, <2>5, <2>6 DEF Sound, r
<1> QED
  BY <1>1, <1>2, <1>3

LEMMA SpecsTrue ==
  ASSUME NEW w \in Machines, NEW packages
  PROVE  True(w, SpecsOf(w, packages))
<1> SUFFICES ASSUME NEW t \in DOMAIN SpecsOf(w, packages)
             PROVE  Known(w, t) /\ SpecsOf(w, packages)[t] = SpecOf(w, t)
  BY DEF True
<1>1. t \in DOMAIN w.files /\ SpecsOf(w, packages)[t] = LoadFromFile(w, t)
  BY DEF SpecsOf
<1>2. CASE t = StdHeader
  <2>1. w.files[t] \in Texts /\ \A f \in Range(w.files[t]) : Builtin(f.type)
    BY <1>1, <1>2, MachinesAssumption
  <2>2. \A i \in DOMAIN w.files[t] : Builtin(w.files[t][i].type)
    BY <2>1 DEF Range
  <2>3. LoadFromString(w.files[t], "") = LoadFromString(w.files[t], t[1])
    BY <2>2 DEF LoadFromString
  <2> QED
    BY <1>1, <1>2, <2>3 DEF Known, SpecOf, LoadFromFile, Headers
<1>3. CASE t # StdHeader
  <2>1. t \notin Headers
    BY <1>1, <1>3, TypeFacts, MachinesAssumption DEF Headers
  <2> QED
    BY <1>1, <2>1 DEF Known, SpecOf
<1> QED
  BY <1>2, <1>3

-----------------------------------------------------------------------------
(* One call of _add_msgs_depends.                                          *)

LEMMA DependFacts ==
  ASSUME NEW w, NEW s, Sound(w, s), NEW d \in Types
  PROVE  LET r == Depend(s, d)
         IN /\ Sound(w, r) /\ Range(r.deps) = Range(s.deps) \cup {d}
            /\ r.deps = IF d \in Range(s.deps) THEN s.deps ELSE Append(s.deps, d)
            /\ r.registered = s.registered /\ r.init = s.init /\ r.stack = s.stack /\ r.err = s.err
<1> DEFINE r == Depend(s, d)
           deps == IF d \in Range(s.deps) THEN s.deps ELSE Append(s.deps, d)
<1>1. r = [registered |-> s.registered, loaded |-> s.loaded, init |-> s.init,
           stack |-> s.stack, deps |-> deps, err |-> s.err]
  <2>1. ASSUME NEW x
        PROVE  [s EXCEPT !.deps = x] = [registered |-> s.registered, loaded |-> s.loaded,
                 init |-> s.init, stack |-> s.stack, deps |-> x, err |-> s.err]
    BY DEF Sound, IsGlobals
  <2>2. r = [s EXCEPT !.deps = deps]
    BY DEF Depend
  <2> HIDE DEF deps, r
  <2> QED
    BY <2>1, <2>2
<1>2. s.deps \in Seq(Types)
  BY DEF Sound
<1>3. deps \in Seq(Types)
  BY <1>2, AppendProperties
<1>4. Range(deps) = Range(s.deps) \cup {d}
  <2>1. CASE d \in Range(s.deps)
    BY <2>1
  <2>2. CASE d \notin Range(s.deps)
    <3>1. /\ deps \in Seq(Types) /\ Len(deps) = Len(s.deps) + 1
          /\ \A i \in 1 .. Len(s.deps) : deps[i] = s.deps[i]
          /\ deps[Len(s.deps) + 1] = d
      BY <1>2, <2>2, AppendProperties
    <3>2. DOMAIN deps = 1 .. Len(s.deps) + 1 /\ DOMAIN s.deps = 1 .. Len(s.deps) /\ Len(s.deps) \in Nat
      BY <1>2, <3>1, LenProperties
    <3> HIDE DEF deps
    <3> QED
      BY <3>1, <3>2 DEF Range
  <2> QED
    BY <2>1, <2>2
<1> HIDE DEF deps, r
<1>5. /\ r.registered = s.registered /\ r.init = s.init /\ r.stack = s.stack
      /\ r.deps = deps /\ r.err = s.err /\ IsGlobals(r)
  BY <1>1 DEF IsGlobals
<1>6. Sound(w, r)
  BY <1>3, <1>5 DEF Sound
<1> QED
  BY <1>4, <1>5, <1>6 DEF r, deps

LEMMA IntoFacts ==
  ASSUME NEW w, NEW s, Sound(w, s), NEW text \in Texts
  PROVE  LET r == Into(s, text)
         IN /\ Sound(w, r) /\ r.registered = s.registered /\ r.init = s.init /\ r.deps = s.deps
            /\ Len(s.stack) >= MaxDepth => r.err = "RuntimeError" /\ r.stack = s.stack
            /\ ~(Len(s.stack) >= MaxDepth) => r.err = s.err /\ r.stack = Append(s.stack, text)
<1> DEFINE r == Into(s, text)
<1>1. Append(s.stack, text) \in Seq(Texts)
  BY AppendProperties DEF Sound
<1>2. CASE Len(s.stack) >= MaxDepth
  <2>1. r = [registered |-> s.registered, loaded |-> s.loaded, init |-> s.init,
             stack |-> s.stack, deps |-> s.deps, err |-> "RuntimeError"]
    BY <1>2 DEF Into, Fail, Sound, IsGlobals
  <2> HIDE DEF r
  <2>2. /\ r.registered = s.registered /\ r.init = s.init /\ r.stack = s.stack
        /\ r.deps = s.deps /\ r.err = "RuntimeError" /\ IsGlobals(r)
    BY <2>1 DEF IsGlobals
  <2> QED
    BY <1>2, <2>2 DEF Sound, r
<1>3. CASE ~(Len(s.stack) >= MaxDepth)
  <2>1. r = [registered |-> s.registered, loaded |-> s.loaded, init |-> s.init,
             stack |-> Append(s.stack, text), deps |-> s.deps, err |-> s.err]
    BY <1>3 DEF Into, Sound, IsGlobals
  <2> HIDE DEF r
  <2>2. /\ r.registered = s.registered /\ r.init = s.init /\ r.stack = Append(s.stack, text)
        /\ r.deps = s.deps /\ r.err = s.err /\ IsGlobals(r)
    BY <2>1 DEF IsGlobals
  <2> QED
    BY <1>1, <1>3, <2>2 DEF Sound, r
<1> QED
  BY <1>2, <1>3

LEMMA FailFacts ==
  ASSUME NEW w, NEW s, Sound(w, s), NEW e
  PROVE  LET r == Fail(s, e)
         IN /\ Sound(w, r) /\ r.registered = s.registered /\ r.init = s.init
            /\ r.deps = s.deps /\ r.stack = s.stack /\ r.err = e
<1> DEFINE r == Fail(s, e)
<1>1. r = [registered |-> s.registered, loaded |-> s.loaded, init |-> s.init,
           stack |-> s.stack, deps |-> s.deps, err |-> e]
  BY DEF Fail, Sound, IsGlobals
<1> HIDE DEF r
<1>2. /\ r.registered = s.registered /\ r.init = s.init /\ r.stack = s.stack
      /\ r.deps = s.deps /\ r.err = e /\ IsGlobals(r)
  BY <1>1 DEF IsGlobals
<1> QED
  BY <1>2 DEF Sound, r

\* Why a field of type t cannot be looked into.
Refused(w, s, t, p) ==
  \/ Len(s.stack) >= MaxDepth
  \/ t \notin DOMAIN s.registered /\ (t[1] \notin Valid(w, p) \/ LoadByType(w, t, p).err # "none")

LEMMA LoadedByType ==
  ASSUME NEW w \in Machines, NEW t \in Types, ~Builtin(t), t \notin Headers,
         NEW p \in Contexts, LoadByType(w, t, p).err = "none"
  PROVE  /\ Resolve(t, p) = Need(p, t) /\ Need(p, t) \in Types /\ ~Builtin(Need(p, t))
         /\ Known(w, Need(p, t)) /\ LoadByType(w, t, p).spec = SpecOf(w, Need(p, t))
<1> DEFINE key == Resolve(t, p)
<1>1. key = Need(p, t)
  BY DEF Need, Headers
<1> HIDE DEF key
<1>2. /\ key \in DOMAIN w.files
      /\ LoadByType(w, t, p).spec = LoadFromFile(w, key)
  BY DEF LoadByType, key
<1>3. key[1] # "" /\ key \in Types /\ ~Builtin(key)
  BY <1>2, MachinesAssumption, BuiltinFacts
<1>4. key \notin Headers
  <2>1. key # RoslibHeader /\ key # Header
    BY <1>2, <1>3, TypeFacts, MachinesAssumption
  <2>2. ASSUME key = StdHeader PROVE FALSE
    <3>1. t[2] = "Header"
      BY <2>2 DEF StdHeader, key, Resolve
    <3>2. t[1] = "" \/ t[1] = "std_msgs"
      BY <2>2 DEF StdHeader, key, Resolve
    <3>3. t = <<t[1], t[2]>>
      BY PairFacts
    <3> QED
      BY <3>1, <3>2, <3>3 DEF Headers, Header, StdHeader
  <2> QED
    BY <2>1, <2>2 DEF Headers
<1> QED
  BY <1>1, <1>2, <1>3, <1>4 DEF Known, SpecOf, key

Ready(w, s) == Sound(w, s) /\ s.init /\ s.err = "none"

LEMMA ReadyDepends ==
  ASSUME NEW w, NEW s, Ready(w, s), NEW d \in Types
  PROVE  /\ Ready(w, Depend(s, d))
         /\ Depend(s, d).registered = s.registered /\ Depend(s, d).stack = s.stack
  BY DependFacts DEF Ready

\* Into, when the depth allows it and when it does not
LEMMA ReadyInto ==
  ASSUME NEW w, NEW s, Ready(w, s), NEW text \in Texts
  PROVE  /\ Sound(w, Into(s, text))
         /\ Into(s, text).registered = s.registered /\ Into(s, text).deps = s.deps
         /\ Len(s.stack) >= MaxDepth => Into(s, text).err # "none"
         /\ ~(Len(s.stack) >= MaxDepth) =>
              Ready(w, Into(s, text)) /\ Into(s, text).stack = Append(s.stack, text)
  BY IntoFacts DEF Ready

LEMMA ReadyRegisters ==
  ASSUME NEW w, NEW s, Ready(w, s), NEW table, True(w, table)
  PROVE  /\ Ready(w, Register(s, table))
         /\ DOMAIN Register(s, table).registered = DOMAIN table \cup DOMAIN s.registered
         /\ Register(s, table).stack = s.stack /\ Register(s, table).deps = s.deps
  BY Registers DEF Ready

\* What becomes of a field of type t, that is not refused.
Embedded(w, s, r, n) ==
  /\ Ready(w, r)
  /\ n \in Types /\ ~Builtin(n) /\ Known(w, n)
  /\ DOMAIN r.registered = DOMAIN s.registered \cup {n}
  /\ SpecOf(w, n).fields \in Texts
  /\ r.deps = Depend(s, n).deps
  /\ r.stack = Append(s.stack, SpecOf(w, n).fields)

LEMMA EmbedsIs ==
  ASSUME NEW w \in Machines, NEW s, Ready(w, s),
         NEW t \in Types, ~Builtin(t), NEW p \in Contexts
  PROVE  LET r == Embeds(w, s, t, p)
         IN /\ Sound(w, r) /\ DOMAIN s.registered \subseteq DOMAIN r.registered
            /\ Refused(w, s, t, p) => r.err # "none"
            /\ ~Refused(w, s, t, p) => Embedded(w, s, r, Need(p, t))
<1> DEFINE r == Embeds(w, s, t, p)
           n == Need(p, t)
           loaded == LoadByType(w, t, p)
           fields == SpecOf(w, n).fields
<1>0. Headers \subseteq DOMAIN s.registered /\ Sound(w, s)
  BY DEF Sound, Ready, Basic
<1>1. CASE t \in DOMAIN s.registered
  <2>1. Known(w, t) /\ s.registered[t] = SpecOf(w, t)
    BY <1>0, <1>1 DEF Sound, True
  <2>2. /\ n \in Types /\ ~Builtin(n) /\ n \in DOMAIN s.registered
        /\ Known(w, n) /\ s.registered[t] = SpecOf(w, n)
        /\ t # Header => n = t /\ Resolve(t, p) = t
    <3>1. CASE t = Header
      BY <1>0, <2>1, <3>1, TypeFacts DEF Need, Headers, Known, SpecOf
    <3>2. CASE t # Header
      <4>1. t[1] # ""
        BY <2>1, <3>2, TypeFacts, MachinesAssumption DEF Known, Headers
      <4>2. n = t /\ Resolve(t, p) = t
        BY <3>2, <4>1, PairFacts DEF Need, Resolve
      <4> QED
        BY <1>1, <2>1, <3>2, <4>2
    <3> QED
      BY <3>1, <3>2
  <2>3. fields \in Texts
    BY <2>2, KnownSpec DEF Contexts
  <2> HIDE DEF n, fields
  <2>4. r = Into(Depend(s, n), fields)
    <3>1. CASE t = Header
      <4>1. n = StdHeader
        BY <3>1 DEF n, Need
      <4> QED
        BY <2>2, <3>1, <4>1 DEF Embeds, fields
    <3>2. CASE t # Header
      BY <1>1, <2>2, <3>2 DEF Embeds, IsRegistered, RegisteredFields, fields
    <3> QED
      BY <3>1, <3>2
  <2>5. /\ Ready(w, Depend(s, n)) /\ Depend(s, n).registered = s.registered
        /\ Depend(s, n).stack = s.stack
    BY <2>2, ReadyDepends
  <2> HIDE DEF r
  <2>6. Refused(w, s, t, p) <=> Len(s.stack) >= MaxDepth
    BY <1>1 DEF Refused
  <2>7. /\ Sound(w, r) /\ r.registered = s.registered /\ r.deps = Depend(s, n).deps
        /\ Len(s.stack) >= MaxDepth => r.err # "none"
        /\ ~(Len(s.stack) >= MaxDepth) => Ready(w, r) /\ r.stack = Append(s.stack, fields)
    BY <2>3, <2>4, <2>5, ReadyInto
  <2> QED
    BY <2>2, <2>3, <2>6, <2>7 DEF r, n, fields, Embedded
<1>2. CASE t \notin DOMAIN s.registered /\ (t[1] \notin Valid(w, p) \/ loaded.err # "none")
  <2> DEFINE e == IF t[1] \notin Valid(w, p) THEN "KeyError" ELSE loaded.err
  <2>1. t # Header /\ e # "none"
    BY <1>0, <1>2 DEF Headers
  <2>2. r = Fail(s, e)
    BY <1>2, <2>1 DEF Embeds, IsRegistered
  <2>3. Refused(w, s, t, p)
    BY <1>2 DEF Refused
  <2> HIDE DEF r, e
  <2>4. Sound(w, r) /\ r.registered = s.registered /\ r.err = e
    BY <1>0, <2>2, FailFacts
  <2> QED
    BY <2>1, <2>3, <2>4 DEF r
<1>3. CASE t \notin DOMAIN s.registered /\ t[1] \in Valid(w, p) /\ loaded.err = "none"
  <2>1. t \notin Headers
    BY <1>0, <1>3
  <2>2. /\ Resolve(t, p) = n /\ n \in Types /\ ~Builtin(n)
        /\ Known(w, n) /\ loaded.spec = SpecOf(w, n)
    BY <1>3, <2>1, LoadedByType
  <2> DEFINE one == [k \in {n} |-> SpecOf(w, n)]
             q == Register(Depend(s, n), one)
  <2>3. fields \in Texts
    BY <2>2, KnownSpec DEF Contexts
  <2>4. True(w, one)
    BY <2>2 DEF True
  <2>5. DOMAIN one = {n}
    OBVIOUS
  <2>6. r = Into(q, fields)
    BY <1>3, <2>1, <2>2 DEF Embeds, IsRegistered, Headers
  <2>7. /\ Ready(w, Depend(s, n)) /\ Depend(s, n).registered = s.registered
        /\ Depend(s, n).stack = s.stack
    BY <2>2, ReadyDepends
  <2> HIDE DEF r, n, fields, one, q
  <2>8. /\ Ready(w, q) /\ DOMAIN q.registered = {n} \cup DOMAIN s.registered
        /\ q.stack = s.stack /\ q.deps = Depend(s, n).deps
    BY <2>4, <2>5, <2>7, ReadyRegisters DEF q
  <2>9. Refused(w, s, t, p) <=> Len(s.stack) >= MaxDepth
    BY <1>3 DEF Refused
  <2>10. /\ Sound(w, r) /\ r.registered = q.registered /\ r.deps = q.deps
         /\ Len(s.stack) >= MaxDepth => r.err # "none"
         /\ ~(Len(s.stack) >= MaxDepth) => Ready(w, r) /\ r.stack = Append(s.stack, fields)
    BY <2>3, <2>6, <2>8, ReadyInto
  <2> QED
    BY <2>2, <2>3, <2>8, <2>9, <2>10 DEF r, n, fields, Embedded
<1> QED
  BY <1>1, <1>2, <1>3

-----------------------------------------------------------------------------
(* What is still to be looked at, and what has been.                       *)

\* The types in deps, and those in open that are still to be looked at, are what
\* the message or service t embeds.
Covers(w, t, deps, open) ==
  LET all == Range(deps) \cup open
  IN /\ Direct(w, t) \subseteq all
     /\ \A d \in Range(deps) :
          /\ d \in Types /\ ~Builtin(d) /\ Known(w, d)
          /\ NeededBy(TrueFields(w, d)) \subseteq all
     /\ \A n \in open : n \in Direct(w, t) \/ \E d \in Range(deps) : n \in NeededBy(TrueFields(w, d))
     /\ \A i \in DOMAIN deps :
          /\ \A j \in 1 .. i - 1 : deps[i] # deps[j]
          /\ \/ deps[i] \in Direct(w, t)
             \/ \E j \in 1 .. i - 1 : deps[i] \in NeededBy(TrueFields(w, deps[j]))

LEMMA CoversMore ==
  ASSUME NEW w, NEW t, NEW deps \in Seq(Types), NEW rest,
         NEW n \in Types, ~Builtin(n), Known(w, n), Covers(w, t, deps, rest \cup {n})
  PROVE  Covers(w, t, IF n \in Range(deps) THEN deps ELSE Append(deps, n),
                rest \cup NeededBy(TrueFields(w, n)))
<1> DEFINE new == IF n \in Range(deps) THEN deps ELSE Append(deps, n)
           F(d) == NeededBy(TrueFields(w, d))
           direct == Direct(w, t)
           D == Range(deps)
<1>1. /\ direct \subseteq D \cup rest \cup {n}
      /\ \A d \in D : d \in Types /\ ~Builtin(d) /\ Known(w, d) /\ F(d) \subseteq D \cup rest \cup {n}
      /\ \A m \in rest \cup {n} : m \in direct \/ \E d \in D : m \in F(d)
      /\ \A i \in DOMAIN deps :
           /\ \A j \in 1 .. i - 1 : deps[i] # deps[j]
           /\ deps[i] \in direct \/ \E j \in 1 .. i - 1 : deps[i] \in F(deps[j])
  BY DEF Covers
<1>2. Len(deps) \in Nat /\ DOMAIN deps = 1 .. Len(deps)
  BY LenProperties
<1> HIDE DEF F, direct
<1>3. Range(new) = D \cup {n}
  <2>1. CASE n \in D
    BY <2>1
  <2>2. CASE n \notin D
    <3>1. /\ new \in Seq(Types) /\ Len(new) = Len(deps) + 1
          /\ \A i \in 1 .. Len(deps) : new[i] = deps[i]
          /\ new[Len(deps) + 1] = n
      BY <2>2, AppendProperties
    <3>2. DOMAIN new = 1 .. Len(deps) + 1
      BY <3>1, LenProperties
    <3> HIDE DEF new
    <3> QED
      BY <1>2, <3>1, <3>2 DEF Range
  <2> QED
    BY <2>1, <2>2
<1>4. ASSUME NEW i \in DOMAIN new
      PROVE  /\ \A j \in 1 .. i - 1 : new[i] # new[j]
             /\ new[i] \in direct \/ \E j \in 1 .. i - 1 : new[i] \in F(new[j])
  <2>1. CASE n \in D
    BY <1>1, <2>1
  <2>2. CASE n \notin D
    <3>1. /\ new \in Seq(Types) /\ Len(new) = Len(deps) + 1
          /\ \A k \in 1 .. Len(deps) : new[k] = deps[k]
          /\ new[Len(deps) + 1] = n
      BY <2>2, AppendProperties
    <3>2. DOMAIN new = 1 .. Len(deps) + 1
      BY <3>1, LenProperties
    <3> HIDE DEF new
    <3>3. CASE i \in 1 .. Len(deps)
      <4>1. \A j \in 1 .. i - 1 : j \in 1 .. Len(deps) /\ new[j] = deps[j]
        BY <1>2, <3>1, <3>3
      <4>2. new[i] = deps[i] /\ i \in DOMAIN deps
        BY <1>2, <3>1, <3>3
      <4> QED
        BY <1>1, <4>1, <4>2
    <3>4. CASE i = Len(deps) + 1
      <4>1. \A j \in 1 .. i - 1 : j \in DOMAIN deps /\ new[j] = deps[j]
        BY <1>2, <3>1, <3>4
      <4>2. new[i] = n
        BY <3>1, <3>4
      <4>3. \A j \in 1 .. i - 1 : new[i] # new[j]
        BY <2>2, <4>1, <4>2 DEF Range
      <4>4. CASE n \in direct
        BY <4>2, <4>3, <4>4
      <4>5. CASE n \notin direct
        <5>1. PICK d \in D : n \in F(d)
          BY <1>1, <4>5
        <5>2. PICK j \in DOMAIN deps : d = deps[j]
          BY DEF Range
        <5>3. j \in 1 .. i - 1
          BY <1>2, <3>4
        <5> QED
          BY <4>1, <4>2, <4>3, <5>1, <5>2, <5>3
      <4> QED
        BY <4>4, <4>5
    <3> QED
      BY <1>2, <3>2, <3>3, <3>4
  <2> QED
    BY <2>1, <2>2
<1> HIDE DEF new
<1>5. /\ direct \subseteq Range(new) \cup (rest \cup F(n))
      /\ \A d \in Range(new) : d \in Types /\ ~Builtin(d) /\ Known(w, d)
                               /\ F(d) \subseteq Range(new) \cup (rest \cup F(n))
      /\ \A m \in rest \cup F(n) : m \in direct \/ \E d \in Range(new) : m \in F(d)
  BY <1>1, <1>3
<1> QED
  BY <1>4, <1>5 DEF Covers, new, F, direct

\* A call for the type t that has not failed: what it has found is registered.
Covered(w, s, t) ==
  /\ Ready(w, s)
  /\ Range(s.deps) \subseteq DOMAIN s.registered
  /\ Covers(w, t, s.deps, Needs(t[1], Pending(s.stack)))

InCall(w, s, t) == Sound(w, s) /\ (s.err = "none" => Covered(w, s, t))

-----------------------------------------------------------------------------
(* One field.                                                              *)

WithStack(s, stack) == [s EXCEPT !.stack = stack]

LEMMA ReadyWithStack ==
  ASSUME NEW w, NEW s, Ready(w, s), NEW stack \in Seq(Texts)
  PROVE  /\ Ready(w, WithStack(s, stack))
         /\ WithStack(s, stack).registered = s.registered
         /\ WithStack(s, stack).deps = s.deps /\ WithStack(s, stack).stack = stack
<1> DEFINE r == WithStack(s, stack)
<1>1. r = [registered |-> s.registered, loaded |-> s.loaded, init |-> s.init,
           stack |-> stack, deps |-> s.deps, err |-> s.err]
  <2>1. IsGlobals(s)
    BY DEF Ready, Sound
  <2> QED
    BY <2>1 DEF WithStack, IsGlobals
<1> HIDE DEF r
<1>2. /\ r.registered = s.registered /\ r.init = s.init /\ r.stack = stack
      /\ r.deps = s.deps /\ r.err = s.err /\ IsGlobals(r)
  BY <1>1 DEF IsGlobals
<1>3. Ready(w, r)
  BY <1>2 DEF Sound, Ready
<1> QED
  BY <1>2, <1>3 DEF r

Remaining(stack) == [stack EXCEPT ![Len(stack)] = Tail(@)]

LEMMA LookIs ==
  ASSUME NEW w, NEW s, NEW p
  PROVE  LET field == Head(Last(s.stack))
             next == WithStack(s, Remaining(s.stack))
         IN /\ Last(s.stack) = <<>> => Look(w, s, p) = WithStack(s, Front(s.stack))
            /\ Last(s.stack) # <<>> => Look(w, s, p) = Embeds(w, next, field.type, p)
            /\ Builtin(field.type) => Embeds(w, next, field.type, p) = next
  BY DEF Look, WithStack, Remaining, Embeds

LEMMA LookCovers ==
  ASSUME NEW w \in Machines, NEW t, t[1] \in Contexts,
         NEW s, Covered(w, s, t), s.stack # <<>>
  PROVE  InCall(w, Look(w, s, t[1]), t)
<1> DEFINE p == t[1]
           r == Look(w, s, p)
           stack == s.stack
           rest == Remaining(stack)
           field == Head(Last(stack))
           next == WithStack(s, rest)
<1>1. /\ Ready(w, s) /\ stack \in Seq(Texts) /\ s.deps \in Seq(Types)
      /\ Range(s.deps) \subseteq DOMAIN s.registered
      /\ Covers(w, t, s.deps, Needs(p, Pending(stack)))
  BY DEF Covered, Ready, Sound
<1>2. CASE Last(stack) = <<>>
  <2>1. Front(stack) \in Seq(Texts) /\ Pending(Front(stack)) = Pending(stack)
    BY <1>1, <1>2, PopPending
  <2>2. r = WithStack(s, Front(stack))
    BY <1>2, LookIs
  <2> HIDE DEF r, p, stack
  <2>3. /\ Ready(w, r) /\ r.registered = s.registered /\ r.deps = s.deps
        /\ r.stack = Front(stack)
    BY <1>1, <2>1, <2>2, ReadyWithStack
  <2>4. Covered(w, r, t)
    BY <1>1, <2>1, <2>3 DEF Covered, p
  <2> QED
    BY <2>3, <2>4 DEF InCall, Ready, r, p
<1>3. CASE Last(stack) # <<>>
  <2>1. /\ rest \in Seq(Texts) /\ field \in Fields
        /\ Pending(stack) = Pending(rest) \cup {field}
    BY <1>1, <1>3, NextPending DEF Remaining
  <2>2. /\ r = Embeds(w, next, field.type, p)
        /\ Builtin(field.type) => r = next
    BY <1>3, LookIs
  <2> HIDE DEF r, p, stack, rest, field
  <2>3. /\ Ready(w, next) /\ next.registered = s.registered /\ next.deps = s.deps
        /\ next.stack = rest
    BY <1>1, <2>1, ReadyWithStack
  <2>4. CASE Builtin(field.type)
    <3>1. Needs(p, Pending(stack)) = Needs(p, Pending(rest))
      BY <2>1, <2>4 DEF Needs
    <3>2. Covered(w, next, t)
      BY <1>1, <2>3, <3>1 DEF Covered, p
    <3> QED
      BY <2>2, <2>3, <2>4, <3>2 DEF InCall, Ready, r, p
  <2>5. CASE ~Builtin(field.type)
    <3> DEFINE n == Need(p, field.type)
               F == SpecOf(w, n).fields
    <3> HIDE DEF n, F, next
    <3>1. p \in Contexts /\ field.type \in Types
      BY <2>1, FieldFacts DEF p
    <3>2. /\ Sound(w, r)
          /\ Refused(w, next, field.type, p) => r.err # "none"
          /\ ~Refused(w, next, field.type, p) => Embedded(w, next, r, n)
      BY <2>2, <2>3, <2>5, <3>1, EmbedsIs DEF n
    <3>3. ASSUME Embedded(w, next, r, n) PROVE Covered(w, r, t)
      <4>1. /\ Ready(w, r) /\ n \in Types /\ ~Builtin(n) /\ Known(w, n)
            /\ DOMAIN r.registered = DOMAIN s.registered \cup {n}
            /\ F \in Texts /\ r.deps = Depend(next, n).deps /\ r.stack = Append(rest, F)
        BY <2>3, <3>3 DEF Embedded, F
      <4>2. /\ r.deps = IF n \in Range(s.deps) THEN s.deps ELSE Append(s.deps, n)
            /\ Range(r.deps) = Range(s.deps) \cup {n}
        <5>1. Sound(w, next)
          BY <2>3 DEF Ready
        <5> QED
          BY <2>3, <4>1, <5>1, DependFacts
      <4>3. Pending(r.stack) = Pending(rest) \cup Range(F)
        BY <2>1, <4>1, PushPending
      <4>4. Needs(p, Range(F)) = NeededBy(TrueFields(w, n))
        BY <3>1, <4>1, KnownSpec DEF Contexts, F
      <4>5. /\ Needs(p, Pending(r.stack)) = Needs(p, Pending(rest)) \cup NeededBy(TrueFields(w, n))
            /\ Needs(p, Pending(stack)) = Needs(p, Pending(rest)) \cup {n}
        <5>1. Needs(p, Pending(r.stack)) = Needs(p, Pending(rest)) \cup Needs(p, Range(F))
          BY <4>3 DEF Needs
        <5>2. Needs(p, Pending(stack)) = Needs(p, Pending(rest)) \cup {n}
          BY <2>1, <2>5 DEF Needs, n
        <5> QED
          BY <4>4, <5>1, <5>2
      <4>6. Covers(w, t, r.deps, Needs(p, Pending(r.stack)))
        <5> DEFINE open == Needs(p, Pending(rest))
        <5>1. Covers(w, t, s.deps, open \cup {n})
          BY <1>1, <4>5
        <5> HIDE DEF open
        <5>2. Covers(w, t, IF n \in Range(s.deps) THEN s.deps ELSE Append(s.deps, n),
                     open \cup NeededBy(TrueFields(w, n)))
          BY <1>1, <4>1, <5>1, CoversMore
        <5> QED
          BY <4>2, <4>5, <5>2 DEF open
      <4> QED
        BY <1>1, <4>1, <4>2, <4>6 DEF Covered, p
    <3> QED
      BY <3>2, <3>3 DEF InCall, r, p
  <2> QED
    BY <2>4, <2>5
<1> QED
  BY <1>2, <1>3

\* Two processes that look at the same field, b with more types registered than
\* a: when b fails, so does a.
Ahead(a, b) ==
  a.err = "none" =>
    /\ b.err = "none" /\ a.stack = b.stack /\ a.deps = b.deps
    /\ DOMAIN a.registered \subseteq DOMAIN b.registered

LEMMA LookAhead ==
  ASSUME NEW w \in Machines, NEW p \in Contexts,
         NEW a, Ready(w, a), NEW b, Ready(w, b), a.stack = b.stack, a.deps = b.deps,
         DOMAIN a.registered \subseteq DOMAIN b.registered, a.stack # <<>>
  PROVE  Ahead(Look(w, a, p), Look(w, b, p))
<1> DEFINE ra == Look(w, a, p)
           rb == Look(w, b, p)
           stack == a.stack
           rest == Remaining(stack)
           field == Head(Last(stack))
<1>0. stack \in Seq(Texts) /\ b.stack = stack
  BY DEF Ready, Sound
<1>1. CASE Last(stack) = <<>>
  <2>1. Front(stack) \in Seq(Texts)
    BY <1>0, <1>1, PopPending
  <2>2. ra = WithStack(a, Front(stack)) /\ rb = WithStack(b, Front(stack))
    BY <1>0, <1>1, LookIs
  <2> HIDE DEF ra, rb, stack
  <2> QED
    <3>1. /\ Ready(w, ra) /\ ra.registered = a.registered /\ ra.deps = a.deps
          /\ ra.stack = Front(stack)
      BY <2>1, <2>2, ReadyWithStack
    <3>2. /\ Ready(w, rb) /\ rb.registered = b.registered /\ rb.deps = b.deps
          /\ rb.stack = Front(stack)
      BY <2>1, <2>2, ReadyWithStack
    <3> QED
      BY <3>1, <3>2 DEF Ahead, Ready, ra, rb
<1>2. CASE Last(stack) # <<>>
  <2> DEFINE na == WithStack(a, rest)
             nb == WithStack(b, rest)
  <2>1. rest \in Seq(Texts) /\ field \in Fields
    BY <1>0, <1>2, NextPending DEF Remaining
  <2>2. /\ ra = Embeds(w, na, field.type, p) /\ rb = Embeds(w, nb, field.type, p)
        /\ Builtin(field.type) => ra = na /\ rb = nb
    BY <1>0, <1>2, LookIs
  <2> HIDE DEF ra, rb, stack, rest, field
  <2>3. Ready(w, na) /\ na.registered = a.registered /\ na.deps = a.deps /\ na.stack = rest
    BY <2>1, ReadyWithStack
  <2>4. Ready(w, nb) /\ nb.registered = b.registered /\ nb.deps = b.deps /\ nb.stack = rest
    BY <2>1, ReadyWithStack
  <2> HIDE DEF na, nb
  <2>5. CASE Builtin(field.type)
    BY <2>2, <2>3, <2>4, <2>5 DEF Ahead, Ready, ra, rb
  <2>6. CASE ~Builtin(field.type)
    <3> DEFINE n == Need(p, field.type)
    <3> HIDE DEF n
    <3>1. field.type \in Types
      BY <2>1, FieldFacts
    <3>2. /\ Refused(w, na, field.type, p) => ra.err # "none"
          /\ ~Refused(w, na, field.type, p) => Embedded(w, na, ra, n)
      BY <2>2, <2>3, <2>6, <3>1, EmbedsIs DEF n
    <3>3. ~Refused(w, nb, field.type, p) => Embedded(w, nb, rb, n)
      BY <2>2, <2>4, <2>6, <3>1, EmbedsIs DEF n
    <3>4. Refused(w, nb, field.type, p) => Refused(w, na, field.type, p)
      BY <2>3, <2>4 DEF Refused
    <3>5. ASSUME Embedded(w, na, ra, n), Embedded(w, nb, rb, n)
          PROVE  Ahead(ra, rb)
      <4>1. /\ DOMAIN ra.registered = DOMAIN a.registered \cup {n}
            /\ ra.deps = Depend(na, n).deps /\ ra.stack = Append(rest, SpecOf(w, n).fields)
        BY <2>3, <3>5 DEF Embedded
      <4>2. /\ DOMAIN rb.registered = DOMAIN b.registered \cup {n} /\ rb.err = "none"
            /\ rb.deps = Depend(nb, n).deps /\ rb.stack = Append(rest, SpecOf(w, n).fields)
        BY <2>4, <3>5 DEF Embedded, Ready
      <4>3. n \in Types /\ Sound(w, na) /\ Sound(w, nb)
        BY <2>3, <2>4, <3>5 DEF Embedded, Ready
      <4>4. Depend(na, n).deps = Depend(nb, n).deps
        BY <2>3, <2>4, <4>3, DependFacts
      <4> QED
        BY <4>1, <4>2, <4>4 DEF Ahead
    <3> QED
      BY <3>2, <3>3, <3>4, <3>5 DEF Ahead, ra, rb
  <2> QED
    BY <2>5, <2>6
<1> QED
  BY <1>1, <1>2

-----------------------------------------------------------------------------
(* The beginning and the end of a call.                                    *)

LEMMA EmptyFacts ==
  /\ Range(<<>>) = {} /\ Pending(<<>>) = {} /\ Len(<<>>) = 0
  /\ <<>> \in Seq(Texts) /\ <<>> \in Seq(Types)
<1>1. Range(<<>>) = {} /\ Pending(<<>>) = {}
  BY DEF Range, Pending
<1> QED
  BY <1>1, EmptySeq

LEMMA TargetContext ==
  ASSUME NEW t \in Targets
  PROVE  t[1] \in Contexts /\ t # Nothing
<1>1. t \in Types /\ t[1] # ""
  BY TargetsAssumption
<1>2. t[1] \in Names
  BY <1>1, PairFacts
<1>3. Nothing[1] = ""
  BY DEF Nothing
<1> QED
  BY <1>1, <1>2, <1>3 DEF Contexts

LEMMA TextNeeds ==
  ASSUME NEW text \in Texts, NEW p \in Contexts
  PROVE  NeededBy(LoadFromString(text, p).fields) = Needs(p, Range(text))
<1> DEFINE fields == LoadFromString(text, p).fields
           Written(t) == IF t = Header THEN StdHeader ELSE t
<1>1. p \in Names /\ p # ""
  BY DEF Contexts
<1>2. /\ DOMAIN fields = DOMAIN text
      /\ \A i \in DOMAIN text :
           /\ Builtin(fields[i].type) <=> Builtin(text[i].type)
           /\ ~Builtin(text[i].type) => Written(fields[i].type) = Need(p, text[i].type)
  BY <1>1, LoadedFields
<1>3. NeededBy(fields) = {Written(f.type) : f \in {g \in Range(fields) : ~Builtin(g.type)}}
  BY DEF NeededBy
<1> HIDE DEF fields, Written
<1>4. NeededBy(fields) = {Written(fields[i].type) : i \in {k \in DOMAIN fields : ~Builtin(fields[k].type)}}
  BY <1>3 DEF Range
<1>5. Needs(p, Range(text)) = {Need(p, text[i].type) : i \in {k \in DOMAIN text : ~Builtin(text[k].type)}}
  BY DEF Needs, Range
<1> QED
  BY <1>2, <1>4, <1>5 DEF fields

\* The fields that get_dependencies begins with name what the file names.
LEMMA HalvesNeeds ==
  ASSUME NEW w \in Machines, NEW t \in Targets, t \in DOMAIN w.files \cup DOMAIN w.services
  PROVE  /\ Joined(Halves(w, t)) \in Texts
         /\ Direct(w, t) = Needs(t[1], Range(Joined(Halves(w, t))))
<1> DEFINE p == t[1]
           F(text) == NeededBy(LoadFromString(text, p).fields)
<1>0. p \in Contexts
  BY TargetContext
<1>1. CASE t \in DOMAIN w.services
  <2>0. w.services[t] \in Texts \X Texts
    BY <1>1, MachinesAssumption
  <2>1. PICK a \in Texts, b \in Texts : w.services[t] = <<a, b>>
    BY <2>0
  <2>2. Halves(w, t) = <<a, b>>
    BY <1>1, <2>1 DEF Halves
  <2>3. Joined(Halves(w, t)) = a \o b
    BY <2>2 DEF Joined
  <2>4. Direct(w, t) = F(a) \cup F(b)
    <3>1. Range(<<a, b>>) = {a, b}
      BY DEF Range
    <3> HIDE DEF F
    <3>2. Direct(w, t) = UNION {F(text) : text \in {a, b}}
      BY <2>2, <3>1 DEF Direct, F
    <3> QED
      BY <3>2
  <2>5. F(a) = Needs(p, Range(a)) /\ F(b) = Needs(p, Range(b))
    BY <1>0, TextNeeds
  <2>6. a \o b \in Texts /\ Range(a \o b) = Range(a) \cup Range(b)
    <3>1. a \in Seq(Fields) /\ b \in Seq(Fields)
      BY DEF Texts
    <3>2. /\ a \o b \in Seq(Fields) /\ Len(a \o b) = Len(a) + Len(b)
          /\ \A i \in 1 .. Len(a) + Len(b) : (a \o b)[i] = IF i <= Len(a) THEN a[i] ELSE b[i - Len(a)]
      BY <3>1, ConcatProperties
    <3>3. /\ Len(a) \in Nat /\ Len(b) \in Nat /\ DOMAIN a = 1 .. Len(a) /\ DOMAIN b = 1 .. Len(b)
          /\ DOMAIN (a \o b) = 1 .. Len(a) + Len(b)
      BY <3>1, <3>2, LenProperties
    <3> DEFINE c == a \o b
    <3> HIDE DEF c
    <3>4. \A i \in DOMAIN c : c[i] \in Range(a) \cup Range(b)
      BY <3>2, <3>3 DEF Range, c
    <3>5. \A i \in DOMAIN a : i \in DOMAIN c /\ c[i] = a[i]
      BY <3>2, <3>3 DEF c
    <3>6. \A i \in DOMAIN b : i + Len(a) \in DOMAIN c /\ c[i + Len(a)] = b[i]
      BY <3>2, <3>3 DEF c
    <3>7. Range(c) = Range(a) \cup Range(b)
      BY <3>4, <3>5, <3>6 DEF Range
    <3> QED
      BY <3>2, <3>7 DEF Texts, c
  <2>7. Needs(p, Range(a \o b)) = Needs(p, Range(a)) \cup Needs(p, Range(b))
    BY <2>6 DEF Needs
  <2> QED
    BY <2>3, <2>4, <2>5, <2>6, <2>7
<1>2. CASE t \notin DOMAIN w.services
  <2> DEFINE a == w.files[t]
  <2>1. Halves(w, t) = <<a>> /\ a \in Texts
    BY <1>2, MachinesAssumption DEF Halves
  <2> HIDE DEF a
  <2>2. Joined(Halves(w, t)) = a
    BY <2>1 DEF Joined
  <2>3. Direct(w, t) = F(a)
    <3>1. Range(<<a>>) = {a}
      BY DEF Range
    <3> HIDE DEF F
    <3>2. Direct(w, t) = UNION {F(text) : text \in {a}}
      BY <2>1, <3>1 DEF Direct, F
    <3> QED
      BY <3>2
  <2>4. F(a) = Needs(p, Range(a))
    BY <1>0, <2>1, TextNeeds
  <2> QED
    BY <2>1, <2>2, <2>3, <2>4
<1> QED
  BY <1>1, <1>2

AtRest(w, s) == Sound(w, s) /\ s.err = "none" /\ s.stack = <<>> /\ s.deps = <<>>

\* Whether get_file_dependencies begins to look at fields.
Begins(w, s, t) ==
  /\ \A h \in DOMAIN Halves(w, t) : Legal(Halves(w, t)[h])
  /\ s.init \/ "std_msgs" \in w.packages
  /\ ~(0 >= MaxDepth)

LEMMA AskedIs ==
  ASSUME NEW w \in Machines, NEW t, Joined(Halves(w, t)) \in Texts, NEW s, AtRest(w, s)
  PROVE  LET r == Asked(w, s, t)
         IN /\ Sound(w, r)
            /\ ~Begins(w, s, t) => r.err # "none"
            /\ Begins(w, s, t) =>
                 /\ Ready(w, r) /\ r.deps = <<>> /\ r.stack = Append(<<>>, Joined(Halves(w, t)))
                 /\ DOMAIN s.registered \subseteq DOMAIN r.registered
                 /\ DOMAIN r.registered \subseteq DOMAIN s.registered \cup Basic
<1> DEFINE text == Joined(Halves(w, t))
           legal == \A h \in DOMAIN Halves(w, t) : Legal(Halves(w, t)[h])
           q == Initialised(w, s)
           r == Asked(w, s, t)
<1>0. Sound(w, s) /\ s.err = "none" /\ s.stack = <<>> /\ s.deps = <<>>
  BY DEF AtRest
<1>1. CASE ~legal
  <2>1. r = Fail(s, "MsgSpecException")
    BY <1>1 DEF Asked
  <2>2. ~Begins(w, s, t)
    BY <1>1 DEF Begins
  <2> HIDE DEF r
  <2>3. Sound(w, r) /\ r.err = "MsgSpecException"
    BY <1>0, <2>1, FailFacts
  <2> QED
    BY <2>2, <2>3 DEF r
<1>2. CASE legal
  <2>1. r = IF q.err # "none" THEN q ELSE Into(q, text)
    BY <1>2 DEF Asked, Begin
  <2> HIDE DEF q
  <2>2. /\ Sound(w, q) /\ (q.err = "none" => q.init)
        /\ q.err = "none" <=> s.init \/ "std_msgs" \in w.packages
        /\ q.stack = <<>> /\ q.deps = <<>>
        /\ DOMAIN s.registered \subseteq DOMAIN q.registered
        /\ DOMAIN q.registered \subseteq DOMAIN s.registered \cup Basic
    BY <1>0, InitialisedSound DEF q
  <2>3. Begins(w, s, t) <=> q.err = "none" /\ ~(0 >= MaxDepth)
    BY <1>2, <2>2 DEF Begins
  <2> HIDE DEF r, text
  <2>4. CASE q.err # "none"
    BY <2>1, <2>2, <2>3, <2>4 DEF r
  <2>5. CASE q.err = "none"
    <3>1. Ready(w, q) /\ r = Into(q, text) /\ Len(q.stack) = 0
      BY <2>1, <2>2, <2>5, EmptyFacts DEF Ready
    <3>2. /\ Sound(w, r) /\ r.registered = q.registered /\ r.deps = q.deps
          /\ 0 >= MaxDepth => r.err # "none"
          /\ ~(0 >= MaxDepth) => Ready(w, r) /\ r.stack = Append(q.stack, text)
      BY <3>1, ReadyInto DEF text
    <3> QED
      BY <2>2, <2>3, <2>5, <3>2 DEF r, text
  <2> QED
    BY <2>4, <2>5
<1> QED
  BY <1>1, <1>2

LEMMA AskedCovers ==
  ASSUME NEW w \in Machines, NEW t \in Targets, t \in DOMAIN w.files \cup DOMAIN w.services,
         NEW s, AtRest(w, s)
  PROVE  InCall(w, Asked(w, s, t), t)
<1> DEFINE r == Asked(w, s, t)
           text == Joined(Halves(w, t))
<1>1. text \in Texts /\ Direct(w, t) = Needs(t[1], Range(text))
  BY HalvesNeeds
<1> HIDE DEF r, text
<1>2. /\ Sound(w, r)
      /\ ~Begins(w, s, t) => r.err # "none"
      /\ Begins(w, s, t) => Ready(w, r) /\ r.deps = <<>> /\ r.stack = Append(<<>>, text)
  BY <1>1, AskedIs DEF r, text
<1>3. ASSUME Ready(w, r), r.deps = <<>>, r.stack = Append(<<>>, text)
      PROVE  Covered(w, r, t)
  <2>1. Pending(r.stack) = Range(text)
    BY <1>1, <1>3, EmptyFacts, PushPending
  <2>2. Covers(w, t, <<>>, Direct(w, t))
    BY EmptyFacts DEF Covers
  <2> QED
    BY <1>1, <1>3, <2>1, <2>2, EmptyFacts DEF Covered
<1> QED
  BY <1>2, <1>3 DEF InCall, r

LEMMA AskedAhead ==
  ASSUME NEW w \in Machines, NEW t \in Targets, t \in DOMAIN w.files \cup DOMAIN w.services,
         NEW s, AtRest(w, s)
  PROVE  /\ AtRest(w, Fresh)
         /\ Ahead(Asked(w, Fresh, t), Asked(w, s, t))
<1> DEFINE a == Asked(w, Fresh, t)
           b == Asked(w, s, t)
           text == Joined(Halves(w, t))
<1>1. AtRest(w, Fresh) /\ DOMAIN Fresh.registered = {} /\ ~Fresh.init
  BY FreshSound DEF AtRest, Fresh
<1>2. text \in Texts
  BY HalvesNeeds
<1> HIDE DEF a, b, text
<1>3. /\ ~Begins(w, Fresh, t) => a.err # "none"
      /\ Begins(w, Fresh, t) =>
           /\ a.deps = <<>> /\ a.stack = Append(<<>>, text)
           /\ DOMAIN a.registered \subseteq Basic
  BY <1>1, <1>2, AskedIs DEF a, text
<1>4. Begins(w, s, t) =>
        /\ Ready(w, b) /\ b.deps = <<>> /\ b.stack = Append(<<>>, text)
  BY <1>2, AskedIs DEF b, text
<1>5. Begins(w, Fresh, t) => Begins(w, s, t)
  BY <1>1 DEF Begins
<1>6. Ready(w, b) => Basic \subseteq DOMAIN b.registered /\ b.err = "none"
  BY DEF Ready, Sound
<1> QED
  BY <1>1, <1>3, <1>4, <1>5, <1>6 DEF Ahead, a, b

\* A call that has come to its end has found what DepsExact asks for.
LEMMA EndExact ==
  ASSUME NEW w, NEW t, NEW s, InCall(w, s, t), ~Busy(s), s.err = "none"
  PROVE  /\ Covers(w, t, s.deps, {})
         /\ \A i \in DOMAIN s.deps :
              /\ ~Builtin(s.deps[i]) /\ s.deps[i] \in DOMAIN s.registered
              /\ s.registered[s.deps[i]] = SpecOf(w, s.deps[i])
<1>1. Covered(w, s, t) /\ s.stack = <<>>
  BY DEF InCall, Busy
<1>2. Needs(t[1], Pending(s.stack)) = {}
  BY <1>1, EmptyFacts DEF Needs
<1>3. /\ Covers(w, t, s.deps, {}) /\ Range(s.deps) \subseteq DOMAIN s.registered
      /\ True(w, s.registered)
  BY <1>1, <1>2 DEF Covered, Ready, Sound
<1>4. \A d \in Range(s.deps) : ~Builtin(d)
  BY <1>3 DEF Covers
<1>5. \A d \in Range(s.deps) : d \in DOMAIN s.registered /\ s.registered[d] = SpecOf(w, d)
  BY <1>3, <1>4 DEF True
<1> QED
  BY <1>3, <1>4, <1>5 DEF Range

LEMMA NoError ==
  ASSUME NEW s
  PROVE  Error(s) = "none" <=> s.err = "none"
  BY DEF Error

LEMMA Gives ==
  ASSUME NEW w, NEW t, NEW s
  PROVE  LET g == Gendeps(w, s, t)
         IN /\ g.op = "gendeps" /\ g.type = t
            /\ g.err = "none" => s.err = "none" /\ g.deps = s.deps
  BY NoError DEF Gendeps, Returned

LEMMA SameAnswer ==
  ASSUME NEW w, NEW t, NEW a, NEW b, InCall(w, a, t), InCall(w, b, t), Ahead(a, b),
         ~Busy(b), a.err = "none"
  PROVE  Gendeps(w, a, t) = Gendeps(w, b, t)
<1>1. b.err = "none" /\ a.stack = b.stack /\ a.deps = b.deps
  BY DEF Ahead
<1>2. ~Busy(a)
  BY <1>1 DEF Busy
<1>3. \A i \in DOMAIN b.deps : a.registered[b.deps[i]] = b.registered[b.deps[i]]
  BY <1>1, <1>2, EndExact
<1>4. DepTexts(a, b.deps) = DepTexts(b, b.deps)
  BY <1>3 DEF DepTexts
<1>5. FullText(a, Halves(w, t)) = FullText(b, Halves(w, t))
  BY <1>1, <1>4 DEF FullText
<1>6. Returned("gendeps", t, a) = Returned("gendeps", t, b)
  BY <1>1 DEF Returned, Error
<1> QED
  BY <1>1, <1>5, <1>6 DEF Gendeps

-----------------------------------------------------------------------------
(* Calls that only load.                                                   *)

LEMMA MarkedSound ==
  ASSUME NEW w, NEW s, Sound(w, s), NEW x
  PROVE  LET r == [s EXCEPT !.loaded = x]
         IN Sound(w, r) /\ r.stack = s.stack /\ r.deps = s.deps /\ r.err = s.err
<1> DEFINE r == [s EXCEPT !.loaded = x]
<1>1. r = [registered |-> s.registered, loaded |-> x, init |-> s.init,
           stack |-> s.stack, deps |-> s.deps, err |-> s.err]
  BY DEF Sound, IsGlobals
<1> HIDE DEF r
<1>2. /\ r.registered = s.registered /\ r.init = s.init /\ r.stack = s.stack
      /\ r.deps = s.deps /\ r.err = s.err /\ IsGlobals(r)
  BY <1>1 DEF IsGlobals
<1> QED
  BY <1>2 DEF Sound, r

LEMMA IdleRests ==
  ASSUME NEW w, NEW s, Sound(w, s)
  PROVE  AtRest(w, Idle(s))
<1> DEFINE r == Idle(s)
<1>1. r = [registered |-> s.registered, loaded |-> s.loaded, init |-> s.init,
           stack |-> <<>>, deps |-> <<>>, err |-> "none"]
  <2>1. ASSUME NEW a, NEW b, NEW c, NEW d, NEW e, NEW f,
               s = [registered |-> a, loaded |-> b, init |-> c, stack |-> d, deps |-> e, err |-> f]
        PROVE  Idle(s) = [registered |-> a, loaded |-> b, init |-> c,
                          stack |-> <<>>, deps |-> <<>>, err |-> "none"]
    <3> DEFINE u == [s EXCEPT !.stack = <<>>]
               v == [u EXCEPT !.deps = <<>>]
    <3>1. u = [registered |-> a, loaded |-> b, init |-> c, stack |-> <<>>, deps |-> e, err |-> f]
      BY <2>1
    <3> HIDE DEF u
    <3>2. v = [registered |-> a, loaded |-> b, init |-> c, stack |-> <<>>, deps |-> <<>>, err |-> f]
      BY <3>1
    <3>3. Idle(s) = [v EXCEPT !.err = "none"]
      BY DEF Idle, u
    <3> HIDE DEF v
    <3> QED
      BY <3>2, <3>3
  <2>2. IsGlobals(s)
    BY DEF Sound
  <2> QED
    BY <2>1, <2>2 DEF IsGlobals
<1> HIDE DEF r
<1>2. /\ r.registered = s.registered /\ r.init = s.init /\ r.stack = <<>>
      /\ r.deps = <<>> /\ r.err = "none" /\ IsGlobals(r)
  BY <1>1 DEF IsGlobals
<1> QED
  BY <1>2, EmptyFacts DEF AtRest, Sound, r

LEMMA LoadSound ==
  ASSUME NEW w \in Machines, NEW s, AtRest(w, s), NEW p
  PROVE  Sound(w, LoadPackage(w, s, p))
<1> DEFINE q == Initialised(w, s)
           r == LoadPackage(w, s, p)
           x == q.loaded \cup {p}
           marked == [q EXCEPT !.loaded = x]
           table == PkgMsgSpecs(w, p)
<1>1. Sound(w, q)
  BY InitialisedSound DEF AtRest
<1>2. r = IF q.err # "none" \/ p \in q.loaded THEN q
          ELSE IF p \notin w.packages THEN Fail(marked, "NoSuchPackage")
          ELSE Register(marked, table)
  BY DEF LoadPackage
<1>3. True(w, table)
  BY SpecsTrue DEF PkgMsgSpecs
<1> HIDE DEF q, r, x, table
<1>4. Sound(w, marked)
  BY <1>1, MarkedSound
<1> HIDE DEF marked
<1>5. Sound(w, Fail(marked, "NoSuchPackage"))
  BY <1>4, FailFacts
<1>6. Sound(w, Register(marked, table))
  BY <1>3, <1>4, Registers
<1> QED
  BY <1>1, <1>2, <1>5, <1>6 DEF r

LEMMA LoadDependenciesSound ==
  ASSUME NEW w \in Machines, NEW s, AtRest(w, s), NEW p, NEW recursive
  PROVE  Sound(w, LoadPackageDependencies(w, s, p, recursive))
<1> DEFINE q == Initialised(w, s)
           r == LoadPackageDependencies(w, s, p, recursive)
           depends == IF recursive THEN w.depends ELSE w.direct
           new == SelectSeq(depends[p], LAMBDA d : d \notin q.loaded \cup {p})
           lost == {i \in DOMAIN new : new[i] \notin w.packages}
           Upto(n) == [q EXCEPT !.loaded = q.loaded \cup {new[i] : i \in 1 .. n}]
           table == SpecsOf(w, Range(new))
<1>1. Sound(w, q)
  BY InitialisedSound DEF AtRest
<1>2. r = IF q.err # "none" THEN q
          ELSE IF p \notin DOMAIN depends THEN Fail(q, "NoSuchPackage")
          ELSE IF lost # {} THEN Fail(Upto(Min(lost)), "NoSuchPackage")
          ELSE Register(Upto(Len(new)), table)
  BY DEF LoadPackageDependencies
<1>3. True(w, table)
  BY SpecsTrue
<1> HIDE DEF q, r, depends, new, lost, table
<1>4. ASSUME NEW n PROVE Sound(w, Upto(n))
  <2> DEFINE x == q.loaded \cup {new[i] : i \in 1 .. n}
  <2> HIDE DEF x
  <2>1. Sound(w, [q EXCEPT !.loaded = x])
    BY <1>1, MarkedSound
  <2> QED
    BY <2>1 DEF x
<1> HIDE DEF Upto
<1>5. Sound(w, Fail(q, "NoSuchPackage")) /\ Sound(w, Fail(Upto(Min(lost)), "NoSuchPackage"))
  BY <1>1, <1>4, FailFacts
<1>6. Sound(w, Register(Upto(Len(new)), table))
  BY <1>3, <1>4, Registers
<1> QED
  BY <1>1, <1>2, <1>5, <1>6 DEF r

LEMMA ReinitSound ==
  ASSUME NEW w \in Machines, NEW s, AtRest(w, s)
  PROVE  Sound(w, Reinit(w, s))
<1> DEFINE q == [s EXCEPT !.registered = <<>>, !.loaded = {}, !.init = FALSE]
<1>1. q = [registered |-> <<>>, loaded |-> {}, init |-> FALSE,
           stack |-> s.stack, deps |-> s.deps, err |-> s.err]
  <2>1. ASSUME NEW a, NEW b, NEW c, NEW d, NEW e, NEW f,
               s = [registered |-> a, loaded |-> b, init |-> c, stack |-> d, deps |-> e, err |-> f]
        PROVE  q = [registered |-> <<>>, loaded |-> {}, init |-> FALSE, stack |-> d, deps |-> e, err |-> f]
    <3> DEFINE u == [s EXCEPT !.registered = <<>>]
               v == [u EXCEPT !.loaded = {}]
    <3>1. u = [registered |-> <<>>, loaded |-> b, init |-> c, stack |-> d, deps |-> e, err |-> f]
      BY <2>1
    <3> HIDE DEF u
    <3>2. v = [registered |-> <<>>, loaded |-> {}, init |-> c, stack |-> d, deps |-> e, err |-> f]
      BY <3>1
    <3>3. q = [v EXCEPT !.init = FALSE]
      BY DEF u
    <3> HIDE DEF v, q
    <3> QED
      BY <3>2, <3>3
  <2>2. IsGlobals(s)
    BY DEF AtRest, Sound
  <2> HIDE DEF q
  <2> QED
    BY <2>1, <2>2 DEF IsGlobals
<1>2. Reinit(w, s) = Initialised(w, q)
  BY DEF Reinit
<1> HIDE DEF q
<1>3. /\ q.registered = <<>> /\ q.init = FALSE /\ q.stack = s.stack
      /\ q.deps = s.deps /\ q.err = s.err /\ IsGlobals(q)
  BY <1>1 DEF IsGlobals
<1>4. True(w, <<>>)
  BY DEF True
<1>5. Sound(w, q) /\ q.err = "none"
  BY <1>3, <1>4 DEF AtRest, Sound
<1> QED
  BY <1>2, <1>5, InitialisedSound

-----------------------------------------------------------------------------
(* The process.                                                            *)

\* Between calls the registry has nothing but what the files say; in a call the
\* types found and those still to be looked at are what the message embeds, and
\* a process that began with this call is no further than this one.
Inv ==
  /\ machine \in Machines
  /\ asked # Nothing => asked \in Targets /\ asked \in DOMAIN machine.files \cup DOMAIN machine.services
  /\ ~upset =>
       /\ asked = Nothing => AtRest(machine, globals)
       /\ asked # Nothing =>
            /\ InCall(machine, globals, asked) /\ InCall(machine, twin, asked)
            /\ Ahead(twin, globals)
            /\ answer.op # "gendeps"
       /\ DepsExact /\ HistoryFree

LEMMA InitInv == Init => Inv
<1> SUFFICES ASSUME Init PROVE Inv
  OBVIOUS
<1>1. /\ machine \in Machines /\ globals = Fresh /\ asked = Nothing
      /\ answer = Returned("none", Nothing, Fresh)
  BY DEF Init
<1>2. answer.op = "none"
  BY <1>1 DEF Returned
<1>3. AtRest(machine, globals)
  BY <1>1, FreshSound DEF AtRest, Fresh
<1>4. DepsExact /\ HistoryFree
  BY <1>2 DEF DepsExact, HistoryFree, Answered
<1> QED
  BY <1>1, <1>3, <1>4 DEF Inv

\* A call that returns something else than dependencies.
LEMMA CallInv ==
  ASSUME Inv, NEW s, NEW a, Call(s, a), a.op # "gendeps",
         upset' \/ (~upset /\ Sound(machine, s))
  PROVE  Inv'
<1>1. /\ asked = Nothing /\ asked' = asked /\ machine' = machine
      /\ globals' = Idle(s) /\ answer' = a
  BY DEF Call
<1>2. ~upset' => AtRest(machine', globals')
  BY <1>1, IdleRests
<1>3. DepsExact' /\ HistoryFree'
  BY <1>1 DEF DepsExact, HistoryFree, Answered
<1> QED
  BY <1>1, <1>2, <1>3 DEF Inv

LEMMA OtherOps ==
  ASSUME NEW t, NEW s
  PROVE  /\ Returned("load", t, s).op = "load" /\ Returned("play", t, s).op = "play"
         /\ Returned("none", t, s).op = "none"
  BY DEF Returned

LEMMA LoadInv == Inv /\ (Load \/ LoadDependencies) => Inv'
<1> SUFFICES ASSUME Inv, Load \/ LoadDependencies PROVE Inv'
  OBVIOUS
<1>1. PICK s, p : Call(s, Returned("load", p, s)) /\ upset' = upset
                  /\ (AtRest(machine, globals) => Sound(machine, s))
  <2>0. machine \in Machines
    BY DEF Inv
  <2>1. CASE Load
    <3>1. PICK p \in Loadable :
            LET s == LoadPackage(machine, globals, p)
            IN Call(s, Returned("load", <<p, "">>, s)) /\ UNCHANGED upset
      BY <2>1 DEF Load
    <3>2. AtRest(machine, globals) => Sound(machine, LoadPackage(machine, globals, p))
      BY <2>0, LoadSound
    <3> QED
      BY <3>1, <3>2
  <2>2. CASE LoadDependencies
    <3>1. PICK p \in Loadable, recursive \in BOOLEAN :
            LET s == LoadPackageDependencies(machine, globals, p, recursive)
            IN Call(s, Returned("load", <<p, "">>, s)) /\ UNCHANGED upset
      BY <2>2 DEF LoadDependencies
    <3>2. AtRest(machine, globals)
            => Sound(machine, LoadPackageDependencies(machine, globals, p, recursive))
      BY <2>0, LoadDependenciesSound
    <3> QED
      BY <3>1, <3>2
  <2> QED
    BY <2>1, <2>2
<1>2. asked = Nothing /\ Returned("load", p, s).op # "gendeps"
  BY <1>1, OtherOps DEF Call
<1>3. upset \/ Sound(machine, s)
  BY <1>1, <1>2 DEF Inv
<1> QED
  BY <1>1, <1>2, <1>3, CallInv

LEMMA AskInv == Inv /\ Ask => Inv'
<1> SUFFICES ASSUME Inv, Ask PROVE Inv'
  OBVIOUS
<1>1. PICK t \in Targets :
        /\ t \in DOMAIN machine.files \cup DOMAIN machine.services
        /\ asked' = t
        /\ globals' = Asked(machine, globals, t)
        /\ twin' = Asked(machine, Fresh, t)
  BY DEF Ask
<1>2. /\ asked = Nothing /\ machine \in Machines /\ machine' = machine /\ upset' = upset
      /\ answer' = Returned("none", Nothing, Fresh) /\ answer'.op = "none"
  BY OtherOps DEF Ask, Inv
<1>3. asked' # Nothing
  BY <1>1, TargetContext
<1>4. ASSUME ~upset
      PROVE  /\ InCall(machine, globals', t) /\ InCall(machine, twin', t)
             /\ Ahead(twin', globals')
  <2>1. AtRest(machine, globals)
    BY <1>2, <1>4 DEF Inv
  <2>2. AtRest(machine, Fresh) /\ Ahead(twin', globals')
    BY <1>1, <1>2, <2>1, AskedAhead
  <2> QED
    BY <1>1, <1>2, <2>1, <2>2, AskedCovers
<1>5. DepsExact' /\ HistoryFree'
  BY <1>2 DEF DepsExact, HistoryFree, Answered
<1> QED
  BY <1>1, <1>2, <1>3, <1>4, <1>5 DEF Inv

LEMMA LooksInv == Inv /\ AddMsgsDepends => Inv'
<1> SUFFICES ASSUME Inv, AddMsgsDepends PROVE Inv'
  OBVIOUS
<1> DEFINE w == machine
           p == asked[1]
<1>1. /\ asked # Nothing /\ globals.err = "none" /\ globals.stack # <<>>
      /\ globals' = Look(w, globals, p)
      /\ twin' = IF Busy(twin) THEN Look(w, twin, p) ELSE twin
      /\ machine' = machine /\ asked' = asked /\ answer' = answer /\ upset' = upset
  BY DEF AddMsgsDepends, Busy
<1>2. w \in Machines /\ asked \in Targets /\ p \in Contexts
  BY <1>1, TargetContext DEF Inv
<1>3. ASSUME ~upset
      PROVE  /\ InCall(w, globals', asked) /\ InCall(w, twin', asked)
             /\ Ahead(twin', globals') /\ answer.op # "gendeps"
  <2>1. /\ InCall(w, globals, asked) /\ InCall(w, twin, asked)
        /\ Ahead(twin, globals) /\ answer.op # "gendeps"
    BY <1>1, <1>3 DEF Inv
  <2>2. Covered(w, globals, asked) /\ Ready(w, globals)
    BY <1>1, <2>1 DEF InCall, Covered
  <2>3. InCall(w, globals', asked)
    BY <1>1, <1>2, <2>2, LookCovers
  <2>4. CASE twin.err # "none"
    <3>1. twin' = twin
      BY <1>1, <2>4 DEF Busy
    <3> QED
      BY <2>1, <2>3, <2>4, <3>1 DEF Ahead
  <2>5. CASE twin.err = "none"
    <3>1. /\ twin.stack = globals.stack /\ twin.deps = globals.deps
          /\ DOMAIN twin.registered \subseteq DOMAIN globals.registered
      BY <2>1, <2>5 DEF Ahead
    <3>2. twin' = Look(w, twin, p) /\ twin.stack # <<>>
      BY <1>1, <2>5, <3>1 DEF Busy
    <3>3. Covered(w, twin, asked) /\ Ready(w, twin)
      BY <2>1, <2>5 DEF InCall, Covered
    <3>4. InCall(w, twin', asked)
      BY <1>2, <3>2, <3>3, LookCovers
    <3>5. Ahead(twin', globals')
      BY <1>1, <1>2, <2>2, <3>1, <3>2, <3>3, LookAhead
    <3> QED
      BY <2>1, <2>3, <3>4, <3>5
  <2> QED
    BY <2>4, <2>5
<1>4. ~upset => DepsExact' /\ HistoryFree'
  BY <1>1, <1>3 DEF DepsExact, HistoryFree, Answered
<1> QED
  BY <1>1, <1>2, <1>3, <1>4 DEF Inv

LEMMA TellInv == Inv /\ Tell => Inv'
<1> SUFFICES ASSUME Inv, Tell PROVE Inv'
  OBVIOUS
<1> DEFINE w == machine
           t == asked
           s == globals
<1>1. /\ asked # Nothing /\ ~Busy(s)
      /\ answer' = Gendeps(w, s, t) /\ globals' = Idle(s) /\ asked' = Nothing
      /\ machine' = machine /\ twin' = twin /\ upset' = upset
  BY DEF Tell
<1>2. machine \in Machines
  BY DEF Inv
<1>3. ASSUME ~upset
      PROVE  AtRest(w, globals') /\ DepsExact' /\ HistoryFree'
  <2>1. InCall(w, s, t) /\ InCall(w, twin, t) /\ Ahead(twin, s)
    BY <1>1, <1>3 DEF Inv
  <2>2. AtRest(w, globals')
    BY <1>1, <2>1, IdleRests DEF InCall
  <2>3. /\ answer'.op = "gendeps" /\ answer'.type = t
        /\ answer'.err = "none" => s.err = "none" /\ answer'.deps = s.deps
    BY <1>1, Gives
  <2>4. DepsExact'
    <3> SUFFICES ASSUME Answered("gendeps")'
                 PROVE  LET d == answer'.deps
                            direct == Direct(w, t)
                        IN /\ direct \subseteq Range(d)
                           /\ \A i \in DOMAIN d :
                                /\ NeededBy(TrueFields(w, d[i])) \subseteq Range(d)
                                /\ \A j \in 1 .. i - 1 : d[i] # d[j]
                                /\ \/ d[i] \in direct
                                   \/ \E j \in 1 .. i - 1 : d[i] \in NeededBy(TrueFields(w, d[j]))
      BY <1>1, <2>3 DEF DepsExact
    <3>1. s.err = "none"
      BY <2>3 DEF Answered
    <3>2. Covers(w, t, s.deps, {}) /\ answer'.deps = s.deps
      BY <1>1, <2>1, <2>3, <3>1, EndExact DEF Answered
    <3> HIDE DEF s
    <3>3. /\ Direct(w, t) \subseteq Range(s.deps)
          /\ \A d \in Range(s.deps) : NeededBy(TrueFields(w, d)) \subseteq Range(s.deps)
          /\ \A i \in DOMAIN s.deps :
               /\ \A j \in 1 .. i - 1 : s.deps[i] # s.deps[j]
               /\ \/ s.deps[i] \in Direct(w, t)
                  \/ \E j \in 1 .. i - 1 : s.deps[i] \in NeededBy(TrueFields(w, s.deps[j]))
      BY <3>2 DEF Covers
    <3>4. \A i \in DOMAIN s.deps : s.deps[i] \in Range(s.deps)
      BY DEF Range
    <3> QED
      BY <3>2, <3>3, <3>4
  <2>5. HistoryFree'
    <3>1. ASSUME Gendeps(w, twin, t).err = "none" PROVE Gendeps(w, twin, t) = Gendeps(w, s, t)
      <4>1. twin.err = "none"
        BY <3>1, Gives
      <4> QED
        BY <1>1, <2>1, <4>1, SameAnswer
    <3> QED
      BY <1>1, <2>3, <3>1 DEF HistoryFree
  <2> QED
    BY <2>2, <2>4, <2>5
<1> QED
  BY <1>1, <1>2, <1>3 DEF Inv

LEMMA PlayInv ==
  ASSUME Inv, NEW t
  PROVE  /\ Cleared(t) => Inv'
         /\ \A s : Raised(t, s) => Inv'
<1>1. ASSUME Cleared(t) PROVE Inv'
  <2> DEFINE s == Reinit(machine, globals)
  <2>1. Call(s, Returned("play", t, Fresh)) /\ upset' = upset
    BY <1>1 DEF Cleared
  <2>2. asked = Nothing /\ machine \in Machines
    BY <2>1 DEF Call, Inv
  <2>3. ~upset => Sound(machine, s)
    BY <2>2, ReinitSound DEF Inv
  <2> HIDE DEF s
  <2>4. Returned("play", t, Fresh).op # "gendeps"
    BY OtherOps
  <2> QED
    BY <2>1, <2>3, <2>4, CallInv
<1>2. ASSUME NEW s, Raised(t, s) PROVE Inv'
  <2>1. Call(s, Returned("play", t, s)) /\ upset'
    BY <1>2 DEF Raised
  <2>2. Returned("play", t, s).op # "gendeps"
    BY OtherOps
  <2> QED
    BY <2>1, <2>2, CallInv
<1> QED
  BY <1>1, <1>2

LEMMA RestartInv == Inv /\ Restart => Inv'
<1> SUFFICES ASSUME Inv, Restart PROVE Inv'
  OBVIOUS
<1>1. /\ machine' \in Machines /\ globals' = Fresh /\ asked' = Nothing
      /\ answer' = Returned("none", Nothing, Fresh)
  BY DEF Restart
<1>2. answer'.op = "none"
  BY <1>1, OtherOps
<1>3. AtRest(machine', globals')
  BY <1>1, FreshSound DEF AtRest, Fresh
<1>4. DepsExact' /\ HistoryFree'
  BY <1>2 DEF DepsExact, HistoryFree, Answered
<1> QED
  BY <1>1, <1>3, <1>4 DEF Inv

LEMMA StutterInv == Inv /\ UNCHANGED vars => Inv'
  BY DEF vars, Inv, DepsExact, HistoryFree, Answered

THEOREM InvHolds == Spec => []Inv
<1>1. Init => Inv
  BY InitInv
<1>2. Inv /\ [Next]_vars => Inv'
  <2> SUFFICES ASSUME Inv, [Next]_vars PROVE Inv'
    OBVIOUS
  <2>1. CASE Load \/ LoadDependencies
    BY <2>1, LoadInv
  <2>2. CASE Ask
    BY <2>2, AskInv
  <2>3. CASE AddMsgsDepends
    BY <2>3, LooksInv
  <2>4. CASE Tell
    BY <2>4, TellInv
  <2>5. ASSUME NEW t, Cleared(t) PROVE Inv'
    BY <2>5, PlayInv
  <2>6. ASSUME NEW t, NEW s, Raised(t, s) PROVE Inv'
    BY <2>6, PlayInv
  <2>7. CASE Restart
    BY <2>7, RestartInv
  <2>8. CASE UNCHANGED vars
    BY <2>8, StutterInv
  <2> QED
    BY <2>1, <2>2, <2>3, <2>4, <2>5, <2>6, <2>7, <2>8 DEF Next
<1> QED
  BY <1>1, <1>2, PTL DEF Spec

\* get_dependencies reports exactly the types that a message or service embeds,
\* each once and after one that embeds it, whatever the process did before:
\* gentools.py:60 marks a type before it looks into it, and looks into it even
\* when it has been registered by an earlier call.
THEOREM DependenciesExact == Spec => []DepsExact
<1>1. Inv => DepsExact \/ upset
  BY DEF Inv
<1>2. upset => DepsExact
  BY DEF DepsExact
<1> QED
  BY <1>1, <1>2, InvHolds, PTL

\* What has been loaded before changes no answer that a fresh process gives:
\* the two look at the same fields, and the registry of the older one has all
\* that the other one's has, with the same specifications.
THEOREM HistoryDoesNotMatter == Spec => []HistoryFree
<1>1. Inv => HistoryFree \/ upset
  BY DEF Inv
<1>2. upset => HistoryFree
  BY DEF HistoryFree
<1> QED
  BY <1>1, <1>2, InvHolds, PTL

\* What REGISTERED_TYPES holds for a type of the files, or for Header, is what
\* its file says, between calls and in them, until generate_dynamic raises.
RegistryTrue ==
  ~upset => \A t \in DOMAIN globals.registered :
              Builtin(t) \/ (Known(machine, t) /\ globals.registered[t] = SpecOf(machine, t))

THEOREM RegistryIsTrue == Spec => []RegistryTrue
<1>1. Inv => RegistryTrue
  BY DEF Inv, AtRest, InCall, Sound, True, RegistryTrue
<1> QED
  BY <1>1, InvHolds, PTL
=============================================================================
