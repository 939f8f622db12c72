---------------------------- MODULE RospackProofs ----------------------------
(***************************************************************************)
(* Proofs about RospackCache and PackageLookup: whatever the processes,    *)
(* their environments and the packages that come and go, the cache file is *)
(* never torn and look-ups are honest; and about RospackCrawl: whatever    *)
(* the directories, a crawl finds what is there.                           *)
(***************************************************************************)
EXTENDS PackageLookup, RospackCrawl, TLAPS, SequenceTheorems

File == [exists : {TRUE}, header : Seq(Path), paths : Seq(Path), young : BOOLEAN,
         there : SUBSET Path]

Types ==
  /\ tree \subseteq Path
  /\ cache \in File \/ cache = NoFile
  /\ DOMAIN tmp = Process /\ DOMAIN pkgs = Process /\ DOMAIN from = Process
  /\ DOMAIN answer = Process /\ DOMAIN wanted = Process
  /\ pc \in [Process -> {"start", "open", "ready", "crawl", "create", "write",
                         "rename", "get_pkg", "answered"}]
  /\ crawled \in [Process -> BOOLEAN]
  /\ rest \in [Process -> Seq(Path)]
  /\ steady \in [Process -> SUBSET Path]
  /\ seen \in [Process -> SUBSET Path]

\* What was there all the time is there, and what is there has been seen.
Witnessed(p) == steady[p] \subseteq tree /\ tree \subseteq seen[p]

\* Before a process has crawled or loaded anything, it knows no package.
Early(p) ==
  /\ pc[p] \in {"start", "open"} => pkgs[p] = <<>>
  /\ pc[p] = "open" => rest[p] = Visible[p]

\* No name is there twice.
OneOfEachName(ps) ==
  \A i, j \in DOMAIN ps : NameOf[ps[i]] = NameOf[ps[j]] => i = j

\* How many directories of its environment p has crawled.
Done(p) == Len(Visible[p]) - Len(rest[p])

\* In a crawl, the packages are those of the directories crawled so far, and
\* the other directories come in their order.
Crawling(p) ==
  pc[p] = "crawl" =>
    /\ pkgs[p] \in Seq(Path)
    /\ Done(p) \in Nat
    /\ \A i \in 1 .. Len(rest[p]) : rest[p][i] = Visible[p][Done(p) + i]
    /\ ToSet(pkgs[p]) \subseteq seen[p]
    /\ \A x \in ToSet(pkgs[p]) : \E j \in 1 .. Done(p) : x = Visible[p][j]
    /\ \A i \in 1 .. Done(p) :
         Visible[p][i] \in steady[p] =>
           \E j \in 1 .. i : /\ NameOf[Visible[p][j]] = NameOf[Visible[p][i]]
                             /\ Visible[p][j] \in ToSet(pkgs[p])
    /\ OneOfEachName(pkgs[p])

\* After a crawl nothing is missing that was there all the time.
Crawled(p) ==
  /\ pc[p] \in {"create", "write", "rename"} => crawled[p]
  /\ crawled[p] =>
       /\ pc[p] \notin {"start", "open", "crawl"}
       /\ pkgs[p] \in Seq(Path)
       /\ ToSet(pkgs[p]) \subseteq seen[p]
       /\ Whole(pkgs[p], Visible[p], steady[p])

\* What has been written and what is still to be written, one after the other,
\* are the whole list.
Writing(p) ==
  pc[p] \in {"write", "rename"} =>
    /\ tmp[p] \in File
    /\ tmp[p].header = Visible[p]
    /\ Len(pkgs[p]) = Len(tmp[p].paths) + Len(rest[p])
    /\ \A i \in 1 .. Len(tmp[p].paths) : tmp[p].paths[i] = pkgs[p][i]
    /\ \A i \in 1 .. Len(rest[p]) : rest[p][i] = pkgs[p][Len(tmp[p].paths) + i]
    /\ Whole(pkgs[p], Visible[p], tmp[p].there)
    /\ pc[p] = "rename" => rest[p] = <<>>

\* The part of AnswerHonest that is about p, and that an answer is the last.
Honest(p) ==
  /\ answer[p] # NoAnswer => pc[p] = "answered"
  /\ answer[p].kind = "path" =>
       answer[p].path \in seen[p] /\ NameOf[answer[p].path] \in wanted[p]
  /\ answer[p] = NotFound =>
       \A x \in steady[p] \cap ToSet(Visible[p]) : NameOf[x] \notin wanted[p]

Knows(p) ==
  /\ Witnessed(p)
  /\ Early(p)
  /\ Crawling(p)
  /\ Crawled(p)
  /\ Writing(p)
  /\ Honest(p)

IInv ==
  /\ Types
  /\ \A p \in Process : Knows(p)
  /\ CacheWhole

-----------------------------------------------------------------------------
(* Sequences and what they cover.                                          *)

\* The elements of the empty sequence, of Append and of Head and Tail.
LEMMA ElementsOf ==
  /\ ToSet(<<>>) = {}
  /\ \A S : \A s \in Seq(S) : \A x \in S :
       Append(s, x) \in Seq(S) /\ ToSet(Append(s, x)) = ToSet(s) \cup {x}
  /\ \A S : \A s \in Seq(S) :
       s # <<>> => /\ Head(s) \in S /\ Tail(s) \in Seq(S) /\ Len(Tail(s)) = Len(s) - 1
                   /\ ToSet(s) = {Head(s)} \cup ToSet(Tail(s))
<1>1. ToSet(<<>>) = {}
  BY DEF ToSet
<1>2. ASSUME NEW S, NEW s \in Seq(S), NEW x \in S
      PROVE  Append(s, x) \in Seq(S) /\ ToSet(Append(s, x)) = ToSet(s) \cup {x}
  <2>1. /\ Append(s, x) \in Seq(S)
        /\ Len(Append(s, x)) = Len(s) + 1
        /\ \A i \in 1 .. Len(s) : Append(s, x)[i] = s[i]
        /\ Append(s, x)[Len(s) + 1] = x
    BY AppendProperties
  <2>2. DOMAIN s = 1 .. Len(s) /\ DOMAIN Append(s, x) = 1 .. Len(s) + 1 /\ Len(s) \in Nat
    BY <2>1, LenProperties
  <2>3. ASSUME NEW i \in 1 .. Len(s) + 1 PROVE Append(s, x)[i] \in ToSet(s) \cup {x}
    BY <2>1, <2>2 DEF ToSet
  <2>4. ASSUME NEW y \in ToSet(s) \cup {x} PROVE \E i \in 1 .. Len(s) + 1 : y = Append(s, x)[i]
    <3>1. CASE y = x
      BY <2>1, <2>2, <3>1
    <3>2. CASE y \in ToSet(s)
      <4>1. PICK i \in 1 .. Len(s) : y = s[i]
        BY <3>2, <2>2 DEF ToSet
      <4>2. i \in 1 .. Len(s) + 1 /\ y = Append(s, x)[i]
        BY <4>1, <2>1, <2>2
      <4>3. QED
        BY <4>2
    <3>3. QED
      BY <3>1, <3>2
  <2>5. QED
    BY <2>1, <2>2, <2>3, <2>4 DEF ToSet
<1>3. ASSUME NEW S, NEW s \in Seq(S), s # <<>>
      PROVE  /\ Head(s) \in S /\ Tail(s) \in Seq(S) /\ Len(Tail(s)) = Len(s) - 1
             /\ ToSet(s) = {Head(s)} \cup ToSet(Tail(s))
  <2>1. /\ Head(s) \in S /\ Tail(s) \in Seq(S) /\ Len(Tail(s)) = Len(s) - 1
        /\ \A i \in 1 .. Len(Tail(s)) : Tail(s)[i] = s[i + 1]
        /\ Head(s) = s[1]
    BY <1>3, HeadTailProperties
  <2>2. Len(s) \in Nat /\ Len(s) # 0 /\ DOMAIN s = 1 .. Len(s) /\ DOMAIN Tail(s) = 1 .. Len(s) - 1
    BY <1>3, <2>1, LenProperties, EmptySeq
  <2>3. ASSUME NEW i \in 1 .. Len(s) PROVE s[i] \in {Head(s)} \cup ToSet(Tail(s))
    <3>1. CASE i = 1
      BY <3>1, <2>1
    <3>2. CASE i # 1
      <4>1. i - 1 \in 1 .. Len(s) - 1 /\ Tail(s)[i - 1] = s[i]
        BY <3>2, <2>1, <2>2
      <4>2. QED
        BY <4>1, <2>2 DEF ToSet
    <3>3. QED
      BY <3>1, <3>2
  <2>4. ASSUME NEW y \in {Head(s)} \cup ToSet(Tail(s)) PROVE \E i \in 1 .. Len(s) : y = s[i]
    <3>1. CASE y = Head(s)
      BY <2>1, <2>2, <3>1
    <3>2. CASE y \in ToSet(Tail(s))
      <4>1. PICK i \in 1 .. Len(s) - 1 : y = Tail(s)[i]
        BY <3>2, <2>2 DEF ToSet
      <4>2. i + 1 \in 1 .. Len(s) /\ y = s[i + 1]
        BY <4>1, <2>1, <2>2
      <4>3. QED
        BY <4>2
    <3>3. QED
      BY <3>1, <3>2
  <2>5. ToSet(s) \subseteq {Head(s)} \cup ToSet(Tail(s))
    <3>1. ASSUME NEW y \in ToSet(s) PROVE \E i \in 1 .. Len(s) : y = s[i]
      BY <3>1, <2>2 DEF ToSet
    <3>2. QED
      BY <3>1, <2>3
  <2>6. {Head(s)} \cup ToSet(Tail(s)) \subseteq ToSet(s)
    <3>1. ASSUME NEW i \in 1 .. Len(s) PROVE s[i] \in ToSet(s)
      BY <2>2 DEF ToSet
    <3>2. ASSUME NEW y \in {Head(s)} \cup ToSet(Tail(s)) PROVE y \in ToSet(s)
      BY <3>1, <3>2, <2>4
    <3>3. QED
      BY <3>2
  <2>7. QED
    BY <2>1, <2>5, <2>6
<1>4. QED
  BY <1>1, <1>2, <1>3

\* A whole list is whole for fewer packages, and so is one that is like it.
LEMMA WholeLess ==
  ASSUME NEW ps, NEW qs, NEW env, NEW S, NEW T, Whole(ps, env, S), T \subseteq S, qs = ps
  PROVE  Whole(qs, env, T)
BY DEF Whole, Covers

\* A process that does nothing goes on knowing what it knew, whatever comes or
\* goes meanwhile.
LEMMA Frame ==
  ASSUME NEW q, Knows(q),
         pc'[q] = pc[q], pkgs'[q] = pkgs[q], rest'[q] = rest[q], tmp'[q] = tmp[q],
         crawled'[q] = crawled[q], wanted'[q] = wanted[q], answer'[q] = answer[q],
         steady'[q] \subseteq steady[q], seen[q] \subseteq seen'[q],
         steady'[q] \subseteq tree', tree' \subseteq seen'[q]
  PROVE  Knows(q)'
<1>1. Crawled(q)'
  BY DEF Knows, Crawled, Whole, Covers
<1>2. Crawling(q)'
  <2> SUFFICES ASSUME pc[q] = "crawl" PROVE Crawling(q)'
    BY DEF Crawling
  <2>1. Done(q)' = Done(q) /\ ToSet(pkgs[q])' = ToSet(pkgs[q]) /\ pkgs'[q] = pkgs[q]
    BY DEF Done
  <2>2. \A i \in 1 .. Len(rest'[q]) : rest'[q][i] = Visible[q][Done(q) + i]
    BY DEF Knows, Crawling
  <2>3. \A i \in 1 .. Done(q) :
          Visible[q][i] \in steady'[q] =>
            \E j \in 1 .. i : /\ NameOf[Visible[q][j]] = NameOf[Visible[q][i]]
                              /\ Visible[q][j] \in ToSet(pkgs[q])
    BY DEF Knows, Crawling
  <2>4. QED
    BY <2>1, <2>2, <2>3 DEF Knows, Crawling
<1>3. Honest(q)'
  BY DEF Knows, Honest
<1>4. QED
  BY <1>1, <1>2, <1>3 DEF Knows, Witnessed, Early, Writing

-----------------------------------------------------------------------------
(* The steps keep each part of the invariant.                              *)

\* Every step keeps the types.
LEMMA TypesStep == IInv /\ [Next]_vars => Types'
<1> SUFFICES ASSUME IInv, [Next]_vars PROVE Types'
  OBVIOUS
<1> USE CacheAssumption DEF IInv, Types, Goto, memory, history
<1>1. ASSUME NEW p \in Process, CheckCache(p) PROVE Types'
  BY <1>1 DEF CheckCache
<1>2. ASSUME NEW p \in Process, LoadCache(p) PROVE Types'
  BY <1>2 DEF LoadCache
<1>3. ASSUME NEW p \in Process, Crawl(p) PROVE Types'
  <2>1. Tail(rest[p]) \in Seq(Path)
    BY <1>3, ElementsOf DEF Crawl
  <2>2. QED
    BY <1>3, <2>1 DEF Crawl
<1>4. ASSUME NEW p \in Process, CrawlDone(p) PROVE Types'
  BY <1>4 DEF CrawlDone
<1>5. ASSUME NEW p \in Process, CreateTemp(p) PROVE Types'
  <2>1. pkgs[p] \in Seq(Path)
    BY <1>5 DEF CreateTemp, Knows, Crawled
  <2>2. QED
    BY <1>5, <2>1 DEF CreateTemp, Resume
<1>6. ASSUME NEW p \in Process, WriteTemp(p) PROVE Types'
  <2>1. Tail(rest[p]) \in Seq(Path)
    BY <1>6, ElementsOf DEF WriteTemp
  <2>2. QED
    BY <1>6, <2>1 DEF WriteTemp
<1>7. ASSUME NEW p \in Process, RemoveOld(p) PROVE Types'
  BY <1>7 DEF RemoveOld
<1>8. ASSUME NEW p \in Process, RenameTemp(p) PROVE Types'
  <2>1. tmp[p] \in File
    BY <1>8 DEF RenameTemp, Knows, Writing
  <2>2. QED
    BY <1>8, <2>1 DEF RenameTemp, Resume
<1>9. ASSUME NEW p \in Process, NEW x \in Path, Found(p, x) PROVE Types'
  BY <1>9 DEF Found, Answer
<1>10. ASSUME NEW p \in Process, Recrawl(p) PROVE Types'
  BY <1>10 DEF Recrawl
<1>11. ASSUME NEW p \in Process, Throw(p) PROVE Types'
  BY <1>11 DEF Throw, Answer
<1>12. ASSUME NEW p \in Process, End(p) PROVE Types'
  <2>1. <<>> \in Seq(Path)
    BY EmptySeq
  <2>2. QED
    BY <1>12, <2>1 DEF End
<1>13. ASSUME NEW p \in Process, NEW n \in Name, Ask(p, n) PROVE Types'
  BY <1>13 DEF Ask
<1>14. ASSUME NEW x \in Path, Change(x) PROVE Types'
  BY <1>14 DEF Change
<1>15. CASE Age
  <2>1. cache' \in File \/ cache' = NoFile
    BY <1>15 DEF Age, File, NoFile
  <2>2. QED
    BY <1>15, <2>1 DEF Age
<1>16. CASE UNCHANGED vars
  BY <1>16 DEF vars
<1>17. QED
  BY <1>1, <1>2, <1>3, <1>4, <1>5, <1>6, <1>7, <1>8, <1>9, <1>10, <1>11, <1>12,
     <1>13, <1>14, <1>15, <1>16 DEF Next, Run

\* Every step keeps the cache file whole.
LEMMA WholeStep == IInv /\ [Next]_vars => CacheWhole'
<1> SUFFICES ASSUME IInv, [Next]_vars PROVE CacheWhole'
  OBVIOUS
<1>1. CASE cache' = cache
  BY <1>1 DEF IInv, CacheWhole, Whole, Covers
<1>2. CASE cache' = NoFile
  BY <1>2 DEF CacheWhole, NoFile
<1>3. ASSUME NEW p \in Process, RenameTemp(p), cache' = tmp[p] PROVE CacheWhole'
  <2> DEFINE ps == tmp[p].paths
             qs == pkgs[p]
  <2>1. pc[p] = "rename" /\ crawled[p] = TRUE
    BY <1>3 DEF IInv, Types, Knows, Crawled, RenameTemp
  <2>2. /\ ps \in Seq(Path) /\ qs \in Seq(Path) /\ rest[p] = <<>>
        /\ Len(qs) = Len(ps) + Len(rest[p])
        /\ \A i \in 1 .. Len(ps) : ps[i] = qs[i]
        /\ Whole(qs, tmp[p].header, tmp[p].there)
    BY <2>1 DEF IInv, Knows, Crawled, Writing, File
  <2>3. Len(qs) = Len(ps)
    BY <2>2, LenProperties
  <2>4. ps = qs
    BY <2>2, <2>3, SeqEqual
  <2>5. QED
    BY <1>3, <2>2, <2>4 DEF CacheWhole, Whole, Covers
<1>4. CASE Age
  <2>1. /\ cache'.exists = cache.exists /\ cache'.paths = cache.paths
        /\ cache'.header = cache.header /\ cache'.there = cache.there
    BY <1>4 DEF Age, IInv, Types, File, NoFile
  <2>2. QED
    BY <2>1 DEF IInv, CacheWhole, Whole, Covers
<1>5. ASSUME NEW p \in Process, Run(p) PROVE CacheWhole'
  <2>1. CASE CheckCache(p) \/ LoadCache(p) \/ Crawl(p) \/ CrawlDone(p)
    BY <1>1, <2>1 DEF CheckCache, LoadCache, Crawl, CrawlDone
  <2>2. CASE CreateTemp(p) \/ WriteTemp(p) \/ RemoveOld(p)
    BY <1>1, <1>2, <2>2 DEF CreateTemp, WriteTemp, RemoveOld
  <2>3. CASE RenameTemp(p)
    BY <1>1, <1>3, <2>3 DEF RenameTemp
  <2>4. CASE Recrawl(p) \/ Throw(p)
    BY <1>1, <2>4 DEF Recrawl, Throw, Answer
  <2>5. ASSUME NEW x \in Path, Found(p, x) PROVE CacheWhole'
    BY <1>1, <2>5 DEF Found, Answer
  <2>6. QED
    BY <1>5, <2>1, <2>2, <2>3, <2>4, <2>5 DEF Run
<1>6. ASSUME NEW p \in Process, NEW n \in Name, Ask(p, n) PROVE CacheWhole'
  BY <1>1, <1>6 DEF Ask
<1>7. ASSUME NEW p \in Process, End(p) PROVE CacheWhole'
  BY <1>1, <1>7 DEF End
<1>8. ASSUME NEW x \in Path, Change(x) PROVE CacheWhole'
  BY <1>1, <1>8 DEF Change
<1>9. CASE UNCHANGED vars
  BY <1>1, <1>9 DEF vars
<1>10. QED
  BY <1>4, <1>5, <1>6, <1>7, <1>8, <1>9 DEF Next

\* A step of the crawl: the first of the remaining directories is looked into.
LEMMA CrawlStep ==
  ASSUME IInv, NEW p \in Process, Crawl(p)
  PROVE  Crawling(p)'
<1> DEFINE V == Visible[p]
           h == Head(rest[p])
           k == Done(p) + 1
<1>1. /\ V \in Seq(Path) /\ rest[p] \in Seq(Path) /\ rest[p] # <<>> /\ pc[p] = "crawl"
      /\ Len(V) \in Nat /\ Len(rest[p]) \in Nat \ {0}
  BY CacheAssumption, LenProperties, EmptySeq DEF IInv, Types, Crawl
<1>2. /\ rest'[p] = Tail(rest[p]) /\ Len(rest'[p]) = Len(rest[p]) - 1 /\ h \in Path
      /\ h = rest[p][1] /\ \A i \in 1 .. Len(rest'[p]) : rest'[p][i] = rest[p][i + 1]
  BY <1>1, HeadTailProperties DEF Crawl, IInv, Types
<1>3. Done(p)' = k /\ Done(p) \in Nat
  <2>1. Done(p) \in Nat
    BY <1>1 DEF IInv, Knows, Crawling
  <2>2. Done(p)' = Len(V) - Len(rest'[p]) /\ Done(p) = Len(V) - Len(rest[p])
    BY DEF Done
  <2>3. Len(rest'[p]) = Len(rest[p]) - 1 /\ Len(V) \in Nat /\ Len(rest[p]) \in Nat
    BY <1>1, <1>2
  <2>4. QED
    BY <2>1, <2>2, <2>3
<1>4. h = V[k]
  BY <1>1, <1>2, <1>3 DEF IInv, Knows, Crawling
<1>5. \A i \in 1 .. Len(rest'[p]) : rest'[p][i] = V[k + i]
  <2> SUFFICES ASSUME NEW i \in 1 .. Len(rest'[p]) PROVE rest'[p][i] = V[k + i]
    OBVIOUS
  <2>1. i + 1 \in 1 .. Len(rest[p]) /\ rest'[p][i] = rest[p][i + 1]
    BY <1>1, <1>2
  <2>2. rest[p][i + 1] = V[Done(p) + (i + 1)]
    BY <1>1, <2>1 DEF IInv, Knows, Crawling
  <2>3. QED
    BY <1>3, <2>1, <2>2
<1>6. /\ pkgs[p] \in Seq(Path)
      /\ pkgs'[p] = IF h \in tree THEN AddPackage(pkgs[p], h) ELSE pkgs[p]
  BY <1>1 DEF Crawl, IInv, Types, Knows, Crawling
<1>7. /\ pkgs'[p] \in Seq(Path)
      /\ ToSet(pkgs[p]) \subseteq ToSet(pkgs'[p])
      /\ ToSet(pkgs'[p]) \subseteq ToSet(pkgs[p]) \cup {h}
      /\ ToSet(pkgs'[p]) # ToSet(pkgs[p]) => h \in tree
      /\ h \in tree => \E y \in ToSet(pkgs'[p]) : NameOf[y] = NameOf[h]
  BY <1>2, <1>6, ElementsOf DEF AddPackage
<1>7a. OneOfEachName(pkgs'[p])
  <2>1. OneOfEachName(pkgs[p])
    BY <1>1 DEF IInv, Knows, Crawling
  <2>2. ASSUME NEW x \in Path, \A y \in ToSet(pkgs[p]) : NameOf[y] # NameOf[x]
        PROVE  OneOfEachName(Append(pkgs[p], x))
    <3>1. /\ Len(pkgs[p]) \in Nat /\ DOMAIN pkgs[p] = 1 .. Len(pkgs[p])
          /\ DOMAIN Append(pkgs[p], x) = 1 .. Len(pkgs[p]) + 1
          /\ \A i \in 1 .. Len(pkgs[p]) : Append(pkgs[p], x)[i] = pkgs[p][i]
          /\ Append(pkgs[p], x)[Len(pkgs[p]) + 1] = x
      BY <1>6, AppendProperties, LenProperties
    <3>2. \A i \in 1 .. Len(pkgs[p]) : NameOf[pkgs[p][i]] # NameOf[x]
      BY <2>2, <3>1 DEF ToSet
    <3>3. QED
      BY <2>1, <3>1, <3>2 DEF OneOfEachName
  <2>3. QED
    BY <1>2, <1>6, <2>1, <2>2 DEF AddPackage
<1>8. ToSet(pkgs'[p]) \subseteq seen'[p]
  BY <1>1, <1>7 DEF Crawl, history, IInv, Knows, Crawling, Witnessed
<1>9. \A x \in ToSet(pkgs'[p]) : \E j \in 1 .. k : x = V[j]
  <2> SUFFICES ASSUME NEW x \in ToSet(pkgs'[p]) PROVE \E j \in 1 .. k : x = V[j]
    OBVIOUS
  <2>1. CASE x = h
    BY <1>3, <1>4, <2>1
  <2>2. CASE x \in ToSet(pkgs[p])
    <3>1. PICK j \in 1 .. Done(p) : x = V[j]
      BY <1>1, <2>2 DEF IInv, Knows, Crawling
    <3>2. j \in 1 .. k
      BY <1>3, <3>1
    <3>3. QED
      BY <3>1, <3>2
  <2>3. QED
    BY <1>7, <2>1, <2>2
<1>10. ASSUME NEW i \in 1 .. k, V[i] \in steady[p]
       PROVE  \E j \in 1 .. i : NameOf[V[j]] = NameOf[V[i]] /\ V[j] \in ToSet(pkgs'[p])
  <2>1. CASE i \in 1 .. Done(p)
    BY <1>1, <1>7, <1>10, <2>1 DEF IInv, Knows, Crawling
  <2>2. CASE i = k
    <3>1. h \in tree
      BY <1>4, <1>10, <2>2 DEF IInv, Knows, Witnessed
    <3>2. PICK y \in ToSet(pkgs'[p]) : NameOf[y] = NameOf[h]
      BY <1>7, <3>1
    <3>3. PICK j \in 1 .. k : y = V[j]
      BY <1>9, <3>2
    <3>4. QED
      BY <1>4, <2>2, <3>2, <3>3
  <2>3. QED
    BY <1>3, <2>1, <2>2
<1>11. steady'[p] = steady[p] /\ pc'[p] = "crawl"
  BY <1>1 DEF Crawl, history
<1>12. QED
  BY <1>3, <1>5, <1>7, <1>7a, <1>8, <1>9, <1>10, <1>11 DEF Crawling

\* A step of process p leaves the variables of another process alone.
LEMMA LeftAlone ==
  ASSUME IInv, NEW p \in Process, NEW q \in Process, q # p,
         Run(p) \/ End(p) \/ \E n \in Name : Ask(p, n)
  PROVE  /\ pc'[q] = pc[q] /\ pkgs'[q] = pkgs[q] /\ rest'[q] = rest[q] /\ tmp'[q] = tmp[q]
         /\ crawled'[q] = crawled[q] /\ wanted'[q] = wanted[q] /\ answer'[q] = answer[q]
         /\ steady'[q] = steady[q] /\ seen'[q] = seen[q] /\ tree' = tree
<1> USE DEF IInv, Types, Goto, memory, history
<1>1. CASE CheckCache(p) \/ LoadCache(p)
  BY <1>1 DEF CheckCache, LoadCache
<1>2. CASE Crawl(p) \/ CrawlDone(p)
  BY <1>2 DEF Crawl, CrawlDone
<1>3. CASE CreateTemp(p)
  BY <1>3 DEF CreateTemp, Resume
<1>4. CASE WriteTemp(p) \/ RemoveOld(p)
  BY <1>4 DEF WriteTemp, RemoveOld
<1>5. CASE RenameTemp(p)
  BY <1>5 DEF RenameTemp, Resume
<1>6. CASE Recrawl(p) \/ Throw(p) \/ \E x \in Path : Found(p, x)
  BY <1>6 DEF Recrawl, Throw, Found, Answer
<1>7. CASE End(p)
  BY <1>7 DEF End
<1>8. CASE \E n \in Name : Ask(p, n)
  BY <1>8 DEF Ask
<1>9. QED
  BY <1>1, <1>2, <1>3, <1>4, <1>5, <1>6, <1>7, <1>8 DEF Run

\* A step of process p leaves alone what another process knows.
LEMMA Others ==
  ASSUME IInv, NEW p \in Process, NEW q \in Process, q # p,
         Run(p) \/ End(p) \/ \E n \in Name : Ask(p, n)
  PROVE  Knows(q)'
<1>1. /\ pc'[q] = pc[q] /\ pkgs'[q] = pkgs[q] /\ rest'[q] = rest[q] /\ tmp'[q] = tmp[q]
      /\ crawled'[q] = crawled[q] /\ wanted'[q] = wanted[q] /\ answer'[q] = answer[q]
      /\ steady'[q] = steady[q] /\ seen'[q] = seen[q] /\ tree' = tree
  BY LeftAlone
<1>2. Knows(q) /\ steady[q] \subseteq tree /\ tree \subseteq seen[q]
  BY DEF IInv, Knows, Witnessed
<1>3. QED
  BY <1>1, <1>2, Frame

\* The first part of a process: it checks the cache, reads it or crawls.
LEMMA OwnCrawl ==
  ASSUME IInv, NEW p \in Process,
         CheckCache(p) \/ LoadCache(p) \/ Crawl(p) \/ CrawlDone(p) \/ Recrawl(p)
  PROVE  Knows(p)'
<1> USE DEF IInv, Types, Goto, memory, history
<1>0. Knows(p) /\ Visible[p] \in Seq(Path) /\ Len(Visible[p]) \in Nat
  BY CacheAssumption, LenProperties
<1>1. ASSUME pc'[p] = "crawl", rest'[p] = Visible[p], pkgs'[p] = <<>> PROVE Crawling(p)'
  <2>1. Done(p)' = 0
    BY <1>0, <1>1 DEF Done
  <2>2. ToSet(pkgs'[p]) = {} /\ pkgs'[p] \in Seq(Path) /\ OneOfEachName(pkgs'[p])
    BY <1>1, ElementsOf, EmptySeq DEF OneOfEachName
  <2>3. \A i \in 1 .. Len(rest'[p]) : rest'[p][i] = Visible[p][0 + i]
    BY <1>0, <1>1
  <2>4. QED
    BY <2>1, <2>2, <2>3 DEF Crawling
<1>2. CASE CheckCache(p)
  <2>1. pkgs[p] = <<>> /\ crawled[p] = FALSE /\ pc'[p] \in {"open", "crawl"}
        /\ rest'[p] = Visible[p] /\ pkgs'[p] = pkgs[p] /\ crawled'[p] = FALSE
        /\ answer'[p] = answer[p] /\ answer[p] = NoAnswer
    BY <1>2 DEF CheckCache, Knows, Early, Crawled, Honest
  <2>2. Crawling(p)'
    BY <1>1, <2>1 DEF Crawling
  <2>3. QED
    BY <1>2, <2>1, <2>2
    DEF CheckCache, Knows, Witnessed, Early, Crawled, Writing, Honest, NoAnswer, NotFound
<1>3. CASE LoadCache(p)
  <2>1. pkgs[p] = <<>> /\ crawled[p] = FALSE /\ rest[p] = Visible[p]
        /\ rest'[p] = rest[p] /\ crawled'[p] = FALSE
        /\ \/ pc'[p] = "ready"
           \/ pc'[p] = "crawl" /\ pkgs'[p] = pkgs[p]
        /\ answer'[p] = answer[p] /\ answer[p] = NoAnswer
    BY <1>3 DEF LoadCache, Knows, Early, Crawled, Honest
  <2>2. Crawling(p)'
    BY <1>1, <2>1 DEF Crawling
  <2>3. QED
    BY <1>3, <2>1, <2>2
    DEF LoadCache, Knows, Witnessed, Early, Crawled, Writing, Honest, NoAnswer, NotFound
<1>4. CASE Crawl(p)
  <2>1. pc[p] = "crawl" /\ pc'[p] = "crawl" /\ crawled[p] = FALSE /\ crawled'[p] = FALSE
        /\ answer'[p] = answer[p] /\ answer[p] = NoAnswer
    BY <1>4 DEF Crawl, Knows, Crawled, Honest
  <2>2. Crawling(p)'
    BY <1>4, CrawlStep
  <2>3. QED
    BY <1>4, <2>1, <2>2
    DEF Crawl, Knows, Witnessed, Early, Crawled, Writing, Honest, NoAnswer, NotFound
<1>5. CASE CrawlDone(p)
  <2>1. /\ pc[p] = "crawl" /\ pc'[p] = "create" /\ rest[p] = <<>> /\ crawled'[p] = TRUE
        /\ pkgs'[p] = pkgs[p] /\ answer'[p] = answer[p] /\ answer[p] = NoAnswer
    BY <1>5 DEF CrawlDone, Knows, Crawled, Honest
  <2>2. Done(p) = Len(Visible[p]) /\ DOMAIN Visible[p] = 1 .. Len(Visible[p])
    BY <1>0, <2>1, EmptySeq, LenProperties DEF Done
  <2>3. Whole(pkgs[p], Visible[p], steady[p])
    <3>1. Covers(pkgs[p], Visible[p], steady[p])
      BY <2>1, <2>2 DEF Covers, Knows, Crawling
    <3>2. ASSUME NEW x \in ToSet(pkgs[p]) PROVE x \in ToSet(Visible[p])
      <4>1. PICK j \in 1 .. Done(p) : x = Visible[p][j]
        BY <2>1 DEF Knows, Crawling
      <4>2. QED
        BY <2>2, <4>1 DEF ToSet
    <3>3. OneOfEachName(pkgs[p])
      BY <2>1 DEF Knows, Crawling
    <3>4. QED
      BY <3>1, <3>2, <3>3 DEF Whole, OneOfEachName
  <2>4. Whole(pkgs[p], Visible[p], steady[p])'
    BY <1>5, <2>1, <2>3 DEF CrawlDone, Whole, Covers
  <2>5. pkgs[p] \in Seq(Path) /\ ToSet(pkgs[p]) \subseteq seen[p]
    BY <2>1 DEF Knows, Crawling
  <2>6. Crawled(p)'
    BY <1>5, <2>1, <2>4, <2>5 DEF CrawlDone, Crawled
  <2>7. QED
    BY <1>5, <2>1, <2>6
    DEF CrawlDone, Knows, Witnessed, Early, Crawling, Writing, Honest, NoAnswer, NotFound
<1>6. CASE Recrawl(p)
  <2>1. /\ pc[p] = "get_pkg" /\ pc'[p] = "crawl" /\ rest'[p] = Visible[p] /\ pkgs'[p] = <<>>
        /\ crawled'[p] = FALSE /\ answer'[p] = answer[p] /\ answer[p] = NoAnswer
    BY <1>6 DEF Recrawl, Knows, Honest
  <2>2. QED
    BY <1>1, <1>6, <2>1
    DEF Recrawl, Knows, Witnessed, Early, Crawled, Writing, Honest, NoAnswer, NotFound
<1>7. QED
  BY <1>2, <1>3, <1>4, <1>5, <1>6

\* The second part: the cache is written, unless that fails.
LEMMA OwnWrite ==
  ASSUME IInv, NEW p \in Process,
         CreateTemp(p) \/ WriteTemp(p) \/ RemoveOld(p) \/ RenameTemp(p)
  PROVE  Knows(p)'
<1> USE DEF IInv, Types, Goto, memory, history
<1>1. /\ Knows(p) /\ crawled[p] = TRUE /\ pc[p] \in {"create", "write", "rename"}
      /\ answer[p] = NoAnswer
  BY DEF Knows, Crawled, Honest, CreateTemp, WriteTemp, RemoveOld, RenameTemp
<1>2. /\ pkgs'[p] = pkgs[p] /\ crawled'[p] = TRUE /\ answer'[p] = NoAnswer
      /\ steady'[p] = steady[p] /\ seen'[p] = seen[p] /\ tree' = tree
      /\ pc'[p] \in {"write", "rename", "ready", "get_pkg"}
  <2>1. CASE CreateTemp(p)
    BY <1>1, <2>1 DEF CreateTemp, Resume
  <2>2. CASE WriteTemp(p) \/ RemoveOld(p)
    BY <1>1, <2>2 DEF WriteTemp, RemoveOld
  <2>3. CASE RenameTemp(p)
    BY <1>1, <2>3 DEF RenameTemp, Resume
  <2>4. QED
    BY <2>1, <2>2, <2>3
<1>3. Witnessed(p)' /\ Early(p)' /\ Crawling(p)' /\ Crawled(p)' /\ Honest(p)'
  BY <1>1, <1>2
  DEF Knows, Witnessed, Early, Crawling, Crawled, Whole, Covers, Honest, NoAnswer, NotFound
<1>4. Writing(p)'
  <2>1. CASE CreateTemp(p)
    <3>1. CASE pc'[p] = "write"
      <4>1. tmp'[p] = NewFile(Visible[p], steady[p]) /\ rest'[p] = pkgs[p]
        BY <2>1, <3>1 DEF CreateTemp, Resume
      <4>2. NewFile(Visible[p], steady[p]) \in File
        BY CacheAssumption, EmptySeq DEF NewFile, File
      <4>3. NewFile(Visible[p], steady[p]).header = Visible[p]
            /\ NewFile(Visible[p], steady[p]).there = steady[p]
        BY DEF NewFile
      <4>4. Whole(pkgs[p], Visible[p], steady[p]) /\ pkgs[p] \in Seq(Path)
        BY <1>1 DEF Knows, Crawled
      <4>5. /\ NewFile(Visible[p], steady[p]).paths = <<>> /\ Len(<<>>) = 0
            /\ Len(pkgs[p]) \in Nat
        BY <4>4, LenProperties DEF NewFile
      <4>6. tmp'[p] \in File /\ tmp'[p].header = Visible[p] /\ tmp'[p].there = steady[p]
        BY <4>1, <4>2, <4>3
      <4>7. Len(pkgs'[p]) = Len(tmp'[p].paths) + Len(rest'[p])
        BY <1>2, <4>1, <4>5
      <4>8. /\ \A i \in 1 .. Len(tmp'[p].paths) : tmp'[p].paths[i] = pkgs'[p][i]
            /\ \A i \in 1 .. Len(rest'[p]) : rest'[p][i] = pkgs'[p][Len(tmp'[p].paths) + i]
        BY <1>2, <4>1, <4>5
      <4>9. Whole(pkgs'[p], Visible[p], tmp'[p].there)
        BY <1>2, <4>4, <4>6, WholeLess
      <4>10. QED
        BY <3>1, <4>6, <4>7, <4>8, <4>9 DEF Writing
    <3>2. CASE pc'[p] \in {"ready", "get_pkg"}
      BY <3>2 DEF Writing
    <3>3. QED
      BY <1>1, <2>1, <3>1, <3>2 DEF CreateTemp, Resume
  <2>2. CASE WriteTemp(p)
    <3>1. /\ tmp[p] \in File /\ rest[p] \in Seq(Path) /\ rest[p] # <<>> /\ pc[p] = "write"
          /\ pc'[p] = "write" /\ rest'[p] = Tail(rest[p])
          /\ tmp'[p] = [tmp[p] EXCEPT !.paths = Append(@, Head(rest[p]))]
      BY <2>2 DEF WriteTemp, Knows, Writing
    <3> DEFINE ps == tmp[p].paths
               n == Len(ps)
               h == Head(rest[p])
    <3>2. /\ h \in Path /\ h = rest[p][1] /\ Len(rest'[p]) = Len(rest[p]) - 1
          /\ \A i \in 1 .. Len(rest'[p]) : rest'[p][i] = rest[p][i + 1]
          /\ Len(rest[p]) \in Nat \ {0}
      BY <3>1, HeadTailProperties, LenProperties, EmptySeq
    <3>3. ps \in Seq(Path) /\ n \in Nat
      BY <3>1, LenProperties DEF File
    <3>4. /\ Append(ps, h) \in Seq(Path) /\ Len(Append(ps, h)) = n + 1
          /\ \A i \in 1 .. n : Append(ps, h)[i] = ps[i]
          /\ Append(ps, h)[n + 1] = h
      BY <3>2, <3>3, AppendProperties
    <3>5. /\ tmp'[p] \in File /\ tmp'[p].header = tmp[p].header /\ tmp'[p].there = tmp[p].there
          /\ tmp'[p].paths = Append(ps, h)
      BY <3>1, <3>4 DEF File
    <3>6. /\ tmp[p].header = Visible[p]
          /\ Len(pkgs[p]) = n + Len(rest[p])
          /\ \A i \in 1 .. n : ps[i] = pkgs[p][i]
          /\ \A i \in 1 .. Len(rest[p]) : rest[p][i] = pkgs[p][n + i]
          /\ Whole(pkgs[p], Visible[p], tmp[p].there)
      BY <1>1, <3>1 DEF Knows, Writing
    <3>7. Len(pkgs'[p]) = Len(tmp'[p].paths) + Len(rest'[p])
      BY <1>2, <3>2, <3>3, <3>4, <3>5, <3>6
    <3>8. \A i \in 1 .. Len(tmp'[p].paths) : tmp'[p].paths[i] = pkgs'[p][i]
      <4>1. h = pkgs[p][n + 1]
        BY <3>2, <3>6
      <4>2. QED
        BY <1>2, <3>3, <3>4, <3>5, <3>6, <4>1
    <3>9. \A i \in 1 .. Len(rest'[p]) : rest'[p][i] = pkgs'[p][Len(tmp'[p].paths) + i]
      <4> SUFFICES ASSUME NEW i \in 1 .. Len(rest'[p])
                   PROVE  rest'[p][i] = pkgs[p][(n + 1) + i]
        BY <1>2, <3>4, <3>5
      <4>1. i \in 1 .. Len(rest[p]) - 1
        BY <3>2
      <4>2. i + 1 \in 1 .. Len(rest[p])
        BY <3>2, <4>1
      <4>3. rest'[p][i] = rest[p][i + 1] /\ rest[p][i + 1] = pkgs[p][n + (i + 1)]
        BY <3>2, <3>6, <4>2
      <4>4. n + (i + 1) = (n + 1) + i
        <5>1. \A a, b \in Nat : a + (b + 1) = (a + 1) + b
          OBVIOUS
        <5>2. i \in Nat
          BY <3>2, <4>1
        <5>3. QED
          BY <3>3, <5>1, <5>2
      <4>5. QED
        BY <4>3, <4>4
    <3>10. Whole(pkgs'[p], Visible[p], tmp'[p].there)
      BY <1>2, <3>5, <3>6, WholeLess
    <3>11. QED
      BY <3>1, <3>5, <3>6, <3>7, <3>8, <3>9, <3>10 DEF Writing
  <2>3. CASE RemoveOld(p)
    BY <1>1, <1>2, <2>3 DEF RemoveOld, Knows, Writing, Whole, Covers
  <2>4. CASE RenameTemp(p)
    BY <1>1, <2>4 DEF RenameTemp, Resume, Writing
  <2>5. QED
    BY <2>1, <2>2, <2>3, <2>4
<1>5. QED
  BY <1>3, <1>4 DEF Knows

\* The third part: get_pkg is asked and answers.
LEMMA OwnAnswer ==
  ASSUME IInv, NEW p \in Process,
         \/ Throw(p)
         \/ \E x \in Path : Found(p, x)
         \/ \E n \in Name : Ask(p, n)
  PROVE  Knows(p)'
<1> USE DEF IInv, Types, Goto, memory, history
<1>1. Knows(p) /\ pc[p] \in {"ready", "get_pkg"} /\ answer[p] = NoAnswer
  BY DEF Throw, Found, Ask, Knows, Honest
<1>2. /\ pkgs'[p] = pkgs[p] /\ crawled'[p] = crawled[p] /\ pc'[p] \in {"get_pkg", "answered"}
      /\ steady'[p] = steady[p] /\ seen'[p] = seen[p] /\ tree' = tree
  BY DEF Throw, Found, Ask, Answer
<1>3. Witnessed(p)' /\ Early(p)' /\ Crawling(p)' /\ Crawled(p)' /\ Writing(p)'
  <2>1. Witnessed(p)' /\ Early(p)' /\ Crawling(p)' /\ Writing(p)'
    BY <1>1, <1>2 DEF Knows, Witnessed, Early, Crawling, Writing
  <2>2. Crawled(p)'
    BY <1>1, <1>2 DEF Knows, Crawled, Whole, Covers
  <2>3. QED
    BY <2>1, <2>2
<1>4. Honest(p)'
  <2>1. CASE Throw(p)
    <3>1. /\ answer'[p] = NotFound /\ wanted'[p] = wanted[p] /\ pc'[p] = "answered"
          /\ crawled[p] /\ Matches(p) = {}
      BY <2>1 DEF Throw, Answer
    <3>2. ASSUME NEW x \in steady[p] \cap ToSet(Visible[p]) PROVE NameOf[x] \notin wanted[p]
      <4>1. PICK i \in DOMAIN Visible[p] : x = Visible[p][i]
        BY DEF ToSet
      <4>2. Covers(pkgs[p], Visible[p], steady[p])
        BY <1>1, <3>1 DEF Knows, Crawled, Whole
      <4>3. PICK j \in 1 .. i : /\ NameOf[Visible[p][j]] = NameOf[Visible[p][i]]
                                /\ Visible[p][j] \in ToSet(pkgs[p])
        BY <4>1, <4>2 DEF Covers
      <4>4. QED
        BY <3>1, <4>1, <4>3 DEF Matches
    <3>3. QED
      BY <1>2, <3>1, <3>2 DEF Honest, NotFound
  <2>2. ASSUME NEW x \in Path, Found(p, x) PROVE Honest(p)'
    <3>1. /\ answer'[p] = Returned(x) /\ pc'[p] = "answered"
          /\ x \in ToSet(pkgs[p]) /\ (crawled[p] \/ x \in tree)
          /\ NameOf[x] \in wanted[p] /\ wanted'[p] = wanted[p]
      BY <2>2 DEF Found, Answer, Matches
    <3>2. x \in seen[p]
      BY <1>1, <3>1 DEF Knows, Witnessed, Crawled
    <3>3. QED
      BY <1>2, <3>1, <3>2 DEF Honest, Returned, NotFound
  <2>3. CASE \E n \in Name : Ask(p, n)
    BY <1>1, <2>3 DEF Ask, Honest, NoAnswer, NotFound
  <2>4. QED
    BY <2>1, <2>2, <2>3
<1>5. QED
  BY <1>3, <1>4 DEF Knows

\* A new process knows nothing yet.
LEMMA OwnEnd ==
  ASSUME IInv, NEW p \in Process, End(p)
  PROVE  Knows(p)'
<1>1. /\ pc'[p] = "start" /\ pkgs'[p] = <<>> /\ crawled'[p] = FALSE /\ answer'[p] = NoAnswer
      /\ steady'[p] = tree /\ seen'[p] = tree /\ tree' = tree
  BY DEF End, IInv, Types
<1>2. QED
  BY <1>1 DEF Knows, Witnessed, Early, Crawling, Crawled, Writing, Honest, NoAnswer, NotFound

\* What comes or goes, and the age of the file, change nothing that matters.
LEMMA World ==
  ASSUME IInv, NEW q \in Process, (\E x \in Path : Change(x)) \/ Age \/ UNCHANGED vars
  PROVE  Knows(q)'
<1> USE DEF IInv, Types
<1>1. /\ pc' = pc /\ pkgs' = pkgs /\ rest' = rest /\ tmp' = tmp
      /\ crawled' = crawled /\ wanted' = wanted /\ answer' = answer
  BY DEF Change, Age, vars, memory
<1>2. /\ steady'[q] \subseteq steady[q] /\ seen[q] \subseteq seen'[q]
      /\ steady'[q] \subseteq tree' /\ tree' \subseteq seen'[q]
  <2>1. Witnessed(q)
    BY DEF Knows
  <2>2. CASE \E x \in Path : Change(x)
    BY <2>2 DEF Change
  <2>3. CASE Age \/ UNCHANGED vars
    BY <2>1, <2>3 DEF Age, vars, history, Witnessed
  <2>4. QED
    BY <2>2, <2>3
<1>3. QED
  BY <1>1, <1>2, Frame

\* Every step keeps what the processes know.
LEMMA KnowsStep == IInv /\ [Next]_vars => (\A q \in Process : Knows(q))'
<1> SUFFICES ASSUME IInv, [Next]_vars, NEW q \in Process PROVE Knows(q)'
  OBVIOUS
<1>1. ASSUME NEW p \in Process, Run(p) \/ End(p) \/ \E n \in Name : Ask(p, n)
      PROVE  Knows(q)'
  <2>1. CASE q = p
    BY <1>1, <2>1, OwnCrawl, OwnWrite, OwnAnswer, OwnEnd DEF Run
  <2>2. CASE q # p
    BY <1>1, <2>2, Others
  <2>3. QED
    BY <2>1, <2>2
<1>2. CASE (\E x \in Path : Change(x)) \/ Age \/ UNCHANGED vars
  BY <1>2, World
<1>3. QED
  BY <1>1, <1>2 DEF Next

\* The initial states satisfy the invariant.
LEMMA InitInv == Init => IInv
<1> SUFFICES ASSUME Init PROVE IInv
  OBVIOUS
<1>1. Types
  BY EmptySeq DEF Init, Types
<1>2. ASSUME NEW p \in Process PROVE Knows(p)
  BY DEF Init, Knows, Witnessed, Early, Crawling, Crawled, Writing, Honest, NoAnswer, NotFound
<1>3. CacheWhole
  BY DEF Init, CacheWhole, NoFile
<1>4. QED
  BY <1>1, <1>2, <1>3 DEF IInv

\* The invariant holds in every reachable state.
LEMMA Invariance == Spec => []IInv
<1>1. IInv /\ [Next]_vars => IInv'
  BY TypesStep, KnowsStep, WholeStep DEF IInv
<1>2. QED
  BY InitInv, <1>1, PTL DEF Spec

\* The cache file is never torn: in the order of its environment, it has every
\* package that was there while its writer ran.
THEOREM WholeCache == Spec => []CacheWhole
<1>1. IInv => CacheWhole
  BY DEF IInv
<1>2. QED
  BY Invariance, <1>1, PTL

\* get_pkg names a package that was there, and says "couldn't find" only of a
\* name that no package had all the time.
THEOREM HonestAnswers == Spec => []AnswerHonest
<1>1. IInv => AnswerHonest
  BY DEF IInv, Knows, Honest, AnswerHonest
<1>2. QED
  BY Invariance, <1>1, PTL

\* A process crawls in full, if it crawls: what it found afterwards has, in the
\* order of its environment, every package that was there all the time.
CrawlComplete == \A p \in Process : crawled[p] => Covers(pkgs[p], Visible[p], steady[p])

\* "couldn't find" is only said after such a crawl, so nothing that was there
\* is overlooked, however many processes write the cache meanwhile.
THEOREM CompleteCrawl == Spec => []CrawlComplete
<1>1. IInv => CrawlComplete
  BY DEF IInv, Knows, Crawled, Whole, CrawlComplete
<1>2. QED
  BY Invariance, <1>1, PTL
-----------------------------------------------------------------------------
(* The reader.                                                             *)

LTypes ==
  /\ at \in {"idle", "read", "lookup", "popen", "wait", "walk", "stat"}
  /\ call \in [op : {"dir", "node", "resource"}, child : Child, name : SUBSET Name]
  /\ pos \in Nat \ {0} /\ matches \subseteq 1 .. Depth
  /\ node \in [1 .. Depth -> Kinds]
  /\ was \in [1 .. Depth -> SUBSET Kinds]

\* A call is about one name, has no result until it is over, and has looked
\* into no directory before its search.
Calling ==
  at # "idle" =>
    /\ result = Raised("none")
    /\ \E n \in Name : call.name = {n}
    /\ ~Searching => pos = 1 /\ matches = {}

\* What was there all the time is there, and what is there was met.
Meeting == there \subseteq tree /\ tree \subseteq met

\* The rospack that the reader waits for is asked for the call's name, and it
\* has not seen more than has been there since the call began.
Asking(c) ==
  /\ seen[c] \subseteq met /\ there \subseteq steady[c]
  /\ wanted[c] \in {{}, call.name}
  /\ pc[c] \in {"get_pkg", "answered"} => wanted[c] = call.name

\* What the search has found out about the directories before pos, and about
\* the one whose file it is about to look at.
Looking ==
  /\ call.op # "dir"
  /\ \A k \in 1 .. Depth : node[k] \in was[k]
  /\ call.op = "node" => \A k \in 1 .. Depth : k < pos => was[k] # {"executable"}
  /\ call.op = "resource" =>
       /\ \A k \in matches : k < pos
       /\ \A k \in 1 .. Depth :
            k < pos => IF k \in matches THEN was[k] # {"none"} ELSE "none" \in was[k]
  /\ at = "stat" => pos \in 1 .. Depth /\ call.op = "node" /\ was[pos] # {"none"}

LInv ==
  /\ LTypes
  /\ Calling
  /\ Meeting
  /\ at = "wait" => Asking(call.child)
  /\ Searching => Looking
  /\ LookupHonest

\* Every step keeps the reader's types.
LEMMA LTypesStep == LTypes /\ [LNext]_lvars => LTypes'
<1> SUFFICES ASSUME LTypes, [LNext]_lvars PROVE LTypes'
  OBVIOUS
<1> USE LookupAssumption DEF LTypes, reader, files, Raise, Return, Kinds
<1>1. ASSUME NEW x, NEW by, Located(x, by), UNCHANGED <<call, pos, matches>> PROVE LTypes'
  BY <1>1 DEF Located, Now
<1>2. CASE Read \/ Invalidate \/ Miss \/ Popen \/ PopenFails \/ Update
  BY <1>2 DEF Read, Invalidate, Miss, Popen, PopenFails, Update
<1>3. CASE Lookup \/ Collect
  BY <1>1, <1>3 DEF Lookup, Collect
<1>4. CASE Walk \/ Stat \/ WalkDone
  <2>1. /\ at' \in {"idle", "walk", "stat"} /\ call' = call /\ UNCHANGED <<node, was>>
        /\ pos' \in {pos, pos + 1}
        /\ matches' \in {matches, matches \cup {pos}} /\ (matches' # matches => pos <= Depth)
    BY <1>4 DEF Walk, Stat, WalkDone
  <2>2. pos + 1 \in Nat \ {0} /\ (pos <= Depth => pos \in 1 .. Depth)
    OBVIOUS
  <2>3. QED
    BY <2>1, <2>2
<1>6. ASSUME NEW op \in {"dir", "node", "resource"}, NEW c \in Child, NEW n \in Name,
             Begin(op, c, n)
      PROVE  LTypes'
  BY <1>6 DEF Begin, Nowhere, Now
<1>7. ASSUME NEW p \in Process, ChildRuns(p) \/ ChildEnds(p) \/ \E n \in Name : ChildAsked(p, n)
      PROVE  LTypes'
  BY <1>7 DEF ChildRuns, ChildEnds, ChildAsked
<1>8. ASSUME NEW n \in [1 .. Depth -> Kinds], FilesBecome(n), UNCHANGED reader PROVE LTypes'
  BY <1>8 DEF FilesBecome
<1>9. ASSUME NEW x \in Path, LChange(x) PROVE LTypes'
  <2>1. Nowhere \in [1 .. Depth -> Kinds]
    BY DEF Nowhere
  <2>2. QED
    BY <1>8, <1>9, <2>1 DEF LChange
<1>10. ASSUME NEW k \in 1 .. Depth, NEW kind \in Kinds, Make(k, kind) PROVE LTypes'
  BY <1>8, <1>10 DEF Make
<1>11. CASE LAge \/ LFinished \/ UNCHANGED lvars
  BY <1>11 DEF LAge, LFinished, lvars
<1>12. CASE Reading
  BY <1>2, <1>3, <1>4, <1>12 DEF Reading
<1>13. QED
  <2> HIDE DEF LTypes
  <2>1. QED
    BY <1>2, <1>6, <1>7, <1>9, <1>10, <1>11, <1>12 DEF LNext

\* A step of the reader and its world is a step of rospack's processes, or none.
LEMMA Simulation == LTypes /\ [LNext]_lvars => [Next]_vars
<1> SUFFICES ASSUME LTypes, [LNext]_lvars PROVE [Next]_vars
  OBVIOUS
<1>1. call.child \in Process
  BY LookupAssumption DEF LTypes
<1>2. CASE Read \/ Lookup \/ Invalidate \/ Miss \/ PopenFails \/ Walk \/ Stat \/ WalkDone \/ Update
  BY <1>2 DEF Read, Lookup, Invalidate, Miss, PopenFails, Walk, Stat, WalkDone, Update
<1>3. CASE Popen \/ Collect
  BY <1>1, <1>3 DEF Popen, Collect, Next
<1>4. ASSUME NEW op, NEW c, NEW n, Begin(op, c, n) PROVE UNCHANGED vars
  BY <1>4 DEF Begin
<1>5. ASSUME NEW p \in Process, ChildRuns(p) \/ ChildEnds(p) \/ \E n \in Name : ChildAsked(p, n)
      PROVE  Next
  BY <1>5 DEF ChildRuns, ChildEnds, ChildAsked, Next
<1>6. ASSUME NEW x \in Path, LChange(x) PROVE Next
  BY <1>6 DEF LChange, Next
<1>7. ASSUME NEW k, NEW kind, Make(k, kind) PROVE UNCHANGED vars
  BY <1>7 DEF Make
<1>8. CASE LAge \/ LFinished \/ UNCHANGED lvars
  BY <1>8 DEF LAge, LFinished, lvars, Next
<1>9. QED
  BY <1>2, <1>3, <1>4, <1>5, <1>6, <1>7, <1>8 DEF LNext, Reading

\* Every step keeps what was there and what was met.
LEMMA MeetingStep == LTypes /\ Meeting /\ [LNext]_lvars => Meeting'
<1> SUFFICES ASSUME LTypes, Meeting, [LNext]_lvars PROVE Meeting'
  OBVIOUS
<1> USE DEF Meeting, files, vars, Raise
<1>1. CASE Read \/ Invalidate \/ Miss \/ PopenFails \/ Walk \/ Stat \/ WalkDone \/ Update
  BY <1>1 DEF Read, Invalidate, Miss, PopenFails, Walk, Stat, WalkDone, Update
<1>2. CASE Lookup \/ Popen \/ Collect
  BY <1>2 DEF Lookup, Popen, Collect, Located, End
<1>3. ASSUME NEW op, NEW c, NEW n, Begin(op, c, n) PROVE Meeting'
  BY <1>3 DEF Begin
<1>4. ASSUME NEW p \in Process, Run(p) PROVE UNCHANGED tree
  BY <1>4 DEF Run, CheckCache, LoadCache, Crawl, CrawlDone, CreateTemp, WriteTemp,
              RemoveOld, RenameTemp, Found, Recrawl, Throw, Answer
<1>5. ASSUME NEW p \in Process, ChildRuns(p) \/ ChildEnds(p) \/ \E n \in Name : ChildAsked(p, n)
      PROVE  Meeting'
  BY <1>4, <1>5 DEF ChildRuns, ChildEnds, ChildAsked, End, Ask
<1>6. ASSUME NEW x \in Path, LChange(x) PROVE Meeting'
  BY <1>6 DEF LChange
<1>7. ASSUME NEW k, NEW kind, Make(k, kind) PROVE Meeting'
  BY <1>7 DEF Make
<1>8. CASE LAge \/ LFinished \/ UNCHANGED lvars
  BY <1>8 DEF LAge, LFinished, Age, lvars
<1>9. QED
  BY <1>1, <1>2, <1>3, <1>5, <1>6, <1>7, <1>8 DEF LNext, Reading

\* Every step keeps the call's name, and its result empty until it is over.
LEMMA CallingStep == LTypes /\ Calling /\ [LNext]_lvars => Calling'
<1> SUFFICES ASSUME LTypes, Calling, [LNext]_lvars PROVE Calling'
  OBVIOUS
<1> USE DEF Calling, Searching, reader, Raise, Return
<1>1. CASE Read \/ Invalidate \/ Miss \/ PopenFails \/ Popen \/ Update
  BY <1>1 DEF Read, Invalidate, Miss, Popen, PopenFails, Update
<1>2. CASE Lookup \/ Collect
  BY <1>2 DEF Lookup, Collect, Located
<1>3. CASE Walk \/ Stat \/ WalkDone
  BY <1>3 DEF Walk, Stat, WalkDone
<1>4. ASSUME NEW op \in {"dir", "node", "resource"}, NEW c \in Child, NEW n \in Name,
             Begin(op, c, n)
      PROVE  Calling'
  BY <1>4 DEF Begin
<1>5. ASSUME NEW p \in Process, ChildRuns(p) \/ ChildEnds(p) \/ \E n \in Name : ChildAsked(p, n)
      PROVE  Calling'
  BY <1>5 DEF ChildRuns, ChildEnds, ChildAsked
<1>6. ASSUME NEW x \in Path, LChange(x) PROVE Calling'
  BY <1>6 DEF LChange
<1>7. ASSUME NEW k, NEW kind, Make(k, kind) PROVE Calling'
  BY <1>7 DEF Make
<1>8. CASE LAge \/ LFinished \/ UNCHANGED lvars
  BY <1>8 DEF LAge, LFinished, lvars
<1>9. QED
  BY <1>1, <1>2, <1>3, <1>4, <1>5, <1>6, <1>7, <1>8 DEF LNext, Reading

\* What is in the list of a file is whole, and so is what is in memory.
LEMMA TableStep == IInv /\ LTypes /\ TableWhole /\ [LNext]_lvars => TableWhole'
<1> SUFFICES ASSUME IInv, LTypes, TableWhole, [LNext]_lvars PROVE TableWhole'
  OBVIOUS
<1>1. CASE UNCHANGED table
  BY <1>1 DEF TableWhole, Whole, Covers
<1>2. CASE table' = NoTable
  BY <1>2, ElementsOf DEF TableWhole, NoTable, Whole, Covers
<1>3. ASSUME NEW c, ReadFor(c), ~ UNCHANGED table PROVE TableWhole'
  <2>1. /\ Whole(cache.paths, cache.header, cache.there) /\ cache.header = Visible[c]
        /\ table' = [env |-> Visible[c], paths |-> cache.paths, there |-> cache.there]
    BY <1>3 DEF ReadFor, IInv, CacheWhole
  <2>2. QED
    BY <2>1 DEF TableWhole
<1>4. CASE Read \/ Update
  BY <1>1, <1>3, <1>4 DEF Read, Update
<1>5. CASE Lookup \/ Miss \/ Popen \/ PopenFails \/ Collect \/ Walk \/ Stat \/ WalkDone
  BY <1>1, <1>5 DEF Lookup, Miss, Popen, PopenFails, Collect, Walk, Stat, WalkDone
<1>6. CASE Invalidate
  BY <1>2, <1>6 DEF Invalidate
<1>7. ASSUME NEW op, NEW c, NEW n, Begin(op, c, n) PROVE UNCHANGED table
  BY <1>7 DEF Begin
<1>8. ASSUME NEW p, ChildRuns(p) \/ ChildEnds(p) \/ \E n \in Name : ChildAsked(p, n)
      PROVE  UNCHANGED table
  BY <1>8 DEF ChildRuns, ChildEnds, ChildAsked, reader
<1>9. ASSUME NEW x, LChange(x) PROVE UNCHANGED table
  BY <1>9 DEF LChange, reader
<1>10. ASSUME NEW k, NEW kind, Make(k, kind) PROVE UNCHANGED table
  BY <1>10 DEF Make, reader
<1>11. CASE LAge \/ LFinished \/ UNCHANGED lvars
  BY <1>1, <1>11 DEF LAge, LFinished, lvars, reader
<1>12. QED
  BY <1>1, <1>4, <1>5, <1>6, <1>7, <1>8, <1>9, <1>10, <1>11 DEF LNext, Reading

\* While the reader waits, its rospack is asked for what the call is about.
LEMMA AskingStep ==
  ASSUME IInv, LTypes, Calling, Meeting, at = "wait" => Asking(call.child),
         [LNext]_lvars, at' = "wait"
  PROVE  Asking(call.child)'
<1> USE LookupAssumption DEF LTypes, reader, files, Raise, Return
<1> DEFINE c == call.child
<1>1. c \in Process /\ c \in Child
  OBVIOUS
<1>2. CASE Popen
  <2>1. call' = call /\ there' = there /\ met' = met /\ pc'[c] = "start" /\ wanted'[c] = {}
        /\ seen'[c] = tree /\ steady'[c] = tree
    BY <1>1, <1>2 DEF Popen, End, IInv, Types
  <2>2. QED
    BY <2>1 DEF Asking, Meeting
<1>3. ASSUME at = "wait", call' = call, there' = there, met' = met, steady'[c] = steady[c],
             seen'[c] = seen[c], wanted'[c] = wanted[c], pc'[c] = pc[c]
      PROVE  Asking(call.child)'
  BY <1>3 DEF Asking
<1>4. ASSUME at = "wait", ChildRuns(c) PROVE Asking(call.child)'
  <2>1. call' = call /\ there' = there /\ met' = met
    BY <1>4 DEF ChildRuns
  <2>2. UNCHANGED <<steady, seen, wanted>>
        /\ (pc'[c] \in {"get_pkg", "answered"} => pc[c] = "get_pkg" \/ wanted[c] # {})
    <3> USE DEF IInv, Types, Goto, history, memory
    <3>0. CASE CheckCache(c) \/ LoadCache(c)
      BY <1>1, <3>0 DEF CheckCache, LoadCache
    <3>1. CASE Crawl(c) \/ CrawlDone(c)
      BY <1>1, <3>1 DEF Crawl, CrawlDone
    <3>2. CASE CreateTemp(c)
      BY <1>1, <3>2 DEF CreateTemp, Resume
    <3>3. CASE WriteTemp(c) \/ RemoveOld(c)
      BY <1>1, <3>3 DEF WriteTemp, RemoveOld
    <3>4. CASE RenameTemp(c)
      BY <1>1, <3>4 DEF RenameTemp, Resume
    <3>5. CASE Recrawl(c) \/ Throw(c) \/ \E x \in Path : Found(c, x)
      BY <1>1, <3>5 DEF Recrawl, Throw, Found, Answer
    <3>6. QED
      BY <1>4, <3>0, <3>1, <3>2, <3>3, <3>4, <3>5 DEF ChildRuns, Run
  <2>3. QED
    BY <1>4, <2>1, <2>2 DEF Asking
<1>5. ASSUME at = "wait", NEW n \in Name, ChildAsked(c, n) PROVE Asking(call.child)'
  <2>1. wanted'[c] = {n} /\ call.name = {n} /\ call' = call /\ there' = there /\ met' = met
        /\ UNCHANGED <<steady, seen>>
    BY <1>1, <1>5 DEF ChildAsked, Ask, Waiting, Calling, IInv, Types, history
  <2>2. QED
    BY <1>5, <2>1 DEF Asking
<1>6. ASSUME NEW p \in Process, ChildRuns(p) \/ \E n \in Name : ChildAsked(p, n)
      PROVE  Asking(call.child)'
  <2>1. at = "wait" /\ call' = call /\ there' = there /\ met' = met
    BY <1>6 DEF ChildRuns, ChildAsked
  <2>2. CASE p # c
    <3>1. Run(p) \/ \E n \in Name : Ask(p, n)
      BY <1>6 DEF ChildRuns, ChildAsked
    <3>2. QED
      BY <1>1, <1>3, <2>1, <2>2, <3>1, LeftAlone
  <2>3. QED
    BY <1>4, <1>5, <1>6, <2>1, <2>2
<1>7. ASSUME NEW x \in Path, LChange(x) PROVE Asking(call.child)'
  <2>1. at = "wait" /\ call' = call /\ wanted' = wanted /\ pc' = pc
        /\ there' = there \cap tree' /\ met' = met \cup tree'
        /\ steady'[c] = steady[c] \cap tree' /\ seen'[c] = seen[c] \cup tree'
    BY <1>1, <1>7 DEF LChange, Change, memory
  <2>2. QED
    BY <2>1 DEF Asking
<1>8. CASE LAge
  BY <1>3, <1>8 DEF LAge, Age, memory, history
<1>9. CASE LFinished \/ Update \/ UNCHANGED lvars \/ \E k \in 1 .. Depth, kind \in Kinds : Make(k, kind)
  BY <1>3, <1>9 DEF LFinished, Update, lvars, vars, Make
<1>10. CASE Read \/ Lookup \/ Invalidate \/ Miss \/ PopenFails \/ Collect \/ Walk \/ Stat \/ WalkDone
  BY <1>10 DEF Read, Lookup, Invalidate, Miss, PopenFails, Collect, Located, Walk, Stat, WalkDone
<1>11. ASSUME NEW op, NEW d, NEW n, Begin(op, d, n) PROVE FALSE
  BY <1>11 DEF Begin
<1>12. ASSUME NEW p \in Process, ChildEnds(p) PROVE FALSE
  BY <1>12 DEF ChildEnds
<1>13. QED
  <2> HIDE DEF LTypes, c
  <2>1. QED
    BY <1>2, <1>6, <1>7, <1>8, <1>9, <1>10, <1>11, <1>12 DEF LNext, Reading

\* The search goes on knowing what it knew when files come and go.
LEMMA LookingMore ==
  ASSUME LTypes, Looking, call' = call, pos' = pos, matches' = matches, at' = at,
         \A k \in 1 .. Depth : node'[k] \in was'[k] /\ was[k] \subseteq was'[k]
  PROVE  Looking'
<1>1. \A k \in 1 .. Depth : \A what \in {"none", "executable"} :
        was[k] # {what} => was'[k] # {what}
  BY DEF Looking
<1>2. QED
  BY <1>1 DEF Looking, LTypes

\* Every step of a search, and of those who change files, keeps what it knows.
LEMMA LookingStep ==
  ASSUME LTypes, Calling, Searching => Looking, [LNext]_lvars, Searching'
  PROVE  Looking'
<1> USE LookupAssumption DEF Searching, reader, files, Raise, Return
<1>1. CASE UNCHANGED <<at, call, pos, matches, node, was>>
  BY <1>1 DEF Looking
<1>2. CASE Lookup \/ Collect
  <2>1. /\ at' = "walk" /\ call' = call /\ call.op # "dir" /\ pos' = 1 /\ matches' = {}
        /\ node' \in Contents /\ was' = Now(node')
    BY <1>2 DEF Lookup, Collect, Located, Calling
  <2>2. \A k \in 1 .. Depth : node'[k] \in was'[k]
    BY <2>1 DEF Now
  <2>3. \A k \in 1 .. Depth : ~(k < 1)
    OBVIOUS
  <2>4. QED
    BY <2>1, <2>2, <2>3 DEF Looking
<1>3. CASE Walk
  <2>1. /\ Looking /\ at = "walk" /\ pos \in 1 .. Depth /\ call' = call
        /\ UNCHANGED <<node, was>> /\ node[pos] \in was[pos]
    BY <1>3 DEF Walk, Looking, LTypes
  <2>2. \A k \in 1 .. Depth : k < pos + 1 <=> k < pos \/ k = pos
    BY <2>1
  <2>3. CASE node[pos] = "none" /\ pos' = pos + 1 /\ UNCHANGED <<at, matches>>
    BY <2>1, <2>2, <2>3 DEF Looking, LTypes
  <2>4. CASE node[pos] # "none" /\ call.op = "node" /\ at' = "stat" /\ UNCHANGED <<pos, matches>>
    BY <2>1, <2>4 DEF Looking
  <2>5. CASE /\ node[pos] # "none" /\ call.op = "resource"
             /\ matches' = matches \cup {pos} /\ pos' = pos + 1 /\ UNCHANGED at
    <3>1. \A k \in matches' : k < pos'
      BY <2>1, <2>2, <2>5 DEF Looking, LTypes
    <3>2. ASSUME NEW k \in 1 .. Depth, k < pos'
          PROVE  IF k \in matches' THEN was[k] # {"none"} ELSE "none" \in was[k]
      BY <2>1, <2>2, <2>5, <3>2 DEF Looking
    <3>3. QED
      BY <2>1, <2>5, <3>1, <3>2 DEF Looking
  <2>6. QED
    BY <1>3, <2>3, <2>4, <2>5 DEF Walk
<1>4. CASE Stat
  <2>1. /\ Looking /\ at = "stat" /\ at' = "walk" /\ pos \in 1 .. Depth /\ pos' = pos + 1
        /\ node[pos] = "plain" /\ UNCHANGED <<call, matches, node, was>>
        /\ call.op = "node" /\ node[pos] \in was[pos]
    BY <1>4 DEF Stat, Looking
  <2>2. \A k \in 1 .. Depth : k < pos + 1 <=> k < pos \/ k = pos
    BY <2>1
  <2>3. QED
    BY <2>1, <2>2 DEF Looking
<1>5. ASSUME Looking, UNCHANGED <<at, call, pos, matches>>, NEW n, FilesBecome(n),
             n \in [1 .. Depth -> Kinds]
      PROVE  Looking'
  <2>1. \A k \in 1 .. Depth : node'[k] \in was'[k] /\ was[k] \subseteq was'[k]
    BY <1>5 DEF FilesBecome
  <2>2. QED
    BY <1>5, <2>1, LookingMore
<1>6. ASSUME NEW x \in Path, LChange(x) PROVE Looking'
  <2>1. Nowhere \in [1 .. Depth -> Kinds]
    BY DEF Nowhere, Kinds
  <2>2. QED
    BY <1>1, <1>5, <1>6, <2>1 DEF LChange
<1>7. ASSUME NEW k \in 1 .. Depth, NEW kind \in Kinds, Make(k, kind) PROVE Looking'
  <2>1. [node EXCEPT ![k] = kind] \in [1 .. Depth -> Kinds]
    BY DEF LTypes
  <2>2. QED
    BY <1>5, <1>7, <2>1 DEF Make
<1>8. ASSUME NEW p, ChildRuns(p) \/ \E n \in Name : ChildAsked(p, n) PROVE Looking'
  BY <1>1, <1>8 DEF ChildRuns, ChildAsked
<1>9. CASE LAge \/ LFinished \/ Update \/ UNCHANGED lvars
  BY <1>1, <1>9 DEF LAge, LFinished, Update, lvars
<1>10. CASE Read \/ Invalidate \/ Miss \/ Popen \/ PopenFails \/ WalkDone
  BY <1>10 DEF Read, Invalidate, Miss, Popen, PopenFails, WalkDone
<1>11. ASSUME NEW op, NEW c, NEW n, Begin(op, c, n) PROVE FALSE
  BY <1>11 DEF Begin
<1>12. ASSUME NEW p, ChildEnds(p) PROVE FALSE
  BY <1>12 DEF ChildEnds
<1>13. QED
  <2> HIDE DEF Searching
  <2>1. QED
    BY <1>2, <1>3, <1>4, <1>6, <1>7, <1>8, <1>9, <1>10, <1>11, <1>12 DEF LNext, Reading

\* A result stays honest while packages come and go and files are left alone.
LEMMA HonestMore ==
  ASSUME DirHonest, SearchHonest, result' = result, call' = call,
         met \subseteq met', there' \subseteq there, was' = was
  PROVE  DirHonest' /\ SearchHonest'
BY DEF DirHonest, SearchHonest

\* Results of other kinds claim nothing.
LEMMA NoClaim ==
  ASSUME result'.kind \in {"none", "unable", "killed"}
  PROVE  DirHonest' /\ SearchHonest'
BY DEF DirHonest, SearchHonest

\* What get_pkg_dir says at its end is honest.
LEMMA DirStep ==
  ASSUME IInv, LTypes, Calling, Meeting, TableWhole, at = "wait" => Asking(call.child),
         Lookup \/ Collect
  PROVE  DirHonest' /\ SearchHonest'
<1> DEFINE c == call.child
<1>1. /\ c \in Process /\ at # "idle" /\ call' = call /\ result = Raised("none")
      /\ there' = there /\ met' = met
  BY LookupAssumption DEF LTypes, Lookup, Collect, Located, Raise, files, Calling
<1>2. ASSUME NEW x, NEW by, Located(x, by), x \in met, NameOf[x] \in call.name,
             by = "table" => x \in ToSet(Visible[c])
      PROVE  DirHonest' /\ SearchHonest'
  <2>1. CASE call.op = "dir"
    <3>1. result' = [kind |-> "dir", path |-> x, by |-> by]
      BY <1>2, <2>1 DEF Located
    <3>2. QED
      BY <1>1, <1>2, <3>1 DEF DirHonest, SearchHonest
  <2>2. CASE call.op # "dir"
    BY <1>1, <1>2, <2>2, NoClaim DEF Located, Raised
  <2>3. QED
    BY <2>1, <2>2
<1>3. CASE Lookup
  <2>1. PICK x \in Known : x \in tree /\ Located(x, "table")
    BY <1>3 DEF Lookup
  <2>2. x \in ToSet(Visible[c]) /\ NameOf[x] \in call.name
    BY DEF Known, Entry, TableWhole, Whole, ToSet
  <2>3. QED
    BY <1>2, <2>1, <2>2 DEF Meeting
<1>4. CASE Collect
  <2>1. /\ Asking(c) /\ wanted[c] = call.name
    BY <1>4 DEF Collect, Asking
  <2>2. Honest(c)
    BY <1>1 DEF IInv, Knows
  <2>3. CASE answer[c] = NotFound /\ Raise("missing")
    <3>1. \A x \in there \cap ToSet(Visible[c]) : NameOf[x] \notin call.name
      BY <2>1, <2>2, <2>3 DEF Honest, Asking
    <3>2. QED
      BY <1>1, <2>3, <3>1 DEF Raise, Raised, DirHonest, SearchHonest
  <2>4. ASSUME answer[c].kind = "path"
        PROVE  answer[c].path \in met /\ NameOf[answer[c].path] \in call.name
    BY <2>1, <2>2, <2>4 DEF Honest, Asking
  <2>5. CASE answer[c].kind = "path" /\ Located(answer[c].path, "rospack")
    BY <1>2, <2>4, <2>5
  <2>6. CASE answer[c].kind = "path" /\ answer[c].path \notin tree /\ Raise("gone")
    <3>1. answer[c].path \in met \ there /\ NameOf[answer[c].path] \in call.name
      BY <2>4, <2>6 DEF Meeting
    <3>2. QED
      BY <1>1, <2>6, <3>1 DEF Raise, Raised, DirHonest, SearchHonest
  <2>7. QED
    BY <1>4, <2>3, <2>5, <2>6 DEF Collect
<1>5. QED
  BY <1>3, <1>4

\* What a search says at its end is honest.
LEMMA SearchStep ==
  ASSUME LTypes, Calling, Searching => Looking, Walk \/ Stat \/ WalkDone
  PROVE  DirHonest' /\ SearchHonest'
<1> USE DEF files, Return
<1>1. Looking /\ result = Raised("none") /\ was' = was /\ call' = call /\ pos \in Nat
  BY DEF Walk, Stat, WalkDone, Searching, Calling, LTypes
<1>2. CASE Walk
  BY <1>1, <1>2, NoClaim DEF Walk, Raised
<1>3. CASE Stat
  <2>1. pos \in 1 .. Depth /\ node[pos] \in was[pos] /\ was[pos] # {"none"} /\ call.op = "node"
    BY <1>1, <1>3 DEF Stat, Looking
  <2>2. CASE node[pos] = "none" /\ result' = Raised("OSError")
    BY <1>1, <2>1, <2>2 DEF Raised, DirHonest, SearchHonest
  <2>3. CASE node[pos] = "executable" /\ result' = [kind |-> "node", in |-> pos]
    <3>1. \A k \in 1 .. pos - 1 : k \in 1 .. Depth /\ k < pos
      BY LookupAssumption, <2>1
    <3>2. \A k \in 1 .. pos - 1 : was[k] # {"executable"}
      BY <1>1, <2>1, <3>1 DEF Looking
    <3>3. QED
      BY <1>1, <2>1, <2>3, <3>2 DEF DirHonest, SearchHonest
  <2>4. CASE UNCHANGED result
    BY <1>1, <2>4, NoClaim DEF Raised
  <2>5. QED
    BY <1>3, <2>2, <2>3, <2>4 DEF Stat
<1>4. CASE WalkDone
  <2>1. \A k \in 1 .. Depth : k < pos
    BY LookupAssumption, <1>1, <1>4 DEF WalkDone
  <2>2. CASE call.op = "node"
    <3>1. result' = Raised("None") /\ \A k \in 1 .. Depth : was[k] # {"executable"}
      BY <1>1, <1>4, <2>1, <2>2 DEF WalkDone, Looking
    <3>2. QED
      BY <1>1, <3>1 DEF Raised, DirHonest, SearchHonest
  <2>3. CASE call.op # "node"
    <3>1. call.op = "resource"
      BY <1>1, <2>3 DEF LTypes, Looking
    <3>2. /\ result' = [kind |-> "list", in |-> matches]
          /\ \A k \in 1 .. Depth :
               IF k \in matches THEN was[k] # {"none"} ELSE "none" \in was[k]
      BY <1>1, <1>4, <2>1, <2>3, <3>1 DEF WalkDone, Looking
    <3>3. QED
      BY <1>1, <3>2 DEF DirHonest, SearchHonest
  <2>4. QED
    BY <2>2, <2>3
<1>5. QED
  BY <1>2, <1>3, <1>4

\* Every step keeps what has been said honest.
LEMMA HonestStep ==
  ASSUME IInv, LInv, [LNext]_lvars
  PROVE  DirHonest' /\ SearchHonest'
<1> USE DEF reader, files, Raise
<1>1. /\ LTypes /\ Calling /\ Meeting /\ TableWhole /\ DirHonest /\ SearchHonest
      /\ (at = "wait" => Asking(call.child)) /\ (Searching => Looking)
  BY DEF LInv, LookupHonest
<1>2. CASE Lookup \/ Collect
  BY <1>1, <1>2, DirStep
<1>3. CASE Walk \/ Stat \/ WalkDone
  BY <1>1, <1>3, SearchStep
<1>4. CASE Read \/ Invalidate \/ Miss \/ Popen \/ Update
  BY <1>1, <1>4, HonestMore DEF Read, Invalidate, Miss, Popen, Update
<1>5. CASE PopenFails
  BY <1>5, NoClaim DEF PopenFails, Raised
<1>6. ASSUME NEW op, NEW c, NEW n, Begin(op, c, n) PROVE DirHonest' /\ SearchHonest'
  BY <1>6, NoClaim DEF Begin, Raised
<1>7. ASSUME NEW p, ChildEnds(p) PROVE DirHonest' /\ SearchHonest'
  BY <1>7, NoClaim DEF ChildEnds, Raised
<1>8. ASSUME NEW p, ChildRuns(p) \/ \E n \in Name : ChildAsked(p, n)
      PROVE  DirHonest' /\ SearchHonest'
  BY <1>1, <1>8, HonestMore DEF ChildRuns, ChildAsked
<1>9. ASSUME Searching, UNCHANGED result PROVE DirHonest' /\ SearchHonest'
  BY <1>1, <1>9, NoClaim DEF Searching, Calling, Raised
<1>10. ASSUME NEW x, LChange(x) PROVE DirHonest' /\ SearchHonest'
  <2>1. CASE Searching
    BY <1>9, <1>10, <2>1 DEF LChange
  <2>2. CASE ~Searching
    BY <1>1, <1>10, <2>2, HonestMore DEF LChange
  <2>3. QED
    BY <2>1, <2>2
<1>11. ASSUME NEW k, NEW kind, Make(k, kind) PROVE DirHonest' /\ SearchHonest'
  BY <1>9, <1>11 DEF Make
<1>12. CASE LAge \/ LFinished \/ UNCHANGED lvars
  BY <1>1, <1>12, HonestMore DEF LAge, LFinished, lvars
<1>13. QED
  BY <1>2, <1>3, <1>4, <1>5, <1>6, <1>7, <1>8, <1>10, <1>11, <1>12 DEF LNext, Reading

\* The initial states satisfy the reader's invariant.
LEMMA LInitInv == LInit => IInv /\ LInv
<1> SUFFICES ASSUME LInit PROVE IInv /\ LInv
  OBVIOUS
<1>1. IInv
  BY InitInv DEF LInit
<1>2. LTypes
  BY LookupAssumption DEF LInit, LTypes, Nowhere, Now, Kinds
<1>3. at = "idle" /\ result.kind = "none" /\ there = tree /\ met = tree
  BY DEF LInit, Raised
<1>4. TableWhole
  BY ElementsOf DEF LInit, TableWhole, NoTable, Whole, Covers
<1>5. QED
  BY <1>1, <1>2, <1>3, <1>4
  DEF LInv, Calling, Meeting, Searching, LookupHonest, DirHonest, SearchHonest

\* Rospack's invariant and the reader's hold in every reachable state.
LEMMA LInvariance == LSpec => [](IInv /\ LInv)
<1>1. ASSUME IInv, LInv, [LNext]_lvars PROVE IInv' /\ LInv'
  <2>1. /\ LTypes /\ Calling /\ Meeting /\ TableWhole
        /\ (at = "wait" => Asking(call.child)) /\ (Searching => Looking)
    BY <1>1 DEF LInv, LookupHonest
  <2>2. [Next]_vars
    BY <1>1, <2>1, Simulation
  <2>3. IInv'
    BY <1>1, <2>2, TypesStep, KnowsStep, WholeStep DEF IInv
  <2>4. LTypes' /\ Calling' /\ Meeting' /\ TableWhole'
    BY <1>1, <2>1, LTypesStep, CallingStep, MeetingStep, TableStep
  <2>5. at' = "wait" => Asking(call.child)'
    BY <1>1, <2>1, AskingStep
  <2>6. Searching' => Looking'
    BY <1>1, <2>1, LookingStep
  <2>7. DirHonest' /\ SearchHonest'
    BY <1>1, HonestStep
  <2>8. QED
    BY <2>3, <2>4, <2>5, <2>6, <2>7 DEF LInv, LookupHonest
<1>2. QED
  BY LInitInv, <1>1, PTL DEF LSpec

\* The reader and its world do to the cache file and to the rospack processes
\* only what rospack itself does: they implement RospackCache.
THEOREM ReaderIsHarmless == LSpec => Spec
<1>1. LInit => Init
  BY DEF LInit
<1>2. IInv /\ LInv /\ [LNext]_lvars => [Next]_vars
  BY Simulation DEF LInv
<1>3. QED
  BY <1>1, <1>2, LInvariance, PTL DEF LSpec, Spec

\* roslib is honest about packages and about the files in them, whoever writes
\* or removes the cache file, changes packages or ends rospack meanwhile.
THEOREM HonestLookups == LSpec => []LookupHonest
<1>1. LInv => LookupHonest
  BY DEF LInv
<1>2. QED
  BY LInvariance, <1>1, PTL

-----------------------------------------------------------------------------
(* The crawl through directories, RospackCrawl.                            *)

Entries(D) == [dir : D, depth : Nat, start : Int, root : Nat]

\* What the parts of the state are.
CrawlTypes ==
  /\ world \in Worlds
  /\ unqueued \in Seq(Directory(world)) /\ Len(unqueued) <= Len(world.roots)
  /\ \A j \in DOMAIN unqueued : unqueued[j] = world.roots[NextRoot - 1 + j]
  /\ queue \in Seq(Entries(Directory(world)))
  /\ reading \in Entries(Directory(world))
  /\ entries \in Seq(Directory(world))
  /\ packages \in Seq(Directory(world))
  /\ total \in Nat
  /\ profile \in Seq([dir : Directory(world), zombie : BOOLEAN])
  /\ entries # <<>> => unqueued = <<>> /\ failure = "none"

\* The queue holds directories of the roots in the order of the roots, ...
InOrder ==
  /\ \A a, b \in DOMAIN queue : a < b => queue[a].root <= queue[b].root
  /\ \A a \in DOMAIN queue :
       /\ queue[a].root \in 1 .. NextRoot - 1 /\ Kept(queue[a].root)
       /\ world.inside[queue[a].dir] \subseteq world.inside[world.roots[queue[a].root]]
       /\ entries # <<>> => reading.root <= queue[a].root
  /\ entries # <<>> =>
       /\ reading.root \in DOMAIN world.roots /\ Kept(reading.root)
       /\ world.inside[reading.dir] \subseteq world.inside[world.roots[reading.root]]
       /\ reading.dir \notin world.package \cup world.unreadable
       /\ \A j \in DOMAIN entries : entries[j] \in ToSet(world.sub[reading.dir])

Listed(n) == \E k \in DOMAIN packages : world.name[packages[k]] = n

InQueue(i, d) ==
  \E a \in DOMAIN queue :
    queue[a].start = -1 /\ queue[a].root = i /\ d \in world.inside[queue[a].dir]

InEntries(d) ==
  \E j \in DOMAIN entries : entries[j] \in Below(world, reading.dir) /\ d \in world.inside[entries[j]]

\* ... so a package of a root in the queue is listed or will be come across.
Covered ==
  failure = "none" =>
    \A i \in 1 .. NextRoot - 1 : \A d \in Offers(i) :
      Listed(world.name[d]) \/ InQueue(i, d) \/ (reading.root = i /\ InEntries(d))

\* A package was listed when no earlier root could offer one of its name.
FirstRoot ==
  \A k \in DOMAIN packages :
    /\ \E i \in DOMAIN world.roots : packages[k] \in Offers(i)
    /\ \A i \in DOMAIN world.roots : \A d \in Offers(i) :
         world.name[d] = world.name[packages[k]] => \E j \in 1 .. i : packages[k] \in Offers(j)

Once ==
  \A k, l \in DOMAIN packages :
    world.name[packages[k]] = world.name[packages[l]] => k = l

\* What will be come across before entry b of the queue
InFront(b, d) ==
  \E a \in DOMAIN queue :
    a < b /\ queue[a].start = -1 /\ d \in world.inside[queue[a].dir]

\* In front of a directory that was put back nothing is a package itself, and if no
\* package was come across since, those below it are still to come.
Marks ==
  \A b \in DOMAIN queue : queue[b].start # -1 =>
    /\ world.profile
    /\ queue[b].start \in 0 .. total
    /\ queue[b].dir \notin world.package
    /\ \A a \in 1 .. b - 1 : queue[a].dir \notin world.package
    /\ queue[b].start = total /\ failure = "none" =>
         \A d \in world.inside[queue[b].dir] \cap world.package :
           InFront(b, d) \/ InEntries(d)

CrawlInv ==
  CrawlTypes /\ InOrder /\ Covered /\ FirstRoot /\ Once /\ Marks /\ ZombiesEmpty

-----------------------------------------------------------------------------
\* Putting an element in front of a sequence.
LEMMA PushedFront ==
  ASSUME NEW S, NEW x \in S, NEW q \in Seq(S)
  PROVE  /\ <<x>> \o q \in Seq(S)
         /\ Len(<<x>> \o q) = Len(q) + 1
         /\ (<<x>> \o q)[1] = x
         /\ \A i \in 1 .. Len(q) : (<<x>> \o q)[i + 1] = q[i]
         /\ \A i \in 2 .. Len(q) + 1 : (<<x>> \o q)[i] = q[i - 1]
OBVIOUS

LEMMA Shortened ==
  ASSUME NEW S, NEW q \in Seq(S), q # <<>>
  PROVE  /\ Tail(q) \in Seq(S) /\ Head(q) \in S /\ Head(q) = q[1]
         /\ Len(q) \in Nat \ {0} /\ Len(Tail(q)) = Len(q) - 1
         /\ \A i \in 1 .. Len(q) - 1 : Tail(q)[i] = q[i + 1]
         /\ \A i \in 2 .. Len(q) : q[i] = Tail(q)[i - 1]
OBVIOUS

LEMMA Lengthened ==
  ASSUME NEW S, NEW q \in Seq(S), NEW x \in S
  PROVE  /\ Append(q, x) \in Seq(S) /\ Len(Append(q, x)) = Len(q) + 1
         /\ \A i \in 1 .. Len(q) : Append(q, x)[i] = q[i]
         /\ Append(q, x)[Len(q) + 1] = x
OBVIOUS

\* What can be come to from a directory can be come to from one that leads there.
LEMMA InsideLess ==
  ASSUME NEW w \in Worlds, NEW x \in Directory(w)
  PROVE  /\ x \in w.inside[x]
         /\ \A s \in Below(w, x) : w.inside[s] \subseteq w.inside[x]
BY WorldAssumption

\* A package below a directory that is none can be come to from a subdirectory.
LEMMA InsideMore ==
  ASSUME NEW w \in Worlds, NEW x \in Directory(w), x \notin w.package,
         NEW d \in w.inside[x] \cap w.package
  PROVE  /\ x \notin w.unreadable
         /\ \E j \in DOMAIN w.sub[x] : w.sub[x][j] \in Below(w, x) /\ d \in w.inside[w.sub[x][j]]
<1>1. PICK s \in Below(w, x) : d \in w.inside[s]
  BY WorldAssumption
<1>2. x \notin w.unreadable /\ s \in ToSet(w.sub[x])
  BY <1>1 DEF Below
<1> QED
  BY <1>1, <1>2 DEF ToSet

LEMMA WorldFacts ==
  ASSUME CrawlTypes
  PROVE  /\ world.roots \in Seq(Directory(world)) /\ Len(world.roots) \in Nat \ {0}
         /\ world.sub \in [Directory(world) -> Seq(Directory(world))]
         /\ world.profile \in BOOLEAN
         /\ NextRoot \in 1 .. Len(world.roots) + 1
         /\ Len(unqueued) \in Nat /\ NextRoot = Len(world.roots) - Len(unqueued) + 1
<1>1. world \in Worlds /\ unqueued \in Seq(Directory(world)) /\ Len(unqueued) <= Len(world.roots)
  BY DEF CrawlTypes
<1>2. /\ world.roots \in Seq(Directory(world)) /\ world.roots # <<>>
      /\ world.sub \in [Directory(world) -> Seq(Directory(world))]
      /\ world.profile \in BOOLEAN
  BY <1>1, WorldAssumption
<1>3. Len(world.roots) \in Nat \ {0} /\ Len(unqueued) \in Nat
  BY <1>1, <1>2
<1> QED
  BY <1>1, <1>2, <1>3 DEF NextRoot

\* What add_package does to the list.
LEMMA Listing ==
  ASSUME CrawlTypes, world' = world, NEW d \in Directory(world), ListPackage(d)
  PROVE  /\ packages' \in Seq(Directory(world))
         /\ \A n : Listed(n) => Listed(n)'
         /\ Listed(world.name[d])'
         /\ packages' = packages \/ (packages' = Append(packages, d) /\ ~Listed(world.name[d]))
<1>1. packages \in Seq(Directory(world))
  BY DEF CrawlTypes
<1>2. CASE Listed(world.name[d])
  BY <1>1, <1>2 DEF Listed, ListPackage
<1>3. CASE ~Listed(world.name[d])
  <2>1. packages' = Append(packages, d)
    BY <1>3 DEF Listed, ListPackage
  <2>2. /\ packages' \in Seq(Directory(world)) /\ Len(packages') = Len(packages) + 1
        /\ \A k \in 1 .. Len(packages) : packages'[k] = packages[k]
        /\ packages'[Len(packages) + 1] = d
    BY <1>1, <2>1, Lengthened
  <2>3. DOMAIN packages = 1 .. Len(packages) /\ DOMAIN packages' = 1 .. Len(packages) + 1
        /\ Len(packages) \in Nat
    BY <1>1, <2>2
  <2>4. Listed(world.name[d])'
    BY <2>2, <2>3 DEF Listed
  <2>5. ASSUME NEW n, Listed(n)
        PROVE  Listed(n)'
    <3>1. PICK k \in DOMAIN packages : world.name[packages[k]] = n
      BY <2>5 DEF Listed
    <3>2. k \in DOMAIN packages' /\ world.name[packages'[k]] = n
      BY <2>2, <2>3, <3>1
    <3> QED
      BY <3>2 DEF Listed
  <2> QED
    BY <1>3, <2>1, <2>2, <2>4, <2>5
<1> QED
  BY <1>2, <1>3

\* The entry at the head of the queue, and what is left of the queue.
LEMMA HeadFacts ==
  ASSUME CrawlTypes, queue # <<>>
  PROVE  /\ Head(queue) \in Entries(Directory(world)) /\ Head(queue) = queue[1]
         /\ Head(queue).dir \in Directory(world)
         /\ Tail(queue) \in Seq(Entries(Directory(world)))
         /\ Len(queue) \in Nat \ {0} /\ Len(Tail(queue)) = Len(queue) - 1
         /\ DOMAIN queue = 1 .. Len(queue) /\ DOMAIN Tail(queue) = 1 .. Len(queue) - 1
         /\ \A i \in 1 .. Len(queue) - 1 : Tail(queue)[i] = queue[i + 1]
<1>1. queue \in Seq(Entries(Directory(world)))
  BY DEF CrawlTypes
<1>2. Head(queue) \in Entries(Directory(world))
  BY <1>1
<1> QED
  BY <1>1, <1>2, Shortened DEF Entries

\* The subdirectory that is read.
LEMMA EntryFacts ==
  ASSUME CrawlTypes, entries # <<>>
  PROVE  /\ Head(entries) \in Directory(world) /\ Head(entries) = entries[1]
         /\ Tail(entries) \in Seq(Directory(world))
         /\ Len(entries) \in Nat \ {0} /\ Len(Tail(entries)) = Len(entries) - 1
         /\ DOMAIN entries = 1 .. Len(entries) /\ DOMAIN Tail(entries) = 1 .. Len(entries) - 1
         /\ \A i \in 1 .. Len(entries) - 1 : Tail(entries)[i] = entries[i + 1]
         /\ unqueued = <<>> /\ failure = "none"
BY Shortened DEF CrawlTypes

LEMMA QueuedEntry ==
  ASSUME NEW D, NEW d \in D, NEW depth \in Nat, NEW root \in Nat
  PROVE  QueueEntry(d, depth, root) \in Entries(D)
BY DEF QueueEntry, Entries

-----------------------------------------------------------------------------
LEMMA CrawlTypesStep == CrawlTypes /\ [CrawlNext]_crawlVars => CrawlTypes'
<1> SUFFICES ASSUME CrawlTypes, [CrawlNext]_crawlVars
             PROVE  CrawlTypes'
  OBVIOUS
<1> DEFINE D == Directory(world)
<1>0. CASE UNCHANGED crawlVars
  BY <1>0 DEF crawlVars, crawling, CrawlTypes, Directory, NextRoot
<1>a. world' = world
  BY <1>0 DEF CrawlNext, QueueRoot, TooDeep, VisitPackage, Profiled, OpenDirectory, ReadEntry,
    crawlVars, crawling
<1>b. Directory(world)' = D
  BY <1>a DEF Directory
<1>1. CASE QueueRoot
  <2>1. /\ unqueued \in Seq(D) /\ unqueued # <<>> /\ Len(unqueued) <= Len(world.roots)
        /\ \A j \in DOMAIN unqueued : unqueued[j] = world.roots[NextRoot - 1 + j]
    BY <1>1 DEF CrawlTypes, QueueRoot
  <2>2. /\ unqueued' = Tail(unqueued) /\ unqueued' \in Seq(D) /\ Len(unqueued') = Len(unqueued) - 1
        /\ \A i \in 1 .. Len(unqueued) - 1 : unqueued'[i] = unqueued[i + 1]
        /\ Head(unqueued) \in D /\ Len(unqueued) \in Nat \ {0}
    BY <1>1, <2>1, Shortened DEF QueueRoot
  <2>3. NextRoot' = NextRoot + 1 /\ NextRoot \in Nat /\ Len(world.roots) \in Nat
    BY <1>a, <2>2, WorldFacts DEF NextRoot
  <2>4. \A j \in DOMAIN unqueued' : unqueued'[j] = world.roots[NextRoot' - 1 + j]
    <3> TAKE j \in DOMAIN unqueued'
    <3>1. j \in 1 .. Len(unqueued) - 1 /\ j + 1 \in DOMAIN unqueued
      BY <2>1, <2>2
    <3>2. unqueued'[j] = world.roots[NextRoot - 1 + (j + 1)]
      BY <2>1, <2>2, <3>1
    <3> QED
      BY <2>3, <3>1, <3>2
  <2>5. queue' \in Seq(Entries(D))
    <3>1. queue \in Seq(Entries(D))
      BY DEF CrawlTypes
    <3>2. QueueEntry(Head(unqueued), 1, NextRoot) \in Entries(D)
      BY <2>2, <2>3, QueuedEntry
    <3> QED
      BY <1>1, <3>1, <3>2, Lengthened DEF QueueRoot
  <2>6. entries = <<>>
    BY <2>1 DEF CrawlTypes
  <2> QED
    BY <1>1, <1>a, <1>b, <2>1, <2>2, <2>4, <2>5, <2>6 DEF CrawlTypes, QueueRoot
<1>2. CASE TooDeep
  BY <1>2, <1>a, <1>b, HeadFacts DEF TooDeep, Visiting, CrawlTypes, NextRoot
<1>3. CASE VisitPackage
  <2>1. packages' \in Seq(D)
    BY <1>3, <1>a, HeadFacts, Listing DEF VisitPackage, Visiting
  <2> QED
    BY <1>3, <1>a, <1>b, <2>1, HeadFacts DEF VisitPackage, Visiting, CrawlTypes, NextRoot
<1>4. CASE Profiled
  <2>1. profile' \in Seq([dir : D, zombie : BOOLEAN])
    <3>1. [dir |-> Head(queue).dir, zombie |-> Head(queue).start = total] \in [dir : D, zombie : BOOLEAN]
      BY <1>4, HeadFacts DEF Profiled, Visiting
    <3> QED
      BY <1>4, <3>1, Lengthened DEF Profiled, CrawlTypes
  <2> QED
    BY <1>4, <1>a, <1>b, <2>1, HeadFacts DEF Profiled, Visiting, CrawlTypes, NextRoot
<1>5. CASE OpenDirectory
  <2>1. /\ Head(queue) \in Entries(D) /\ Head(queue).dir \in D /\ Tail(queue) \in Seq(Entries(D))
    BY <1>5, HeadFacts DEF OpenDirectory, Visiting
  <2>2. [Head(queue) EXCEPT !.start = total] \in Entries(D)
    <3>1. ASSUME NEW S, NEW e \in Entries(S), NEW n \in Int
          PROVE  [e EXCEPT !.start = n] \in Entries(S)
      BY DEF Entries
    <3>2. total \in Int
      BY DEF CrawlTypes
    <3> QED
      BY <2>1, <3>1, <3>2
  <2>3. queue' \in Seq(Entries(D))
    BY <1>5, <2>1, <2>2, PushedFront DEF OpenDirectory
  <2>4. entries' \in Seq(D)
    BY <1>5, <2>1, WorldFacts DEF OpenDirectory
  <2> QED
    BY <1>5, <1>a, <1>b, <2>1, <2>3, <2>4 DEF OpenDirectory, Visiting, CrawlTypes, NextRoot
<1>6. CASE ReadEntry
  <2>1. /\ Head(entries) \in D /\ Tail(entries) \in Seq(D) /\ unqueued = <<>> /\ failure = "none"
    BY <1>6, EntryFacts DEF ReadEntry
  <2>2. queue \in Seq(Entries(D)) /\ packages \in Seq(D) /\ total \in Nat /\ reading \in Entries(D)
    BY DEF CrawlTypes
  <2>3. packages' \in Seq(D)
    BY <1>6, <1>a, <2>1, <2>2, Listing DEF ReadEntry, Enqueue
  <2>4. queue' \in Seq(Entries(D))
    <3>1. reading.depth + 1 \in Nat /\ reading.root \in Nat
      BY <2>2 DEF Entries
    <3>2. QueueEntry(Head(entries), reading.depth + 1, reading.root) \in Entries(D)
      BY <2>1, <3>1, QueuedEntry
    <3>3. CASE queue' = queue
      BY <2>2, <3>3
    <3>4. CASE Enqueue(Head(entries))
      BY <2>2, <3>2, <3>4, PushedFront DEF Enqueue
    <3> QED
      BY <1>6, <3>3, <3>4 DEF ReadEntry
  <2>5. total' \in Nat
    BY <1>6, <2>2 DEF ReadEntry
  <2> QED
    BY <1>6, <1>a, <1>b, <2>1, <2>3, <2>4, <2>5 DEF ReadEntry, CrawlTypes, NextRoot
<1> QED
  BY <1>0, <1>1, <1>2, <1>3, <1>4, <1>5, <1>6 DEF CrawlNext

LEMMA SameWorld ==
  ASSUME world' = world
  PROVE  /\ \A i : Kept(i)' <=> Kept(i)
         /\ \A i : Offers(i)' = Offers(i)
BY DEF Kept, Offers

\* What is read is below the directory that is read.
LEMMA ReadingFacts ==
  ASSUME CrawlTypes, InOrder, entries # <<>>
  PROVE  /\ reading.dir \in Directory(world) /\ reading.root \in DOMAIN world.roots
         /\ reading.dir \notin world.package \cup world.unreadable /\ Kept(reading.root)
         /\ reading.root \in 1 .. NextRoot - 1
         /\ \A s \in ToSet(entries) \ world.hidden :
              s \in world.package \/ s \notin world.nosubdirs =>
                /\ s \in Below(world, reading.dir)
                /\ world.inside[s] \subseteq world.inside[world.roots[reading.root]]
                /\ s \in world.inside[s]
<1>1. /\ reading.dir \in Directory(world) /\ unqueued = <<>> /\ world \in Worlds
      /\ entries \in Seq(Directory(world))
  BY DEF CrawlTypes, Entries
<1>2. /\ reading.root \in DOMAIN world.roots /\ Kept(reading.root)
      /\ world.inside[reading.dir] \subseteq world.inside[world.roots[reading.root]]
      /\ reading.dir \notin world.package \cup world.unreadable
      /\ \A j \in DOMAIN entries : entries[j] \in ToSet(world.sub[reading.dir])
  BY DEF InOrder
<1>3. reading.root \in 1 .. NextRoot - 1
  BY <1>1, <1>2, WorldFacts
<1>4. ASSUME NEW s \in ToSet(entries) \ world.hidden, s \in world.package \/ s \notin world.nosubdirs
      PROVE  s \in Below(world, reading.dir) /\ s \in Directory(world)
  <2>1. PICK j \in DOMAIN entries : entries[j] = s
    BY <1>4 DEF ToSet
  <2> QED
    BY <1>1, <1>2, <1>4, <2>1 DEF Below
<1> QED
  BY <1>1, <1>2, <1>3, <1>4, InsideLess

LEMMA InOrderStep == CrawlTypes /\ InOrder /\ [CrawlNext]_crawlVars => InOrder'
<1> SUFFICES ASSUME CrawlTypes, InOrder, [CrawlNext]_crawlVars
             PROVE  InOrder'
  OBVIOUS
<1>0. CASE UNCHANGED crawlVars
  BY <1>0 DEF crawlVars, crawling, InOrder, NextRoot, Kept
<1>a. world' = world
  BY <1>0 DEF CrawlNext, QueueRoot, TooDeep, VisitPackage, Profiled, OpenDirectory, ReadEntry,
    crawlVars, crawling
<1>b. \A i : Kept(i)' <=> Kept(i)
  BY <1>a, SameWorld
<1> DEFINE Roots(q) == \A a, b \in DOMAIN q : a < b => q[a].root <= q[b].root
           Inside(e) == world.inside[e.dir] \subseteq world.inside[world.roots[e.root]]
<1>c. /\ Roots(queue)
      /\ \A a \in DOMAIN queue :
           queue[a].root \in 1 .. NextRoot - 1 /\ Kept(queue[a].root) /\ Inside(queue[a])
  BY DEF InOrder
<1>d. ASSUME queue # <<>>, queue' = Tail(queue), NextRoot' = NextRoot, entries' = <<>>
      PROVE  InOrder'
  <2>1. /\ DOMAIN queue = 1 .. Len(queue) /\ DOMAIN queue' = 1 .. Len(queue) - 1
        /\ Len(queue) \in Nat /\ \A i \in 1 .. Len(queue) - 1 : queue'[i] = queue[i + 1]
    BY <1>d, HeadFacts
  <2>2. Roots(queue')
    BY <1>c, <2>1
  <2>3. \A a \in DOMAIN queue' :
          queue'[a].root \in 1 .. NextRoot' - 1 /\ Kept(queue'[a].root) /\ Inside(queue'[a])
    BY <1>c, <1>d, <2>1
  <2> QED
    BY <1>a, <1>b, <1>d, <2>2, <2>3 DEF InOrder
<1>1. CASE QueueRoot
  <2> DEFINE e == QueueEntry(Head(unqueued), 1, NextRoot)
  <2>1. /\ unqueued # <<>> /\ unqueued \in Seq(Directory(world)) /\ entries = <<>> /\ entries' = entries
        /\ \A j \in DOMAIN unqueued : unqueued[j] = world.roots[NextRoot - 1 + j]
        /\ queue \in Seq(Entries(Directory(world)))
    BY <1>1 DEF QueueRoot, CrawlTypes
  <2>2. Head(unqueued) = world.roots[NextRoot] /\ Head(unqueued) \in Directory(world)
    BY <2>1, WorldFacts
  <2>3. NextRoot' = NextRoot + 1 /\ NextRoot \in Nat \ {0}
    BY <1>1, <1>a, <2>1, Shortened, WorldFacts DEF QueueRoot, NextRoot
  <2>4. e \in Entries(Directory(world)) /\ Inside(e) /\ e.root = NextRoot
    BY <2>2, <2>3, QueuedEntry DEF QueueEntry
  <2>5. CASE ~Kept(NextRoot)
    BY <1>1, <1>a, <1>b, <1>c, <2>1, <2>3, <2>5 DEF InOrder, QueueRoot
  <2>6. CASE Kept(NextRoot)
    <3>1. /\ Len(queue') = Len(queue) + 1 /\ queue' \in Seq(Entries(Directory(world)))
          /\ \A i \in 1 .. Len(queue) : queue'[i] = queue[i]
          /\ queue'[Len(queue) + 1] = e
      BY <1>1, <2>1, <2>4, <2>6, Lengthened DEF QueueRoot
    <3>2. DOMAIN queue = 1 .. Len(queue) /\ DOMAIN queue' = 1 .. Len(queue) + 1 /\ Len(queue) \in Nat
      BY <2>1, <3>1
    <3> HIDE DEF e, Inside
    <3>3. \A a \in DOMAIN queue' :
            queue'[a].root \in 1 .. NextRoot' - 1 /\ Kept(queue'[a].root) /\ Inside(queue'[a])
      BY <1>c, <2>3, <2>4, <2>6, <3>1, <3>2
    <3>4. Roots(queue')
      BY <1>c, <2>3, <2>4, <3>1, <3>2
    <3> QED
      BY <1>a, <1>b, <2>1, <3>3, <3>4 DEF InOrder, Inside
  <2> QED
    BY <2>5, <2>6
<1>2. CASE TooDeep
  BY <1>2, <1>a, <1>d DEF TooDeep, Visiting, NextRoot
<1>3. CASE VisitPackage
  BY <1>3, <1>a, <1>d DEF VisitPackage, Visiting, NextRoot
<1>4. CASE Profiled
  BY <1>4, <1>a, <1>d DEF Profiled, Visiting, NextRoot
<1>5. CASE OpenDirectory
  <2> DEFINE e == Head(queue)
             m == [e EXCEPT !.start = total]
  <2>1. /\ e \in Entries(Directory(world)) /\ e = queue[1] /\ e.dir \in Directory(world)
        /\ Tail(queue) \in Seq(Entries(Directory(world))) /\ Len(queue) \in Nat \ {0}
        /\ DOMAIN queue = 1 .. Len(queue) /\ DOMAIN Tail(queue) = 1 .. Len(queue) - 1
        /\ \A i \in 1 .. Len(queue) - 1 : Tail(queue)[i] = queue[i + 1]
        /\ Len(Tail(queue)) = Len(queue) - 1
    BY <1>5, HeadFacts DEF OpenDirectory, Visiting
  <2>2. NextRoot' = NextRoot /\ reading' = e
    BY <1>5, <1>a DEF OpenDirectory, NextRoot
  <2>3. /\ e.root \in 1 .. NextRoot - 1 /\ Kept(e.root) /\ Inside(e) /\ e.root \in DOMAIN world.roots
        /\ \A a \in DOMAIN queue : e.root <= queue[a].root
    <3>1. /\ e.root \in 1 .. NextRoot - 1 /\ Kept(e.root) /\ Inside(e)
      BY <1>c, <2>1
    <3>2. \A a \in DOMAIN queue : e.root <= queue[a].root
      BY <1>c, <2>1
    <3> QED
      BY <3>1, <3>2, WorldFacts
  <2>4. /\ \A a \in DOMAIN queue' :
             /\ queue'[a].root \in 1 .. NextRoot - 1 /\ Kept(queue'[a].root) /\ Inside(queue'[a])
             /\ e.root <= queue'[a].root
        /\ Roots(queue')
    <3>1. CASE ~world.profile
      <4>1. queue' = Tail(queue)
        BY <1>5, <2>1, <3>1 DEF OpenDirectory
      <4> HIDE DEF e, Inside
      <4> QED
        BY <1>c, <2>1, <2>3, <4>1
    <3>2. CASE world.profile
      <4>1. /\ m \in Entries(Directory(world)) /\ m.root = e.root /\ m.dir = e.dir
        <5>1. ASSUME NEW S, NEW x \in Entries(S), NEW n \in Int
              PROVE  /\ [x EXCEPT !.start = n] \in Entries(S)
                     /\ [x EXCEPT !.start = n].root = x.root /\ [x EXCEPT !.start = n].dir = x.dir
          BY DEF Entries
        <5>2. total \in Int
          BY DEF CrawlTypes
        <5> HIDE DEF e
        <5> QED
          BY <2>1, <5>1, <5>2
      <4>2. queue' = <<m>> \o Tail(queue)
        BY <1>5, <3>2 DEF OpenDirectory
      <4> HIDE DEF m
      <4>3. /\ Len(queue') = Len(queue) /\ queue'[1] = m /\ queue' \in Seq(Entries(Directory(world)))
            /\ \A i \in 1 .. Len(queue) - 1 : queue'[i + 1] = Tail(queue)[i]
        BY <2>1, <4>1, <4>2, PushedFront
      <4>4. DOMAIN queue' = 1 .. Len(queue)
        BY <4>3
      <4>5. \A a \in DOMAIN queue' : a = 1 \/ (a \in DOMAIN queue /\ queue'[a] = queue[a])
        <5> TAKE a \in DOMAIN queue'
        <5>1. CASE a # 1
          <6>1. a - 1 \in 1 .. Len(queue) - 1 /\ (a - 1) + 1 = a /\ a \in DOMAIN queue
            BY <2>1, <4>4, <5>1
          <6>2. queue'[a] = Tail(queue)[a - 1] /\ Tail(queue)[a - 1] = queue[a]
            BY <2>1, <4>3, <6>1
          <6> QED
            BY <6>1, <6>2
        <5> QED
          BY <5>1
      <4> HIDE DEF e
      <4>6. Inside(m)
        BY <2>3, <4>1
      <4> HIDE DEF Inside
      <4>7. /\ \A a \in DOMAIN queue' :
             /\ queue'[a].root \in 1 .. NextRoot - 1 /\ Kept(queue'[a].root) /\ Inside(queue'[a])
             /\ e.root <= queue'[a].root
        BY <1>c, <2>3, <4>1, <4>3, <4>5, <4>6
      <4>8. ASSUME NEW a \in DOMAIN queue', NEW b \in DOMAIN queue', a < b
            PROVE  queue'[a].root <= queue'[b].root
        <5>1. CASE a = 1
          BY <4>1, <4>3, <4>7, <5>1
        <5>2. CASE a # 1
          BY <1>c, <4>4, <4>5, <4>8, <5>2
        <5> QED
          BY <5>1, <5>2
      <4> QED
        BY <4>7, <4>8
    <3> QED
      BY <3>1, <3>2, WorldFacts
  <2>5. entries' # <<>> =>
          /\ e.dir \notin world.package \cup world.unreadable
          /\ \A j \in DOMAIN entries' : entries'[j] \in ToSet(world.sub[e.dir])
    BY <1>5 DEF OpenDirectory, ToSet
  <2> HIDE DEF e
  <2> QED
    BY <1>a, <1>b, <2>2, <2>3, <2>4, <2>5 DEF InOrder
<1>6. CASE ReadEntry
  <2>1. /\ entries # <<>> /\ entries' = Tail(entries) /\ reading' = reading /\ NextRoot' = NextRoot
    BY <1>6, <1>a DEF ReadEntry, NextRoot
  <2>2. /\ Len(entries) \in Nat \ {0} /\ DOMAIN entries = 1 .. Len(entries)
        /\ DOMAIN entries' = 1 .. Len(entries) - 1
        /\ \A i \in 1 .. Len(entries) - 1 : entries'[i] = entries[i + 1]
        /\ Head(entries) = entries[1] /\ Head(entries) \in Directory(world)
    BY <2>1, EntryFacts
  <2>3. /\ reading.root \in DOMAIN world.roots /\ Kept(reading.root) /\ Inside(reading)
        /\ reading.dir \notin world.package \cup world.unreadable
        /\ \A j \in DOMAIN entries' : entries'[j] \in ToSet(world.sub[reading.dir])
        /\ \A a \in DOMAIN queue : reading.root <= queue[a].root
    BY <2>1, <2>2 DEF InOrder
  <2>4. CASE queue' = queue
    BY <1>a, <1>b, <1>c, <2>1, <2>3, <2>4 DEF InOrder
  <2>5. CASE Head(entries) \notin world.hidden /\ Head(entries) \notin world.nosubdirs /\ Enqueue(Head(entries))
    <3> DEFINE e == QueueEntry(Head(entries), reading.depth + 1, reading.root)
    <3>1. e \in Entries(Directory(world)) /\ e.root = reading.root /\ e.dir = Head(entries)
      <4>1. reading.depth + 1 \in Nat /\ reading.root \in Nat
        BY DEF CrawlTypes, Entries
      <4> QED
        BY <2>2, <4>1, QueuedEntry DEF QueueEntry
    <3>2. Head(entries) \in ToSet(entries) \ world.hidden
      BY <2>2, <2>5 DEF ToSet
    <3>3. Inside(e) /\ e.root \in 1 .. NextRoot - 1 /\ Kept(e.root)
      BY <2>1, <2>5, <3>1, <3>2, ReadingFacts
    <3>4. queue' = <<e>> \o queue
      BY <2>5 DEF Enqueue
    <3> HIDE DEF e
    <3>5. queue \in Seq(Entries(Directory(world)))
      BY DEF CrawlTypes
    <3>6. /\ Len(queue') = Len(queue) + 1 /\ queue'[1] = e /\ queue' \in Seq(Entries(Directory(world)))
          /\ \A i \in 2 .. Len(queue) + 1 : queue'[i] = queue[i - 1]
      BY <3>1, <3>4, <3>5, PushedFront
    <3>7. DOMAIN queue = 1 .. Len(queue) /\ DOMAIN queue' = 1 .. Len(queue) + 1 /\ Len(queue) \in Nat
      BY <3>5, <3>6
    <3>8. \A a \in DOMAIN queue' : a = 1 \/ (a - 1 \in DOMAIN queue /\ queue'[a] = queue[a - 1])
      BY <3>6, <3>7
    <3> HIDE DEF Inside
    <3>9. \A a \in DOMAIN queue' :
            /\ queue'[a].root \in 1 .. NextRoot - 1 /\ Kept(queue'[a].root) /\ Inside(queue'[a])
            /\ reading.root <= queue'[a].root
      BY <1>c, <2>3, <3>1, <3>3, <3>6, <3>8
    <3>10. ASSUME NEW a \in DOMAIN queue', NEW b \in DOMAIN queue', a < b
           PROVE  queue'[a].root <= queue'[b].root
      <4>1. CASE a = 1
        BY <3>1, <3>6, <3>9, <4>1
      <4>2. CASE a # 1
        <5>1. /\ a - 1 \in DOMAIN queue /\ queue'[a] = queue[a - 1] /\ b # 1 /\ a - 1 < b - 1
              /\ b - 1 \in DOMAIN queue /\ queue'[b] = queue[b - 1]
          BY <3>7, <3>8, <3>10, <4>2
        <5> QED
          BY <1>c, <5>1
      <4> QED
        BY <4>1, <4>2
    <3> QED
      BY <1>a, <1>b, <2>1, <2>3, <3>9, <3>10 DEF InOrder, Inside
  <2>6. queue' = queue \/
          (Head(entries) \notin world.hidden /\ Head(entries) \notin world.nosubdirs /\ Enqueue(Head(entries)))
    BY <1>6 DEF ReadEntry
  <2> QED
    BY <2>4, <2>5, <2>6
<1> QED
  BY <1>0, <1>1, <1>2, <1>3, <1>4, <1>5, <1>6 DEF CrawlNext

-----------------------------------------------------------------------------
\* From a package nothing but itself can be come to.
LEMMA InsidePackage ==
  ASSUME NEW w \in Worlds, NEW x \in Directory(w), x \in w.package, NEW d \in w.inside[x]
  PROVE  d = x
BY WorldAssumption DEF Below

\* The queue after its head is taken off or put back.
LEMMA QueueShortened ==
  ASSUME CrawlTypes, queue # <<>>, world' = world, queue' = Tail(queue),
         NEW i, NEW d, InQueue(i, d),
         ~(Head(queue).start = -1 /\ Head(queue).root = i /\ d \in world.inside[Head(queue).dir])
  PROVE  InQueue(i, d)'
<1>1. PICK a \in DOMAIN queue :
        queue[a].start = -1 /\ queue[a].root = i /\ d \in world.inside[queue[a].dir]
  BY DEF InQueue
<1>2. /\ a # 1 /\ a - 1 \in DOMAIN queue' /\ queue'[a - 1] = queue[a]
  BY <1>1, HeadFacts
<1> QED
  BY <1>1, <1>2 DEF InQueue

LEMMA QueuePutBack ==
  ASSUME CrawlTypes, queue # <<>>, NEW m \in Entries(Directory(world)), queue' = <<m>> \o Tail(queue)
  PROVE  /\ DOMAIN queue = 1 .. Len(queue) /\ DOMAIN queue' = 1 .. Len(queue) /\ Len(queue) \in Nat \ {0}
         /\ queue'[1] = m
         /\ \A a \in DOMAIN queue : a # 1 => queue'[a] = queue[a]
<1>1. /\ Tail(queue) \in Seq(Entries(Directory(world))) /\ Len(Tail(queue)) = Len(queue) - 1
      /\ DOMAIN queue = 1 .. Len(queue) /\ Len(queue) \in Nat \ {0}
      /\ \A i \in 1 .. Len(queue) - 1 : Tail(queue)[i] = queue[i + 1]
  BY HeadFacts
<1>2. /\ Len(queue') = Len(queue) /\ queue'[1] = m /\ queue' \in Seq(Entries(Directory(world)))
      /\ \A i \in 2 .. Len(queue) : queue'[i] = Tail(queue)[i - 1]
  BY <1>1, PushedFront
<1>3. ASSUME NEW a \in DOMAIN queue, a # 1
      PROVE  queue'[a] = queue[a]
  <2>1. a - 1 \in 1 .. Len(queue) - 1 /\ (a - 1) + 1 = a /\ a \in 2 .. Len(queue)
    BY <1>1, <1>3
  <2> QED
    BY <1>1, <1>2, <2>1
<1> QED
  BY <1>1, <1>2, <1>3

LEMMA QueuePushed ==
  ASSUME CrawlTypes, NEW m \in Entries(Directory(world)), queue' = <<m>> \o queue
  PROVE  /\ DOMAIN queue = 1 .. Len(queue) /\ DOMAIN queue' = 1 .. Len(queue) + 1 /\ Len(queue) \in Nat
         /\ queue'[1] = m
         /\ \A a \in DOMAIN queue : a + 1 \in DOMAIN queue' /\ queue'[a + 1] = queue[a]
<1>1. queue \in Seq(Entries(Directory(world)))
  BY DEF CrawlTypes
<1>2. /\ Len(queue') = Len(queue) + 1 /\ queue'[1] = m /\ queue' \in Seq(Entries(Directory(world)))
      /\ \A i \in 1 .. Len(queue) : queue'[i + 1] = queue[i]
  BY <1>1, PushedFront
<1> QED
  BY <1>1, <1>2

\* The entry of a subdirectory of the one that is read.
LEMMA Enqueued ==
  ASSUME CrawlTypes, entries # <<>>, Enqueue(Head(entries))
  PROVE  \E m \in Entries(Directory(world)) :
           /\ queue' = <<m>> \o queue
           /\ m.dir = Head(entries) /\ m.start = -1 /\ m.root = reading.root
<1>1. Head(entries) \in Directory(world) /\ reading.depth + 1 \in Nat /\ reading.root \in Nat
  BY EntryFacts DEF CrawlTypes, Entries
<1>2. QueueEntry(Head(entries), reading.depth + 1, reading.root) \in Entries(Directory(world))
  BY <1>1, QueuedEntry
<1> QED
  BY <1>2 DEF Enqueue, QueueEntry

\* The mark that profiling leaves.
LEMMA PutBack ==
  ASSUME CrawlTypes, OpenDirectory
  PROVE  /\ ~world.profile => queue' = Tail(queue)
         /\ world.profile => \E m \in Entries(Directory(world)) :
              /\ queue' = <<m>> \o Tail(queue)
              /\ m.dir = Head(queue).dir /\ m.start = total /\ m.root = Head(queue).root
<1>1. Head(queue) \in Entries(Directory(world)) /\ Tail(queue) \in Seq(Entries(Directory(world)))
  BY HeadFacts DEF OpenDirectory, Visiting
<1>2. ASSUME NEW S, NEW x \in Entries(S), NEW n \in Int
      PROVE  /\ [x EXCEPT !.start = n] \in Entries(S) /\ [x EXCEPT !.start = n].start = n
             /\ [x EXCEPT !.start = n].root = x.root /\ [x EXCEPT !.start = n].dir = x.dir
  BY DEF Entries
<1>3. total \in Int
  BY DEF CrawlTypes
<1> DEFINE m == [Head(queue) EXCEPT !.start = total]
<1>4. /\ m \in Entries(Directory(world)) /\ m.start = total
      /\ m.root = Head(queue).root /\ m.dir = Head(queue).dir
  BY <1>1, <1>2, <1>3
<1>5. queue' = (IF world.profile THEN <<m>> ELSE <<>>) \o Tail(queue)
  BY DEF OpenDirectory
<1> HIDE DEF m
<1>6. CASE world.profile
  BY <1>4, <1>5, <1>6
<1>7. CASE ~world.profile
  <2>1. queue' = <<>> \o Tail(queue)
    BY <1>5, <1>7
  <2> QED
    BY <1>1, <1>7, <2>1
<1> QED
  BY <1>6, <1>7

\* What is still to be read after one subdirectory was read.
LEMMA EntriesShortened ==
  ASSUME CrawlTypes, ReadEntry, NEW d, InEntries(d),
         ~(Head(entries) \in Below(world, reading.dir) /\ d \in world.inside[Head(entries)])
  PROVE  InEntries(d)'
<1>1. PICK j \in DOMAIN entries :
        entries[j] \in Below(world, reading.dir) /\ d \in world.inside[entries[j]]
  BY DEF InEntries
<1>2. /\ Len(entries) \in Nat \ {0} /\ DOMAIN entries = 1 .. Len(entries)
      /\ DOMAIN entries' = 1 .. Len(entries) - 1
      /\ \A i \in 1 .. Len(entries) - 1 : entries'[i] = entries[i + 1]
      /\ Head(entries) = entries[1]
  BY EntryFacts DEF ReadEntry
<1>3. j # 1 /\ j - 1 \in DOMAIN entries' /\ entries'[j - 1] = entries[j]
  BY <1>1, <1>2
<1>4. world' = world /\ reading' = reading
  BY DEF ReadEntry
<1> QED
  BY <1>1, <1>3, <1>4 DEF InEntries

\* What can be come to from a directory that was opened is still to be read.
LEMMA EntriesOpened ==
  ASSUME CrawlTypes, OpenDirectory, NEW d \in world.inside[Head(queue).dir] \cap world.package
  PROVE  InEntries(d)'
<1>1. /\ Head(queue).dir \in Directory(world) /\ world \in Worlds /\ Head(queue).dir \notin world.package
  BY HeadFacts DEF OpenDirectory, Visiting, CrawlTypes
<1>2. PICK j \in DOMAIN world.sub[Head(queue).dir] :
        /\ world.sub[Head(queue).dir][j] \in Below(world, Head(queue).dir)
        /\ d \in world.inside[world.sub[Head(queue).dir][j]]
  BY <1>1, InsideMore
<1>3. entries' = world.sub[Head(queue).dir] /\ reading' = Head(queue) /\ world' = world
  BY <1>1, InsideMore DEF OpenDirectory
<1> QED
  BY <1>2, <1>3 DEF InEntries

-----------------------------------------------------------------------------
LEMMA CoveredStep ==
  CrawlTypes /\ InOrder /\ Covered /\ [CrawlNext]_crawlVars => Covered'
<1> SUFFICES ASSUME CrawlTypes, InOrder, Covered, [CrawlNext]_crawlVars, failure' = "none",
                    NEW i \in 1 .. NextRoot' - 1, NEW d \in Offers(i)'
             PROVE  Listed(world.name[d])' \/ InQueue(i, d)' \/ (reading'.root = i /\ InEntries(d)')
  BY DEF Covered
<1>0. CASE UNCHANGED crawlVars
  BY <1>0 DEF crawlVars, crawling, Covered, NextRoot, Offers, Kept, Listed, InQueue, InEntries
<1>a. world' = world
  BY <1>0 DEF CrawlNext, QueueRoot, TooDeep, VisitPackage, Profiled, OpenDirectory, ReadEntry,
    crawlVars, crawling
<1>b. d \in Offers(i) /\ d \in world.package /\ d \in world.inside[world.roots[i]] /\ Kept(i)
  BY <1>a, SameWorld DEF Offers
<1>c. world \in Worlds
  BY DEF CrawlTypes
<1>d. ASSUME NextRoot' = NextRoot, failure = "none"
      PROVE  Listed(world.name[d]) \/ InQueue(i, d) \/ (reading.root = i /\ InEntries(d))
  BY <1>b, <1>d DEF Covered
<1>1. CASE QueueRoot
  <2> DEFINE e == QueueEntry(Head(unqueued), 1, NextRoot)
  <2>1. /\ unqueued # <<>> /\ unqueued \in Seq(Directory(world)) /\ entries = <<>> /\ failure = "none"
        /\ \A j \in DOMAIN unqueued : unqueued[j] = world.roots[NextRoot - 1 + j]
        /\ queue \in Seq(Entries(Directory(world)))
    BY <1>1 DEF QueueRoot, CrawlTypes
  <2>2. Head(unqueued) = world.roots[NextRoot] /\ Head(unqueued) \in Directory(world)
    <3>1. 1 \in DOMAIN unqueued /\ Head(unqueued) = unqueued[1]
      BY <2>1
    <3>2. unqueued[1] = world.roots[NextRoot - 1 + 1] /\ NextRoot \in Nat
      BY <2>1, <3>1, WorldFacts
    <3> QED
      BY <2>1, <3>1, <3>2
  <2>3. NextRoot' = NextRoot + 1 /\ NextRoot \in Nat \ {0}
    BY <1>1, <1>a, <2>1, Shortened, WorldFacts DEF QueueRoot, NextRoot
  <2>4. e \in Entries(Directory(world)) /\ e.dir = Head(unqueued) /\ e.start = -1 /\ e.root = NextRoot
    BY <2>2, <2>3, QueuedEntry DEF QueueEntry
  <2>5. \A a \in DOMAIN queue : a \in DOMAIN queue' /\ queue'[a] = queue[a]
    BY <1>1, <2>1, <2>4, Lengthened DEF QueueRoot
  <2>6. CASE i = NextRoot
    <3>1. queue' = Append(queue, e)
      BY <1>1, <1>b, <2>6 DEF QueueRoot
    <3> HIDE DEF e
    <3>2. Len(queue) + 1 \in DOMAIN queue' /\ queue'[Len(queue) + 1] = e
      BY <2>1, <2>4, <3>1, Lengthened
    <3>3. InQueue(i, d)'
      BY <1>a, <1>b, <2>2, <2>4, <2>6, <3>2 DEF InQueue
    <3> QED
      BY <3>3
  <2>7. CASE i # NextRoot
    <3>1. i \in 1 .. NextRoot - 1
      BY <2>3, <2>7
    <3>2. Listed(world.name[d]) \/ InQueue(i, d)
      BY <1>b, <2>1, <3>1 DEF Covered, InEntries
    <3>3. Listed(world.name[d]) => Listed(world.name[d])'
      BY <1>1, <1>a DEF Listed, QueueRoot
    <3>4. InQueue(i, d) => InQueue(i, d)'
      BY <1>a, <2>5 DEF InQueue
    <3> QED
      BY <3>2, <3>3, <3>4
  <2> QED
    BY <2>6, <2>7
<1>2. CASE TooDeep
  BY <1>2 DEF TooDeep
<1>3. CASE VisitPackage
  <2>1. /\ queue # <<>> /\ entries = <<>> /\ failure = "none" /\ queue' = Tail(queue)
        /\ Head(queue).dir \in world.package /\ NextRoot' = NextRoot
    BY <1>3, <1>a DEF VisitPackage, Visiting, NextRoot
  <2>2. Listed(world.name[d]) \/ InQueue(i, d)
    BY <1>d, <2>1 DEF InEntries
  <2>p. PICK x \in Directory(world) : x = Head(queue).dir
    BY <2>1, HeadFacts
  <2>q. ListPackage(x)
    BY <1>3, <2>p DEF VisitPackage
  <2>3. (\A n : Listed(n) => Listed(n)') /\ Listed(world.name[x])'
    BY <1>a, <2>q, Listing
  <2>4. CASE d \in world.inside[x]
    <3>1. d = x
      BY <1>c, <2>1, <2>p, <2>4, InsidePackage
    <3> QED
      BY <2>3, <3>1
  <2>5. CASE d \notin world.inside[x] /\ InQueue(i, d)
    BY <1>a, <2>1, <2>p, <2>5, QueueShortened
  <2>6. CASE Listed(world.name[d])
    <3>1. Listed(world.name[d]) => Listed(world.name[d])'
      BY <1>a, <2>3 DEF Listed
    <3> QED
      BY <2>6, <3>1
  <2> QED
    BY <2>2, <2>4, <2>5, <2>6
<1>4. CASE Profiled
  <2>1. /\ queue # <<>> /\ entries = <<>> /\ failure = "none" /\ queue' = Tail(queue)
        /\ Head(queue).start # -1 /\ NextRoot' = NextRoot /\ packages' = packages
    BY <1>4, <1>a DEF Profiled, Visiting, NextRoot
  <2>2. Listed(world.name[d]) \/ InQueue(i, d)
    BY <1>d, <2>1 DEF InEntries
  <2>3. CASE Listed(world.name[d])
    BY <1>a, <2>1, <2>3 DEF Listed
  <2>4. CASE InQueue(i, d)
    BY <1>a, <2>1, <2>4, QueueShortened
  <2> QED
    BY <2>2, <2>3, <2>4
<1>5. CASE OpenDirectory
  <2>1. /\ queue # <<>> /\ entries = <<>> /\ failure = "none" /\ reading' = Head(queue)
        /\ NextRoot' = NextRoot /\ packages' = packages
    BY <1>5, <1>a DEF OpenDirectory, Visiting, NextRoot
  <2>2. Listed(world.name[d]) \/ InQueue(i, d)
    BY <1>d, <2>1 DEF InEntries
  <2>3. CASE Listed(world.name[d])
    BY <1>a, <2>1, <2>3 DEF Listed
  <2>4. CASE Head(queue).root = i /\ d \in world.inside[Head(queue).dir]
    BY <1>5, <1>b, <2>1, <2>4, EntriesOpened
  <2>5. CASE InQueue(i, d) /\ ~(Head(queue).root = i /\ d \in world.inside[Head(queue).dir])
    <3>1. CASE queue' = Tail(queue)
      BY <1>a, <2>1, <2>5, <3>1, QueueShortened
    <3>2. ASSUME NEW m \in Entries(Directory(world)), queue' = <<m>> \o Tail(queue)
          PROVE  InQueue(i, d)'
      <4>1. PICK a \in DOMAIN queue :
              queue[a].start = -1 /\ queue[a].root = i /\ d \in world.inside[queue[a].dir]
        BY <2>5 DEF InQueue
      <4>2. a # 1
        BY <2>1, <2>5, <4>1, HeadFacts
      <4>3. a \in DOMAIN queue' /\ queue'[a] = queue[a]
        BY <2>1, <3>2, <4>1, <4>2, QueuePutBack
      <4> QED
        BY <1>a, <4>1, <4>3 DEF InQueue
    <3> QED
      BY <1>5, <1>c, <3>1, <3>2, PutBack, WorldFacts
  <2> QED
    BY <2>2, <2>3, <2>4, <2>5
<1>6. CASE ReadEntry
  <2>1. /\ entries # <<>> /\ reading' = reading /\ NextRoot' = NextRoot /\ failure = "none"
    BY <1>6, <1>a DEF ReadEntry, NextRoot
  <2>2. Head(entries) \in Directory(world)
    BY <2>1, EntryFacts
  <2>3. CASE Listed(world.name[d])
    <3>1. CASE packages' = packages
      BY <1>a, <2>3, <3>1 DEF Listed
    <3>2. ASSUME NEW x \in Directory(world), ListPackage(x)
          PROVE  Listed(world.name[d])'
      <4>1. \A n : Listed(n) => Listed(n)'
        BY <1>a, <3>2, Listing
      <4>2. Listed(world.name[d]) => Listed(world.name[d])'
        BY <1>a, <4>1 DEF Listed
      <4> QED
        BY <2>3, <4>2
    <3> QED
      BY <1>6, <2>2, <3>1, <3>2 DEF ReadEntry
  <2>4. CASE InQueue(i, d)
    <3>1. CASE queue' = queue
      BY <1>a, <2>4, <3>1 DEF InQueue
    <3>2. CASE Enqueue(Head(entries))
      <4>1. PICK m \in Entries(Directory(world)) : queue' = <<m>> \o queue
        BY <2>1, <3>2, Enqueued
      <4>2. \A a \in DOMAIN queue : a + 1 \in DOMAIN queue' /\ queue'[a + 1] = queue[a]
        BY <4>1, QueuePushed
      <4> QED
        BY <1>a, <2>4, <4>2 DEF InQueue
    <3> QED
      BY <1>6, <3>1, <3>2 DEF ReadEntry
  <2>5. CASE reading.root = i /\ InEntries(d) /\
             ~(Head(entries) \in Below(world, reading.dir) /\ d \in world.inside[Head(entries)])
    BY <1>6, <2>1, <2>5, EntriesShortened
  <2>6. CASE reading.root = i /\ Head(entries) \in Below(world, reading.dir) /\ d \in world.inside[Head(entries)]
    <3>1. Head(entries) \notin world.hidden /\
          (Head(entries) \in world.package \/ Head(entries) \notin world.nosubdirs)
      BY <2>6 DEF Below
    <3>2. CASE Head(entries) \in world.package
      <4>1. ListPackage(d) /\ d \in Directory(world)
        <5>1. d = Head(entries)
          BY <1>c, <2>2, <2>6, <3>2, InsidePackage
        <5> QED
          BY <1>6, <2>2, <3>1, <3>2, <5>1 DEF ReadEntry
      <4> QED
        BY <1>a, <4>1, Listing
    <3>3. CASE Head(entries) \notin world.package
      <4>1. Enqueue(Head(entries))
        BY <1>6, <3>1, <3>3 DEF ReadEntry
      <4>2. PICK m \in Entries(Directory(world)) :
              /\ queue' = <<m>> \o queue
              /\ m.dir = Head(entries) /\ m.start = -1 /\ m.root = reading.root
        BY <2>1, <4>1, Enqueued
      <4>3. 1 \in DOMAIN queue' /\ queue'[1] = m
        BY <4>2, QueuePushed
      <4>4. InQueue(i, d)'
        BY <1>a, <2>6, <4>2, <4>3 DEF InQueue
      <4> QED
        BY <4>4
    <3> QED
      BY <3>2, <3>3
  <2> QED
    BY <1>d, <2>1, <2>3, <2>4, <2>5, <2>6
<1> QED
  BY <1>0, <1>1, <1>2, <1>3, <1>4, <1>5, <1>6 DEF CrawlNext

-----------------------------------------------------------------------------
\* A package is listed, and all that earlier roots offer is in the list.
LEMMA FirstListed ==
  ASSUME CrawlTypes, world' = world, FirstRoot, Once,
         NEW d \in Directory(world), ListPackage(d),
         NEW r \in DOMAIN world.roots, d \in Offers(r),
         \A i \in DOMAIN world.roots : i < r => \A e \in Offers(i) : Listed(world.name[e])
  PROVE  FirstRoot' /\ Once'
<1>a. \A i : Offers(i)' = Offers(i)
  BY SameWorld
<1>b. DOMAIN world.roots = 1 .. Len(world.roots) /\ Len(world.roots) \in Nat
  BY WorldFacts
<1>1. CASE packages' = packages
  <2>1. Once'
    BY <1>1 DEF Once
  <2>2. FirstRoot'
    BY <1>a, <1>1 DEF FirstRoot
  <2> QED
    BY <2>1, <2>2
<1>2. CASE packages' = Append(packages, d) /\ ~Listed(world.name[d])
  <2>1. /\ \A k \in 1 .. Len(packages) : packages'[k] = packages[k]
        /\ packages'[Len(packages) + 1] = d
        /\ DOMAIN packages = 1 .. Len(packages) /\ DOMAIN packages' = 1 .. Len(packages) + 1
        /\ Len(packages) \in Nat
    <3>1. packages \in Seq(Directory(world))
      BY DEF CrawlTypes
    <3> QED
      BY <1>2, <3>1, Lengthened
  <2>2. \A k \in DOMAIN packages' : (k \in DOMAIN packages /\ packages'[k] = packages[k]) \/ packages'[k] = d
    BY <2>1
  <2>3. ASSUME NEW k \in DOMAIN packages'
        PROVE  /\ \E i \in DOMAIN world.roots : packages'[k] \in Offers(i)
               /\ \A i \in DOMAIN world.roots : \A e \in Offers(i) :
                    world.name[e] = world.name[packages'[k]] => \E j \in 1 .. i : packages'[k] \in Offers(j)
    <3>1. CASE k \in DOMAIN packages /\ packages'[k] = packages[k]
      BY <3>1 DEF FirstRoot
    <3>2. CASE packages'[k] = d
      <4>1. ASSUME NEW i \in DOMAIN world.roots, NEW e \in Offers(i), world.name[e] = world.name[d]
            PROVE  \E j \in 1 .. i : d \in Offers(j)
        <5>1. ~(i < r)
          BY <1>2, <4>1
        <5>2. r \in 1 .. i
          BY <1>b, <5>1
        <5> QED
          BY <5>2
      <4> QED
        BY <3>2, <4>1
    <3> QED
      BY <2>2, <3>1, <3>2
  <2>4. FirstRoot'
    BY <1>a, <2>3 DEF FirstRoot
  <2>5. ASSUME NEW k \in DOMAIN packages', NEW l \in DOMAIN packages',
               world.name[packages'[k]] = world.name[packages'[l]]
        PROVE  k = l
    <3>1. \A m \in DOMAIN packages : world.name[packages[m]] # world.name[d]
      BY <1>2 DEF Listed
    <3> QED
      BY <2>1, <2>5, <3>1 DEF Once
  <2>6. Once'
    BY <2>5 DEF Once
  <2> QED
    BY <2>4, <2>6
<1> QED
  BY <1>1, <1>2, Listing

LEMMA FirstStep ==
  CrawlTypes /\ InOrder /\ Covered /\ FirstRoot /\ Once /\ [CrawlNext]_crawlVars => FirstRoot' /\ Once'
<1> SUFFICES ASSUME CrawlTypes, InOrder, Covered, FirstRoot, Once, [CrawlNext]_crawlVars
             PROVE  FirstRoot' /\ Once'
  OBVIOUS
<1>a. world' = world
  BY DEF CrawlNext, QueueRoot, TooDeep, VisitPackage, Profiled, OpenDirectory, ReadEntry,
    crawlVars, crawling
<1>b. /\ NextRoot \in 1 .. Len(world.roots) + 1 /\ DOMAIN world.roots = 1 .. Len(world.roots)
      /\ Len(world.roots) \in Nat
  BY WorldFacts
<1>c. world \in Worlds
  BY DEF CrawlTypes
<1>1. CASE packages' = packages
  <2>1. Once'
    BY <1>a, <1>1 DEF Once
  <2>2. FirstRoot'
    BY <1>a, <1>1, SameWorld DEF FirstRoot
  <2> QED
    BY <2>1, <2>2
<1>2. CASE VisitPackage
  <2>1. /\ queue # <<>> /\ entries = <<>> /\ failure = "none" /\ Head(queue).dir \in world.package
    BY <1>2 DEF VisitPackage, Visiting
  <2>2. PICK d \in Directory(world), r \in 1 .. NextRoot - 1 :
          d = Head(queue).dir /\ r = Head(queue).root
    BY <2>1, HeadFacts DEF InOrder
  <2>3. /\ 1 \in DOMAIN queue /\ queue[1] = Head(queue) /\ DOMAIN queue = 1 .. Len(queue)
        /\ Len(queue) \in Nat
    BY <2>1, HeadFacts
  <2>4. d \in Offers(r)
    BY <1>c, <2>1, <2>2, <2>3, InsideLess DEF InOrder, Offers
  <2>5. ASSUME NEW i \in DOMAIN world.roots, i < r, NEW e \in Offers(i)
        PROVE  Listed(world.name[e])
    <3>1. Listed(world.name[e]) \/ InQueue(i, e)
      BY <1>b, <2>1, <2>5 DEF Covered, InEntries
    <3>2. \A a \in DOMAIN queue : queue[a].root # i
      <4> TAKE a \in DOMAIN queue
      <4>1. queue[1].root <= queue[a].root /\ queue[a].root \in Int
        BY <1>b, <2>3 DEF InOrder
      <4> QED
        BY <1>b, <2>2, <2>3, <2>5, <4>1
    <3> QED
      BY <3>1, <3>2 DEF InQueue
  <2>6. ListPackage(d) /\ r \in DOMAIN world.roots
    BY <1>2, <1>b, <2>2 DEF VisitPackage
  <2> QED
    BY <1>a, <2>4, <2>5, <2>6, FirstListed
<1>3. CASE ReadEntry /\ Head(entries) \notin world.hidden /\ Head(entries) \in world.package
  <2>1. entries # <<>> /\ ListPackage(Head(entries))
    BY <1>3 DEF ReadEntry
  <2>2. /\ reading.root \in 1 .. NextRoot - 1 /\ Kept(reading.root) /\ failure = "none"
        /\ Head(entries) \in Directory(world) /\ Head(entries) \in ToSet(entries) \ world.hidden
    BY <1>3, <2>1, ReadingFacts, EntryFacts DEF ToSet
  <2>3. Head(entries) \in Offers(reading.root)
    BY <1>3, <2>1, <2>2, ReadingFacts DEF Offers
  <2>4. PICK d \in Directory(world), r \in 1 .. NextRoot - 1 : d = Head(entries) /\ r = reading.root
    BY <2>2
  <2>5. ASSUME NEW i \in DOMAIN world.roots, i < r, NEW e \in Offers(i)
        PROVE  Listed(world.name[e])
    <3>1. Listed(world.name[e]) \/ InQueue(i, e)
      BY <1>b, <2>2, <2>4, <2>5 DEF Covered
    <3>2. \A a \in DOMAIN queue : queue[a].root # i
      <4> TAKE a \in DOMAIN queue
      <4>1. r <= queue[a].root /\ queue[a].root \in Int
        BY <1>b, <2>1, <2>4 DEF InOrder
      <4> QED
        BY <1>b, <2>5, <4>1
    <3> QED
      BY <3>1, <3>2 DEF InQueue
  <2>6. ListPackage(d) /\ r \in DOMAIN world.roots /\ d \in Offers(r)
    BY <1>b, <2>1, <2>3, <2>4
  <2> QED
    BY <1>a, <2>5, <2>6, FirstListed
<1> QED
  BY <1>1, <1>2, <1>3 DEF CrawlNext, QueueRoot, TooDeep, Profiled, OpenDirectory, ReadEntry,
    crawlVars, crawling, Enqueue

-----------------------------------------------------------------------------
LEMMA MarksStep == CrawlTypes /\ Marks /\ [CrawlNext]_crawlVars => Marks'
<1> SUFFICES ASSUME CrawlTypes, Marks, [CrawlNext]_crawlVars, NEW b \in DOMAIN queue', queue'[b].start # -1
             PROVE  /\ world'.profile
                    /\ queue'[b].start \in 0 .. total'
                    /\ queue'[b].dir \notin world'.package
                    /\ \A a \in 1 .. b - 1 : queue'[a].dir \notin world'.package
                    /\ queue'[b].start = total' /\ failure' = "none" =>
                         \A d \in world'.inside[queue'[b].dir] \cap world'.package :
                           InFront(b, d)' \/ InEntries(d)'
  BY DEF Marks
<1>0. CASE UNCHANGED crawlVars
  BY <1>0 DEF crawlVars, crawling, Marks, InFront, InEntries
<1>a. world' = world
  BY <1>0 DEF CrawlNext, QueueRoot, TooDeep, VisitPackage, Profiled, OpenDirectory, ReadEntry,
    crawlVars, crawling
<1>b. total \in Nat /\ queue \in Seq(Entries(Directory(world))) /\ world \in Worlds
  BY DEF CrawlTypes
<1>1. CASE QueueRoot
  <2> DEFINE e == QueueEntry(Head(unqueued), 1, NextRoot)
  <2>1. e \in Entries(Directory(world)) /\ e.start = -1
    <3>1. Head(unqueued) \in Directory(world) /\ NextRoot \in Nat
      <4>1. unqueued # <<>> /\ unqueued \in Seq(Directory(world))
        BY <1>1 DEF QueueRoot, CrawlTypes
      <4> QED
        BY <4>1, Shortened, WorldFacts
    <3> QED
      BY <3>1, QueuedEntry DEF QueueEntry
  <2>2. queue' = queue \/ queue' = Append(queue, e)
    BY <1>1 DEF QueueRoot
  <2> HIDE DEF e
  <2>3. /\ b \in DOMAIN queue /\ DOMAIN queue = 1 .. Len(queue) /\ Len(queue) \in Nat
        /\ \A a \in DOMAIN queue : a \in DOMAIN queue' /\ queue'[a] = queue[a]
    BY <1>b, <2>1, <2>2, Lengthened
  <2>4. total' = total /\ failure' = failure /\ entries' = entries /\ reading' = reading
    BY <1>1 DEF QueueRoot
  <2>5. \A a \in 1 .. b - 1 : a \in DOMAIN queue
    BY <2>3
  <2>6. \A d : InFront(b, d) \/ InEntries(d) => InFront(b, d)' \/ InEntries(d)'
    BY <1>a, <2>3, <2>4 DEF InFront, InEntries
  <2> QED
    BY <1>a, <2>3, <2>4, <2>5, <2>6 DEF Marks
<1>c. ASSUME queue # <<>>, queue' = Tail(queue)
      PROVE  /\ b + 1 \in DOMAIN queue /\ queue'[b] = queue[b + 1] /\ b \in Nat \ {0} /\ 1 \in DOMAIN queue
             /\ Head(queue) = queue[1]
             /\ \A a \in 1 .. b - 1 : a + 1 \in 1 .. (b + 1) - 1 /\ queue'[a] = queue[a + 1]
             /\ \A d : InFront(b + 1, d) /\ ~(queue[1].start = -1 /\ d \in world.inside[queue[1].dir])
                        => InFront(b, d)'
  <2>1. /\ DOMAIN queue = 1 .. Len(queue) /\ DOMAIN queue' = 1 .. Len(queue) - 1 /\ Len(queue) \in Nat \ {0}
        /\ \A i \in 1 .. Len(queue) - 1 : queue'[i] = queue[i + 1]
        /\ Head(queue) = queue[1]
    BY <1>c, HeadFacts
  <2>2. ASSUME NEW d, InFront(b + 1, d), ~(queue[1].start = -1 /\ d \in world.inside[queue[1].dir])
        PROVE  InFront(b, d)'
    <3>1. PICK a \in DOMAIN queue :
            a < b + 1 /\ queue[a].start = -1 /\ d \in world.inside[queue[a].dir]
      BY <2>2 DEF InFront
    <3>2. a # 1
      BY <2>2, <3>1
    <3>3. a - 1 \in DOMAIN queue' /\ queue'[a - 1] = queue[a] /\ a - 1 < b
      BY <2>1, <3>1, <3>2
    <3> QED
      BY <1>a, <3>1, <3>3 DEF InFront
  <2> QED
    BY <2>1, <2>2
<1>2. CASE TooDeep
  <2>1. /\ queue # <<>> /\ queue' = Tail(queue) /\ failure' # "none" /\ total' = total
    BY <1>2 DEF TooDeep, Visiting
  <2>2. /\ b + 1 \in DOMAIN queue /\ queue'[b] = queue[b + 1]
        /\ \A a \in 1 .. b - 1 : a + 1 \in 1 .. (b + 1) - 1 /\ queue'[a] = queue[a + 1]
    BY <1>c, <2>1
  <2> QED
    BY <1>a, <2>1, <2>2 DEF Marks
<1>3. CASE VisitPackage
  <2>1. /\ queue # <<>> /\ queue' = Tail(queue) /\ Head(queue).dir \in world.package
    BY <1>3 DEF VisitPackage, Visiting
  <2>2. b + 1 \in DOMAIN queue /\ queue'[b] = queue[b + 1] /\ 1 \in 1 .. (b + 1) - 1 /\ Head(queue) = queue[1]
    BY <1>c, <2>1
  <2> QED
    BY <2>1, <2>2 DEF Marks
<1>4. CASE Profiled
  <2>1. /\ queue # <<>> /\ queue' = Tail(queue) /\ failure = "none" /\ total' = total /\ entries = <<>>
        /\ Head(queue).start # -1
    BY <1>4 DEF Profiled, Visiting
  <2>2. /\ b + 1 \in DOMAIN queue /\ queue'[b] = queue[b + 1] /\ Head(queue) = queue[1]
        /\ \A a \in 1 .. b - 1 : a + 1 \in 1 .. (b + 1) - 1 /\ queue'[a] = queue[a + 1]
        /\ \A d : InFront(b + 1, d) /\ ~(queue[1].start = -1 /\ d \in world.inside[queue[1].dir])
                   => InFront(b, d)'
    BY <1>c, <2>1
  <2>3. \A d : ~InEntries(d)
    BY <2>1 DEF InEntries
  <2> QED
    BY <1>a, <2>1, <2>2, <2>3 DEF Marks
<1>5. CASE OpenDirectory
  <2>1. /\ queue # <<>> /\ failure = "none" /\ total' = total /\ entries = <<>>
        /\ Head(queue).dir \notin world.package /\ Head(queue).start = -1
    BY <1>5 DEF OpenDirectory, Visiting
  <2>2. \A d : ~InEntries(d)
    BY <2>1 DEF InEntries
  <2>3. \A d \in world.inside[Head(queue).dir] \cap world.package : InEntries(d)'
    BY <1>5, EntriesOpened
  <2>4. CASE ~world.profile
    <3>1. queue' = Tail(queue)
      BY <1>5, <2>4, PutBack
    <3>2. b + 1 \in DOMAIN queue /\ queue'[b] = queue[b + 1]
      BY <1>c, <2>1, <3>1
    <3> QED
      BY <2>4, <3>2 DEF Marks
  <2>5. CASE world.profile
    <3>1. PICK m \in Entries(Directory(world)) :
            /\ queue' = <<m>> \o Tail(queue)
            /\ m.dir = Head(queue).dir /\ m.start = total /\ m.root = Head(queue).root
      BY <1>5, <2>5, PutBack
    <3>2. /\ DOMAIN queue = 1 .. Len(queue) /\ DOMAIN queue' = 1 .. Len(queue) /\ Len(queue) \in Nat \ {0}
          /\ queue'[1] = m /\ Head(queue) = queue[1]
          /\ \A a \in DOMAIN queue : a # 1 => queue'[a] = queue[a]
      BY <2>1, <3>1, QueuePutBack, HeadFacts
    <3>3. CASE b = 1
      BY <1>a, <1>b, <2>1, <2>3, <2>5, <3>1, <3>2, <3>3
    <3>4. CASE b # 1
      <4>1. /\ b \in DOMAIN queue /\ queue'[b] = queue[b]
            /\ \A a \in 1 .. b - 1 : queue'[a].dir = queue[a].dir
        BY <3>1, <3>2, <3>4
      <4>2. ASSUME NEW d \in world.package, InFront(b, d)
            PROVE  InFront(b, d)' \/ InEntries(d)'
        <5>1. PICK a \in DOMAIN queue :
                a < b /\ queue[a].start = -1 /\ d \in world.inside[queue[a].dir]
          BY <4>2 DEF InFront
        <5>2. CASE a = 1
          BY <2>3, <3>2, <5>1, <5>2
        <5>3. CASE a # 1
          BY <1>a, <3>2, <5>1, <5>3 DEF InFront
        <5> QED
          BY <5>2, <5>3
      <4> QED
        BY <1>a, <2>1, <2>2, <4>1, <4>2 DEF Marks
    <3> QED
      BY <3>3, <3>4
  <2> QED
    BY <2>4, <2>5
<1>6. CASE ReadEntry
  <2>1. /\ entries # <<>> /\ reading' = reading /\ failure' = failure
    BY <1>6 DEF ReadEntry
  <2>2. CASE queue' = queue /\ total' = total /\ Head(entries) \notin Below(world, reading.dir)
    <3>2. \A d : InEntries(d) => InEntries(d)'
      BY <1>6, <2>2, EntriesShortened
    <3>3. \A d : InFront(b, d) => InFront(b, d)'
      BY <1>a, <2>2 DEF InFront
    <3> QED
      BY <1>a, <2>1, <2>2, <3>2, <3>3 DEF Marks
  <2>3. CASE queue' = queue /\ total' = total + 1
    BY <1>a, <1>b, <2>3 DEF Marks
  <2>4. CASE /\ Head(entries) \notin world.package /\ Enqueue(Head(entries))
             /\ total' = total
    <3>1. PICK m \in Entries(Directory(world)) :
            /\ queue' = <<m>> \o queue
            /\ m.dir = Head(entries) /\ m.start = -1 /\ m.root = reading.root
      BY <2>1, <2>4, Enqueued
    <3>2. /\ DOMAIN queue = 1 .. Len(queue) /\ DOMAIN queue' = 1 .. Len(queue) + 1 /\ Len(queue) \in Nat
          /\ queue'[1] = m
          /\ \A a \in DOMAIN queue : a + 1 \in DOMAIN queue' /\ queue'[a + 1] = queue[a]
      BY <3>1, QueuePushed
    <3>3. PICK c \in DOMAIN queue : b = c + 1
      <4>1. b # 1 /\ b - 1 \in DOMAIN queue /\ b = (b - 1) + 1
        BY <3>1, <3>2
      <4> QED
        BY <4>1
    <3>4. queue'[b] = queue[c]
      BY <3>2, <3>3
    <3>5. ASSUME NEW a \in 1 .. b - 1
          PROVE  queue'[a].dir \notin world.package
      <4>1. CASE a = 1
        BY <2>4, <3>1, <3>2, <4>1
      <4>2. CASE a # 1
        <5>1. a - 1 \in 1 .. c - 1 /\ a - 1 \in DOMAIN queue /\ a = (a - 1) + 1
          BY <3>2, <3>3, <4>2
        <5>2. queue'[a] = queue[a - 1]
          BY <3>2, <5>1
        <5> QED
          BY <3>4, <5>1, <5>2 DEF Marks
      <4> QED
        BY <4>1, <4>2
    <3>6. ASSUME NEW d, InFront(c, d) \/ InEntries(d)
          PROVE  InFront(b, d)' \/ InEntries(d)'
      <4>1. CASE InFront(c, d)
        <5>1. PICK a \in DOMAIN queue :
                a < c /\ queue[a].start = -1 /\ d \in world.inside[queue[a].dir]
          BY <4>1 DEF InFront
        <5>2. a + 1 \in DOMAIN queue' /\ queue'[a + 1] = queue[a] /\ a + 1 < b
          BY <3>2, <3>3, <5>1
        <5> QED
          BY <1>a, <5>1, <5>2 DEF InFront
      <4>2. CASE d \in world.inside[Head(entries)]
        <5>1. 1 \in DOMAIN queue' /\ 1 < b
          BY <3>2, <3>3
        <5> QED
          BY <1>a, <3>1, <3>2, <4>2, <5>1 DEF InFront
      <4>3. CASE InEntries(d) /\ d \notin world.inside[Head(entries)]
        BY <1>6, <4>3, EntriesShortened
      <4> QED
        BY <3>6, <4>1, <4>2, <4>3
    <3> QED
      BY <1>a, <2>1, <2>4, <3>4, <3>5, <3>6 DEF Marks
  <2>5. \/ queue' = queue /\ total' = total /\ Head(entries) \notin Below(world, reading.dir)
        \/ queue' = queue /\ total' = total + 1
        \/ Head(entries) \notin world.package /\ Enqueue(Head(entries)) /\ total' = total
    BY <1>6 DEF ReadEntry, Below
  <2> QED
    BY <2>2, <2>3, <2>4, <2>5
<1> QED
  BY <1>0, <1>1, <1>2, <1>3, <1>4, <1>5, <1>6 DEF CrawlNext

LEMMA ZombiesStep == CrawlTypes /\ Marks /\ ZombiesEmpty /\ [CrawlNext]_crawlVars => ZombiesEmpty'
<1> SUFFICES ASSUME CrawlTypes, Marks, ZombiesEmpty, [CrawlNext]_crawlVars
             PROVE  ZombiesEmpty'
  OBVIOUS
<1>a. world' = world
  BY DEF CrawlNext, QueueRoot, TooDeep, VisitPackage, Profiled, OpenDirectory, ReadEntry,
    crawlVars, crawling
<1>1. CASE profile' = profile
  BY <1>a, <1>1 DEF ZombiesEmpty
<1>2. CASE Profiled
  <2> DEFINE x == [dir |-> Head(queue).dir, zombie |-> Head(queue).start = total]
  <2>1. /\ queue # <<>> /\ entries = <<>> /\ failure = "none" /\ Head(queue).start # -1
        /\ profile' = Append(profile, x)
    BY <1>2 DEF Profiled, Visiting
  <2>2. 1 \in DOMAIN queue /\ queue[1] = Head(queue) /\ DOMAIN queue = 1 .. Len(queue)
    BY <2>1, HeadFacts
  <2>3. \A d : ~InFront(1, d) /\ ~InEntries(d)
    BY <2>1, <2>2 DEF InFront, InEntries
  <2>4. x.zombie => world.inside[x.dir] \cap world.package = {}
    BY <2>1, <2>2, <2>3 DEF Marks
  <2>5. profile \in Seq([dir : Directory(world), zombie : BOOLEAN])
    BY DEF CrawlTypes
  <2>6. x \in [dir : Directory(world), zombie : BOOLEAN]
    BY <2>1, HeadFacts
  <2> HIDE DEF x
  <2>7. \A k \in DOMAIN profile' : (k \in DOMAIN profile /\ profile'[k] = profile[k]) \/ profile'[k] = x
    BY <2>1, <2>5, <2>6, Lengthened
  <2> QED
    BY <1>a, <2>4, <2>7 DEF ZombiesEmpty
<1> QED
  BY <1>1, <1>2 DEF CrawlNext, QueueRoot, TooDeep, VisitPackage, OpenDirectory, ReadEntry,
    crawlVars, crawling

-----------------------------------------------------------------------------
LEMMA CrawlInitInv == CrawlInit => CrawlInv
<1> SUFFICES ASSUME CrawlInit
             PROVE  CrawlInv
  OBVIOUS
<1>1. /\ world.roots \in Seq(Directory(world)) /\ world.roots # <<>>
      /\ world.roots[1] \in Directory(world) /\ unqueued = world.roots
  BY WorldAssumption DEF CrawlInit
<1>2. NextRoot = 1
  BY <1>1 DEF NextRoot
<1>3. reading \in Entries(Directory(world))
  BY <1>1, QueuedEntry DEF CrawlInit
<1>4. CrawlTypes
  BY <1>1, <1>2, <1>3 DEF CrawlInit, CrawlTypes
<1>5. InOrder /\ Covered
  BY <1>2 DEF CrawlInit, InOrder, Covered
<1>6. FirstRoot /\ Once /\ Marks /\ ZombiesEmpty
  BY DEF CrawlInit, FirstRoot, Once, Marks, ZombiesEmpty
<1> QED
  BY <1>4, <1>5, <1>6 DEF CrawlInv

\* The strengthening holds in every state of every crawl.
LEMMA CrawlInvariance == CrawlSpec => []CrawlInv
<1>1. CrawlInv /\ [CrawlNext]_crawlVars => CrawlInv'
  BY CrawlTypesStep, InOrderStep, CoveredStep, FirstStep, MarksStep, ZombiesStep DEF CrawlInv
<1> QED
  BY <1>1, CrawlInitInv, PTL DEF CrawlSpec

\* CrawlExact, for all trees of directories, links, roots and manifests: a crawl
\* of rospack (rospack.cpp:1734) that ends well lists every package that can be
\* come to once, by the first root that has one of its name, and its profile
\* calls no directory a zombie that leads to a package.
THEOREM CrawlsAreExact == CrawlSpec => []CrawlExact
<1>1. CrawlInv => CrawlExact
  <2> SUFFICES ASSUME CrawlInv
               PROVE  CrawlExact
    OBVIOUS
  <2>1. ASSUME CrawlEnded, failure = "none", NEW i \in DOMAIN world.roots, NEW d \in Offers(i)
        PROVE  \E k \in DOMAIN packages :
                 /\ world.name[packages[k]] = world.name[d]
                 /\ \E j \in 1 .. i : packages[k] \in Offers(j)
    <3>1. unqueued = <<>> /\ queue = <<>> /\ entries = <<>>
      BY <2>1 DEF CrawlEnded
    <3>2. i \in 1 .. NextRoot - 1
      BY <3>1, WorldFacts DEF CrawlInv
    <3>3. Listed(world.name[d])
      BY <2>1, <3>1, <3>2 DEF CrawlInv, Covered, InQueue, InEntries
    <3> QED
      BY <3>3 DEF CrawlInv, FirstRoot, Listed
  <2>2. ListExact
    BY <2>1 DEF CrawlInv, FirstRoot, Once, ListExact
  <2> QED
    BY <2>2 DEF CrawlInv, CrawlExact
<1> QED
  BY <1>1, CrawlInvariance, PTL
=============================================================================
