--------------------------- MODULE BundlingProofs ---------------------------
(***************************************************************************)
(* What a bundle promises, proved of the walk (src/bundle.rs): every file  *)
(* is read once and put into the unit once, what is handed on has nothing  *)
(* left to cite, and a unit that is not broken holds what its cites lead   *)
(* to, each chapter behind those it cites. The walk keeps three            *)
(* invariants. ReadOnce: a file that was read can be found under its name, *)
(* so that no cite leads to it again. NothingLost: what the unit carries   *)
(* is what it has together with what is still being followed, and every    *)
(* cite of a source being followed is answered already, or is still to be  *)
(* followed, or was complained of. InOrder: every cite of a text in the    *)
(* unit names a file that stands ahead of it or that leads to it, as the   *)
(* frames are a path of cites and a file that was seen is in the unit or   *)
(* on that path.                                                           *)
(***************************************************************************)
EXTENDS Bundling, SequenceTheorems, WellFoundedInduction, TLAPS

-----------------------------------------------------------------------------
(***************************************************************************)
(* Sequences and loops. What a loop computes is read off the record of its *)
(* rounds; that there is one, and what holds of its last round, goes by    *)
(* descent to a least number.                                              *)
(***************************************************************************)
\* A set of numbers with an element has a least one.
LEMMA LeastNat ==
  ASSUME NEW S \in SUBSET Nat, S # {}
  PROVE  \E m \in S : \A k \in S : m <= k
<1> DEFINE R == OpToRel(<, Nat)
<1>1. IsWellFoundedOn(R, Nat)
  BY NatLessThanWellFounded
<1>2. \A x, y \in Nat : x < y => <<x, y>> \in R
  BY DEF OpToRel
<1> HIDE DEF R
<1>3. PICK m \in S : \A k \in S : ~(<<k, m>> \in R)
  BY <1>1, WFMin
<1>4. ASSUME NEW k \in S PROVE m <= k
  <2>1. k \in Nat /\ m \in Nat
    OBVIOUS
  <2>2. ~(k < m)
    BY <1>2, <1>3, <2>1, Zenon
  <2> QED
    BY <2>1, <2>2
<1> QED
  BY <1>4

\* What is true of no first number is true of none.
LEMMA Descent ==
  ASSUME NEW n \in Nat, NEW S \in SUBSET (0 .. n), \A m \in S : \E k \in S : k < m
  PROVE  S = {}
<1> SUFFICES ASSUME S # {} PROVE FALSE
  OBVIOUS
<1>1. S \in SUBSET Nat
  OBVIOUS
<1>2. PICK m \in S : \A k \in S : m <= k
  BY <1>1, LeastNat
<1> QED
  BY <1>1, <1>2

\* Of what is done n times there is a record of every round.
IsRecord(f, X, x, n, G) ==
  f \in [0 .. n -> X] /\ f[0] = x /\ \A i \in 1 .. n : f[i] = G[i][f[i - 1]]

\* Whatever is done to what the round before left, the record of n rounds
\* exists.
LEMMA Rounds ==
  ASSUME NEW X, NEW x \in X, NEW n \in Nat, NEW G \in [Nat -> [X -> X]]
  PROVE  \E f : IsRecord(f, X, x, n, G)
<1> DEFINE Record(f, m) == f[0] = x /\ \A i \in 1 .. m : f[i] = G[i][f[i - 1]]
           S == {m \in 0 .. n : ~\E f \in [0 .. m -> X] : Record(f, m)}
<1>1. ASSUME NEW m \in S PROVE \E k \in S : k < m
  <2>1. m # 0
    <3>1. [i \in 0 .. 0 |-> x] \in [0 .. 0 -> X] /\ Record([i \in 0 .. 0 |-> x], 0)
      OBVIOUS
    <3> QED
      BY <3>1, <1>1
  <2>2. ASSUME NEW f \in [0 .. (m - 1) -> X], Record(f, m - 1) PROVE FALSE
    <3> DEFINE g == [i \in 0 .. m |-> IF i = m THEN G[m][f[m - 1]] ELSE f[i]]
    <3>1. m \in Nat /\ m - 1 \in 0 .. (m - 1) /\ f[m - 1] \in X
      BY <1>1, <2>1
    <3>2. g \in [0 .. m -> X]
      BY <3>1
    <3>3. g[0] = x
      BY <2>1, <2>2, <3>1
    <3>4. ASSUME NEW i \in 1 .. m PROVE g[i] = G[i][g[i - 1]]
      <4>1. g[i - 1] = f[i - 1]
        BY <3>1
      <4> QED
        BY <2>2, <3>1, <4>1
    <3> QED
      BY <1>1, <3>2, <3>3, <3>4
  <2>3. m - 1 \in S
    BY <1>1, <2>1, <2>2
  <2>4. m - 1 < m
    BY <1>1
  <2> QED
    BY <2>3, <2>4
<1>2. S = {}
  <2> HIDE DEF S
  <2>1. S \in SUBSET (0 .. n)
    BY DEF S
  <2> QED
    BY <1>1, <2>1, Descent
<1>3. PICK f \in [0 .. n -> X] : Record(f, n)
  BY <1>2
<1> QED
  BY <1>3 DEF IsRecord

\* Two sequences one after the other hold what each of them holds.
LEMMA ConcatElements ==
  ASSUME NEW S, NEW s \in Seq(S), NEW t \in Seq(S)
  PROVE  s \o t \in Seq(S) /\ ToSet(s \o t) = ToSet(s) \cup ToSet(t)
<1>1. Len(s) \in Nat /\ Len(t) \in Nat /\ DOMAIN s = 1 .. Len(s) /\ DOMAIN t = 1 .. Len(t)
  OBVIOUS
<1>2. DOMAIN (s \o t) = 1 .. (Len(s) + Len(t))
  OBVIOUS
<1>3. ASSUME NEW e \in ToSet(s \o t) PROVE e \in ToSet(s) \cup ToSet(t)
  <2>1. PICK j \in 1 .. (Len(s) + Len(t)) : e = (s \o t)[j]
    BY <1>2 DEF ToSet
  <2>2. CASE j <= Len(s)
    BY <1>1, <2>1, <2>2 DEF ToSet
  <2>3. CASE j > Len(s)
    <3>1. e = t[j - Len(s)] /\ j - Len(s) \in 1 .. Len(t)
      BY <1>1, <2>1, <2>3
    <3> QED
      BY <1>1, <3>1 DEF ToSet
  <2> QED
    BY <1>1, <2>1, <2>2, <2>3
<1>4. ASSUME NEW e \in ToSet(s) PROVE e \in ToSet(s \o t)
  <2>1. PICK j \in 1 .. Len(s) : e = s[j]
    BY <1>1 DEF ToSet
  <2>2. j \in 1 .. (Len(s) + Len(t)) /\ (s \o t)[j] = e
    BY <1>1, <2>1
  <2> QED
    BY <1>2, <2>2 DEF ToSet
<1>5. ASSUME NEW e \in ToSet(t) PROVE e \in ToSet(s \o t)
  <2>1. PICK j \in 1 .. Len(t) : e = t[j]
    BY <1>1 DEF ToSet
  <2>2. j + Len(s) \in 1 .. (Len(s) + Len(t)) /\ (j + Len(s)) - Len(s) = j /\ ~(j + Len(s) <= Len(s))
    BY <1>1, <2>1
  <2>3. (s \o t)[j + Len(s)] = e
    BY <1>1, <2>1, <2>2
  <2> QED
    BY <1>2, <2>2, <2>3 DEF ToSet
<1>6. s \o t \in Seq(S)
  OBVIOUS
<1> QED
  BY <1>3, <1>4, <1>5, <1>6

\* The texts up to the i-th, for every i.
FlatTo(ss, f) ==
  \A i \in 1 .. Len(ss) : f[i] = IF i = 1 THEN ss[i] ELSE f[i - 1] \o ss[i]

\* s holds what the first n texts hold.
HoldsTo(ss, n, S, s) == s \in Seq(S) /\ ToSet(s) = UNION {ToSet(ss[k]) : k \in 1 .. n}

\* Up to the n-th, the texts put together hold what each of them holds.
LEMMA FlatToElements ==
  ASSUME NEW S, NEW ss \in Seq(Seq(S)), NEW f, FlatTo(ss, f), NEW n \in 1 .. Len(ss)
  PROVE  HoldsTo(ss, n, S, f[n])
<1> DEFINE Holds(i) == f[i] \in Seq(S) /\ ToSet(f[i]) = UNION {ToSet(ss[k]) : k \in 1 .. i}
           Bad == {i \in 1 .. n : ~Holds(i)}
<1>1. n \in Nat \ {0} /\ Len(ss) \in Nat
  OBVIOUS
<1>2. \A i \in 1 .. n : ss[i] \in Seq(S) /\ f[i] = IF i = 1 THEN ss[i] ELSE f[i - 1] \o ss[i]
  <2>1. 1 .. n \subseteq 1 .. Len(ss) /\ \A i \in 1 .. Len(ss) : ss[i] \in Seq(S)
    BY <1>1
  <2> QED
    BY <2>1 DEF FlatTo
<1>3. ASSUME NEW i \in 1 .. n, ~Holds(i) PROVE i # 1 /\ ~Holds(i - 1)
  <2>1. i # 1
    <3>1. f[1] = ss[1] /\ ss[1] \in Seq(S)
      BY <1>1, <1>2
    <3>2. UNION {ToSet(ss[k]) : k \in 1 .. 1} = ToSet(ss[1])
      OBVIOUS
    <3> QED
      BY <1>3, <3>1, <3>2
  <2>2. ASSUME Holds(i - 1) PROVE FALSE
    <3>1. f[i] = f[i - 1] \o ss[i] /\ ss[i] \in Seq(S)
      BY <1>2, <2>1
    <3>2. f[i - 1] \in Seq(S)
      BY <2>2
    <3>3. f[i] \in Seq(S) /\ ToSet(f[i]) = ToSet(f[i - 1]) \cup ToSet(ss[i])
      <4> HIDE DEF Holds
      <4>1. f[i - 1] \o ss[i] \in Seq(S) /\ ToSet(f[i - 1] \o ss[i]) = ToSet(f[i - 1]) \cup ToSet(ss[i])
        BY <3>1, <3>2, ConcatElements
      <4> QED
        BY <3>1, <4>1
    <3>4. 1 .. i = (1 .. (i - 1)) \cup {i}
      BY <1>3, <2>1
    <3>5. UNION {ToSet(ss[k]) : k \in 1 .. i} = (UNION {ToSet(ss[k]) : k \in 1 .. (i - 1)}) \cup ToSet(ss[i])
      BY <3>4
    <3>6. ToSet(f[i - 1]) = UNION {ToSet(ss[k]) : k \in 1 .. (i - 1)}
      BY <2>2
    <3> QED
      BY <1>3, <3>3, <3>5, <3>6
  <2> QED
    BY <2>1, <2>2
<1> HIDE DEF Holds
<1>4. ASSUME NEW i \in Bad PROVE \E k \in Bad : k < i
  <2>1. i - 1 \in Bad /\ i - 1 < i
    BY <1>1, <1>3
  <2> QED
    BY <2>1
<1>5. Bad \in SUBSET (0 .. n)
  BY <1>1
<1>6. Bad = {}
  <2> HIDE DEF Bad
  <2> QED
    BY <1>1, <1>4, <1>5, Descent
<1>7. Holds(n)
  BY <1>1, <1>6
<1> QED
  BY <1>7 DEF Holds, HoldsTo

\* The function by which FlattenSeq is defined exists.
LEMMA FlatToExists ==
  ASSUME NEW S, NEW ss \in Seq(Seq(S)), NEW n \in Nat, n = Len(ss)
  PROVE  \E f : f = [i \in 1 .. n |-> IF i = 1 THEN ss[i] ELSE f[i - 1] \o ss[i]]
<1> DEFINE X == Seq(S)
           G == [i \in Nat |-> [out \in X |-> IF i \in 1 .. n THEN out \o ss[i] ELSE out]]
<1>1. \A i \in 1 .. n : ss[i] \in X
  OBVIOUS
<1>2. G \in [Nat -> [X -> X]] /\ <<>> \in X
  BY <1>1
<1>3. ASSUME NEW i \in 1 .. n, NEW out \in X PROVE G[i][out] = out \o ss[i]
  <2> HIDE DEF X
  <2>1. i \in Nat
    OBVIOUS
  <2>2. G[i] = [o \in X |-> IF i \in 1 .. n THEN o \o ss[i] ELSE o]
    BY <2>1
  <2> QED
    BY <2>2
<1>4. PICK g \in [0 .. n -> X] : g[0] = <<>> /\ \A i \in 1 .. n : g[i] = G[i][g[i - 1]]
  <2> DEFINE x == <<>>
  <2>1. x \in X
    BY <1>2
  <2> HIDE DEF G, X, x
  <2>2. \E g : IsRecord(g, X, x, n, G)
    BY <1>2, <2>1, Rounds
  <2> QED
    BY <2>2 DEF x, IsRecord
<1>5. \A i \in 1 .. n : g[i - 1] \in X /\ g[i] = g[i - 1] \o ss[i]
  <2> HIDE DEF G, X
  <2>1. \A i \in 1 .. n : i - 1 \in 0 .. n
    OBVIOUS
  <2> QED
    BY <1>3, <1>4, <2>1
<1>6. \A i \in 1 .. n : i = 1 => g[i] = ss[i]
  <2>1. \A s \in X : <<>> \o s = s
    OBVIOUS
  <2> HIDE DEF G, X
  <2>2. ASSUME NEW i \in 1 .. n, i = 1 PROVE g[i] = ss[i]
    <3>1. g[i - 1] = <<>>
      BY <1>4, <2>2
    <3> QED
      BY <1>1, <1>5, <2>1, <3>1
  <2> QED
    BY <2>2
<1> DEFINE f == [i \in 1 .. n |-> g[i]]
<1>7. ASSUME NEW i \in 1 .. n PROVE f[i] = IF i = 1 THEN ss[i] ELSE f[i - 1] \o ss[i]
  <2> HIDE DEF G, X
  <2>1. CASE i = 1
    BY <1>6, <2>1
  <2>2. CASE i # 1
    <3>1. i - 1 \in 1 .. n
      BY <2>2
    <3>2. f[i - 1] = g[i - 1] /\ f[i] = g[i]
      BY <3>1
    <3> QED
      BY <1>5, <2>2, <3>2
  <2> QED
    BY <2>1, <2>2
<1>8. f = [i \in 1 .. n |-> IF i = 1 THEN ss[i] ELSE f[i - 1] \o ss[i]]
  BY <1>7
<1> QED
  <2> HIDE DEF f
  <2> QED
    BY <1>8

\* Texts one after another hold what each of them holds.
LEMMA FlattenElements ==
  ASSUME NEW S, NEW ss \in Seq(Seq(S))
  PROVE  /\ FlattenSeq(ss) \in Seq(S)
         /\ ToSet(FlattenSeq(ss)) = UNION {ToSet(ss[k]) : k \in DOMAIN ss}
<1>1. Len(ss) \in Nat /\ DOMAIN ss = 1 .. Len(ss)
  OBVIOUS
<1>2. CASE Len(ss) = 0
  <2>1. ss = <<>> /\ DOMAIN ss = {}
    BY <1>2
  <2>2. FlattenSeq(ss) = <<>>
    BY <1>2, <2>1 DEF FlattenSeq
  <2>3. ToSet(<<>>) = {} /\ <<>> \in Seq(S)
    BY DEF ToSet
  <2>4. UNION {ToSet(ss[k]) : k \in DOMAIN ss} = {}
    BY <2>1
  <2> QED
    BY <2>2, <2>3, <2>4
<1>3. CASE Len(ss) # 0
  <2> DEFINE IsFlat(f) == f = [i \in 1 .. Len(ss) |-> IF i = 1 THEN ss[i] ELSE f[i - 1] \o ss[i]]
  <2>1. FlattenSeq(ss) = (CHOOSE f : IsFlat(f))[Len(ss)]
    BY <1>3, Zenon DEF FlattenSeq
  <2>2. \E f : IsFlat(f)
    BY <1>1, FlatToExists
  <2>3. PICK f : IsFlat(f) /\ FlattenSeq(ss) = f[Len(ss)]
    <3> HIDE DEF IsFlat
    <3> QED
      BY <2>1, <2>2
  <2>4. FlatTo(ss, f)
    BY <2>3 DEF FlatTo
  <2>5. Len(ss) \in 1 .. Len(ss)
    BY <1>1, <1>3
  <2>6. HoldsTo(ss, Len(ss), S, f[Len(ss)])
    BY <2>4, <2>5, FlatToElements
  <2> QED
    BY <1>1, <2>3, <2>6 DEF HoldsTo
<1> QED
  BY <1>2, <1>3

-----------------------------------------------------------------------------
(***************************************************************************)
(* What there is: the cites, the names and the chapters a project can come *)
(* to.                                                                     *)
(***************************************************************************)
\* Every cite of the program or of a file.
Citable ==
  ToSet(Implicit)
    \cup (UNION {ToSet(project.chapters[i].cites) : i \in DOMAIN project.chapters})
    \cup (UNION {ToSet(project.files[p].cites) : p \in Paths})

\* The quires a header can be written under, and the names it can have.
Quire == {NoQuire} \cup {c.quire : c \in Citable}
Name  == {c.name : c \in Citable} \cup {project.files[p].header : p \in Paths}

\* The frames, the headers and the texts the walk can come to.
FrameSet  == [path : {RootPath} \cup Paths, quire : Quire, cites : Seq(Citable)]
HeaderSet == ToSet(Headers) \cup [quire : Quire, name : Name]
PartSet   == {Root} \cup {Part(Frame(p, q, <<>>)) : p \in Paths, q \in Quire}

\* The state is typed, in terms of the project at hand.
BundleTyped ==
  /\ project \in Projects
  /\ carried \in Seq(HeaderSet)
  /\ seen \subseteq Paths \ {RootPath}
  /\ parts \in Seq(PartSet)
  /\ stack \in Seq(FrameSet)

-----------------------------------------------------------------------------
\* A sequence over a set is one over every wider set.
LEMMA WiderSeq ==
  ASSUME NEW S, NEW T, S \subseteq T, NEW s \in Seq(S)
  PROVE  s \in Seq(T)
<1>1. Len(s) \in Nat /\ s \in [1 .. Len(s) -> S]
  OBVIOUS
<1>2. s \in [1 .. Len(s) -> T]
  BY <1>1
<1> QED
  BY <1>1, <1>2

\* A function on the first n numbers is a sequence of length n.
LEMMA ListIsSeq ==
  ASSUME NEW S, NEW n \in Nat, NEW f \in [1 .. n -> S]
  PROVE  f \in Seq(S) /\ Len(f) = n /\ DOMAIN f = 1 .. n
OBVIOUS

\* A frame with other cites is the frame with these in their place.
LEMMA NewCites ==
  ASSUME NEW A, NEW B, NEW C, NEW f \in [path : A, quire : B, cites : C], NEW cites
  PROVE  [f EXCEPT !.cites = cites] = [path |-> f.path, quire |-> f.quire, cites |-> cites]
OBVIOUS

\* What the assumption says of the project at hand.
LEMMA AllNamed ==
  ASSUME project \in Projects
  PROVE  /\ CitesNamed(Implicit)
         /\ project.chapters \in Seq(ToSet(project.chapters))
         /\ \A i \in DOMAIN project.chapters : CitesNamed(project.chapters[i].cites)
         /\ \A p \in Paths : CitesNamed(project.files[p].cites)
BY ProjectsAssumption DEF Paths

\* Every cite there is has a quire and a name.
LEMMA CitableNamed ==
  ASSUME project \in Projects, NEW c \in Citable
  PROVE  c.quire \in DOMAIN Fold \ {NoQuire} /\ c.name \in DOMAIN Fold \ {NoHeader}
<1>1. \E cites : CitesNamed(cites) /\ c \in ToSet(cites)
  BY AllNamed DEF Citable
<1> QED
  BY <1>1 DEF CitesNamed

\* What does not depend on the walk.
LEMMA ProjectFixed ==
  ASSUME project' = project
  PROVE  /\ Citable' = Citable /\ Quire' = Quire /\ Name' = Name /\ Paths' = Paths
         /\ FrameSet' = FrameSet /\ HeaderSet' = HeaderSet /\ PartSet' = PartSet
         /\ Headers' = Headers /\ Cites' = Cites /\ Root' = Root
         /\ WellNamed' = WellNamed
<1>1. Citable' = Citable /\ Paths' = Paths
  BY DEF Citable, Paths
<1>2. Headers' = Headers /\ Cites' = Cites /\ Root' = Root
  BY DEF Headers, Cites, Root
<1>4. Quire' = Quire
  BY <1>1 DEF Quire
<1>5. Name' = Name
  BY <1>1 DEF Name
<1>6. FrameSet' = FrameSet /\ HeaderSet' = HeaderSet
  BY <1>1, <1>2, <1>4, <1>5 DEF FrameSet, HeaderSet
<1>7. PartSet' = PartSet
  BY <1>1, <1>2, <1>4 DEF PartSet, Part, Frame
<1>9. WellNamed' = WellNamed
  BY DEF WellNamed
<1> QED
  BY <1>1, <1>2, <1>4, <1>5, <1>6, <1>7, <1>9

\* The program's headers and cites, and the files' cites, are sequences of
\* what there is.
LEMMA SourcesTyped ==
  ASSUME project \in Projects
  PROVE  /\ Headers \in Seq(HeaderSet)
         /\ Implicit \o Cites \in Seq(Citable)
         /\ ToSet(Implicit \o Cites) = ToSet(Implicit) \cup ToSet(Cites)
         /\ \A p \in Paths : project.files[p].cites \in Seq(Citable)
<1> DEFINE chapters == project.chapters
<1>1. chapters \in Seq(ToSet(chapters))
  BY AllNamed
<1>2. Len(chapters) \in Nat /\ DOMAIN chapters = 1 .. Len(chapters)
  BY <1>1
<1>3. Headers \in Seq(HeaderSet)
  <2>1. Headers = [i \in 1 .. Len(chapters) |-> chapters[i].header]
    BY <1>2 DEF Headers, HeadersOf
  <2>2. \A i \in 1 .. Len(chapters) : Headers[i] \in ToSet(Headers)
    BY <2>1 DEF ToSet
  <2>3. Headers \in Seq(ToSet(Headers))
    <3> HIDE DEF chapters
    <3> QED
      BY <1>2, <2>1, <2>2
  <2>4. ToSet(Headers) \subseteq HeaderSet
    BY DEF HeaderSet
  <2> QED
    BY <2>3, <2>4, WiderSeq
<1>4. ASSUME NEW cites, CitesNamed(cites), ToSet(cites) \subseteq Citable
      PROVE  cites \in Seq(Citable)
  <2>1. cites \in Seq(ToSet(cites))
    BY <1>4 DEF CitesNamed
  <2> QED
    BY <1>4, <2>1, WiderSeq
<1>5. Implicit \in Seq(Citable)
  BY <1>4, AllNamed DEF Citable
<1>6. \A p \in Paths : project.files[p].cites \in Seq(Citable)
  <2> SUFFICES ASSUME NEW p \in Paths PROVE project.files[p].cites \in Seq(Citable)
    OBVIOUS
  <2>1. CitesNamed(project.files[p].cites)
    BY AllNamed
  <2>2. ToSet(project.files[p].cites) \subseteq Citable
    BY DEF Citable
  <2> QED
    BY <1>4, <2>1, <2>2
<1>7. Cites \in Seq(Citable)
  <2> DEFINE all == [i \in DOMAIN chapters |-> chapters[i].cites]
  <2>1. ASSUME NEW i \in DOMAIN chapters PROVE chapters[i].cites \in Seq(Citable)
    <3>1. CitesNamed(chapters[i].cites)
      BY AllNamed
    <3>2. ToSet(chapters[i].cites) \subseteq Citable
      BY DEF Citable
    <3> QED
      BY <1>4, <3>1, <3>2
  <2>2. all \in Seq(Seq(Citable))
    BY <1>2, <2>1
  <2>3. Cites = FlattenSeq(all)
    BY DEF Cites, CitesOf
  <2> QED
    BY <2>2, <2>3, FlattenElements
<1> QED
  BY <1>3, <1>5, <1>6, <1>7, ConcatElements

-----------------------------------------------------------------------------
\* While cites are followed there is an innermost frame.
LEMMA TopTyped ==
  ASSUME BundleTyped, Walking
  PROVE  /\ Len(stack) \in Nat \ {0} /\ Len(stack) \in DOMAIN stack /\ DOMAIN stack = 1 .. Len(stack)
         /\ Top = stack[Len(stack)] /\ Top \in FrameSet
BY DEF BundleTyped, Walking, Top

\* The cite at hand, and the cites that are left when it is followed.
LEMMA CiteTyped ==
  ASSUME BundleTyped, AtCite
  PROVE  /\ Cite \in Citable /\ Tail(Top.cites) \in Seq(Citable)
         /\ ToSet(Top.cites) = {Cite} \cup ToSet(Tail(Top.cites))
<1>1. Top.cites \in Seq(Citable) /\ Top.cites # <<>>
  BY TopTyped DEF AtCite, FrameSet
<1> DEFINE s == Top.cites
<1>2. Cite = s[1]
  BY DEF Cite
<1> HIDE DEF s
<1>3. s \in Seq(Citable) /\ s # <<>>
  BY <1>1 DEF s
<1>4. s[1] \in Citable /\ Tail(s) \in Seq(Citable) /\ Len(s) \in Nat \ {0} /\ DOMAIN s = 1 .. Len(s)
      /\ DOMAIN Tail(s) = 1 .. (Len(s) - 1) /\ \A i \in 1 .. (Len(s) - 1) : Tail(s)[i] = s[i + 1]
  BY <1>3
<1>5. ToSet(s) = {s[1]} \cup ToSet(Tail(s))
  <2>1. ASSUME NEW i \in 1 .. Len(s) PROVE i = 1 \/ \E j \in 1 .. (Len(s) - 1) : Tail(s)[j] = s[i]
    <3>1. CASE i # 1
      <4>1. i - 1 \in 1 .. (Len(s) - 1) /\ (i - 1) + 1 = i
        BY <1>4, <3>1
      <4>2. Tail(s)[i - 1] = s[i]
        BY <1>4, <4>1
      <4> QED
        BY <4>1, <4>2
    <3> QED
      BY <3>1
  <2>2. \A j \in 1 .. (Len(s) - 1) : j + 1 \in 1 .. Len(s)
    BY <1>4
  <2>3. ToSet(Tail(s)) = {Tail(s)[j] : j \in 1 .. (Len(s) - 1)} /\ ToSet(s) = {s[i] : i \in 1 .. Len(s)}
    BY <1>4 DEF ToSet
  <2>4. ASSUME NEW e \in ToSet(s) PROVE e = s[1] \/ e \in ToSet(Tail(s))
    <3>1. PICK i \in 1 .. Len(s) : e = s[i]
      BY <2>3
    <3> QED
      BY <2>1, <2>3, <3>1
  <2>5. ASSUME NEW e \in ToSet(Tail(s)) PROVE e \in ToSet(s)
    <3>1. PICK j \in 1 .. (Len(s) - 1) : e = s[j + 1]
      BY <1>4, <2>3
    <3> QED
      BY <2>2, <2>3, <3>1
  <2>6. s[1] \in ToSet(s)
    BY <1>4, <2>3
  <2> QED
    BY <2>4, <2>5, <2>6
<1> QED
  BY <1>2, <1>4, <1>5 DEF s

\* Following a cite changes the innermost frame's cites and nothing else.
LEMMA FollowedReads ==
  ASSUME BundleTyped, AtCite
  PROVE  /\ Followed \in Seq(FrameSet) /\ Len(Followed) = Len(stack)
         /\ DOMAIN Followed = DOMAIN stack
         /\ \A k \in DOMAIN stack : /\ Followed[k].path = stack[k].path /\ Followed[k].quire = stack[k].quire
                                    /\ k # Len(stack) => Followed[k] = stack[k]
         /\ Followed[Len(stack)].cites = Tail(Top.cites)
<1>1. /\ Len(stack) \in Nat \ {0} /\ Len(stack) \in DOMAIN stack /\ DOMAIN stack = 1 .. Len(stack)
      /\ Top = stack[Len(stack)] /\ Top \in FrameSet
  BY TopTyped DEF AtCite
<1>2. Tail(Top.cites) \in Seq(Citable)
  BY CiteTyped
<1> DEFINE top == [Top EXCEPT !.cites = Tail(@)]
<1>3. top = [path |-> Top.path, quire |-> Top.quire, cites |-> Tail(Top.cites)]
  <2>1. Top \in [path : {RootPath} \cup Paths, quire : Quire, cites : Seq(Citable)]
    BY <1>1 DEF FrameSet
  <2> DEFINE P == {RootPath} \cup Paths  C == Seq(Citable)  rest == Tail(Top.cites)
  <2>2. Top \in [path : P, quire : Quire, cites : C]
    BY <2>1
  <2> HIDE DEF P, C, rest
  <2>3. [Top EXCEPT !.cites = rest] = [path |-> Top.path, quire |-> Top.quire, cites |-> rest]
    BY <2>2, NewCites
  <2> QED
    BY <2>3 DEF rest
<1>4. top \in FrameSet /\ top.path = Top.path /\ top.quire = Top.quire /\ top.cites = Tail(Top.cites)
  BY <1>1, <1>2, <1>3 DEF FrameSet
<1>5. Followed = [stack EXCEPT ![Len(stack)] = top]
  BY <1>1 DEF Followed
<1> HIDE DEF top
<1>6. stack \in [1 .. Len(stack) -> FrameSet]
  BY DEF BundleTyped
<1>7. /\ Followed \in [1 .. Len(stack) -> FrameSet]
      /\ \A k \in 1 .. Len(stack) : Followed[k] = IF k = Len(stack) THEN top ELSE stack[k]
  BY <1>4, <1>5, <1>6
<1>8. Followed \in Seq(FrameSet) /\ Len(Followed) = Len(stack) /\ DOMAIN Followed = 1 .. Len(stack)
  BY <1>1, <1>7, ListIsSeq
<1> QED
  BY <1>1, <1>4, <1>7, <1>8

-----------------------------------------------------------------------------
(***************************************************************************)
(* Presence and Missing, read as sets: the order of the headers and of the *)
(* cites does not matter.                                                  *)
(***************************************************************************)
\* The headers that answer a name; those that answer a cite exactly; and
\* whether a cite is answered.
Hits(S, name) == {h \in S : Answers(h, name)}
Exacts(S, c)  == {h \in S : Answers(h, c.name) /\ SameQuire(h.quire, c.quire)}
Present(S, c) == \/ Exacts(S, c) # {}
                 \/ Hits(S, c.name) # {} /\ \A g, h \in Hits(S, c.name) : SameHeader(g, h)

\* One header has the names and the quires of the other.
LEMMA Alike ==
  ASSUME NEW g, NEW h, SameHeader(g, h)
  PROVE  /\ SameHeader(h, g)
         /\ \A k : SameHeader(h, k) => SameHeader(g, k)
         /\ \A name : Answers(g, name) /\ h.name # NoHeader => Answers(h, name)
         /\ \A q : SameQuire(g.quire, q) => SameQuire(h.quire, q)
BY DEF SameHeader, SameQuire, Answers

\* Of the headers that are one, the first is named.
LEMMA FirstNamed ==
  ASSUME NEW H, NEW headers \in Seq(H), NEW name, NEW i \in DOMAIN headers, Answers(headers[i], name)
  PROVE  \E m \in Named(headers, name) : SameHeader(headers[m], headers[i])
<1> DEFINE Like == {j \in DOMAIN headers : Answers(headers[j], name) /\ SameHeader(headers[j], headers[i])}
<1>1. DOMAIN headers = 1 .. Len(headers) /\ Len(headers) \in Nat
  OBVIOUS
<1>2. SameHeader(headers[i], headers[i])
  BY DEF SameHeader, SameQuire
<1>3. i \in Like
  BY <1>2
<1>4. Like \in SUBSET Nat /\ Like # {}
  BY <1>1, <1>3
<1>5. PICK m \in Like : \A k \in Like : m <= k
  <2> HIDE DEF Like
  <2> QED
    BY <1>4, LeastNat
<1>6. ASSUME NEW j \in 1 .. (m - 1), Answers(headers[j], name), SameHeader(headers[j], headers[m])
      PROVE  FALSE
  <2>1. j \in DOMAIN headers /\ ~(m <= j)
    BY <1>1, <1>5
  <2>2. SameHeader(headers[j], headers[i])
    BY <1>5, <1>6, Alike
  <2> QED
    BY <1>5, <1>6, <2>1, <2>2
<1>7. m \in Named(headers, name)
  BY <1>5, <1>6 DEF Named
<1> QED
  BY <1>5, <1>7

\* Presence is a question about the set of the headers.
LEMMA PresenceReads ==
  ASSUME NEW H, NEW headers \in Seq(H), NEW c
  PROVE  /\ Presence(headers, c) = "missing" <=> Hits(ToSet(headers), c.name) = {}
         /\ Presence(headers, c) = "present" <=> Present(ToSet(headers), c)
<1> DEFINE S == ToSet(headers)
           named == Named(headers, c.name)
<1>1. /\ \A i \in DOMAIN headers : headers[i] \in S
      /\ \A h \in S : \E i \in DOMAIN headers : h = headers[i]
  BY DEF ToSet
<1>2. \A m \in named : m \in DOMAIN headers /\ Answers(headers[m], c.name)
  BY DEF Named
<1>3. ASSUME NEW h \in Hits(S, c.name)
      PROVE  \E m \in named : SameHeader(headers[m], h)
  <2>1. PICK i \in DOMAIN headers : h = headers[i]
    BY <1>1, <1>3 DEF Hits
  <2>2. Answers(headers[i], c.name)
    BY <1>3, <2>1 DEF Hits
  <2> QED
    BY <2>1, <2>2, FirstNamed
<1>4. ASSUME NEW m \in named
      PROVE  headers[m] \in Hits(S, c.name)
  BY <1>1, <1>2 DEF Hits
<1>5. named = {} <=> Hits(S, c.name) = {}
  <2> HIDE DEF named, S
  <2> QED
    BY <1>3, <1>4
<1>6. Exact(headers, c) = {} <=> Exacts(S, c) = {}
  <2> HIDE DEF S
  <2>1. ASSUME NEW i \in Exact(headers, c) PROVE headers[i] \in Exacts(S, c)
    BY <1>1 DEF Exact, Exacts
  <2>2. ASSUME NEW h \in Exacts(S, c) PROVE \E i \in DOMAIN headers : i \in Exact(headers, c)
    <3>1. PICK i \in DOMAIN headers : h = headers[i]
      BY <1>1 DEF Exacts
    <3> QED
      BY <3>1 DEF Exact, Exacts
  <2> QED
    BY <2>1, <2>2
<1>7. Exacts(S, c) \subseteq Hits(S, c.name)
  BY DEF Exacts, Hits
<1>8. (\E i \in named : named = {i})
        <=> Hits(S, c.name) # {} /\ \A g, h \in Hits(S, c.name) : SameHeader(g, h)
  <2>1. ASSUME NEW i \in named, named = {i}, NEW g \in Hits(S, c.name), NEW h \in Hits(S, c.name)
        PROVE  SameHeader(g, h)
    <3>1. SameHeader(headers[i], g) /\ SameHeader(headers[i], h)
      <4> HIDE DEF named, S
      <4> QED
        BY <1>3, <2>1
    <3> QED
      BY <3>1, Alike
  <2>2. ASSUME NEW i \in named, NEW j \in named, SameHeader(headers[i], headers[j]), i # j
        PROVE  FALSE
    <3>1. i \in 1 .. Len(headers) /\ j \in 1 .. Len(headers) /\ SameHeader(headers[j], headers[i])
      BY <1>2, <2>2, Alike
    <3>2. CASE i < j
      <4>1. i \in 1 .. (j - 1)
        BY <3>1, <3>2
      <4> QED
        BY <1>2, <2>2, <4>1 DEF Named
    <3>3. CASE j < i
      <4>1. j \in 1 .. (i - 1)
        BY <3>1, <3>3
      <4> QED
        BY <1>2, <2>2, <3>1, <4>1 DEF Named
    <3> QED
      BY <2>2, <3>1, <3>2, <3>3
  <2> HIDE DEF named, S
  <2>3. ASSUME \A g, h \in Hits(S, c.name) : SameHeader(g, h), NEW i \in named
        PROVE  named = {i}
    BY <1>4, <2>2, <2>3
  <2> QED
    BY <1>5, <2>1, <2>3
<1> HIDE DEF named, S
<1>9. /\ Presence(headers, c) = "missing" <=> Exact(headers, c) = {} /\ named = {}
      /\ Presence(headers, c) = "present" <=> Exact(headers, c) # {} \/ (named # {} /\ \E i \in named : named = {i})
  BY DEF Presence, named
<1> QED
  BY <1>5, <1>6, <1>7, <1>8, <1>9 DEF Present, S

\* A sequence with one element more.
LEMMA AppendElements ==
  ASSUME NEW S, NEW s \in Seq(S), NEW e \in S
  PROVE  Append(s, e) \in Seq(S) /\ ToSet(Append(s, e)) = ToSet(s) \cup {e}
<1> DEFINE t == <<e>>
<1>1. Append(s, e) = s \o t /\ t \in Seq(S)
  OBVIOUS
<1>2. ToSet(t) = {e}
  BY DEF ToSet
<1> HIDE DEF t
<1>3. s \o t \in Seq(S) /\ ToSet(s \o t) = ToSet(s) \cup ToSet(t)
  BY <1>1, ConcatElements
<1> QED
  BY <1>1, <1>2, <1>3

\* A cite is one with itself.
LEMMA SameCiteSelf == \A c : SameCite(c, c)
BY DEF SameCite, SameName

\* The loop of `missing`, one cite further.
Kept(headers, out, c) ==
  IF Presence(headers, c) = "missing" /\ \A j \in DOMAIN out : ~SameCite(out[j], c) THEN Append(out, c) ELSE out

\* f records the loop of `missing`, cite by cite.
IsKept(headers, all, f) ==
  f[0] = <<>> /\ \A i \in 1 .. Len(all) : f[i] = Kept(headers, f[i - 1], all[i])

\* The invariant of the loop: what is kept is missing, and each cite up to
\* the i-th that is missing is one with a kept one.
KeptTo(headers, all, i, C, out) ==
  /\ out \in Seq(C)
  /\ \A d \in ToSet(out) : d \in ToSet(all) /\ Presence(headers, d) = "missing"
  /\ \A j \in 1 .. i : Presence(headers, all[j]) = "missing" => \E d \in ToSet(out) : SameCite(d, all[j])

\* The loop of `missing` keeps its invariant: one cite further.
LEMMA KeptFurther ==
  ASSUME NEW C, NEW headers, NEW all \in Seq(C), NEW i \in 1 .. Len(all), NEW out,
         KeptTo(headers, all, i - 1, C, out)
  PROVE  KeptTo(headers, all, i, C, Kept(headers, out, all[i]))
<1>1. all[i] \in C /\ out \in Seq(C) /\ DOMAIN all = 1 .. Len(all) /\ all[i] \in ToSet(all)
  BY DEF KeptTo, ToSet
<1>2. \A j \in 1 .. i : j \in 1 .. (i - 1) \/ j = i
  OBVIOUS
<1>3. CASE Presence(headers, all[i]) = "missing" /\ \A j \in DOMAIN out : ~SameCite(out[j], all[i])
  <2>1. Kept(headers, out, all[i]) = Append(out, all[i])
    BY <1>3 DEF Kept
  <2>2. Append(out, all[i]) \in Seq(C) /\ ToSet(Append(out, all[i])) = ToSet(out) \cup {all[i]}
    BY <1>1, AppendElements
  <2>3. KeptTo(headers, all, i, C, Append(out, all[i]))
    BY <1>1, <1>2, <1>3, <2>2, SameCiteSelf DEF KeptTo
  <2> QED
    BY <2>1, <2>3
<1>4. CASE ~(Presence(headers, all[i]) = "missing" /\ \A j \in DOMAIN out : ~SameCite(out[j], all[i]))
  <2>1. Kept(headers, out, all[i]) = out
    BY <1>4 DEF Kept
  <2>2. Presence(headers, all[i]) = "missing" => \E d \in ToSet(out) : SameCite(d, all[i])
    BY <1>4 DEF ToSet
  <2>3. KeptTo(headers, all, i, C, out)
    BY <1>2, <2>2 DEF KeptTo
  <2> QED
    BY <2>1, <2>3
<1> QED
  BY <1>3, <1>4

\* The loop of `missing` keeps its invariant: to the end.
LEMMA KeptElements ==
  ASSUME NEW C, NEW headers, NEW all \in Seq(C), NEW f, IsKept(headers, all, f)
  PROVE  KeptTo(headers, all, Len(all), C, f[Len(all)])
<1> DEFINE n == Len(all)
           Bad == {i \in 0 .. n : ~KeptTo(headers, all, i, C, f[i])}
<1>1. n \in Nat
  OBVIOUS
<1>2. KeptTo(headers, all, 0, C, <<>>)
  <2>1. ToSet(<<>>) = {} /\ 1 .. 0 = {} /\ <<>> \in Seq(C)
    BY DEF ToSet
  <2> QED
    BY <2>1 DEF KeptTo
<1>3. ASSUME NEW i \in Bad PROVE \E k \in Bad : k < i
  <2>1. i # 0
    BY <1>2, <1>3 DEF IsKept
  <2>2. i \in 1 .. n /\ i - 1 \in 0 .. n /\ i - 1 < i
    BY <1>1, <2>1
  <2>3. f[i] = Kept(headers, f[i - 1], all[i])
    BY <2>2 DEF IsKept
  <2>4. ~KeptTo(headers, all, i - 1, C, f[i - 1])
    BY <1>3, <2>2, <2>3, KeptFurther
  <2> QED
    BY <2>2, <2>4
<1>4. Bad = {}
  <2>1. Bad \in SUBSET (0 .. n)
    OBVIOUS
  <2> HIDE DEF Bad
  <2> QED
    BY <1>1, <1>3, <2>1, Descent
<1> QED
  BY <1>1, <1>4

\* f as a function definition: the form in which Missing has it.
IsLoop(headers, all, f) ==
  f = [i \in 0 .. Len(all) |-> IF i = 0 THEN <<>> ELSE Kept(headers, f[i - 1], all[i])]

\* The function by which Missing is defined exists.
LEMMA KeptExists ==
  ASSUME NEW C, NEW headers, NEW all \in Seq(C), NEW n \in Nat, n = Len(all)
  PROVE  \E f : IsLoop(headers, all, f)
<1> DEFINE X == Seq(C)
           G == [i \in Nat |-> [out \in X |-> IF i \in 1 .. n THEN Kept(headers, out, all[i]) ELSE out]]
<1>1. ASSUME NEW i \in 1 .. n, NEW out \in X PROVE Kept(headers, out, all[i]) \in X
  BY AppendElements DEF Kept
<1>2. G \in [Nat -> [X -> X]] /\ <<>> \in X
  <2>1. <<>> \in X
    OBVIOUS
  <2> HIDE DEF X
  <2> QED
    BY <1>1, <2>1
<1>3. ASSUME NEW i \in 1 .. n, NEW out \in X PROVE G[i][out] = Kept(headers, out, all[i])
  <2> HIDE DEF X
  <2>1. i \in Nat
    OBVIOUS
  <2>2. G[i] = [o \in X |-> IF i \in 1 .. n THEN Kept(headers, o, all[i]) ELSE o]
    BY <2>1
  <2> QED
    BY <2>2
<1> DEFINE x == <<>>
<1>4. PICK g : IsRecord(g, X, x, n, G)
  <2> HIDE DEF G, X, x
  <2> QED
    BY <1>2, Rounds DEF x
<1> HIDE DEF G, X
<1>5. \A i \in 1 .. n : i - 1 \in 0 .. n
  OBVIOUS
<1>6. \A i \in 1 .. n : g[i] = Kept(headers, g[i - 1], all[i])
  BY <1>3, <1>4, <1>5 DEF IsRecord
<1>7. g = [i \in 0 .. n |-> IF i = 0 THEN <<>> ELSE Kept(headers, g[i - 1], all[i])]
  <2>1. g = [i \in 0 .. n |-> g[i]] /\ g[0] = <<>>
    BY <1>4 DEF IsRecord
  <2>2. \A i \in 0 .. n : g[i] = IF i = 0 THEN <<>> ELSE Kept(headers, g[i - 1], all[i])
    BY <1>6, <2>1
  <2> QED
    BY <2>1, <2>2
<1> QED
  BY <1>7 DEF IsLoop

\* What is missing: once each, and nothing else.
LEMMA MissingElements ==
  ASSUME NEW C, NEW headers, NEW cites, Implicit \o cites \in Seq(C)
  PROVE  /\ Missing(headers, cites) \in Seq(C)
         /\ \A d \in ToSet(Missing(headers, cites)) :
               d \in ToSet(Implicit \o cites) /\ Presence(headers, d) = "missing"
         /\ \A c \in ToSet(Implicit \o cites) : Presence(headers, c) = "missing" =>
               \E d \in ToSet(Missing(headers, cites)) : SameCite(d, c)
<1> DEFINE all == Implicit \o cites
<1>1. Missing(headers, cites) = (CHOOSE f : IsLoop(headers, all, f))[Len(all)]
  BY Zenon DEF Missing, Kept, IsLoop
<1> HIDE DEF all
<1>2. all \in Seq(C)
  BY DEF all
<1>3. Len(all) \in Nat /\ DOMAIN all = 1 .. Len(all)
  BY <1>2
<1>4. \E f : IsLoop(headers, all, f)
  BY <1>2, <1>3, KeptExists
<1>5. PICK f : IsLoop(headers, all, f) /\ Missing(headers, cites) = f[Len(all)]
  BY <1>1, <1>4
<1>6. IsKept(headers, all, f)
  BY <1>3, <1>5 DEF IsKept, IsLoop
<1>7. KeptTo(headers, all, Len(all), C, f[Len(all)])
  BY <1>2, <1>6, KeptElements
<1>8. \A c \in ToSet(all) : \E j \in 1 .. Len(all) : c = all[j]
  BY <1>3 DEF ToSet
<1> QED
  BY <1>5, <1>7, <1>8 DEF KeptTo, all

-----------------------------------------------------------------------------
(***************************************************************************)
(* Every file once.                                                        *)
(***************************************************************************)
\* The walk reads every file once: the paths of the texts and of the frames
\* are those of files seen, each once, with the program's own at the bottom;
\* and a file that was seen answers a cite of its name, so that no cite leads
\* to it again.
ReadOnce ==
  /\ \A i, j \in DOMAIN parts : parts[i].path = parts[j].path => i = j
  /\ \A i, j \in DOMAIN stack : stack[i].path = stack[j].path => i = j
  /\ \A i \in DOMAIN parts, j \in DOMAIN stack : parts[i].path # stack[j].path
  /\ \A i \in DOMAIN parts : parts[i].path \in seen \cup {RootPath}
  /\ \A j \in DOMAIN stack : stack[j].path \in seen \/ (j = 1 /\ stack[j].path = RootPath)
  /\ stack # <<>> => stack[1].path = RootPath
  /\ phase \in {"reading", "walking"} => \A i \in DOMAIN parts : parts[i].path # RootPath
  /\ phase = "reading" => stack = <<>> /\ parts = <<>> /\ seen = {}
  /\ \A p \in seen : Hits(ToSet(carried), p[2]) # {}

\* Append, index by index.
LEMMA AppendReads ==
  ASSUME NEW S, NEW s \in Seq(S), NEW e \in S
  PROVE  /\ Append(s, e) \in Seq(S) /\ Len(Append(s, e)) = Len(s) + 1 /\ Len(s) \in Nat
         /\ DOMAIN s = 1 .. Len(s) /\ DOMAIN Append(s, e) = 1 .. (Len(s) + 1)
         /\ \A i \in 1 .. Len(s) : Append(s, e)[i] = s[i]
         /\ Append(s, e)[Len(s) + 1] = e
OBVIOUS

\* Front, index by index.
LEMMA FrontReads ==
  ASSUME NEW S, NEW s \in Seq(S), s # <<>>
  PROVE  /\ Front(s) \in Seq(S) /\ DOMAIN Front(s) = 1 .. (Len(s) - 1) /\ Len(s) \in Nat \ {0}
         /\ DOMAIN s = 1 .. Len(s) /\ \A i \in 1 .. (Len(s) - 1) : Front(s)[i] = s[i]
         /\ Len(Front(s)) = Len(s) - 1
<1>1. Len(s) \in Nat \ {0} /\ DOMAIN s = 1 .. Len(s)
  OBVIOUS
<1>2. Front(s) = SubSeq(s, 1, Len(s) - 1)
  BY DEF Front
<1>3. /\ Len(SubSeq(s, 1, Len(s) - 1)) = Len(s) - 1
      /\ \A i \in 1 .. (Len(s) - 1) : SubSeq(s, 1, Len(s) - 1)[i] = s[i]
  BY <1>1
<1>4. SubSeq(s, 1, Len(s) - 1) \in Seq(S)
  BY <1>1
<1>5. DOMAIN Front(s) = 1 .. (Len(s) - 1)
  BY <1>2, <1>3, <1>4
<1> QED
  BY <1>1, <1>2, <1>3, <1>4, <1>5

\* What a frame becomes is a text of the frame's file.
LEMMA PartTyped ==
  ASSUME NEW f \in FrameSet, f.path \in Paths
  PROVE  Part(f) \in PartSet /\ Part(f).path = f.path
<1>1. f.quire \in Quire
  BY DEF FrameSet
<1>2. Part(f) = Part(Frame(f.path, f.quire, <<>>))
  BY DEF Part, Frame
<1>3. Part(f).path = f.path
  BY DEF Part
<1> QED
  BY <1>1, <1>2, <1>3 DEF PartSet

\* The program's own text.
LEMMA RootTyped == Root \in PartSet /\ Root.path = RootPath
BY DEF PartSet, Root

\* The file of a cite has the cited name, and is not the program.
LEMMA DepReads == Dep[2] = Cite.name /\ Dep # RootPath
<1>1. Dep[2] = Cite.name
  BY DEF Dep
<1>2. DOMAIN Dep = 1 .. 2 /\ DOMAIN RootPath = 1 .. 1 /\ 2 \in 1 .. 2 /\ ~(2 \in 1 .. 1)
  BY DEF Dep, RootPath
<1> QED
  BY <1>1, <1>2

\* What reading a file makes carried: the cited name among it, each name
\* written under the cited quire.
LEMMA CarriesReads ==
  ASSUME BundleTyped, AtCite, Dep \in DOMAIN project.files
  PROVE  /\ Carries(Dep, Cite) \in Seq(HeaderSet)
         /\ Header(Cite.quire, Cite.name) \in ToSet(Carries(Dep, Cite))
         /\ \A h \in ToSet(Carries(Dep, Cite)) :
               \/ h = Header(Cite.quire, Cite.name)
               \/ h = Header(Cite.quire, project.files[Dep].header) /\ project.files[Dep].header # NoHeader
<1> DEFINE a == Header(Cite.quire, Cite.name)
           b == Header(Cite.quire, project.files[Dep].header)
<1>1. Cite \in Citable /\ Dep \in Paths
  BY CiteTyped DEF Paths
<1>2. Cite.quire \in Quire /\ Cite.name \in Name /\ project.files[Dep].header \in Name
  BY <1>1 DEF Quire, Name
<1>3. a \in HeaderSet /\ b \in HeaderSet
  BY <1>2 DEF HeaderSet, Header
<1>4. \/ Carries(Dep, Cite) = <<a>>
      \/ Carries(Dep, Cite) = <<a, b>> /\ project.files[Dep].header # NoHeader
  BY DEF Carries
<1> HIDE DEF a, b
<1>5. <<a>> \in Seq(HeaderSet) /\ ToSet(<<a>>) = {a}
  BY <1>3 DEF ToSet
<1>6. <<a, b>> \in Seq(HeaderSet) /\ ToSet(<<a, b>>) = {a, b}
  <2>1. DOMAIN <<a, b>> = {1, 2} /\ <<a, b>>[1] = a /\ <<a, b>>[2] = b
    OBVIOUS
  <2> QED
    BY <1>3, <2>1 DEF ToSet
<1> QED
  BY <1>4, <1>5, <1>6 DEF a, b

\* Every step leaves the state typed. Leave needs ReadOnce: the frame it
\* closes is a file's and not the program's.
LEMMA NextTyped == BundleTyped /\ ReadOnce /\ [Next]_vars => BundleTyped'
<1> SUFFICES ASSUME BundleTyped, ReadOnce, [Next]_vars PROVE BundleTyped'
  OBVIOUS
<1>1. project' = project
  BY DEF Next, vars, RefuseProgram, Refuse, LoadWhole, BeginWalk, SkipPresent, RefuseAmbiguous,
         UnregisteredQuire, NoSuchChapter, Enter, Leave, Finish, RefuseUnit, Load
<1>2. /\ FrameSet' = FrameSet /\ HeaderSet' = HeaderSet /\ PartSet' = PartSet /\ Paths' = Paths
  BY <1>1, ProjectFixed
<1> USE DEF BundleTyped
<1>3. CASE UNCHANGED <<carried, seen, parts, stack>>
  BY <1>1, <1>2, <1>3
<1>4. CASE LoadWhole
  <2>1. <<Root>> \in Seq(PartSet)
    BY RootTyped
  <2> QED
    BY <1>1, <1>2, <1>4, <2>1 DEF LoadWhole
<1>5. CASE BeginWalk
  <2>1. Implicit \o Cites \in Seq(Citable) /\ Headers \in Seq(HeaderSet)
    BY SourcesTyped
  <2>2. Wanted \in Seq(Citable)
    BY <2>1, MissingElements DEF Wanted
  <2>3. Frame(RootPath, NoQuire, Wanted) \in FrameSet
    BY <2>2 DEF Frame, FrameSet, Quire
  <2> QED
    BY <1>1, <1>2, <1>5, <2>1, <2>3 DEF BeginWalk
<1>6. CASE AtCite /\ stack' = Followed /\ UNCHANGED <<carried, seen, parts>>
  BY <1>1, <1>2, <1>6, FollowedReads
<1>7. CASE Enter
  <2>1. AtCite /\ Dep \in Paths
    BY <1>7 DEF Enter, Registered, Paths
  <2>2. carried' \in Seq(HeaderSet)
    BY <1>7, <2>1, CarriesReads, ConcatElements DEF Enter, Paths
  <2>3. seen' \subseteq Paths \ {RootPath}
    BY <1>7, <2>1, DepReads DEF Enter
  <2>4. Frame(Dep, Cite.quire, project.files[Dep].cites) \in FrameSet
    <3>1. Cite.quire \in Quire
      BY <2>1, CiteTyped DEF Quire
    <3>2. project.files[Dep].cites \in Seq(Citable)
      BY <2>1, SourcesTyped
    <3> QED
      BY <2>1, <3>1, <3>2 DEF Frame, FrameSet
  <2>5. stack' \in Seq(FrameSet)
    BY <1>7, <2>1, <2>4, FollowedReads, AppendReads DEF Enter
  <2> QED
    BY <1>1, <1>2, <1>7, <2>2, <2>3, <2>5 DEF Enter
<1>8. CASE Leave
  <2>1. Walking /\ Len(stack) > 1 /\ stack # <<>>
    BY <1>8 DEF Leave, Walking
  <2>2. Top \in FrameSet /\ Top.path \in Paths
    BY <2>1, TopTyped DEF ReadOnce
  <2>3. parts' \in Seq(PartSet) /\ stack' \in Seq(FrameSet)
    BY <1>8, <2>1, <2>2, PartTyped, AppendReads, FrontReads DEF Leave
  <2> QED
    BY <1>1, <1>2, <1>8, <2>3 DEF Leave
<1>9. CASE Finish
  <2>1. parts' \in Seq(PartSet) /\ stack' \in Seq(FrameSet)
    BY <1>9, RootTyped, AppendReads DEF Finish
  <2> QED
    BY <1>1, <1>2, <1>9, <2>1 DEF Finish
<1> QED
  BY <1>3, <1>4, <1>5, <1>6, <1>7, <1>8, <1>9
     DEF Next, vars, RefuseProgram, Refuse, SkipPresent, RefuseAmbiguous, UnregisteredQuire, NoSuchChapter,
         Registered, RefuseUnit, Load

\* A cite that is missing leads to no file the walk has seen.
LEMMA NeverSeen == BundleTyped /\ ReadOnce => (Registered => Dep \notin seen)
<1> SUFFICES ASSUME BundleTyped, ReadOnce, Registered, Dep \in seen PROVE FALSE
  OBVIOUS
<1>1. carried \in Seq(HeaderSet) /\ Presence(carried, Cite) = "missing"
  BY DEF BundleTyped, Registered
<1>2. Hits(ToSet(carried), Cite.name) = {}
  BY <1>1, PresenceReads
<1> QED
  BY <1>2, DepReads DEF ReadOnce

\* Every step keeps ReadOnce. Enter reads a file not seen; Leave moves a path
\* from the frames to the texts; Finish puts the program's text last.
LEMMA NextReadOnce == BundleTyped /\ BundleTyped' /\ ReadOnce /\ [Next]_vars => ReadOnce'
<1> SUFFICES ASSUME BundleTyped, BundleTyped', ReadOnce, [Next]_vars PROVE ReadOnce'
  OBVIOUS
<1>1. CASE UNCHANGED <<carried, seen, parts, stack>> /\ (phase' = phase \/ phase' \notin {"reading", "walking"})
  BY <1>1 DEF ReadOnce
<1>2. CASE LoadWhole
  <2>1. /\ stack' = <<>> /\ seen' = {} /\ parts' = <<Root>> /\ phase' = "loaded"
    BY <1>2 DEF LoadWhole, Begin, ReadOnce
  <2> QED
    BY <2>1, RootTyped DEF ReadOnce
<1>3. CASE BeginWalk
  <2>1. /\ stack' = <<Frame(RootPath, NoQuire, Wanted)>> /\ seen' = {} /\ parts' = <<>> /\ phase' = "walking"
    BY <1>3 DEF BeginWalk, Begin, ReadOnce
  <2>2. stack'[1].path = RootPath /\ DOMAIN stack' = {1} /\ DOMAIN parts' = {}
    BY <2>1 DEF Frame
  <2> QED
    BY <2>1, <2>2 DEF ReadOnce
<1>4. CASE AtCite /\ stack' = Followed /\ UNCHANGED <<phase, carried, seen, parts>>
  <2>1. DOMAIN stack' = DOMAIN stack /\ \A k \in DOMAIN stack : stack'[k].path = stack[k].path
    BY <1>4, FollowedReads
  <2>2. stack # <<>> /\ 1 \in DOMAIN stack
    BY <1>4, TopTyped DEF AtCite, Walking
  <2> QED
    BY <1>4, <2>1, <2>2 DEF ReadOnce
<1>5. CASE Enter
  <2> DEFINE n == Len(stack)
  <2>1. AtCite /\ Dep \in Paths /\ Dep \notin seen /\ Dep # RootPath
    BY <1>5, DepReads DEF Enter, Registered, Paths
  <2>2. /\ seen' = seen \cup {Dep} /\ parts' = parts /\ phase' = phase
        /\ carried' = carried \o Carries(Dep, Cite)
        /\ stack' = Append(Followed, Frame(Dep, Cite.quire, project.files[Dep].cites))
    BY <1>5 DEF Enter
  <2>3. n \in Nat \ {0} /\ DOMAIN stack = 1 .. n
    BY <2>1, TopTyped DEF AtCite
  <2>4. /\ DOMAIN stack' = 1 .. (n + 1) /\ stack'[n + 1].path = Dep
        /\ \A k \in 1 .. n : stack'[k].path = stack[k].path
    <3>1. Frame(Dep, Cite.quire, project.files[Dep].cites) \in FrameSet
      <4>1. Cite.quire \in Quire
        BY <2>1, CiteTyped DEF Quire
      <4>2. project.files[Dep].cites \in Seq(Citable)
        BY <2>1, SourcesTyped DEF BundleTyped
      <4> QED
        BY <2>1, <4>1, <4>2 DEF Frame, FrameSet
    <3>2. Frame(Dep, Cite.quire, project.files[Dep].cites).path = Dep
      BY DEF Frame
    <3>3. Followed \in Seq(FrameSet) /\ Len(Followed) = n
          /\ \A k \in 1 .. n : Followed[k].path = stack[k].path
      BY <2>1, <2>3, FollowedReads
    <3> DEFINE new == Frame(Dep, Cite.quire, project.files[Dep].cites)
    <3> HIDE DEF new
    <3>4. DOMAIN Append(Followed, new) = 1 .. (n + 1) /\ Append(Followed, new)[n + 1] = new
          /\ \A k \in 1 .. n : Append(Followed, new)[k] = Followed[k]
      BY <3>1, <3>3, AppendReads DEF new
    <3> QED
      BY <2>2, <3>2, <3>3, <3>4 DEF new
  <2>5. \A k \in 1 .. n : stack[k].path # Dep
    BY <2>1, <2>3 DEF ReadOnce
  <2>6. \A i \in DOMAIN parts : parts[i].path # Dep
    BY <2>1 DEF ReadOnce
  <2>7. \A p \in seen' : Hits(ToSet(carried'), p[2]) # {}
    <3>1. /\ carried \in Seq(HeaderSet) /\ Carries(Dep, Cite) \in Seq(HeaderSet)
          /\ Header(Cite.quire, Cite.name) \in ToSet(Carries(Dep, Cite))
      BY <2>1, CarriesReads DEF BundleTyped, Paths
    <3>2. ToSet(carried') = ToSet(carried) \cup ToSet(Carries(Dep, Cite))
      BY <2>2, <3>1, ConcatElements
    <3>3. Cite.name # NoHeader
      BY <2>1, CiteTyped, CitableNamed DEF BundleTyped
    <3>4. Header(Cite.quire, Cite.name) \in Hits(ToSet(carried'), Dep[2])
      BY <3>1, <3>2, <3>3, DepReads DEF Hits, Answers, Header
    <3>5. \A p \in seen : Hits(ToSet(carried'), p[2]) # {}
      BY <3>2 DEF Hits, ReadOnce
    <3> QED
      BY <2>2, <3>4, <3>5
  <2>8. \A i, j \in DOMAIN stack' : stack'[i].path = stack'[j].path => i = j
    <3> SUFFICES ASSUME NEW i \in 1 .. (n + 1), NEW j \in 1 .. (n + 1), stack'[i].path = stack'[j].path PROVE i = j
      BY <2>4
    <3>1. CASE i = n + 1 /\ j # n + 1
      BY <2>3, <2>4, <2>5, <3>1
    <3>2. CASE i # n + 1 /\ j = n + 1
      BY <2>3, <2>4, <2>5, <3>2
    <3>3. CASE i # n + 1 /\ j # n + 1
      <4>1. i \in 1 .. n /\ j \in 1 .. n
        BY <2>3, <3>3
      <4> QED
        BY <2>3, <2>4, <4>1 DEF ReadOnce
    <3> QED
      BY <3>1, <3>2, <3>3
  <2>9. \A k \in 1 .. (n + 1) : k \in 1 .. n \/ k = n + 1
    BY <2>3
  <2>10. \A i \in DOMAIN parts', j \in DOMAIN stack' : parts'[i].path # stack'[j].path
    BY <2>2, <2>3, <2>4, <2>6, <2>9 DEF ReadOnce
  <2>11. \A j \in DOMAIN stack' : stack'[j].path \in seen' \/ (j = 1 /\ stack'[j].path = RootPath)
    BY <2>2, <2>3, <2>4, <2>9 DEF ReadOnce
  <2>12. stack'[1].path = RootPath
    <3>1. stack # <<>> /\ 1 \in 1 .. n
      BY <2>1, <2>3 DEF AtCite, Walking
    <3> QED
      BY <2>4, <3>1 DEF ReadOnce
  <2>13. phase = "walking"
    BY <2>1 DEF AtCite, Walking
  <2> QED
    BY <2>2, <2>7, <2>8, <2>10, <2>11, <2>12, <2>13 DEF ReadOnce
<1>6. CASE Leave
  <2> DEFINE n == Len(stack)
             m == Len(parts)
  <2>1. Walking /\ n > 1 /\ stack # <<>> /\ phase = "walking"
    BY <1>6 DEF Leave, Walking
  <2>2. n \in Nat \ {0} /\ DOMAIN stack = 1 .. n /\ Top = stack[n] /\ Top \in FrameSet
    BY <2>1, TopTyped
  <2>3. Top.path \in seen /\ Top.path \in Paths /\ Top.path # RootPath
    BY <2>1, <2>2 DEF ReadOnce, BundleTyped
  <2>4. /\ DOMAIN stack' = 1 .. (n - 1) /\ \A k \in 1 .. (n - 1) : stack'[k] = stack[k]
    <3>1. stack \in Seq(FrameSet) /\ stack # <<>> /\ stack' = Front(stack)
      BY <1>6, <2>1 DEF Leave, BundleTyped
    <3> QED
      BY <3>1, FrontReads
  <2>5. /\ m \in Nat /\ DOMAIN parts = 1 .. m /\ DOMAIN parts' = 1 .. (m + 1)
        /\ parts'[m + 1].path = Top.path /\ \A i \in 1 .. m : parts'[i] = parts[i]
    <3> DEFINE new == Part(Top)
    <3>1. new \in PartSet /\ new.path = Top.path
      BY <2>2, <2>3, PartTyped
    <3>2. parts \in Seq(PartSet) /\ parts' = Append(parts, new)
      BY <1>6 DEF Leave, BundleTyped
    <3> HIDE DEF new
    <3> QED
      BY <3>1, <3>2, AppendReads
  <2>6. \A i \in 1 .. (m + 1) : i \in 1 .. m \/ i = m + 1
    BY <2>5
  <2>7. \A k \in 1 .. (n - 1) : k \in 1 .. n /\ k # n
    <3>1. n \in Nat
      BY <2>2
    <3> HIDE DEF n
    <3> QED
      BY <3>1
  <2>15. /\ \A i \in 1 .. m : parts[i].path # Top.path
         /\ \A k \in 1 .. (n - 1) : stack[k].path # Top.path
    <3>1. n \in DOMAIN stack
      BY <2>2
    <3>2. \A i \in 1 .. m : parts[i].path # stack[n].path
      BY <2>5, <3>1 DEF ReadOnce
    <3>3. \A k \in 1 .. (n - 1) : stack[k].path # stack[n].path
      BY <2>2, <2>7, <3>1 DEF ReadOnce
    <3> QED
      BY <2>2, <3>2, <3>3
  <2>8. \A i, j \in DOMAIN parts' : parts'[i].path = parts'[j].path => i = j
    <3>1. \A i, j \in 1 .. m : parts[i].path = parts[j].path => i = j
      BY <2>5 DEF ReadOnce
    <3> QED
      BY <2>5, <2>6, <2>15, <3>1
  <2>9. \A i, j \in DOMAIN stack' : stack'[i].path = stack'[j].path => i = j
    BY <2>2, <2>4, <2>7 DEF ReadOnce
  <2>10. \A i \in DOMAIN parts', j \in DOMAIN stack' : parts'[i].path # stack'[j].path
    <3>1. \A i \in 1 .. m, k \in 1 .. n : parts[i].path # stack[k].path
      BY <2>2, <2>5 DEF ReadOnce
    <3> QED
      BY <2>4, <2>5, <2>6, <2>7, <2>15, <3>1
  <2>11. \A i \in DOMAIN parts' : parts'[i].path \in seen /\ parts'[i].path # RootPath
    BY <2>1, <2>3, <2>5, <2>6 DEF ReadOnce
  <2>12. 1 \in 1 .. (n - 1) /\ stack'[1].path = RootPath
    BY <2>1, <2>2, <2>4 DEF ReadOnce
  <2>13. \A j \in DOMAIN stack' : stack'[j].path \in seen \/ (j = 1 /\ stack'[j].path = RootPath)
    <3>1. \A k \in 1 .. n : stack[k].path \in seen \/ (k = 1 /\ stack[k].path = RootPath)
      BY <2>2 DEF ReadOnce
    <3> HIDE DEF n
    <3> QED
      BY <2>4, <2>7, <3>1
  <2>14. seen' = seen /\ carried' = carried /\ phase' = phase
    BY <1>6 DEF Leave
  <2> QED
    BY <2>1, <2>8, <2>9, <2>10, <2>11, <2>12, <2>13, <2>14 DEF ReadOnce
<1>7. CASE Finish
  <2> DEFINE m == Len(parts)
  <2>1. Walking /\ stack' = <<>> /\ phase' = "built" /\ seen' = seen /\ carried' = carried
    BY <1>7 DEF Finish
  <2>2. /\ m \in Nat /\ DOMAIN parts = 1 .. m /\ DOMAIN parts' = 1 .. (m + 1)
        /\ parts'[m + 1].path = RootPath /\ \A i \in 1 .. m : parts'[i] = parts[i]
    BY <1>7, RootTyped, AppendReads DEF Finish, BundleTyped
  <2>3. \A i \in 1 .. m : parts[i].path # RootPath
    BY <2>1, <2>2 DEF ReadOnce, Walking
  <2>4. \A i \in 1 .. (m + 1) : i \in 1 .. m \/ i = m + 1
    BY <2>2
  <2>5. DOMAIN stack' = {}
    BY <2>1
  <2>6. \A i, j \in DOMAIN parts' : parts'[i].path = parts'[j].path => i = j
    BY <2>2, <2>3, <2>4 DEF ReadOnce
  <2> QED
    BY <2>1, <2>2, <2>4, <2>5, <2>6 DEF ReadOnce
<1> QED
  BY <1>1, <1>2, <1>3, <1>4, <1>5, <1>6, <1>7
     DEF Next, vars, RefuseProgram, Refuse, SkipPresent, RefuseAmbiguous, UnregisteredQuire, NoSuchChapter,
         Registered, RefuseUnit, Load

\* Nothing is read at first.
LEMMA InitReadOnce == Init => BundleTyped /\ ReadOnce
<1> SUFFICES ASSUME Init PROVE BundleTyped /\ ReadOnce
  OBVIOUS
<1>1. /\ project \in Projects /\ carried = <<>> /\ seen = {} /\ parts = <<>> /\ stack = <<>> /\ phase = "reading"
  BY DEF Init
<1>2. <<>> \in Seq(HeaderSet) /\ <<>> \in Seq(PartSet) /\ <<>> \in Seq(FrameSet)
  OBVIOUS
<1>3. BundleTyped
  BY <1>1, <1>2 DEF BundleTyped
<1>4. DOMAIN parts = {} /\ DOMAIN stack = {}
  BY <1>1
<1>5. ReadOnce
  BY <1>1, <1>4 DEF ReadOnce
<1> QED
  BY <1>3, <1>5

\* The invariant of the walk.
LEMMA ReadOnceAlways == Spec => [](BundleTyped /\ ReadOnce)
<1>1. BundleTyped /\ ReadOnce /\ [Next]_vars => (BundleTyped /\ ReadOnce)'
  BY NextTyped, NextReadOnce
<1> QED
  BY <1>1, InitReadOnce, PTL DEF Spec

\* No file's text is in the unit twice, none is followed while it is being
\* followed, and no cite that is not answered leads to a file that was read
\* (Walk::seen, which the walk therefore never needs).
THEOREM FilesReadOnce == Spec => []OncePerFile
<1>1. BundleTyped /\ ReadOnce => OncePerFile
  BY NeverSeen DEF ReadOnce, OncePerFile
<1> QED
  BY <1>1, ReadOnceAlways, PTL

-----------------------------------------------------------------------------
(***************************************************************************)
(* Nothing left to cite.                                                   *)
(***************************************************************************)
\* The chapters the unit has.
Texts == UNION {ToSet(parts[i].chapters) : i \in DOMAIN parts}

\* The headers and the cites of some chapters.
HeadersIn(chapters) == {c.header : c \in chapters}
CitesIn(chapters)   == UNION {ToSet(c.cites) : c \in chapters}

\* Every chapter of the one is answered for in the other.
Within(A, B) == \A g \in A : g.name # NoHeader => \E h \in B : h.name # NoHeader /\ SameHeader(g, h)

\* Headers that answer for each other answer the same cites.
LEMMA PresentWithin ==
  ASSUME NEW A, NEW B, Within(A, B), Within(B, A), NEW c, Present(A, c)
  PROVE  Present(B, c)
<1>1. ASSUME NEW S, NEW T, Within(S, T), NEW g \in Hits(S, c.name)
      PROVE  \E h \in Hits(T, c.name) : SameHeader(g, h)
  <2>1. PICK h \in T : h.name # NoHeader /\ SameHeader(g, h)
    BY <1>1 DEF Within, Hits, Answers
  <2>2. h \in Hits(T, c.name)
    BY <1>1, <2>1, Alike DEF Hits
  <2> QED
    BY <2>1, <2>2
<1>2. ASSUME NEW g \in Exacts(A, c) PROVE Exacts(B, c) # {}
  <2>1. g \in Hits(A, c.name) /\ SameQuire(g.quire, c.quire)
    BY <1>2 DEF Exacts, Hits
  <2>2. PICK h \in Hits(B, c.name) : SameHeader(g, h)
    BY <1>1, <2>1
  <2>3. SameQuire(h.quire, c.quire)
    BY <2>1, <2>2, Alike
  <2> QED
    BY <2>2, <2>3 DEF Exacts, Hits
<1>3. ASSUME Hits(A, c.name) # {}, \A g, h \in Hits(A, c.name) : SameHeader(g, h)
      PROVE  Hits(B, c.name) # {} /\ \A g, h \in Hits(B, c.name) : SameHeader(g, h)
  <2>1. Hits(B, c.name) # {}
    BY <1>1, <1>3
  <2>2. ASSUME NEW g \in Hits(B, c.name), NEW h \in Hits(B, c.name) PROVE SameHeader(g, h)
    <3>1. PICK a \in Hits(A, c.name) : SameHeader(g, a)
      BY <1>1
    <3>2. PICK b \in Hits(A, c.name) : SameHeader(h, b)
      BY <1>1
    <3>3. SameHeader(a, b)
      BY <1>3
    <3>4. SameHeader(g, b)
      BY <3>1, <3>3, Alike
    <3>5. SameHeader(b, h)
      BY <3>2, Alike
    <3> QED
      BY <3>4, <3>5, Alike
  <2> QED
    BY <2>1, <2>2
<1> QED
  BY <1>2, <1>3 DEF Present

\* What is read under a name nothing answered changes nothing for other names.
LEMMA PresentStays ==
  ASSUME NEW S, NEW T, NEW name, Hits(S, name) = {},
         \A h \in T : h.name # NoHeader => CiteKey[h.name] = CiteKey[name],
         NEW c, Present(S, c)
  PROVE  Present(S \cup T, c)
<1>1. Hits(S, c.name) # {}
  BY DEF Present, Exacts, Hits
<1>2. CiteKey[c.name] # CiteKey[name]
  BY <1>1 DEF Hits, Answers
<1>3. Hits(S \cup T, c.name) = Hits(S, c.name)
  BY <1>2 DEF Hits, Answers
<1>4. Exacts(S, c) \subseteq Exacts(S \cup T, c)
  BY DEF Exacts
<1> QED
  BY <1>3, <1>4 DEF Present

\* Cites that are one are answered alike.
LEMMA PresentAlike ==
  ASSUME project \in Projects, NEW c \in Citable, NEW d \in Citable, SameCite(d, c), NEW S, Present(S, d)
  PROVE  Present(S, c)
<1>1. /\ c.quire \in DOMAIN Fold \ {NoQuire} /\ c.name \in DOMAIN Fold
      /\ d.quire \in DOMAIN Fold \ {NoQuire} /\ d.name \in DOMAIN Fold
  BY CitableNamed
<1>2. CiteKey[d.quire] = CiteKey[c.quire] /\ CiteKey[d.name] = CiteKey[c.name]
  BY <1>1, NamesAssumption DEF SameCite
<1>3. Hits(S, d.name) = Hits(S, c.name)
  BY <1>2 DEF Hits, Answers
<1>4. \A q : SameQuire(q, d.quire) <=> SameQuire(q, c.quire)
  BY <1>1, <1>2 DEF SameQuire
<1>5. Exacts(S, d) = Exacts(S, c)
  BY <1>2, <1>4 DEF Exacts, Answers
<1> QED
  BY <1>3, <1>5 DEF Present

-----------------------------------------------------------------------------
\* The headers of a text are those of its chapters.
LEMMA HeadersElements ==
  ASSUME NEW chapters, NEW C, chapters \in Seq(C)
  PROVE  ToSet(HeadersOf(chapters)) = HeadersIn(ToSet(chapters))
BY DEF HeadersOf, HeadersIn, ToSet

\* The cites of a text are those of its chapters.
LEMMA CitesElements ==
  ASSUME NEW chapters, NEW C, chapters \in Seq(C), NEW X, \A c \in ToSet(chapters) : c.cites \in Seq(X)
  PROVE  CitesOf(chapters) \in Seq(X) /\ ToSet(CitesOf(chapters)) = CitesIn(ToSet(chapters))
<1> DEFINE all == [i \in DOMAIN chapters |-> chapters[i].cites]
<1>1. DOMAIN chapters = 1 .. Len(chapters) /\ Len(chapters) \in Nat
  OBVIOUS
<1>2. \A i \in DOMAIN chapters : all[i] \in Seq(X) /\ all[i] = chapters[i].cites
  BY DEF ToSet
<1>3. DOMAIN all = DOMAIN chapters /\ all \in [1 .. Len(chapters) -> Seq(X)]
  BY <1>1, <1>2
<1>4. CitesOf(chapters) = FlattenSeq(all)
  BY DEF CitesOf
<1> HIDE DEF all
<1>5. all \in Seq(Seq(X))
  BY <1>1, <1>3
<1>6. CitesOf(chapters) \in Seq(X) /\ ToSet(CitesOf(chapters)) = UNION {ToSet(all[i]) : i \in DOMAIN all}
  BY <1>4, <1>5, FlattenElements
<1>7. UNION {ToSet(all[i]) : i \in DOMAIN all} = UNION {ToSet(chapters[i].cites) : i \in DOMAIN chapters}
  BY <1>2, <1>3
<1>8. UNION {ToSet(chapters[i].cites) : i \in DOMAIN chapters} = CitesIn(ToSet(chapters))
  BY DEF CitesIn, ToSet
<1> QED
  BY <1>6, <1>7, <1>8

\* The chapters a unit can have: the program's own, and one for each file.
ChapterSet ==
  ToSet(project.chapters)
    \cup [header : HeaderSet, cites : {project.files[p].cites : p \in Paths}, defs : {project.files[p].defs : p \in Paths}]

\* Every chapter's cites and header are among what there is.
LEMMA ChaptersTyped ==
  ASSUME project \in Projects
  PROVE  /\ project.chapters \in Seq(ChapterSet)
         /\ \A c \in ChapterSet : c.cites \in Seq(Citable) /\ c.header \in HeaderSet
<1>1. project.chapters \in Seq(ChapterSet)
  <2>1. project.chapters \in Seq(ToSet(project.chapters))
    BY AllNamed
  <2>2. ToSet(project.chapters) \subseteq ChapterSet
    BY DEF ChapterSet
  <2> QED
    BY <2>1, <2>2, WiderSeq
<1>2. ASSUME NEW c \in ToSet(project.chapters) PROVE c.cites \in Seq(Citable) /\ c.header \in HeaderSet
  <2>1. PICK i \in DOMAIN project.chapters : c = project.chapters[i]
    BY DEF ToSet
  <2>2. CitesNamed(c.cites)
    BY <2>1, AllNamed
  <2>3. c.cites \in Seq(ToSet(c.cites)) /\ ToSet(c.cites) \subseteq Citable
    BY <2>1, <2>2 DEF CitesNamed, Citable
  <2>4. c.header \in ToSet(Headers)
    BY <2>1 DEF Headers, HeadersOf, ToSet
  <2> QED
    BY <2>3, <2>4, WiderSeq DEF HeaderSet
<1>3. \A p \in Paths : project.files[p].cites \in Seq(Citable)
  BY SourcesTyped
<1> QED
  BY <1>1, <1>2, <1>3 DEF ChapterSet

\* A frame becomes a text of one chapter.
IsChapterOf(c, f) ==
  /\ Part(f).chapters \in Seq(ChapterSet) /\ ToSet(Part(f).chapters) = {c}
  /\ c.header = Header(f.quire, project.files[f.path].header) /\ c.cites = project.files[f.path].cites

\* A frame that is left becomes one chapter, with the frame's header and the
\* file's cites.
LEMMA PartReads ==
  ASSUME project \in Projects, NEW f, f.path \in Paths, f.quire \in Quire
  PROVE  \E c \in ChapterSet : IsChapterOf(c, f)
<1> DEFINE c == [header |-> Header(f.quire, project.files[f.path].header), cites |-> project.files[f.path].cites,
                 defs |-> project.files[f.path].defs]
<1>1. c.header \in HeaderSet
  BY DEF HeaderSet, Header, Name
<1>2. c \in ChapterSet
  BY <1>1 DEF ChapterSet
<1>3. Part(f).chapters = <<c>>
  BY DEF Part
<1>4. c.header = Header(f.quire, project.files[f.path].header) /\ c.cites = project.files[f.path].cites
  OBVIOUS
<1> HIDE DEF c
<1>5. <<c>> \in Seq(ChapterSet) /\ ToSet(<<c>>) = {c}
  BY <1>2 DEF ToSet
<1> QED
  BY <1>2, <1>3, <1>4, <1>5 DEF IsChapterOf

\* Every text of the unit is a sequence of chapters.
LEMMA PartsHold ==
  ASSUME BundleTyped, NEW i \in DOMAIN parts
  PROVE  parts[i].chapters \in Seq(ChapterSet)
<1>1. parts[i] \in PartSet
  BY DEF BundleTyped
<1>2. CASE parts[i] = Root
  BY <1>2, ChaptersTyped DEF BundleTyped, Root
<1>3. ASSUME NEW p \in Paths, NEW q \in Quire, parts[i] = Part(Frame(p, q, <<>>)) PROVE parts[i].chapters \in Seq(ChapterSet)
  <2> DEFINE f == Frame(p, q, <<>>)
  <2>1. f.path \in Paths /\ f.quire \in Quire
    BY DEF Frame
  <2> HIDE DEF f
  <2>2. Part(f).chapters \in Seq(ChapterSet)
    BY <2>1, PartReads DEF BundleTyped, IsChapterOf
  <2> QED
    BY <1>3, <2>2 DEF f
<1> QED
  BY <1>1, <1>2, <1>3 DEF PartSet

\* The headers and the cites of the whole unit, as sets.
LEMMA UnitHolds ==
  ASSUME BundleTyped
  PROVE  /\ Texts \subseteq ChapterSet
         /\ HeadersOf(UnitChapters) \in Seq(HeaderSet) /\ ToSet(HeadersOf(UnitChapters)) = HeadersIn(Texts)
         /\ Implicit \o CitesOf(UnitChapters) \in Seq(Citable)
         /\ ToSet(Implicit \o CitesOf(UnitChapters)) = ToSet(Implicit) \cup CitesIn(Texts)
<1> DEFINE all == [i \in DOMAIN parts |-> parts[i].chapters]
<1>0. project \in Projects
  BY DEF BundleTyped
<1>1. DOMAIN parts = 1 .. Len(parts) /\ Len(parts) \in Nat
  BY DEF BundleTyped
<1>2. \A i \in DOMAIN parts : all[i] = parts[i].chapters /\ all[i] \in Seq(ChapterSet)
  BY PartsHold
<1>3. DOMAIN all = DOMAIN parts /\ all \in [1 .. Len(parts) -> Seq(ChapterSet)]
  BY <1>1, <1>2
<1>4. UnitChapters = FlattenSeq(all)
  BY DEF UnitChapters
<1> HIDE DEF all
<1>5. all \in Seq(Seq(ChapterSet))
  BY <1>1, <1>3
<1>6. UnitChapters \in Seq(ChapterSet) /\ ToSet(UnitChapters) = UNION {ToSet(all[i]) : i \in DOMAIN all}
  BY <1>4, <1>5, FlattenElements
<1>7. ToSet(UnitChapters) = Texts
  BY <1>2, <1>3, <1>6 DEF Texts
<1>8. DOMAIN UnitChapters = 1 .. Len(UnitChapters) /\ Len(UnitChapters) \in Nat
      /\ \A i \in DOMAIN UnitChapters : UnitChapters[i] \in ChapterSet
  BY <1>6
<1>9. Texts \subseteq ChapterSet
  BY <1>7, <1>8 DEF ToSet
<1>10. HeadersOf(UnitChapters) \in Seq(HeaderSet)
  <2>1. HeadersOf(UnitChapters) \in [1 .. Len(UnitChapters) -> HeaderSet]
    BY <1>0, <1>8, ChaptersTyped DEF HeadersOf
  <2> QED
    BY <1>8, <2>1
<1>11. ToSet(HeadersOf(UnitChapters)) = HeadersIn(Texts)
  BY <1>6, <1>7, HeadersElements
<1>12. CitesOf(UnitChapters) \in Seq(Citable) /\ ToSet(CitesOf(UnitChapters)) = CitesIn(Texts)
  <2>1. \A c \in ToSet(UnitChapters) : c.cites \in Seq(Citable)
    BY <1>0, <1>7, <1>9, ChaptersTyped
  <2> QED
    BY <1>6, <1>7, <2>1, CitesElements
<1>13. Implicit \in Seq(Citable)
  <2>1. CitesNamed(Implicit) /\ ToSet(Implicit) \subseteq Citable
    BY <1>0, AllNamed DEF Citable
  <2> QED
    BY <2>1, WiderSeq DEF CitesNamed
<1> QED
  BY <1>9, <1>10, <1>11, <1>12, <1>13, ConcatElements

\* The program's own chapters.
LEMMA ProgramHolds ==
  ASSUME project \in Projects
  PROVE  /\ ToSet(Headers) = HeadersIn(ToSet(project.chapters))
         /\ ToSet(Implicit \o Cites) = ToSet(Implicit) \cup CitesIn(ToSet(project.chapters))
         /\ ToSet(Implicit \o Cites) \subseteq Citable
<1>1. project.chapters \in Seq(ChapterSet)
  BY ChaptersTyped
<1>2. ToSet(project.chapters) \subseteq ChapterSet
  BY DEF ChapterSet
<1>3. ToSet(Headers) = HeadersIn(ToSet(project.chapters))
  BY <1>1, HeadersElements DEF Headers
<1>4. ToSet(Cites) = CitesIn(ToSet(project.chapters))
  BY <1>1, <1>2, ChaptersTyped, CitesElements DEF Cites
<1>5. Implicit \o Cites \in Seq(Citable)
  BY SourcesTyped
<1>6. ToSet(Implicit \o Cites) \subseteq Citable
  <2> DEFINE s == Implicit \o Cites
  <2>1. s \in Seq(Citable)
    BY <1>5
  <2> HIDE DEF s
  <2>2. ToSet(s) \subseteq Citable
    BY <2>1 DEF ToSet
  <2> QED
    BY <2>2 DEF s
<1> QED
  BY <1>3, <1>4, <1>6, SourcesTyped

\* The header of the chapter a frame will put into the unit.
FrameHeader(frame) == Header(frame.quire, project.files[frame.path].header)

\* What the unit has, with what is still being followed.
Coming == HeadersIn(ToSet(project.chapters) \cup Texts) \cup {FrameHeader(stack[k]) : k \in DOMAIN stack \ {1}}

\* The cites the k-th frame has to see to.
Due(k) == IF k = 1 THEN ToSet(Implicit \o Cites) ELSE ToSet(project.files[stack[k].path].cites)

\* A cite that needs nothing more: it is answered, or the unit will be
\* refused.
Settled(c) == Present(ToSet(carried), c) \/ Broken

\* A cite that is one with c is still to be followed.
Left(frame, c) == \E d \in ToSet(frame.cites) : SameCite(d, c)

\* Every cite of a frame's source is settled or still to be followed, and
\* every cite of a chapter in the unit is settled.
CitesSettled ==
  /\ \A k \in DOMAIN stack : \A c \in Due(k) : Settled(c) \/ Left(stack[k], c)
  /\ \A c \in CitesIn(Texts) : Settled(c)

\* All that the unit cites, it answers.
Complete ==
  \A c \in ToSet(Implicit) \cup CitesIn(Texts) : Present(HeadersIn(Texts), c)

\* While cites are followed, what is carried and what the unit has or will
\* have answer for each other, and no cite is forgotten; so what is built and
\* not broken is complete, and so is what is loaded.
NothingLost ==
  WellNamed =>
    /\ phase = "walking" => /\ Within(ToSet(carried), Coming) /\ Within(Coming, ToSet(carried))
                            /\ CitesSettled
    /\ phase = "built" /\ ~Broken => Complete
    /\ phase = "loaded" => Complete

\* What the unit's chapters cite.
LEMMA TextCites ==
  ASSUME BundleTyped
  PROVE  CitesIn(Texts) \subseteq Citable
<1>1. Texts \subseteq ChapterSet /\ \A c \in ChapterSet : c.cites \in Seq(Citable)
  BY UnitHolds, ChaptersTyped DEF BundleTyped
<1>2. \A s \in Seq(Citable) : ToSet(s) \subseteq Citable
  BY DEF ToSet
<1> QED
  BY <1>1, <1>2 DEF CitesIn

\* Of a unit that answers all it cites, resolving finds nothing missing and
\* nothing unclear.
LEMMA CompleteUnit ==
  ASSUME BundleTyped, Complete
  PROVE  /\ Missing(HeadersOf(UnitChapters), CitesOf(UnitChapters)) = <<>>
         /\ ~Unclear(HeadersOf(UnitChapters), CitesOf(UnitChapters))
<1> DEFINE headers == HeadersOf(UnitChapters)
           cites == CitesOf(UnitChapters)
           all == Implicit \o cites
<1>1. /\ headers \in Seq(HeaderSet) /\ ToSet(headers) = HeadersIn(Texts)
      /\ all \in Seq(Citable) /\ ToSet(all) = ToSet(Implicit) \cup CitesIn(Texts)
  BY UnitHolds
<1> HIDE DEF headers, cites
<1>2. \A c \in ToSet(all) : Present(ToSet(headers), c)
  BY <1>1 DEF Complete
<1>3. \A c \in ToSet(all) : Presence(headers, c) = "present"
  BY <1>1, <1>2, PresenceReads
<1>4. Missing(headers, cites) = <<>>
  <2> DEFINE M == Missing(headers, cites)
  <2>1. M \in Seq(Citable) /\ \A d \in ToSet(M) : d \in ToSet(all) /\ Presence(headers, d) = "missing"
    BY <1>1, MissingElements
  <2> HIDE DEF M, all
  <2>2. ToSet(M) = {}
    BY <1>3, <2>1
  <2>3. M = <<>>
    BY <2>1, <2>2 DEF ToSet
  <2> QED
    BY <2>3 DEF M
<1>5. ~Unclear(headers, cites)
  <2>1. \A i \in DOMAIN all : all[i] \in ToSet(all)
    BY DEF ToSet
  <2> QED
    BY <1>3, <2>1 DEF Unclear
<1> QED
  BY <1>4, <1>5 DEF headers, cites

\* Every cite of the program is answered, or is wanted.
LEMMA ProgramSettled ==
  ASSUME project \in Projects, ~Unclear(Headers, Cites), NEW c \in ToSet(Implicit \o Cites)
  PROVE  Present(ToSet(Headers), c) \/ \E d \in ToSet(Wanted) : SameCite(d, c)
<1>1. Headers \in Seq(HeaderSet) /\ Implicit \o Cites \in Seq(Citable)
  BY SourcesTyped
<1>2. Presence(Headers, c) # "ambiguous"
  <2>1. PICK i \in DOMAIN (Implicit \o Cites) : c = (Implicit \o Cites)[i]
    BY DEF ToSet
  <2> QED
    BY <2>1 DEF Unclear
<1>3. Presence(Headers, c) \in {"present", "missing", "ambiguous"}
  BY DEF Presence
<1>4. CASE Presence(Headers, c) = "present"
  BY <1>1, <1>4, PresenceReads
<1>5. CASE Presence(Headers, c) = "missing"
  BY <1>1, <1>5, MissingElements DEF Wanted
<1> QED
  BY <1>2, <1>3, <1>4, <1>5

\* Headers answer for themselves.
LEMMA WithinSelf == \A A : Within(A, A)
BY DEF Within, SameHeader, SameQuire

\* The frames' own files.
LEMMA FrameReads ==
  ASSUME BundleTyped, ReadOnce, NEW k \in DOMAIN stack
  PROVE  /\ k # 1 => stack[k].path \in Paths
         /\ stack[k].quire \in Quire
         /\ stack[k].cites \in Seq(Citable)
         /\ Due(k) \subseteq Citable
<1>1. stack[k] \in FrameSet
  BY DEF BundleTyped
<1>2. k # 1 => stack[k].path \in Paths
  BY DEF BundleTyped, ReadOnce
<1>3. stack[k].quire \in Quire /\ stack[k].cites \in Seq(Citable)
  BY <1>1 DEF FrameSet
<1>4. \A p \in Paths : ToSet(project.files[p].cites) \subseteq Citable
  BY DEF Citable
<1> QED
  BY <1>2, <1>3, <1>4, ProgramHolds DEF BundleTyped, Due

\* A cite that has been followed is settled, and so are those that are one with it.
LEMMA FollowedSettled ==
  ASSUME BundleTyped, ReadOnce, AtCite, CitesSettled, NEW cite, cite = Cite, Settled(cite)',
         \A c \in Citable : Settled(c) => Settled(c)', NEW k \in DOMAIN stack, NEW c \in Due(k)
  PROVE  Settled(c)' \/ Left(Followed[k], c)
<1>1. c \in Citable
  BY FrameReads
<1>2. CASE Settled(c)
  BY <1>1, <1>2
<1>3. CASE ~Settled(c) /\ k # Len(stack)
  BY <1>3, FollowedReads DEF CitesSettled
<1>4. CASE ~Settled(c) /\ k = Len(stack)
  <2>1. PICK d \in ToSet(Top.cites) : SameCite(d, c)
    BY <1>4 DEF CitesSettled, Left, Top
  <2>2. CASE d = Cite
    <3>1. Cite \in Citable
      BY CiteTyped
    <3>2. Present(ToSet(carried'), cite) => Present(ToSet(carried'), c)
      BY <1>1, <2>1, <2>2, <3>1, PresentAlike DEF BundleTyped
    <3> QED
      BY <3>2 DEF Settled
  <2>3. CASE d # Cite
    BY <1>4, <2>1, <2>3, CiteTyped, FollowedReads DEF Left
  <2> QED
    BY <2>2, <2>3
<1> QED
  BY <1>2, <1>3, <1>4

\* A cite dealt with leaves the chapters as they are.
LEMMA FollowedOn ==
  ASSUME BundleTyped, ReadOnce, AtCite, project' = project, parts' = parts, stack' = Followed
  PROVE  Texts' = Texts /\ Coming' = Coming /\ \A k \in DOMAIN stack : Due(k)' = Due(k)
<1>1. DOMAIN stack' = DOMAIN stack
      /\ \A k \in DOMAIN stack : stack'[k].path = stack[k].path /\ stack'[k].quire = stack[k].quire
  BY FollowedReads
<1>2. Texts' = Texts
  BY DEF Texts
<1>3. \A k \in DOMAIN stack : FrameHeader(stack[k])' = FrameHeader(stack[k])
  BY <1>1 DEF FrameHeader
<1>4. Coming' = Coming
  BY <1>1, <1>2, <1>3 DEF Coming
<1>5. \A k \in DOMAIN stack : Due(k)' = Due(k)
  BY <1>1 DEF Due, Cites
<1> QED
  BY <1>2, <1>4, <1>5

\* When a cite has been dealt with and nothing answered is lost, the cites
\* are settled as before.
LEMMA CitesStaySettled ==
  ASSUME BundleTyped, ReadOnce, AtCite, CitesSettled, project' = project, parts' = parts, stack' = Followed,
         NEW cite, cite = Cite, Settled(cite)', \A c \in Citable : Settled(c) => Settled(c)'
  PROVE  CitesSettled'
<1>1. Texts' = Texts /\ DOMAIN stack' = DOMAIN stack /\ \A k \in DOMAIN stack : Due(k)' = Due(k)
  BY FollowedOn, FollowedReads
<1>2. \A k \in DOMAIN stack : \A c \in Due(k) : Settled(c)' \/ Left(stack'[k], c)
  BY FollowedSettled
<1>3. CitesIn(Texts) \subseteq Citable
  BY TextCites
<1>4. \A c \in CitesIn(Texts) : Settled(c)'
  BY <1>3 DEF CitesSettled
<1> QED
  BY <1>1, <1>2, <1>4 DEF CitesSettled

\* The walk starts from what the program lacks.
LEMMA AfterBegin ==
  ASSUME BundleTyped, ReadOnce, BeginWalk
  PROVE  Within(ToSet(carried'), Coming') /\ Within(Coming', ToSet(carried')) /\ CitesSettled'
<1> DEFINE first == Frame(RootPath, NoQuire, Wanted)
<1>1. /\ project' = project /\ parts' = parts /\ parts = <<>> /\ carried' = Headers /\ stack' = <<first>>
      /\ ~Unclear(Headers, Cites) /\ project \in Projects
  BY DEF BeginWalk, Begin, Resolvable, ReadOnce, BundleTyped
<1>2. first.cites = Wanted
  BY DEF Frame
<1> HIDE DEF first
<1>3. DOMAIN stack' = {1} /\ stack'[1] = first
  BY <1>1
<1>4. Texts' = {}
  BY <1>1 DEF Texts
<1>5. Coming' = ToSet(carried')
  <2>1. Coming' = HeadersIn(ToSet(project.chapters))
    BY <1>1, <1>3, <1>4 DEF Coming, HeadersIn
  <2> QED
    BY <1>1, <2>1, ProgramHolds
<1>6. Due(1)' = ToSet(Implicit \o Cites)
  BY <1>1 DEF Due, Cites
<1>7. \A c \in ToSet(Implicit \o Cites) : Settled(c)' \/ Left(first, c)
  BY <1>1, <1>2, ProgramSettled DEF Settled, Left
<1>8. CitesSettled'
  BY <1>3, <1>4, <1>6, <1>7 DEF CitesSettled, CitesIn
<1> QED
  BY <1>5, <1>8, WithinSelf

\* A file is read under a name that nothing answered: what it makes carried
\* is one header with the one it will put into the unit, and no other cite is
\* answered otherwise.
LEMMA AfterEnter ==
  ASSUME BundleTyped, ReadOnce, WellNamed, CitesSettled, Enter,
         Within(ToSet(carried), Coming), Within(Coming, ToSet(carried))
  PROVE  Within(ToSet(carried'), Coming') /\ Within(Coming', ToSet(carried')) /\ CitesSettled'
<1> DEFINE read == ToSet(Carries(Dep, Cite))
           new == Frame(Dep, Cite.quire, project.files[Dep].cites)
           header == Header(Cite.quire, project.files[Dep].header)
<1>1. /\ AtCite /\ Dep \in Paths /\ Dep \in DOMAIN project.files /\ Presence(carried, Cite) = "missing"
      /\ carried' = carried \o Carries(Dep, Cite) /\ stack' = Append(Followed, new)
      /\ project' = project /\ parts' = parts
  BY DEF Enter, Registered, Paths
<1>2. PICK n \in Nat \ {0} : n = Len(stack) /\ DOMAIN stack = 1 .. n
  BY <1>1, TopTyped DEF AtCite
<1>3. Cite \in Citable /\ Cite.name # NoHeader /\ Dep[2] = Cite.name
  BY <1>1, CiteTyped, CitableNamed, DepReads DEF BundleTyped
<1>4. header.name # NoHeader /\ CiteKey[header.name] = CiteKey[Cite.name] /\ header.quire = Cite.quire
  BY <1>1, <1>3 DEF WellNamed, Header
<1>5. /\ Carries(Dep, Cite) \in Seq(HeaderSet) /\ Header(Cite.quire, Cite.name) \in read
      /\ \A h \in read : h.name # NoHeader /\ CiteKey[h.name] = CiteKey[Cite.name] /\ h.quire = Cite.quire
  <2>1. /\ Carries(Dep, Cite) \in Seq(HeaderSet) /\ Header(Cite.quire, Cite.name) \in read
        /\ \A h \in read : h = Header(Cite.quire, Cite.name) \/ h = header
    BY <1>1, CarriesReads
  <2> HIDE DEF read, header
  <2> QED
    BY <1>3, <1>4, <2>1 DEF Header
<1>6. ToSet(carried') = ToSet(carried) \cup read
  <2>1. carried \in Seq(HeaderSet)
    BY DEF BundleTyped
  <2> QED
    BY <1>1, <1>5, <2>1, ConcatElements
<1>7. \A h \in read : SameHeader(h, header) /\ SameHeader(header, h)
  <2> HIDE DEF read, header
  <2> QED
    BY <1>4, <1>5 DEF SameHeader, SameQuire
<1>8. /\ DOMAIN stack' = 1 .. (n + 1) /\ stack'[n + 1] = new
      /\ \A k \in 1 .. n : stack'[k] = Followed[k]
  <2>1. Followed \in Seq(FrameSet) /\ Len(Followed) = Len(stack)
    BY <1>1, FollowedReads
  <2>2. new \in FrameSet
    <3>1. Cite.quire \in Quire /\ project.files[Dep].cites \in Seq(Citable)
      BY <1>1, <1>3, SourcesTyped DEF Quire, BundleTyped
    <3> QED
      BY <1>1, <3>1 DEF Frame, FrameSet
  <2>3. stack' = Append(Followed, new)
    BY <1>1
  <2> HIDE DEF new
  <2>4. Len(Followed) = n
    BY <1>2, <2>1
  <2> QED
    BY <2>1, <2>2, <2>3, <2>4, AppendReads
<1>9. \A k \in 1 .. n : Followed[k].path = stack[k].path /\ Followed[k].quire = stack[k].quire
  BY <1>1, <1>2, FollowedReads
<1>10. new.path = Dep /\ new.quire = Cite.quire /\ new.cites = project.files[Dep].cites
  BY DEF Frame
<1> HIDE DEF new, read, header
<1>11. Texts' = Texts
  BY <1>1 DEF Texts
<1>12. Coming' = Coming \cup {header}
  <2>1. \A k \in 1 .. n : FrameHeader(stack[k])' = FrameHeader(stack[k])
    BY <1>1, <1>8, <1>9 DEF FrameHeader
  <2>2. FrameHeader(stack[n + 1])' = header
    BY <1>1, <1>8, <1>10 DEF FrameHeader, header
  <2>3. DOMAIN stack' \ {1} = (DOMAIN stack \ {1}) \cup {n + 1}
    BY <1>2, <1>8
  <2>4. {FrameHeader(stack[k])' : k \in DOMAIN stack' \ {1}}
          = {FrameHeader(stack[k]) : k \in DOMAIN stack \ {1}} \cup {header}
    BY <1>2, <2>1, <2>2, <2>3
  <2>5. Coming' = HeadersIn(ToSet(project.chapters) \cup Texts) \cup {FrameHeader(stack[k])' : k \in DOMAIN stack' \ {1}}
    BY <1>1, <1>11 DEF Coming
  <2> QED
    BY <2>4, <2>5 DEF Coming
<1>13. Within(ToSet(carried'), Coming')
  BY <1>4, <1>6, <1>7, <1>12 DEF Within
<1>14. Within(Coming', ToSet(carried'))
  BY <1>5, <1>6, <1>7, <1>12 DEF Within
<1>15. \A c \in Citable : Settled(c) => Settled(c)'
  <2>1. Hits(ToSet(carried), Cite.name) = {}
    BY <1>1, PresenceReads DEF BundleTyped
  <2>2. \A c : Present(ToSet(carried), c) => Present(ToSet(carried'), c)
    BY <1>5, <1>6, <2>1, PresentStays
  <2>3. Broken => Broken'
    BY DEF Enter, Broken
  <2> QED
    BY <2>2, <2>3 DEF Settled
<1>16. ASSUME NEW cite, cite = Cite PROVE Settled(cite)'
  <2>1. Header(Cite.quire, Cite.name) \in Exacts(ToSet(carried'), Cite)
    BY <1>3, <1>5, <1>6 DEF Exacts, Answers, Header, SameQuire
  <2> QED
    BY <1>16, <2>1 DEF Settled, Present
<1>17. \A k \in 1 .. n : \A c \in Due(k) : Settled(c)' \/ Left(Followed[k], c)
  BY <1>1, <1>2, <1>15, <1>16, FollowedSettled
<1>18. \A k \in 1 .. n : Due(k)' = Due(k)
  BY <1>1, <1>8, <1>9 DEF Due, Cites
<1>19. \A c \in Due(n + 1)' : Left(stack'[n + 1], c)
  <2>1. Due(n + 1)' = ToSet(new.cites)
    BY <1>1, <1>2, <1>8, <1>10 DEF Due
  <2> QED
    BY <1>8, <2>1, SameCiteSelf DEF Left
<1>20. \A c \in CitesIn(Texts) : Settled(c)'
  BY <1>15, TextCites DEF CitesSettled
<1>21. \A k \in 1 .. (n + 1) : k \in 1 .. n \/ k = n + 1
  BY <1>2
<1>22. CitesSettled'
  BY <1>8, <1>11, <1>17, <1>18, <1>19, <1>20, <1>21 DEF CitesSettled
<1> QED
  BY <1>13, <1>14, <1>22

\* A text more, and its chapters with it.
LEMMA TextsAppend ==
  ASSUME NEW S, parts \in Seq(S), NEW p \in S, parts' = Append(parts, p)
  PROVE  Texts' = Texts \cup ToSet(p.chapters)
<1>1. PICK m \in Nat : m = Len(parts) /\ DOMAIN parts = 1 .. m
  OBVIOUS
<1>2. DOMAIN parts' = 1 .. (m + 1) /\ parts'[m + 1] = p /\ \A i \in 1 .. m : parts'[i] = parts[i]
  BY <1>1, AppendReads
<1>3. 1 .. (m + 1) = (1 .. m) \cup {m + 1}
  BY <1>1
<1>4. Texts' = (UNION {ToSet(parts'[i].chapters) : i \in 1 .. m}) \cup ToSet(parts'[m + 1].chapters)
  BY <1>2, <1>3 DEF Texts
<1>5. UNION {ToSet(parts'[i].chapters) : i \in 1 .. m} = Texts
  BY <1>1, <1>2 DEF Texts
<1> QED
  BY <1>2, <1>4, <1>5

\* A frame without cites has none left to follow.
LEMMA NothingLeft ==
  ASSUME NEW frame, frame.cites = <<>>, NEW c
  PROVE  ~Left(frame, c)
BY DEF Left, ToSet

\* A chapter whose cites have been followed goes into the unit: what is
\* coming stays the same.
LEMMA AfterLeave ==
  ASSUME BundleTyped, ReadOnce, CitesSettled, Leave
  PROVE  Coming' = Coming /\ CitesSettled'
<1>1. /\ Walking /\ Len(stack) > 1 /\ Top.cites = <<>> /\ parts' = Append(parts, Part(Top))
      /\ stack' = Front(stack) /\ stack # <<>> /\ stack \in Seq(FrameSet)
      /\ project' = project /\ carried' = carried /\ complaints' = complaints
  BY DEF Leave, Walking, BundleTyped
<1>2. PICK n \in Nat : n = Len(stack) /\ n > 1 /\ DOMAIN stack = 1 .. n /\ n \in 1 .. n
  BY <1>1, TopTyped
<1>3. Top = stack[n] /\ Top \in FrameSet /\ Top.path \in Paths /\ Top.quire \in Quire
  <2>1. Top = stack[n] /\ Top \in FrameSet
    BY <1>1, <1>2, TopTyped
  <2> QED
    BY <1>2, <2>1, FrameReads
<1>4. DOMAIN stack' = 1 .. (n - 1) /\ \A k \in 1 .. (n - 1) : stack'[k] = stack[k]
  BY <1>1, <1>2, FrontReads
<1>5. PICK c \in ChapterSet : IsChapterOf(c, Top)
  <2>1. project \in Projects
    BY DEF BundleTyped
  <2> QED
    BY <1>3, <2>1, PartReads
<1>6. Texts' = Texts \cup {c}
  <2> DEFINE p == Part(Top)
  <2>1. p \in PartSet
    BY <1>3, PartTyped
  <2>2. parts' = Append(parts, p) /\ parts \in Seq(PartSet) /\ ToSet(p.chapters) = {c}
    BY <1>1, <1>5 DEF BundleTyped, IsChapterOf
  <2> HIDE DEF p
  <2> QED
    BY <2>1, <2>2, TextsAppend
<1>7. 1 .. n = (1 .. (n - 1)) \cup {n} /\ 1 # n
  BY <1>2
<1>8. Coming' = Coming
  <2>1. c.header = FrameHeader(stack[n])
    BY <1>3, <1>5 DEF FrameHeader, IsChapterOf
  <2>2. \A k \in 1 .. (n - 1) : FrameHeader(stack[k])' = FrameHeader(stack[k])
    BY <1>1, <1>4 DEF FrameHeader
  <2>3. Coming' = HeadersIn(ToSet(project.chapters) \cup Texts \cup {c})
                    \cup {FrameHeader(stack[k])' : k \in DOMAIN stack' \ {1}}
    BY <1>1, <1>6 DEF Coming
  <2>4. HeadersIn(ToSet(project.chapters) \cup Texts \cup {c})
          = HeadersIn(ToSet(project.chapters) \cup Texts) \cup {FrameHeader(stack[n])}
    BY <2>1 DEF HeadersIn
  <2>5. {FrameHeader(stack[k])' : k \in DOMAIN stack' \ {1}} = {FrameHeader(stack[k]) : k \in (1 .. (n - 1)) \ {1}}
    BY <1>4, <2>2
  <2>6. {FrameHeader(stack[k]) : k \in DOMAIN stack \ {1}}
          = {FrameHeader(stack[k]) : k \in (1 .. (n - 1)) \ {1}} \cup {FrameHeader(stack[n])}
    BY <1>2, <1>7
  <2> QED
    BY <2>3, <2>4, <2>5, <2>6 DEF Coming
<1>9. \A d : Settled(d)' <=> Settled(d)
  BY <1>1 DEF Settled, Broken
<1>10. \A k \in 1 .. (n - 1) : Due(k)' = Due(k)
  BY <1>1, <1>4 DEF Due, Cites
<1>11. \A k \in 1 .. (n - 1) : \A d \in Due(k)' : Settled(d)' \/ Left(stack'[k], d)
  BY <1>2, <1>4, <1>7, <1>9, <1>10 DEF CitesSettled
<1>12. \A d \in ToSet(c.cites) : Settled(d)'
  <2>1. ToSet(c.cites) = Due(n)
    BY <1>3, <1>5, <1>7 DEF Due, IsChapterOf
  <2>2. \A d \in Due(n) : Settled(d) \/ Left(stack[n], d)
    BY <1>2 DEF CitesSettled
  <2> QED
    BY <1>1, <1>3, <1>9, <2>1, <2>2, NothingLeft
<1>13. \A d \in CitesIn(Texts)' : Settled(d)'
  <2>1. CitesIn(Texts)' = CitesIn(Texts) \cup ToSet(c.cites)
    BY <1>6 DEF CitesIn
  <2> QED
    BY <1>9, <1>12, <2>1 DEF CitesSettled
<1> QED
  BY <1>4, <1>8, <1>11, <1>13 DEF CitesSettled

\* The walk ends with nothing left to follow: what is carried is what the
\* unit has.
LEMMA AfterFinish ==
  ASSUME BundleTyped, ReadOnce, CitesSettled, Finish, ~Broken',
         Within(ToSet(carried), Coming), Within(Coming, ToSet(carried))
  PROVE  Complete'
<1>1. /\ Walking /\ Len(stack) = 1 /\ Top.cites = <<>> /\ parts' = Append(parts, Root)
      /\ parts \in Seq(PartSet) /\ Root \in PartSet /\ ~Broken /\ project \in Projects
  BY RootTyped DEF Finish, BundleTyped, Broken
<1>2. DOMAIN stack = {1} /\ Top = stack[1]
  BY <1>1, TopTyped
<1>3. Texts' = Texts \cup ToSet(project.chapters)
  <2>1. Texts' = Texts \cup ToSet(Root.chapters)
    BY <1>1, TextsAppend
  <2> QED
    BY <2>1 DEF Root
<1>4. Coming = HeadersIn(Texts')
  BY <1>2, <1>3 DEF Coming, HeadersIn
<1>5. \A c \in ToSet(Implicit \o Cites) : Present(ToSet(carried), c)
  BY <1>1, <1>2, NothingLeft DEF CitesSettled, Settled, Due
<1>6. \A c \in CitesIn(Texts) : Present(ToSet(carried), c)
  BY <1>1 DEF CitesSettled, Settled
<1>7. ToSet(Implicit) \cup CitesIn(Texts') = ToSet(Implicit \o Cites) \cup CitesIn(Texts)
  <2>1. CitesIn(Texts') = CitesIn(Texts) \cup CitesIn(ToSet(project.chapters))
    BY <1>3 DEF CitesIn
  <2> QED
    BY <1>1, <2>1, ProgramHolds
<1>8. \A c \in ToSet(Implicit) \cup CitesIn(Texts') : Present(Coming, c)
  BY <1>5, <1>6, <1>7, PresentWithin
<1> QED
  BY <1>4, <1>8 DEF Complete

\* A program that lacks nothing is whole as it is.
LEMMA AfterLoadWhole ==
  ASSUME BundleTyped, LoadWhole
  PROVE  Complete'
<1>1. parts' = <<Root>> /\ Wanted = <<>> /\ ~Unclear(Headers, Cites) /\ project \in Projects
  BY DEF LoadWhole, BundleTyped
<1>2. Texts' = ToSet(project.chapters)
  <2>1. DOMAIN parts' = {1} /\ parts'[1] = Root
    BY <1>1
  <2>2. Texts' = ToSet(Root.chapters)
    BY <2>1 DEF Texts
  <2> QED
    BY <2>2 DEF Root
<1>3. ToSet(Wanted) = {}
  BY <1>1 DEF ToSet
<1>4. \A c \in ToSet(Implicit \o Cites) : Present(ToSet(Headers), c)
  BY <1>1, <1>3, ProgramSettled
<1>5. \A c \in ToSet(Implicit) \cup CitesIn(Texts') : Present(HeadersIn(Texts'), c)
  BY <1>1, <1>2, <1>4, ProgramHolds
<1> QED
  BY <1>5 DEF Complete

\* A complaint has the kind it is made with.
LEMMA Complained == \A kind : \E c \in Complain(kind) : c.kind = kind
BY DEF Complain

\* Every step keeps NothingLost.
LEMMA NextNothingLost == BundleTyped /\ ReadOnce /\ NothingLost /\ [Next]_vars => NothingLost'
<1> SUFFICES ASSUME BundleTyped, ReadOnce, NothingLost, [Next]_vars, WellNamed' PROVE NothingLost'
  BY DEF NothingLost
<1>1. project' = project
  BY DEF Next, vars, RefuseProgram, Refuse, LoadWhole, BeginWalk, SkipPresent, RefuseAmbiguous,
         UnregisteredQuire, NoSuchChapter, Enter, Leave, Finish, RefuseUnit, Load
<1>2. WellNamed
  BY <1>1, ProjectFixed
<1>3. phase = "walking" => /\ Within(ToSet(carried), Coming) /\ Within(Coming, ToSet(carried))
                           /\ CitesSettled
  BY <1>2 DEF NothingLost
<1>4. CASE phase' = "refused"
  BY <1>4 DEF NothingLost
<1>5. CASE UNCHANGED vars
  <2>1. /\ Coming' = Coming /\ Complete' = Complete /\ Broken' = Broken /\ phase' = phase /\ carried' = carried
    BY <1>5 DEF vars, Coming, FrameHeader, Complete, Texts, Broken
  <2>2. CitesSettled' = CitesSettled
    BY <1>5 DEF vars, CitesSettled, Settled, Broken, Due, Cites, Texts
  <2> QED
    BY <1>2, <2>1, <2>2 DEF NothingLost
<1>6. CASE LoadWhole
  BY <1>6, AfterLoadWhole DEF LoadWhole, NothingLost
<1>7. CASE BeginWalk
  BY <1>7, AfterBegin DEF BeginWalk, NothingLost
<1>8. ASSUME AtCite, stack' = Followed, carried' = carried, parts' = parts, phase' = phase,
             complaints \subseteq complaints',
             \A cite : cite = Cite => Settled(cite)'
      PROVE  NothingLost'
  <2>1. phase = "walking" /\ phase' = "walking"
    BY <1>8 DEF AtCite, Walking
  <2>2. \A c \in Citable : Settled(c) => Settled(c)'
    BY <1>8 DEF Settled, Broken
  <2>3. Coming' = Coming
    BY <1>1, <1>8, FollowedOn
  <2>4. CitesSettled'
    BY <1>1, <1>3, <1>8, <2>1, <2>2, CitesStaySettled
  <2> QED
    BY <1>3, <1>8, <2>1, <2>3, <2>4 DEF NothingLost
<1>9. CASE SkipPresent
  <2>1. Present(ToSet(carried), Cite)
    BY <1>9, PresenceReads DEF SkipPresent, BundleTyped
  <2>2. ASSUME NEW cite, cite = Cite PROVE Settled(cite)'
    BY <1>9, <2>1, <2>2 DEF SkipPresent, Settled
  <2> QED
    BY <1>8, <1>9, <2>2 DEF SkipPresent
<1>10. CASE UnregisteredQuire
  <2>1. Broken'
    BY <1>10, Complained DEF UnregisteredQuire, Broken
  <2> QED
    BY <1>8, <1>10, <2>1 DEF UnregisteredQuire, Settled
<1>11. CASE NoSuchChapter
  <2>1. Broken'
    BY <1>11, Complained DEF NoSuchChapter, Broken
  <2> QED
    BY <1>8, <1>11, <2>1 DEF NoSuchChapter, Registered, Settled
<1>12. CASE Enter
  <2>1. phase = "walking" /\ phase' = "walking"
    BY <1>12 DEF Enter, Registered, AtCite, Walking
  <2> QED
    BY <1>2, <1>3, <1>12, <2>1, AfterEnter DEF NothingLost
<1>13. CASE Leave
  <2>1. phase = "walking" /\ phase' = "walking" /\ carried' = carried
    BY <1>13 DEF Leave, Walking
  <2> QED
    BY <1>3, <1>13, <2>1, AfterLeave DEF NothingLost
<1>14. CASE Finish
  <2>1. phase = "walking" /\ phase' = "built"
    BY <1>14 DEF Finish, Walking
  <2> QED
    BY <1>3, <1>14, <2>1, AfterFinish DEF NothingLost
<1>15. CASE Load
  <2>1. phase = "built" /\ ~Broken /\ phase' = "loaded" /\ parts' = parts
    BY <1>15 DEF Load
  <2>2. Complete' = Complete
    BY <2>1 DEF Complete, Texts
  <2> QED
    BY <1>2, <2>1, <2>2 DEF NothingLost
<1> QED
  BY <1>4, <1>5, <1>6, <1>7, <1>9, <1>10, <1>11, <1>12, <1>13, <1>14, <1>15
     DEF Next, RefuseProgram, RefuseAmbiguous, RefuseUnit, Refuse

\* Nothing is asked of a program that is only read.
LEMMA InitNothingLost == Init => NothingLost
BY DEF Init, NothingLost

\* The second invariant of the walk.
LEMMA NothingLostAlways == Spec => []NothingLost
<1>1. BundleTyped /\ ReadOnce /\ NothingLost /\ [Next]_vars => NothingLost'
  BY NextNothingLost
<1> QED
  BY <1>1, InitNothingLost, ReadOnceAlways, PTL DEF Spec

\* What `load` hands on is whole: no text is in it twice, and resolving it
\* again would find nothing missing and nothing unclear, when every file
\* declares the chapter it is named for.
THEOREM LoadedWhole == Spec => []UnitIsWhole
<1>1. BundleTyped /\ NothingLost => LoadedIsWhole
  BY CompleteUnit DEF NothingLost, LoadedIsWhole
<1>2. OncePerFile /\ LoadedIsWhole => UnitIsWhole
  BY DEF UnitIsWhole
<1> QED
  BY <1>1, <1>2, FilesReadOnce, ReadOnceAlways, NothingLostAlways, PTL

-----------------------------------------------------------------------------
(***************************************************************************)
(* In order, and nothing else. Of units that are not broken, whose files   *)
(* declare the chapters they are named for: a file that declares another   *)
(* is carried under both names, and a cite that was refused in one         *)
(* spelling may be answered in another.                                    *)
(***************************************************************************)
\* The registry does not change, so neither do the files that cites name.
LEMMA FilesFixed ==
  ASSUME project' = project
  PROVE  /\ CitedFiles' = CitedFiles
         /\ \A S : LeadsTo(S)' = LeadsTo(S)
         /\ FilesOf(ToSet(Implicit \o Cites))' = FilesOf(ToSet(Implicit \o Cites))
<1>1. Entries' = Entries /\ Paths' = Paths /\ Cites' = Cites
  BY DEF Entries, Checkout, Paths, Cites
<1>2. Standing' = Standing
  BY <1>1 DEF Standing, Checkout
<1>3. \A q : Dir(q)' = Dir(q)
  BY <1>1, <1>2, Zenon DEF Dir
<1>4. \A S : FilesOf(S)' = FilesOf(S)
  BY <1>1, <1>3 DEF FilesOf
<1>5. CitedFiles' = CitedFiles
  BY <1>1, <1>4 DEF CitedFiles
<1>6. \A S : LeadsTo(S)' = LeadsTo(S)
  BY <1>5 DEF LeadsTo
<1>7. FilesOf(ToSet(Implicit \o Cites))' = FilesOf(ToSet(Implicit \o Cites))
  BY <1>1, <1>3 DEF FilesOf
<1> QED
  BY <1>5, <1>6, <1>7

\* The file a cite names.
FileOf(c) == <<Entries[Dir(c.quire)][2], c.name>>

\* The files that some cites name.
LEMMA FileReads ==
  /\ Dep = FileOf(Cite)
  /\ \A S : FilesOf(S) \subseteq Paths
  /\ \A S : \A c \in S : Dir(c.quire) # 0 /\ FileOf(c) \in Paths => FileOf(c) \in FilesOf(S)
  /\ \A S : \A p \in FilesOf(S) : \E c \in S : p[2] = c.name /\ p = FileOf(c)
<1>1. Dep = FileOf(Cite)
  BY DEF Dep, FileOf
<1>2. \A S : FilesOf(S) = {FileOf(c) : c \in {c \in S : Dir(c.quire) # 0}} \cap Paths
  BY DEF FilesOf, FileOf
<1>3. \A c : FileOf(c)[2] = c.name
  BY DEF FileOf
<1> QED
  BY <1>1, <1>2, <1>3

\* What files lead to is closed.
LEMMA LeadsToReads ==
  /\ CitedFiles \in [Paths -> SUBSET Paths]
  /\ \A p \in Paths : CitedFiles[p] = FilesOf(ToSet(project.files[p].cites))
  /\ \A S : LeadsTo(S) \subseteq Paths
  /\ \A S : S \subseteq Paths => S \subseteq LeadsTo(S)
  /\ \A S : \A p \in LeadsTo(S) : CitedFiles[p] \subseteq LeadsTo(S)
<1>1. \A S : FilesOf(S) \subseteq Paths
  BY FileReads
<1>2. /\ CitedFiles \in [Paths -> SUBSET Paths]
      /\ \A p \in Paths : CitedFiles[p] = FilesOf(ToSet(project.files[p].cites))
  BY <1>1 DEF CitedFiles
<1>3. ASSUME NEW S PROVE /\ LeadsTo(S) \subseteq Paths
                         /\ S \subseteq Paths => S \subseteq LeadsTo(S)
                         /\ \A p \in LeadsTo(S) : CitedFiles[p] \subseteq LeadsTo(S)
  <2>1. DOMAIN CitedFiles = Paths
    BY <1>2
  <2>2. LeadsTo(S) \subseteq Paths
    BY <2>1 DEF LeadsTo, Reach
  <2>3. S \subseteq Paths => S \subseteq LeadsTo(S)
    BY <2>1, ReachStart DEF LeadsTo
  <2>4. Closed(CitedFiles, LeadsTo(S))
    BY <1>2, ReachClosed DEF LeadsTo
  <2> QED
    BY <2>2, <2>3, <2>4 DEF Closed
<1> QED
  BY <1>2, <1>3

\* The parts of InOrder. No two files that were seen have one name.
SeenApart == \A p, q \in seen : CiteKey[p[2]] = CiteKey[q[2]] => p = q

\* A file that was seen is in the unit or is being followed.
Placed ==
  \A p \in seen : (\E i \in DOMAIN parts : parts[i].path = p) \/ (\E k \in DOMAIN stack : stack[k].path = p)

\* What a frame has still to follow, its source cites.
Sought == \A k \in DOMAIN stack : ToSet(stack[k].cites) \subseteq Due(k)

\* Only what the program's cites lead to is seen.
Reached == \A p \in seen : p \in LeadsTo(FilesOf(ToSet(Implicit \o Cites)))

\* Every frame but the program's leads to those above it.
Trail ==
  \A m, k \in DOMAIN stack : 1 < m /\ m < k => stack[k].path \in LeadsTo(CitedFiles[stack[m].path])

\* A file of that name was seen.
IsSeen(name) == \E p \in seen : CiteKey[p[2]] = CiteKey[name]

\* What is carried was the program's, or came with a file that was seen.
Origins == WellNamed => \A h \in ToSet(carried) : h.name # NoHeader => h \in ToSet(Headers) \/ IsSeen(h.name)

\* The program or a file that was seen has the name of the cite.
Known(c) == Hits(ToSet(Headers), c.name) # {} \/ IsSeen(c.name)

\* A cite of a frame's source is still to be followed, or known.
FramesKnown == WellNamed /\ ~Broken => \A k \in DOMAIN stack : \A c \in Due(k) : Left(stack[k], c) \/ Known(c)

\* What a cite of the i-th text names is the program's, or stands no further
\* down, or leads to that text.
Behind(i, c) ==
  \/ Hits(ToSet(Headers), c.name) # {}
  \/ \E p \in seen : /\ CiteKey[p[2]] = CiteKey[c.name]
                     /\ (\E k \in 1 .. i : parts[k].path = p) \/ parts[i].path \in LeadsTo(CitedFiles[p])

\* So it is of every cite of every file in the unit.
PartsBehind ==
  WellNamed /\ ~Broken =>
    \A i \in DOMAIN parts : parts[i].path # RootPath =>
      \A c \in ToSet(project.files[parts[i].path].cites) : Behind(i, c)

\* The program's own text comes last, when nothing is being followed any
\* more.
RootLast ==
  /\ \A i \in DOMAIN parts : parts[i].path = RootPath => i = Len(parts)
  /\ phase \in {"built", "loaded"} => stack = <<>>

\* What the program cites is known when the unit is built.
RootKnown ==
  phase \in {"built", "loaded"} /\ Wanted # <<>> /\ WellNamed /\ ~Broken =>
    \A c \in ToSet(Implicit \o Cites) : Known(c)

\* The order of the unit, as the walk makes it.
InOrder ==
  /\ SeenApart /\ Placed /\ Sought /\ Reached /\ Trail
  /\ Origins /\ FramesKnown /\ PartsBehind /\ RootLast /\ RootKnown

\* Known and Behind do not depend on the walk but for what it has seen.
LEMMA KnownOn ==
  ASSUME project' = project, seen \subseteq seen'
  PROVE  /\ \A c : Known(c) => Known(c)'
         /\ \A name : IsSeen(name) => IsSeen(name)'
BY DEF Known, IsSeen, Headers

\* A text more changes nothing of what stands behind what.
LEMMA BehindStays ==
  ASSUME project' = project, seen' = seen, NEW i \in Nat, NEW c, Behind(i, c), \A k \in 1 .. i : parts'[k] = parts[k],
         parts'[i] = parts[i]
  PROVE  Behind(i, c)'
<1>1. Headers' = Headers
  BY DEF Headers
<1>2. CASE Hits(ToSet(Headers), c.name) # {}
  BY <1>1, <1>2 DEF Behind
<1>3. ASSUME NEW p \in seen, CiteKey[p[2]] = CiteKey[c.name],
             (\E k \in 1 .. i : parts[k].path = p) \/ parts[i].path \in LeadsTo(CitedFiles[p])
      PROVE  Behind(i, c)'
  <2>1. (\E k \in 1 .. i : parts'[k].path = p) \/ parts'[i].path \in LeadsTo(CitedFiles[p])
    BY <1>3
  <2>2. LeadsTo(CitedFiles[p])' = LeadsTo(CitedFiles[p])
    BY FilesFixed
  <2> QED
    BY <1>3, <2>1, <2>2 DEF Behind
<1> QED
  BY <1>2, <1>3 DEF Behind

\* A name is found among the headers when one of them answers it.
LEMMA NamedReads ==
  ASSUME NEW H, NEW headers \in Seq(H), NEW name
  PROVE  Named(headers, name) = {} <=> Hits(ToSet(headers), name) = {}
<1>1. ASSUME NEW m \in Named(headers, name) PROVE headers[m] \in Hits(ToSet(headers), name)
  BY DEF Named, Hits, ToSet
<1>2. ASSUME NEW h \in Hits(ToSet(headers), name) PROVE Named(headers, name) # {}
  <2>1. PICK i \in DOMAIN headers : h = headers[i]
    BY DEF Hits, ToSet
  <2>2. Answers(headers[i], name)
    BY <1>2, <2>1 DEF Hits
  <2> QED
    BY <2>2, FirstNamed
<1> QED
  BY <1>1, <1>2

\* Steps that touch neither the walk nor the unit.
LEMMA OrderStays ==
  ASSUME InOrder, UNCHANGED <<project, carried, seen, parts, stack, complaints>>,
         phase' \in {"built", "loaded"} => phase \in {"built", "loaded"}
  PROVE  InOrder'
<1>1. /\ Cites' = Cites /\ Headers' = Headers /\ Wanted' = Wanted /\ WellNamed' = WellNamed /\ Broken' = Broken
  BY ProjectFixed DEF Broken, Wanted, Headers, Cites
<1>2. /\ SeenApart' = SeenApart /\ Placed' = Placed
  BY DEF SeenApart, Placed
<1>3. Sought' = Sought /\ \A k : Due(k)' = Due(k)
  BY <1>1 DEF Sought, Due
<1>4. Reached' /\ Trail'
  BY FilesFixed DEF InOrder, Reached, Trail
<1>5. Origins' /\ \A c : Known(c)' <=> Known(c)
  BY <1>1 DEF InOrder, Origins, Known, IsSeen
<1>6. FramesKnown'
  BY <1>1, <1>3, <1>5 DEF InOrder, FramesKnown
<1>7. PartsBehind'
  <2>1. \A i, c : Behind(i, c)' <=> Behind(i, c)
    BY <1>1, FilesFixed DEF Behind
  <2> QED
    BY <1>1, <2>1 DEF InOrder, PartsBehind
<1>8. RootLast'
  BY DEF InOrder, RootLast
<1>9. RootKnown'
  BY <1>1, <1>5 DEF InOrder, RootKnown
<1> QED
  BY <1>2, <1>3, <1>4, <1>5, <1>6, <1>7, <1>8, <1>9 DEF InOrder

\* Complaints are never taken back.
LEMMA BrokenStays ==
  ASSUME complaints \subseteq complaints'
  PROVE  Broken => Broken'
BY DEF Broken

\* A cite that has been followed is known, or the unit broken.
LEMMA FollowedKnown ==
  ASSUME BundleTyped, ReadOnce, AtCite, InOrder, WellNamed, ~Broken, project' = project, seen \subseteq seen',
         NEW cite, cite = Cite, Known(cite)', NEW k \in DOMAIN stack, NEW c \in Due(k)
  PROVE  Left(Followed[k], c) \/ Known(c)'
<1>0. project \in Projects /\ project' \in Projects
  BY DEF BundleTyped
<1>1. c \in Citable /\ Cite \in Citable
  BY FrameReads, CiteTyped
<1>2. Left(stack[k], c) \/ Known(c)
  BY DEF InOrder, FramesKnown
<1>3. CASE Known(c)
  BY <1>3, KnownOn
<1>4. CASE Left(stack[k], c) /\ k # Len(stack)
  BY <1>4, FollowedReads
<1>5. CASE Left(stack[k], c) /\ k = Len(stack)
  <2>1. PICK d \in ToSet(Top.cites) : SameCite(d, c)
    BY <1>5 DEF Left, Top
  <2>2. CASE d = Cite
    <3>1. CiteKey[cite.name] = CiteKey[c.name]
      BY <1>0, <1>1, <2>1, <2>2, CitableNamed, NamesAssumption DEF SameCite
    <3> QED
      BY <3>1 DEF Known, Hits, Answers, IsSeen
  <2>3. CASE d # Cite
    BY <1>5, <2>1, <2>3, CiteTyped, FollowedReads DEF Left
  <2> QED
    BY <2>2, <2>3
<1> QED
  BY <1>2, <1>3, <1>4, <1>5

\* Following a cite leads to no cite that the source does not have.
LEMMA SoughtOn ==
  ASSUME BundleTyped, AtCite, Sought, NEW k \in DOMAIN stack
  PROVE  ToSet(Followed[k].cites) \subseteq Due(k)
<1>1. CASE k # Len(stack)
  BY <1>1, FollowedReads DEF Sought
<1>2. CASE k = Len(stack)
  BY <1>2, FollowedReads, CiteTyped DEF Sought, Top
<1> QED
  BY <1>1, <1>2

\* A cite dealt with, and nothing read.
LEMMA OrderFollowed ==
  ASSUME BundleTyped, ReadOnce, InOrder, AtCite, stack' = Followed, phase' = phase,
         UNCHANGED <<project, carried, seen, parts>>, complaints \subseteq complaints',
         \A cite : cite = Cite /\ WellNamed => Broken' \/ Known(cite)'
  PROVE  InOrder'
<1>1. /\ Cites' = Cites /\ Headers' = Headers /\ Wanted' = Wanted /\ WellNamed' = WellNamed
      /\ Broken => Broken'
  BY ProjectFixed, BrokenStays DEF Wanted, Headers, Cites
<1>2. /\ DOMAIN stack' = DOMAIN stack /\ \A k \in DOMAIN stack : stack'[k].path = stack[k].path
      /\ \A k \in DOMAIN stack : Due(k)' = Due(k)
  BY FollowedReads, FollowedOn
<1>3. phase' = "walking"
  BY DEF AtCite, Walking
<1>4. SeenApart' /\ Placed'
  <2>1. SeenApart'
    BY DEF InOrder, SeenApart
  <2>2. \A p \in seen : (\E i \in DOMAIN parts : parts[i].path = p) \/ (\E k \in DOMAIN stack' : stack'[k].path = p)
    BY <1>2 DEF InOrder, Placed
  <2> QED
    BY <2>1, <2>2 DEF Placed
<1>5. Sought'
  BY <1>2, SoughtOn DEF InOrder, Sought
<1>6. Reached'
  BY FilesFixed DEF InOrder, Reached
<1>7. Trail'
  <2>1. \A m, k \in DOMAIN stack' : 1 < m /\ m < k => stack'[k].path \in LeadsTo(CitedFiles[stack'[m].path])
    BY <1>2 DEF InOrder, Trail
  <2> QED
    BY <2>1, FilesFixed DEF Trail
<1>8. Origins'
  BY <1>1 DEF InOrder, Origins, IsSeen
<1>9. FramesKnown'
  <2>1. ASSUME WellNamed, ~Broken', NEW k \in DOMAIN stack, NEW c \in Due(k)
        PROVE  Left(stack'[k], c) \/ Known(c)'
    BY <1>1, <2>1, FollowedKnown
  <2> QED
    BY <1>1, <1>2, <2>1 DEF FramesKnown
<1>10. PartsBehind'
  <2>1. \A i, c : Behind(i, c) => Behind(i, c)'
    BY <1>1, FilesFixed DEF Behind
  <2> QED
    BY <1>1, <2>1 DEF InOrder, PartsBehind
<1>11. RootLast'
  BY <1>3 DEF InOrder, RootLast
<1>12. RootKnown'
  BY <1>3 DEF RootKnown
<1> QED
  BY <1>4, <1>5, <1>6, <1>7, <1>8, <1>9, <1>10, <1>11, <1>12 DEF InOrder

\* What is carried was the program's, or was read.
LEMMA AnsweredKnown ==
  ASSUME InOrder, WellNamed, NEW c, Hits(ToSet(carried), c.name) # {}
  PROVE  Known(c)
<1>1. PICK h \in ToSet(carried) : h.name # NoHeader /\ CiteKey[h.name] = CiteKey[c.name]
  BY DEF Hits, Answers
<1>2. h \in ToSet(Headers) \/ IsSeen(h.name)
  BY <1>1 DEF InOrder, Origins
<1> QED
  BY <1>1, <1>2 DEF Known, Hits, Answers, IsSeen

\* The walk starts from what the program lacks; the rest it has itself.
LEMMA OrderBegin ==
  ASSUME BundleTyped, ReadOnce, InOrder, BeginWalk
  PROVE  InOrder'
<1> DEFINE first == Frame(RootPath, NoQuire, Wanted)
<1>1. /\ project' = project /\ parts' = parts /\ parts = <<>> /\ carried' = Headers /\ stack' = <<first>>
      /\ ~Unclear(Headers, Cites) /\ project \in Projects /\ seen' = {} /\ seen = {} /\ phase' = "walking"
  BY DEF BeginWalk, Begin, Resolvable, ReadOnce, BundleTyped
<1>2. first.cites = Wanted
  BY DEF Frame
<1> HIDE DEF first
<1>3. DOMAIN stack' = {1} /\ stack'[1] = first /\ DOMAIN parts' = {}
  BY <1>1
<1>4. /\ Cites' = Cites /\ Headers' = Headers /\ WellNamed' = WellNamed
  BY <1>1, ProjectFixed
<1>5. Due(1)' = ToSet(Implicit \o Cites)
  BY <1>4 DEF Due
<1>6. Sought'
  <2>1. Implicit \o Cites \in Seq(Citable)
    BY <1>1, SourcesTyped
  <2>2. ToSet(Wanted) \subseteq ToSet(Implicit \o Cites)
    BY <2>1, MissingElements DEF Wanted
  <2> QED
    BY <1>2, <1>3, <1>5, <2>2 DEF Sought
<1>7. FramesKnown'
  <2>1. ASSUME NEW c \in ToSet(Implicit \o Cites) PROVE Left(first, c) \/ Known(c)'
    <3>1. Present(ToSet(Headers), c) \/ Left(first, c)
      BY <1>1, <1>2, ProgramSettled DEF Left
    <3>2. Present(ToSet(Headers), c) => Hits(ToSet(Headers), c.name) # {}
      BY DEF Present, Exacts, Hits
    <3> QED
      BY <1>4, <3>1, <3>2 DEF Known
  <2> QED
    BY <1>3, <1>5, <2>1 DEF FramesKnown
<1>8. Origins'
  BY <1>1, <1>4 DEF Origins
<1>9. SeenApart' /\ Placed' /\ Reached'
  BY <1>1 DEF SeenApart, Placed, Reached
<1>10. Trail'
  BY <1>3 DEF Trail
<1>11. PartsBehind' /\ RootLast' /\ RootKnown'
  BY <1>1, <1>3 DEF PartsBehind, RootLast, RootKnown
<1> QED
  BY <1>6, <1>7, <1>8, <1>9, <1>10, <1>11 DEF InOrder

\* A file that is read was cited by the innermost frame, so the frames below
\* lead to it; and no file of its name was seen.
LEMMA OrderEnter ==
  ASSUME BundleTyped, ReadOnce, InOrder, Enter
  PROVE  InOrder'
<1> DEFINE new == Frame(Dep, Cite.quire, project.files[Dep].cites)
<1>1. /\ AtCite /\ Dep \in Paths /\ Dep \notin seen /\ Presence(carried, Cite) = "missing" /\ Dir(Cite.quire) # 0
      /\ carried' = carried \o Carries(Dep, Cite) /\ stack' = Append(Followed, new)
      /\ project' = project /\ parts' = parts /\ seen' = seen \cup {Dep} /\ phase' = phase /\ phase = "walking"
      /\ complaints \subseteq complaints' /\ project \in Projects
  BY DEF Enter, Registered, Paths, AtCite, Walking, BundleTyped
<1>2. PICK n \in Nat \ {0} : n = Len(stack) /\ DOMAIN stack = 1 .. n /\ Top = stack[n]
  BY <1>1, TopTyped DEF AtCite
<1>3. Cite \in Citable /\ Cite.name # NoHeader /\ Dep[2] = Cite.name /\ Cite \in ToSet(Top.cites)
      /\ Dep = FileOf(Cite) /\ Dep # RootPath
  BY <1>1, CiteTyped, CitableNamed, DepReads, FileReads
<1>4. Hits(ToSet(carried), Cite.name) = {}
  BY <1>1, PresenceReads DEF BundleTyped
<1>5. /\ DOMAIN stack' = 1 .. (n + 1) /\ stack'[n + 1] = new
      /\ \A k \in 1 .. n : stack'[k] = Followed[k]
  <2>1. Followed \in Seq(FrameSet) /\ Len(Followed) = n
    BY <1>1, <1>2, FollowedReads
  <2>2. new \in FrameSet
    <3>1. Cite.quire \in Quire /\ project.files[Dep].cites \in Seq(Citable)
      BY <1>1, <1>3, SourcesTyped DEF Quire
    <3> QED
      BY <1>1, <3>1 DEF Frame, FrameSet
  <2>3. stack' = Append(Followed, new)
    BY <1>1
  <2> HIDE DEF new
  <2> QED
    BY <2>1, <2>2, <2>3, AppendReads
<1>6. \A k \in 1 .. n : Followed[k].path = stack[k].path
  BY <1>1, <1>2, FollowedReads
<1>7. new.path = Dep /\ new.cites = project.files[Dep].cites
  BY DEF Frame
<1> HIDE DEF new
<1>8. \A k \in 1 .. (n + 1) : k \in 1 .. n \/ k = n + 1
  BY <1>2
<1>9. /\ Cites' = Cites /\ Headers' = Headers /\ WellNamed' = WellNamed /\ (Broken => Broken')
  BY <1>1, ProjectFixed, BrokenStays
<1>10. \A k \in 1 .. n : Due(k)' = Due(k)
  BY <1>1, <1>5, <1>6, <1>9 DEF Due
<1>11. Due(n + 1)' = ToSet(new.cites)
  BY <1>1, <1>2, <1>5, <1>7 DEF Due
<1>12. SeenApart'
  <2>1. ASSUME NEW p \in seen, CiteKey[p[2]] = CiteKey[Dep[2]] PROVE FALSE
    <3>1. Hits(ToSet(carried), p[2]) # {}
      BY DEF ReadOnce
    <3> QED
      BY <1>3, <1>4, <2>1, <3>1 DEF Hits, Answers
  <2> QED
    BY <1>1, <2>1 DEF InOrder, SeenApart
<1>13. Placed'
  <2>1. ASSUME NEW p \in seen PROVE (\E i \in DOMAIN parts : parts[i].path = p) \/ (\E k \in 1 .. (n + 1) : stack'[k].path = p)
    <3>1. (\E i \in DOMAIN parts : parts[i].path = p) \/ (\E k \in 1 .. n : stack[k].path = p)
      BY <1>2 DEF InOrder, Placed
    <3>2. \A k \in 1 .. n : k \in 1 .. (n + 1)
      BY <1>2
    <3> QED
      BY <1>5, <1>6, <3>1, <3>2
  <2>2. n + 1 \in 1 .. (n + 1)
    BY <1>2
  <2> QED
    BY <1>1, <1>5, <1>7, <2>1, <2>2 DEF Placed
<1>14. Sought'
  <2>1. \A k \in 1 .. n : ToSet(Followed[k].cites) \subseteq Due(k)
    BY <1>1, <1>2, SoughtOn DEF InOrder
  <2> QED
    BY <1>5, <1>8, <1>10, <1>11, <2>1 DEF Sought
<1>15. n \in DOMAIN stack /\ ToSet(Top.cites) \subseteq Due(n)
  BY <1>2 DEF InOrder, Sought
<1>16. n # 1 => stack[n].path \in Paths /\ Dep \in CitedFiles[stack[n].path]
  <2>1. ASSUME n # 1 PROVE stack[n].path \in Paths /\ Dep \in CitedFiles[stack[n].path]
    <3>1. stack[n].path \in Paths
      BY <1>15, <2>1, FrameReads
    <3>2. Cite \in ToSet(project.files[stack[n].path].cites)
      BY <1>3, <1>15, <2>1 DEF Due
    <3>3. Dep \in FilesOf(ToSet(project.files[stack[n].path].cites))
      BY <1>1, <1>3, <3>2, FileReads
    <3> QED
      BY <3>1, <3>3, LeadsToReads
  <2> QED
    BY <2>1
<1>17. Dep \in LeadsTo(FilesOf(ToSet(Implicit \o Cites)))
  <2> DEFINE A == FilesOf(ToSet(Implicit \o Cites))
  <2>1. CASE n = 1
    <3>1. Cite \in ToSet(Implicit \o Cites)
      BY <1>3, <1>15, <2>1 DEF Due
    <3>2. Dep \in A /\ A \subseteq Paths
      BY <1>1, <1>3, <3>1, FileReads
    <3> HIDE DEF A
    <3>3. Dep \in LeadsTo(A)
      BY <3>2, LeadsToReads
    <3> QED
      BY <3>3 DEF A
  <2>2. CASE n # 1
    <3>1. stack[n].path \in seen
      BY <1>15, <2>2 DEF ReadOnce
    <3>2. stack[n].path \in LeadsTo(A)
      BY <3>1 DEF InOrder, Reached
    <3> HIDE DEF A
    <3>3. Dep \in LeadsTo(A)
      BY <1>16, <2>2, <3>2, LeadsToReads
    <3> QED
      BY <3>3 DEF A
  <2> QED
    BY <2>1, <2>2
<1>18. Reached'
  BY <1>1, <1>17, FilesFixed DEF InOrder, Reached
<1>19. Trail'
  <2>1. ASSUME NEW m \in 1 .. n, NEW k \in 1 .. n, 1 < m, m < k PROVE stack'[k].path \in LeadsTo(CitedFiles[stack'[m].path])
    <3>1. stack[k].path \in LeadsTo(CitedFiles[stack[m].path])
      BY <1>2, <2>1 DEF InOrder, Trail
    <3> QED
      BY <1>5, <1>6, <3>1
  <2>2. ASSUME NEW m \in 1 .. n, 1 < m PROVE Dep \in LeadsTo(CitedFiles[stack[m].path])
    <3>1. n # 1 /\ stack[m].path \in Paths
      BY <1>2, <2>2, FrameReads
    <3>2. CitedFiles[stack[m].path] \subseteq Paths
      BY <3>1, LeadsToReads
    <3>3. CASE m = n
      BY <1>16, <3>1, <3>2, <3>3, LeadsToReads
    <3>4. CASE m # n
      <4>1. m < n
        BY <1>2, <3>4
      <4>2. stack[n].path \in LeadsTo(CitedFiles[stack[m].path])
        BY <1>2, <1>15, <2>2, <4>1 DEF InOrder, Trail
      <4> QED
        BY <1>16, <3>1, <4>2, LeadsToReads
    <3> QED
      BY <3>3, <3>4
  <2>3. \A m \in 1 .. (n + 1) : ~(n + 1 < m)
    BY <1>2
  <2>4. ASSUME NEW m \in 1 .. (n + 1), NEW k \in 1 .. (n + 1), 1 < m, m < k
        PROVE  stack'[k].path \in LeadsTo(CitedFiles[stack'[m].path])
    <3>1. m \in 1 .. n
      BY <1>2, <2>4
    <3>2. CASE k \in 1 .. n
      BY <2>1, <2>4, <3>1, <3>2
    <3>3. CASE k = n + 1
      BY <1>5, <1>6, <1>7, <2>2, <2>4, <3>1, <3>3
    <3> QED
      BY <1>8, <3>2, <3>3
  <2> QED
    BY <1>1, <1>5, <2>4, FilesFixed DEF Trail
<1>20. Origins'
  <2>1. ASSUME WellNamed, NEW h \in ToSet(carried'), h.name # NoHeader
        PROVE  h \in ToSet(Headers) \/ IsSeen(h.name)'
    <3>1. /\ Carries(Dep, Cite) \in Seq(HeaderSet) /\ carried \in Seq(HeaderSet)
          /\ \A g \in ToSet(Carries(Dep, Cite)) :
                g = Header(Cite.quire, Cite.name) \/ g = Header(Cite.quire, project.files[Dep].header)
      BY <1>1, CarriesReads DEF Paths, BundleTyped
    <3>2. ToSet(carried') = ToSet(carried) \cup ToSet(Carries(Dep, Cite))
      BY <1>1, <3>1, ConcatElements
    <3>3. CASE h \in ToSet(carried)
      <4>1. h \in ToSet(Headers) \/ IsSeen(h.name)
        BY <2>1, <3>3 DEF InOrder, Origins
      <4> QED
        BY <1>1, <4>1, KnownOn
    <3>4. CASE h \in ToSet(Carries(Dep, Cite))
      <4>0. CiteKey[project.files[Dep].header] = CiteKey[Dep[2]]
        BY <1>1, <2>1 DEF WellNamed, Paths
      <4>2. h = Header(Cite.quire, Cite.name) \/ h = Header(Cite.quire, project.files[Dep].header)
        BY <3>1, <3>4
      <4>3. h.name = Cite.name \/ h.name = project.files[Dep].header
        BY <4>2 DEF Header
      <4>1. CiteKey[h.name] = CiteKey[Dep[2]]
        BY <1>3, <4>0, <4>3
      <4> QED
        BY <1>1, <4>1 DEF IsSeen
    <3> QED
      BY <2>1, <3>2, <3>3, <3>4
  <2> QED
    BY <1>9, <2>1 DEF Origins
<1>21. ASSUME NEW cite, cite = Cite PROVE Known(cite)'
  BY <1>1, <1>3, <1>21 DEF Known, IsSeen
<1>22. FramesKnown'
  <2>1. ASSUME WellNamed, ~Broken', NEW k \in 1 .. n, NEW c \in Due(k) PROVE Left(stack'[k], c) \/ Known(c)'
    <3>1. seen \subseteq seen' /\ ~Broken
      BY <1>1, <1>9, <2>1
    <3> QED
      BY <1>1, <1>2, <1>5, <1>21, <2>1, <3>1, FollowedKnown
  <2>2. \A c \in ToSet(new.cites) : Left(stack'[n + 1], c)
    BY <1>5, SameCiteSelf DEF Left
  <2> QED
    BY <1>5, <1>8, <1>9, <1>10, <1>11, <2>1, <2>2 DEF FramesKnown
<1>23. PartsBehind'
  <2>1. \A i, c : Behind(i, c) => Behind(i, c)'
    BY <1>1, <1>9, FilesFixed DEF Behind
  <2> QED
    BY <1>1, <1>9, <2>1 DEF InOrder, PartsBehind
<1>24. RootLast' /\ RootKnown'
  BY <1>1 DEF InOrder, RootLast, RootKnown
<1> QED
  BY <1>12, <1>13, <1>14, <1>18, <1>19, <1>20, <1>22, <1>23, <1>24 DEF InOrder

\* A chapter goes into the unit behind what it cites: its cites are known,
\* and what is not yet in the unit is on the path that led here.
LEMMA OrderLeave ==
  ASSUME BundleTyped, ReadOnce, InOrder, Leave
  PROVE  InOrder'
<1> DEFINE new == Part(Top)
<1>1. /\ Walking /\ Len(stack) > 1 /\ Top.cites = <<>> /\ parts' = Append(parts, new)
      /\ stack' = Front(stack) /\ stack # <<>> /\ stack \in Seq(FrameSet) /\ parts \in Seq(PartSet)
      /\ UNCHANGED <<project, phase, carried, seen, complaints>> /\ phase = "walking" /\ project \in Projects
      /\ seen \subseteq Paths \ {RootPath}
  BY DEF Leave, Walking, BundleTyped
<1>2. PICK n \in Nat : n = Len(stack) /\ n > 1 /\ DOMAIN stack = 1 .. n /\ n \in 1 .. n /\ Top = stack[n]
  BY <1>1, TopTyped
<1>3. Top.path \in Paths /\ Top.path \in seen /\ Top.path # RootPath
  BY <1>1, <1>2, FrameReads DEF ReadOnce
<1>4. DOMAIN stack' = 1 .. (n - 1) /\ \A k \in 1 .. (n - 1) : stack'[k] = stack[k]
  BY <1>1, <1>2, FrontReads
<1>5. new \in PartSet /\ new.path = Top.path
  BY <1>1, <1>3, TopTyped, PartTyped
<1> HIDE DEF new
<1>6. PICK m \in Nat : m = Len(parts) /\ DOMAIN parts = 1 .. m
  BY <1>1
<1>7. DOMAIN parts' = 1 .. (m + 1) /\ parts'[m + 1] = new /\ \A i \in 1 .. m : parts'[i] = parts[i]
  BY <1>1, <1>5, <1>6, AppendReads
<1>8. \A k \in 1 .. (n - 1) : k \in 1 .. n
  BY <1>2
<1>9. \A k \in 1 .. n : k \in 1 .. (n - 1) \/ k = n
  BY <1>2
<1>10. m + 1 \in 1 .. (m + 1) /\ \A i \in 1 .. m : i \in 1 .. (m + 1)
  BY <1>6
<1>11. /\ Cites' = Cites /\ Headers' = Headers /\ WellNamed' = WellNamed /\ Broken' = Broken
  BY <1>1, ProjectFixed DEF Broken
<1>12. \A k \in 1 .. (n - 1) : Due(k)' = Due(k)
  BY <1>1, <1>4, <1>11 DEF Due
<1>13. \A c : Known(c)' <=> Known(c)
  BY <1>1, <1>11 DEF Known, IsSeen
<1>14. SeenApart' /\ Reached' /\ Origins'
  BY <1>1, <1>11, FilesFixed DEF InOrder, SeenApart, Reached, Origins, IsSeen
<1>15. Placed'
  <2>1. ASSUME NEW p \in seen
        PROVE  (\E i \in 1 .. (m + 1) : parts'[i].path = p) \/ (\E k \in 1 .. (n - 1) : stack'[k].path = p)
    <3>1. CASE \E i \in DOMAIN parts : parts[i].path = p
      BY <1>6, <1>7, <1>10, <3>1
    <3>2. ASSUME NEW k \in 1 .. n, stack[k].path = p
          PROVE  (\E i \in 1 .. (m + 1) : parts'[i].path = p) \/ (\E j \in 1 .. (n - 1) : stack'[j].path = p)
      BY <1>2, <1>4, <1>5, <1>7, <1>9, <1>10, <3>2
    <3> QED
      BY <1>2, <3>1, <3>2 DEF InOrder, Placed
  <2> QED
    BY <1>1, <1>4, <1>7, <2>1 DEF Placed
<1>16. Sought'
  BY <1>2, <1>4, <1>8, <1>12 DEF InOrder, Sought
<1>17. Trail'
  <2>1. \A k, j \in 1 .. (n - 1) : 1 < k /\ k < j => stack[j].path \in LeadsTo(CitedFiles[stack[k].path])
    BY <1>2, <1>8 DEF InOrder, Trail
  <2> QED
    BY <1>1, <1>4, <2>1, FilesFixed DEF Trail
<1>18. FramesKnown'
  BY <1>2, <1>4, <1>8, <1>11, <1>12, <1>13 DEF InOrder, FramesKnown
<1>19. ASSUME NEW i \in 1 .. m, NEW c, Behind(i, c) PROVE Behind(i, c)'
  <2>1. i \in Nat /\ parts'[i] = parts[i] /\ \A k \in 1 .. i : parts'[k] = parts[k]
    BY <1>6, <1>7
  <2> QED
    BY <1>1, <1>19, <2>1, BehindStays
<1>20. ASSUME WellNamed, ~Broken, NEW j, j = m + 1, NEW c \in ToSet(project.files[Top.path].cites) PROVE Behind(j, c)'
  <2>1. c \in Due(n)
    BY <1>2 DEF Due
  <2>2. Known(c)
    <3>1. Left(stack[n], c) \/ Known(c)
      BY <1>2, <1>20, <2>1 DEF InOrder, FramesKnown
    <3> QED
      BY <1>1, <1>2, <3>1, NothingLeft
  <2>3. CASE Hits(ToSet(Headers), c.name) # {}
    BY <1>11, <2>3 DEF Behind
  <2>4. ASSUME NEW p \in seen, CiteKey[p[2]] = CiteKey[c.name] PROVE Behind(j, c)'
    <3>1. (\E k \in 1 .. j : parts'[k].path = p) \/ parts'[j].path \in LeadsTo(CitedFiles[p])
      <4>1. CASE \E i \in DOMAIN parts : parts[i].path = p
        BY <1>6, <1>7, <1>10, <1>20, <4>1
      <4>2. ASSUME NEW k \in 1 .. n, stack[k].path = p
            PROVE  (\E i \in 1 .. j : parts'[i].path = p) \/ parts'[j].path \in LeadsTo(CitedFiles[p])
        <5>1. k # 1
          BY <1>1, <4>2 DEF ReadOnce
        <5>2. CASE k = n
          BY <1>2, <1>5, <1>7, <1>10, <1>20, <4>2, <5>2
        <5>3. CASE k # n
          <6>1. 1 < k /\ k < n
            BY <1>2, <5>1, <5>3
          <6>2. stack[n].path \in LeadsTo(CitedFiles[stack[k].path])
            BY <1>2, <6>1 DEF InOrder, Trail
          <6> QED
            BY <1>2, <1>5, <1>7, <1>20, <4>2, <6>2
        <5> QED
          BY <5>2, <5>3
      <4> QED
        BY <1>2, <4>1, <4>2 DEF InOrder, Placed
    <3>2. LeadsTo(CitedFiles[p])' = LeadsTo(CitedFiles[p])
      BY <1>1, FilesFixed
    <3> QED
      BY <1>1, <2>4, <3>1, <3>2 DEF Behind
  <2> QED
    BY <2>2, <2>3, <2>4 DEF Known, IsSeen
<1>21. \A i \in 1 .. (m + 1) : i \in 1 .. m \/ i = m + 1
  BY <1>6
<1>22. PartsBehind'
  <2>1. ASSUME WellNamed, ~Broken, NEW i \in 1 .. (m + 1), parts'[i].path # RootPath,
               NEW c \in ToSet(project.files[parts'[i].path].cites)
        PROVE  Behind(i, c)'
    <3>1. CASE i \in 1 .. m
      <4>1. parts'[i] = parts[i]
        BY <1>7, <3>1
      <4>2. Behind(i, c)
        BY <1>6, <2>1, <3>1, <4>1 DEF InOrder, PartsBehind
      <4> QED
        BY <1>19, <3>1, <4>2
    <3>2. CASE i = m + 1
      BY <1>5, <1>7, <1>20, <2>1, <3>2
    <3> QED
      BY <1>21, <3>1, <3>2
  <2> QED
    BY <1>1, <1>7, <1>11, <2>1 DEF PartsBehind
<1>23. RootLast'
  <2>1. \A i \in 1 .. m : parts[i].path # RootPath
    BY <1>1, <1>6 DEF ReadOnce
  <2> QED
    BY <1>1, <1>3, <1>5, <1>7, <1>21, <2>1 DEF RootLast
<1>24. RootKnown'
  BY <1>1 DEF RootKnown
<1> QED
  BY <1>14, <1>15, <1>16, <1>17, <1>18, <1>22, <1>23, <1>24 DEF InOrder

\* The program's text goes behind all that was seen.
LEMMA OrderFinish ==
  ASSUME BundleTyped, ReadOnce, InOrder, Finish
  PROVE  InOrder'
<1>1. /\ Walking /\ Len(stack) = 1 /\ Top.cites = <<>> /\ parts' = Append(parts, Root)
      /\ stack' = <<>> /\ stack # <<>> /\ parts \in Seq(PartSet)
      /\ UNCHANGED <<project, carried, seen, complaints>> /\ phase = "walking" /\ phase' = "built"
      /\ seen \subseteq Paths \ {RootPath} /\ Root \in PartSet /\ Root.path = RootPath
  BY RootTyped DEF Finish, Walking, BundleTyped
<1>2. DOMAIN stack = {1} /\ Top = stack[1] /\ DOMAIN stack' = {} /\ stack[1].path = RootPath
  BY <1>1, TopTyped DEF ReadOnce
<1>3. PICK m \in Nat : m = Len(parts) /\ DOMAIN parts = 1 .. m
  BY <1>1
<1>4. DOMAIN parts' = 1 .. (m + 1) /\ parts'[m + 1] = Root /\ \A i \in 1 .. m : parts'[i] = parts[i]
      /\ Len(parts') = m + 1
  BY <1>1, <1>3, AppendReads
<1>5. \A i \in 1 .. (m + 1) : i \in 1 .. m \/ i = m + 1
  BY <1>3
<1>6. /\ Cites' = Cites /\ Headers' = Headers /\ WellNamed' = WellNamed /\ Broken' = Broken
  BY <1>1, ProjectFixed DEF Broken
<1>7. \A c : Known(c)' <=> Known(c)
  BY <1>1, <1>6 DEF Known, IsSeen
<1>8. SeenApart' /\ Reached' /\ Origins'
  BY <1>1, <1>6, FilesFixed DEF InOrder, SeenApart, Reached, Origins, IsSeen
<1>9. Placed'
  <2>1. ASSUME NEW p \in seen PROVE \E i \in 1 .. (m + 1) : parts'[i].path = p
    <3>1. \E i \in 1 .. m : parts[i].path = p
      BY <1>1, <1>2, <1>3 DEF InOrder, Placed
    <3>2. \A i \in 1 .. m : i \in 1 .. (m + 1)
      BY <1>3
    <3> QED
      BY <1>4, <3>1, <3>2
  <2> QED
    BY <1>1, <1>4, <2>1 DEF Placed
<1>10. Sought' /\ Trail' /\ FramesKnown'
  BY <1>2 DEF Sought, Trail, FramesKnown
<1>11. ASSUME NEW i \in 1 .. m, NEW c, Behind(i, c) PROVE Behind(i, c)'
  <2>1. i \in Nat /\ parts'[i] = parts[i] /\ \A k \in 1 .. i : parts'[k] = parts[k]
    BY <1>3, <1>4
  <2> QED
    BY <1>1, <1>11, <2>1, BehindStays
<1>12. PartsBehind'
  <2>1. ASSUME WellNamed, ~Broken, NEW i \in 1 .. (m + 1), parts'[i].path # RootPath,
               NEW c \in ToSet(project.files[parts'[i].path].cites)
        PROVE  Behind(i, c)'
    <3>1. i \in 1 .. m
      BY <1>1, <1>4, <1>5, <2>1
    <3>2. parts'[i] = parts[i]
      BY <1>4, <3>1
    <3>3. Behind(i, c)
      BY <1>3, <2>1, <3>1, <3>2 DEF InOrder, PartsBehind
    <3> QED
      BY <1>11, <3>1, <3>3
  <2> QED
    BY <1>1, <1>4, <1>6, <2>1 DEF PartsBehind
<1>13. RootLast'
  <2>1. \A i \in 1 .. m : parts[i].path # RootPath
    BY <1>1, <1>3 DEF ReadOnce
  <2> QED
    BY <1>1, <1>4, <1>5, <2>1 DEF RootLast
<1>14. RootKnown'
  <2>1. ASSUME WellNamed, ~Broken, NEW c \in ToSet(Implicit \o Cites) PROVE Known(c)
    <3>1. Left(stack[1], c) \/ Known(c)
      BY <1>2, <2>1 DEF InOrder, FramesKnown, Due
    <3> QED
      BY <1>1, <1>2, <3>1, NothingLeft
  <2> QED
    BY <1>6, <1>7, <2>1 DEF RootKnown
<1> QED
  BY <1>8, <1>9, <1>10, <1>12, <1>13, <1>14 DEF InOrder

\* A program that lacks nothing is a unit of one text.
LEMMA OrderLoadWhole ==
  ASSUME ReadOnce, InOrder, LoadWhole
  PROVE  InOrder'
<1>1. /\ parts' = <<Root>> /\ Wanted = <<>> /\ UNCHANGED <<project, carried, seen, complaints, stack>>
      /\ stack = <<>> /\ seen = {} /\ Root.path = RootPath
  BY RootTyped DEF LoadWhole, Begin, ReadOnce
<1>2. DOMAIN parts' = {1} /\ parts'[1].path = RootPath /\ Len(parts') = 1 /\ DOMAIN stack' = {}
  BY <1>1
<1>3. /\ Headers' = Headers /\ WellNamed' = WellNamed /\ Wanted' = Wanted
  BY <1>1, ProjectFixed DEF Wanted
<1>4. SeenApart' /\ Placed' /\ Reached'
  BY <1>1 DEF SeenApart, Placed, Reached
<1>5. Sought' /\ Trail' /\ FramesKnown'
  BY <1>2 DEF Sought, Trail, FramesKnown
<1>6. Origins'
  BY <1>1, <1>3 DEF InOrder, Origins, IsSeen
<1>7. PartsBehind' /\ RootLast' /\ RootKnown'
  BY <1>1, <1>2, <1>3 DEF PartsBehind, RootLast, RootKnown
<1> QED
  BY <1>4, <1>5, <1>6, <1>7 DEF InOrder

\* Every step keeps InOrder.
LEMMA NextInOrder == BundleTyped /\ ReadOnce /\ InOrder /\ [Next]_vars => InOrder'
<1> SUFFICES ASSUME BundleTyped, ReadOnce, InOrder, [Next]_vars PROVE InOrder'
  OBVIOUS
<1>1. CASE LoadWhole
  BY <1>1, OrderLoadWhole
<1>2. CASE BeginWalk
  BY <1>2, OrderBegin
<1>3. CASE SkipPresent
  <2>1. Hits(ToSet(carried), Cite.name) # {}
    <3>1. Presence(carried, Cite) = "present" /\ carried \in Seq(HeaderSet)
      BY <1>3 DEF SkipPresent, BundleTyped
    <3>2. Present(ToSet(carried), Cite)
      BY <3>1, PresenceReads
    <3> QED
      BY <3>2 DEF Present, Exacts, Hits
  <2>2. WellNamed => Known(Cite)
    BY <2>1, AnsweredKnown
  <2>3. ASSUME NEW cite, cite = Cite, WellNamed PROVE Known(cite)'
    <3>1. Known(cite)
      BY <2>2, <2>3
    <3> QED
      BY <1>3, <3>1, KnownOn DEF SkipPresent
  <2> QED
    BY <1>3, <2>3, OrderFollowed DEF SkipPresent
<1>4. CASE UnregisteredQuire
  <2>1. Broken'
    BY <1>4, Complained DEF UnregisteredQuire, Broken
  <2> QED
    BY <1>4, <2>1, OrderFollowed DEF UnregisteredQuire
<1>5. CASE NoSuchChapter
  <2>1. Broken'
    BY <1>5, Complained DEF NoSuchChapter, Broken
  <2> QED
    BY <1>5, <2>1, OrderFollowed DEF NoSuchChapter, Registered
<1>6. CASE Enter
  BY <1>6, OrderEnter
<1>7. CASE Leave
  BY <1>7, OrderLeave
<1>8. CASE Finish
  BY <1>8, OrderFinish
<1>9. CASE UNCHANGED <<project, carried, seen, parts, stack, complaints>>
           /\ (phase' \in {"built", "loaded"} => phase \in {"built", "loaded"})
  BY <1>9, OrderStays
<1> QED
  BY <1>1, <1>2, <1>3, <1>4, <1>5, <1>6, <1>7, <1>8, <1>9
     DEF Next, vars, RefuseProgram, Refuse, RefuseAmbiguous, RefuseUnit, Load

\* Nothing is seen at first.
LEMMA InitInOrder == Init => InOrder
<1> SUFFICES ASSUME Init PROVE InOrder
  OBVIOUS
<1>1. seen = {} /\ carried = <<>> /\ DOMAIN stack = {} /\ DOMAIN parts = {} /\ phase = "reading"
  BY DEF Init
<1>2. ToSet(carried) = {}
  BY <1>1 DEF ToSet
<1>3. SeenApart /\ Placed /\ Sought /\ Reached /\ Trail
  BY <1>1 DEF SeenApart, Placed, Sought, Reached, Trail
<1>4. Origins /\ FramesKnown /\ PartsBehind /\ RootLast /\ RootKnown
  BY <1>1, <1>2 DEF Origins, FramesKnown, PartsBehind, RootLast, RootKnown
<1> QED
  BY <1>3, <1>4 DEF InOrder

\* The third invariant of the walk.
LEMMA InOrderAlways == Spec => []InOrder
<1>1. BundleTyped /\ ReadOnce /\ InOrder /\ [Next]_vars => InOrder'
  BY NextInOrder
<1> QED
  BY <1>1, InitInOrder, ReadOnceAlways, PTL DEF Spec

\* A text whose chapters have the header and the cites of its file.
OfFile(part) ==
  /\ part.path \in Paths
  /\ HeadersOf(part.chapters) \in Seq(HeaderSet)
  /\ \A h \in ToSet(HeadersOf(part.chapters)) : h.name = project.files[part.path].header
  /\ ToSet(CitesOf(part.chapters)) = ToSet(project.files[part.path].cites)

\* Every text but the program's is of that kind.
LEMMA PartFile ==
  ASSUME BundleTyped, NEW i \in DOMAIN parts, parts[i].path # RootPath
  PROVE  OfFile(parts[i])
<1>1. parts[i] \in PartSet /\ project \in Projects
  BY DEF BundleTyped
<1>2. PICK p \in Paths, q \in Quire : parts[i] = Part(Frame(p, q, <<>>))
  BY <1>1, RootTyped DEF PartSet
<1>3. PICK f : f = Frame(p, q, <<>>)
  OBVIOUS
<1>4. f.path = p /\ f.quire = q /\ parts[i] = Part(f)
  BY <1>2, <1>3 DEF Frame
<1>5. PICK c \in ChapterSet : IsChapterOf(c, f)
  BY <1>1, <1>4, PartReads
<1>6. PICK chapters : chapters = parts[i].chapters
  OBVIOUS
<1>7. /\ chapters \in Seq(ChapterSet) /\ ToSet(chapters) = {c} /\ parts[i].path = p
      /\ c.header = Header(q, project.files[p].header) /\ c.cites = project.files[p].cites
  BY <1>4, <1>5, <1>6 DEF IsChapterOf, Part
<1>8. c.cites \in Seq(Citable) /\ c.header \in HeaderSet
  BY <1>1, ChaptersTyped
<1>9. ToSet(HeadersOf(chapters)) = {c.header}
  BY <1>7, HeadersElements DEF HeadersIn
<1>10. HeadersOf(chapters) \in Seq(HeaderSet)
  <2>1. Len(chapters) \in Nat /\ DOMAIN chapters = 1 .. Len(chapters) /\ \A k \in DOMAIN chapters : chapters[k] \in ToSet(chapters)
    BY <1>7 DEF ToSet
  <2>2. \A k \in DOMAIN chapters : chapters[k].header \in HeaderSet
    BY <1>7, <1>8, <2>1
  <2> QED
    BY <2>1, <2>2 DEF HeadersOf
<1>11. ToSet(CitesOf(chapters)) = ToSet(c.cites)
  <2>1. \A d \in ToSet(chapters) : d.cites \in Seq(Citable)
    BY <1>7, <1>8
  <2>2. ToSet(CitesOf(chapters)) = CitesIn(ToSet(chapters))
    BY <1>7, <2>1, CitesElements
  <2> QED
    BY <1>7, <2>2 DEF CitesIn
<1> QED
  BY <1>6, <1>7, <1>9, <1>10, <1>11 DEF OfFile, Header

\* The first half of the property: the chapter a cite names stands ahead, or
\* leads back here, or is the program's.
LEMMA CitedBehind == BundleTyped /\ ReadOnce /\ InOrder => BehindWhatItCites
<1> SUFFICES ASSUME BundleTyped, ReadOnce, InOrder, ~Broken, WellNamed, NEW i \in DOMAIN parts,
                    NEW c \in ToSet(CitesOf(parts[i].chapters)), NEW j \in (i + 1) .. Len(parts),
                    parts[j].path # RootPath, Exact(HeadersOf(parts[j].chapters), c) # {},
                    Named(Headers, c.name) = {}
             PROVE  parts[i].path \in LeadsTo(CitedFiles[parts[j].path])
  BY DEF BehindWhatItCites
<1>1. DOMAIN parts = 1 .. Len(parts) /\ Len(parts) \in Nat /\ j \in DOMAIN parts /\ i \in Nat /\ i < j
  BY DEF BundleTyped
<1>2. parts[i].path # RootPath
  BY <1>1 DEF InOrder, RootLast
<1>3. OfFile(parts[i]) /\ OfFile(parts[j])
  BY <1>1, <1>2, PartFile
<1>4. Behind(i, c)
  BY <1>2, <1>3 DEF InOrder, PartsBehind, OfFile
<1>5. Hits(ToSet(Headers), c.name) = {}
  <2>1. Headers \in Seq(HeaderSet)
    BY SourcesTyped DEF BundleTyped
  <2> QED
    BY <2>1, NamedReads
<1>6. PICK p \in seen : /\ CiteKey[p[2]] = CiteKey[c.name]
                        /\ (\E k \in 1 .. i : parts[k].path = p) \/ parts[i].path \in LeadsTo(CitedFiles[p])
  BY <1>4, <1>5 DEF Behind
<1>7. CiteKey[parts[j].path[2]] = CiteKey[c.name]
  <2>1. PICK m \in DOMAIN HeadersOf(parts[j].chapters) : Answers(HeadersOf(parts[j].chapters)[m], c.name)
    BY DEF Exact
  <2>2. HeadersOf(parts[j].chapters)[m].name = project.files[parts[j].path].header
    BY <1>3, <2>1 DEF OfFile, ToSet
  <2> QED
    BY <1>3, <2>1, <2>2 DEF Answers, WellNamed, OfFile, Paths
<1>8. p = parts[j].path
  BY <1>1, <1>6, <1>7 DEF InOrder, SeenApart, ReadOnce
<1>9. \A k \in 1 .. i : parts[k].path # p
  BY <1>1, <1>8 DEF ReadOnce
<1> QED
  BY <1>6, <1>8, <1>9

\* When names tell chapters apart, a cite that is known leads to a file that
\* was seen.
LEMMA KnownRead ==
  ASSUME BundleTyped, NamesApart, NEW c, Known(c), FileOf(c) \in Paths
  PROVE  FileOf(c) \in seen
<1>1. FileOf(c)[2] = c.name
  BY DEF FileOf
<1>2. seen \subseteq Paths
  BY DEF BundleTyped
<1>3. Hits(ToSet(Headers), c.name) = {}
  <2> SUFFICES ASSUME NEW h \in ToSet(Headers), Answers(h, c.name) PROVE FALSE
    BY DEF Hits
  <2>1. project.chapters \in Seq(ChapterSet)
    BY ChaptersTyped DEF BundleTyped
  <2>2. DOMAIN Headers = 1 .. 1 /\ Headers[1] = project.chapters[1].header
    BY <2>1 DEF NamesApart, Headers, HeadersOf
  <2>3. h = project.chapters[1].header
    BY <2>2 DEF ToSet
  <2> QED
    BY <1>1, <2>3 DEF NamesApart, Answers, Paths
<1>4. IsSeen(c.name)
  BY <1>3 DEF Known
<1> QED
  BY <1>1, <1>2, <1>4 DEF IsSeen, NamesApart, Paths

\* The second half: the files seen hold all that they cite, and the least
\* such set is what the program's cites lead to.
LEMMA LeadsToSeen == BundleTyped /\ ReadOnce /\ InOrder => NothingElse
<1> DEFINE A == FilesOf(ToSet(Implicit \o Cites))
<1> SUFFICES ASSUME BundleTyped, ReadOnce, InOrder, phase \in {"built", "loaded"}, Wanted # <<>>, ~Broken,
                    NamesApart, WellNamed
             PROVE  {parts[i].path : i \in DOMAIN parts} \ {RootPath} = LeadsTo(A)
  BY DEF NothingElse
<1>1. stack = <<>> /\ seen \subseteq Paths \ {RootPath}
  BY DEF InOrder, RootLast, BundleTyped
<1>2. {parts[i].path : i \in DOMAIN parts} \ {RootPath} = seen
  BY <1>1 DEF InOrder, Placed, ReadOnce
<1>3. seen \subseteq LeadsTo(A)
  BY DEF InOrder, Reached
<1>4. A \subseteq seen
  <2> SUFFICES ASSUME NEW q \in A PROVE q \in seen
    OBVIOUS
  <2>1. q \in Paths
    BY FileReads
  <2>2. PICK c \in ToSet(Implicit \o Cites) : q = FileOf(c)
    BY FileReads
  <2>3. Known(c)
    BY <2>2 DEF InOrder, RootKnown
  <2> QED
    BY <2>1, <2>2, <2>3, KnownRead
<1>5. Closed(CitedFiles, seen)
  <2> SUFFICES ASSUME NEW p \in seen, NEW q \in CitedFiles[p] PROVE q \in seen
    BY DEF Closed
  <2>1. q \in FilesOf(ToSet(project.files[p].cites))
    BY <1>1, LeadsToReads
  <2>2. q \in Paths
    BY <2>1, FileReads
  <2>3. PICK c \in ToSet(project.files[p].cites) : q = FileOf(c)
    BY <2>1, FileReads
  <2>4. PICK i \in DOMAIN parts : parts[i].path = p
    BY <1>2
  <2>5. Behind(i, c)
    BY <1>1, <2>3, <2>4 DEF InOrder, PartsBehind
  <2>6. Known(c)
    BY <2>5 DEF Behind, Known, IsSeen
  <2> QED
    BY <2>2, <2>3, <2>6, KnownRead
<1>6. LeadsTo(A) \subseteq seen
  <2>1. seen \in SUBSET DOMAIN CitedFiles
    BY <1>1 DEF CitedFiles
  <2> HIDE DEF A
  <2> QED
    BY <1>4, <1>5, <2>1, ReachLeast DEF LeadsTo
<1> QED
  BY <1>2, <1>3, <1>6

\* A unit that is not broken holds what its program's cites lead to and
\* nothing else, and a chapter stands behind the chapters it cites unless
\* they lead back to it (Walk::walk: "dependencies first"), when every file
\* declares the chapter it is named for.
THEOREM UnitOrdered == Spec => []UnitInOrder
<1>1. BundleTyped /\ ReadOnce /\ InOrder => UnitInOrder
  BY CitedBehind, LeadsToSeen DEF UnitInOrder
<1> QED
  BY <1>1, ReadOnceAlways, InOrderAlways, PTL
=============================================================================
