-------------------------- MODULE JudgementsProofs --------------------------
(***************************************************************************)
(* That the judgements hold: the rounds end with every definition that     *)
(* reaches one that breaks a class, an accepted definition's runs keep     *)
(* what it promised, and punctual runs end.                                *)
(*                                                                         *)
(* First what the walks over an expression find, by looking at a smallest  *)
(* expression of which it would not be so; then the rounds; then what an   *)
(* accepted definition does of itself; and last the runs, where what holds *)
(* of each definition of the stack holds of the one it was called by.      *)
(***************************************************************************)
EXTENDS Judgements, FiniteSetTheorems, SequenceTheorems, WellFoundedInduction, TLAPS

-----------------------------------------------------------------------------
(***************************************************************************)
(* Expressions.                                                            *)
(***************************************************************************)
\* A set of numbers with an element has a least one.
LEMMA LeastNat ==
  ASSUME NEW S \in SUBSET Nat, S # {}
  PROVE  \E m \in S : \A k \in S : m <= k
<1> DEFINE R == OpToRel(<, Nat)
<1>1. IsWellFoundedOn(R, Nat)
  BY NatLessThanWellFounded
<1>2. \A x, y \in Nat : x < y => <<x, y>> \in R
  BY DEF OpToRel
<1> HIDE DEF R
<1>3. PICK m \in S : \A k \in S : ~(<<k, m>> \in R)
  BY <1>1, WFMin
<1>4. ASSUME NEW k \in S PROVE m <= k
  <2>1. k \in Nat /\ m \in Nat
    OBVIOUS
  <2>2. ~(k < m)
    BY <1>2, <1>3, <2>1, Zenon
  <2> QED
    BY <2>1, <2>2
<1> QED
  BY <1>4

\* How much is under an expression.
Size(e) == Cardinality(Nodes(e))

LEMMA SizeTyped ==
  ASSUME NEW e \in Expr
  PROVE  IsFiniteSet(Nodes(e)) /\ Size(e) \in Nat
BY ExprAssumption, FS_CardinalityType DEF Size

\* A part of an expression is an expression, and a smaller one.
LEMMA Parts ==
  ASSUME NEW e \in Expr, NEW i \in DOMAIN e.xs
  PROVE  /\ e.xs[i] \in Expr
         /\ Nodes(e.xs[i]) \subseteq Nodes(e)
         /\ Size(e.xs[i]) < Size(e)
<1>1. e.xs[i] \in Expr
  BY ExprAssumption
<1>2. Nodes(e.xs[i]) \subseteq Nodes(e)
  BY ExprAssumption
<1>3. e \in Nodes(e) /\ e \notin Nodes(e.xs[i])
  BY ExprAssumption
<1>4. Nodes(e.xs[i]) # Nodes(e)
  BY <1>3
<1>5. Size(e.xs[i]) <= Size(e) /\ Size(e.xs[i]) # Size(e)
  BY <1>2, <1>4, SizeTyped, FS_Subset DEF Size
<1> QED
  BY <1>1, <1>2, <1>5, SizeTyped

\* Of some expressions one has nothing smaller among them.
LEMMA Smallest ==
  ASSUME NEW Bad \in SUBSET Expr, Bad # {}
  PROVE  \E e \in Bad : \A f \in Bad : Size(e) <= Size(f)
<1> DEFINE S == {Size(e) : e \in Bad}
<1>1. S \in SUBSET Nat /\ S # {}
  BY SizeTyped
<1>2. PICK m \in S : \A k \in S : m <= k
  BY <1>1, LeastNat
<1> QED
  BY <1>2

\* Nothing can hold of an expression only if it holds of a part.
LEMMA NoneLeast ==
  ASSUME NEW Bad \in SUBSET Expr, \A e \in Bad : \E i \in DOMAIN e.xs : e.xs[i] \in Bad
  PROVE  Bad = {}
<1> SUFFICES ASSUME Bad # {} PROVE FALSE
  OBVIOUS
<1>1. PICK e \in Bad : \A f \in Bad : Size(e) <= Size(f)
  BY Smallest
<1>2. PICK i \in DOMAIN e.xs : e.xs[i] \in Bad
  OBVIOUS
<1>3. Size(e.xs[i]) < Size(e) /\ Size(e) <= Size(e.xs[i])
  BY <1>1, <1>2, Parts
<1> QED
  BY <1>2, <1>3, SizeTyped

\* What is under an expression are expressions, with all that is under them.
LEMMA UnderExpr ==
  ASSUME NEW e \in Expr
  PROVE  e \in Nodes(e) /\ \A y \in Nodes(e) : y \in Expr /\ Nodes(y) \subseteq Nodes(e)
<1> DEFINE Fine(f) == \A y \in Nodes(f) : y \in Expr /\ Nodes(y) \subseteq Nodes(f)
           Bad == {f \in Expr : ~Fine(f)}
<1>1. ASSUME NEW f \in Bad PROVE \E i \in DOMAIN f.xs : f.xs[i] \in Bad
  <2>1. PICK y \in Nodes(f) : ~(y \in Expr /\ Nodes(y) \subseteq Nodes(f))
    OBVIOUS
  <2>2. y # f
    BY <2>1
  <2>3. PICK i \in DOMAIN f.xs : y \in Nodes(f.xs[i])
    BY <2>2, ExprAssumption
  <2>4. f.xs[i] \in Expr /\ Nodes(f.xs[i]) \subseteq Nodes(f)
    BY Parts
  <2> QED
    BY <2>1, <2>3, <2>4
<1>2. Bad = {}
  <2> HIDE DEF Bad
  <2>1. Bad \in SUBSET Expr
    BY DEF Bad
  <2> QED
    BY <1>1, <2>1, NoneLeast
<1> QED
  BY <1>2, ExprAssumption

\* An expression mentions what it is and what its parts mention.
LEMMA MentionedParts ==
  ASSUME NEW e \in Expr
  PROVE  Mentioned(e) = (IF e.t = "NameRef" THEN {e.n} ELSE {})
                          \cup UNION {Mentioned(e.xs[i]) : i \in DOMAIN e.xs}
<1>1. Nodes(e) = {e} \cup UNION {Nodes(e.xs[i]) : i \in DOMAIN e.xs}
  BY ExprAssumption
<1>2. ASSUME NEW n \in Mentioned(e)
      PROVE  n \in (IF e.t = "NameRef" THEN {e.n} ELSE {}) \cup UNION {Mentioned(e.xs[i]) : i \in DOMAIN e.xs}
  <2>1. PICK y \in Nodes(e) : y.t = "NameRef" /\ y.n = n
    BY DEF Mentioned
  <2> QED
    BY <1>1, <2>1 DEF Mentioned
<1>3. ASSUME NEW n \in (IF e.t = "NameRef" THEN {e.n} ELSE {}) \cup UNION {Mentioned(e.xs[i]) : i \in DOMAIN e.xs}
      PROVE  n \in Mentioned(e)
  <2>1. CASE e.t = "NameRef" /\ n = e.n
    BY <1>1, <2>1 DEF Mentioned
  <2>2. ASSUME NEW i \in DOMAIN e.xs, n \in Mentioned(e.xs[i]) PROVE n \in Mentioned(e)
    BY <1>1, <2>2 DEF Mentioned
  <2> QED
    BY <1>3, <2>1, <2>2
<1> QED
  BY <1>2, <1>3

\* The spine of an application: its head is no application, its arguments are
\* smaller and second parts of applications, and the innermost application is of
\* the head to the first of them.  All of it lies in whatever holds the parts of
\* the applications it holds.
SpineIn(e, S) ==
  /\ Head1(e) \in S /\ Head1(e).t # "Apply"
  /\ Args(e) \in Seq(S)
  /\ \A i \in DOMAIN Args(e) : \E y \in S : y.t = "Apply" /\ y.xs[2] = Args(e)[i]
  /\ e.t = "Apply" =>
       /\ 1 \in DOMAIN Args(e)
       /\ Size(Head1(e)) < Size(e)
       /\ \A i \in DOMAIN Args(e) : Size(Args(e)[i]) < Size(e)
       /\ \E y \in S : y.t = "Apply" /\ y.xs[1] = Head1(e) /\ y.xs[2] = Args(e)[1]

LEMMA Spine ==
  ASSUME NEW S \in SUBSET Expr,
         \A e \in S : e.t = "Apply" => e.xs[1] \in S /\ e.xs[2] \in S,
         NEW e \in S
  PROVE  SpineIn(e, S)
<1> DEFINE Bad == {f \in S : ~SpineIn(f, S)}
<1>1. ASSUME NEW f \in Bad PROVE \E i \in DOMAIN f.xs : f.xs[i] \in Bad
  <2>0. f \in Expr /\ Head1(f) = HeadBy(f) /\ Args(f) = ArgsBy(f)
    BY SpineAssumption
  <2>1. f.t = "Apply"
    <3> SUFFICES ASSUME f.t # "Apply" PROVE SpineIn(f, S)
      OBVIOUS
    <3> QED
      BY <2>0 DEF HeadBy, ArgsBy, SpineIn
  <2>2. DOMAIN f.xs = {1, 2} /\ f.xs[1] \in S /\ f.xs[2] \in S
    BY <2>0, <2>1, ExprAssumption
  <2> SUFFICES ASSUME SpineIn(f.xs[1], S) PROVE SpineIn(f, S)
    BY <2>2
  <2> DEFINE g == f.xs[1]
             a == f.xs[2]
  <2>3. Head1(f) = Head1(g) /\ Args(f) = Append(Args(g), a)
    BY <2>0, <2>1 DEF HeadBy, ArgsBy
  <2>4. g \in Expr /\ a \in Expr /\ Size(g) < Size(f) /\ Size(a) < Size(f)
    BY <2>0, <2>2, Parts
  <2>5. Size(f) \in Nat /\ Size(g) \in Nat /\ Size(a) \in Nat
    BY <2>0, <2>4, SizeTyped
  <2>6. Args(g) \in Seq(S) /\ Args(f) \in Seq(S)
    BY <2>2, <2>3 DEF SpineIn
  <2>7. /\ 1 \in DOMAIN Args(f)
        /\ \A i \in DOMAIN Args(f) : Args(f)[i] = IF i = Len(Args(g)) + 1 THEN a ELSE Args(g)[i]
        /\ \A i \in DOMAIN Args(f) : i # Len(Args(g)) + 1 => i \in DOMAIN Args(g)
    BY <2>3, <2>6
  <2>10. \A i \in DOMAIN Args(f) : \E y \in S : y.t = "Apply" /\ y.xs[2] = Args(f)[i]
    <3> SUFFICES ASSUME NEW i \in DOMAIN Args(f) PROVE \E y \in S : y.t = "Apply" /\ y.xs[2] = Args(f)[i]
      OBVIOUS
    <3>1. CASE i = Len(Args(g)) + 1
      BY <2>1, <2>7, <3>1
    <3>2. CASE i # Len(Args(g)) + 1
      BY <2>7, <3>2 DEF SpineIn
    <3> QED
      BY <3>1, <3>2
  <2>8. CASE g.t = "Apply"
    <3>1. /\ 1 \in DOMAIN Args(g) /\ Size(Head1(g)) < Size(g)
          /\ \A i \in DOMAIN Args(g) : Size(Args(g)[i]) < Size(g)
          /\ \E y \in S : y.t = "Apply" /\ y.xs[1] = Head1(g) /\ y.xs[2] = Args(g)[1]
      BY <2>8 DEF SpineIn
    <3>2. Head1(g) \in Expr /\ \A i \in DOMAIN Args(g) : Args(g)[i] \in Expr
      BY <2>6 DEF SpineIn
    <3>3. Size(Head1(g)) \in Nat /\ \A i \in DOMAIN Args(g) : Size(Args(g)[i]) \in Nat
      BY <3>2, SizeTyped
    <3>4. Size(Head1(f)) < Size(f)
      BY <2>3, <2>4, <2>5, <3>1, <3>3
    <3>5. ASSUME NEW i \in DOMAIN Args(f) PROVE Size(Args(f)[i]) < Size(f)
      BY <2>4, <2>5, <2>7, <3>1, <3>3
    <3>6. Args(f)[1] = Args(g)[1]
      BY <2>6, <2>7, <3>1
    <3> QED
      BY <2>3, <2>6, <2>7, <2>10, <3>1, <3>4, <3>5, <3>6 DEF SpineIn
  <2>9. CASE g.t # "Apply"
    <3>1. Head1(g) = g /\ Args(g) = <<>>
      BY <2>4, <2>9, SpineAssumption DEF HeadBy, ArgsBy
    <3>2. Args(f)[1] = a /\ DOMAIN Args(f) = {1}
      BY <2>3, <3>1
    <3> QED
      BY <2>1, <2>2, <2>3, <2>4, <2>6, <2>9, <2>10, <3>1, <3>2 DEF SpineIn
  <2> QED
    BY <2>8, <2>9
<1>2. Bad = {}
  <2> HIDE DEF Bad
  <2>1. Bad \in SUBSET Expr
    BY DEF Bad
  <2> QED
    BY <1>1, <2>1, NoneLeast
<1> QED
  BY <1>2

\* The spine of an application lies under it, and mentions what it mentions.
LEMMA SpineUnder ==
  ASSUME NEW e \in Expr
  PROVE  /\ SpineIn(e, Nodes(e))
         /\ Mentioned(e) \subseteq Mentioned(Head1(e)) \cup UNION {Mentioned(Args(e)[i]) : i \in DOMAIN Args(e)}
<1>1. SpineIn(e, Nodes(e))
  <2>1. Nodes(e) \in SUBSET Expr /\ e \in Nodes(e)
    BY UnderExpr
  <2>2. ASSUME NEW f \in Nodes(e), f.t = "Apply" PROVE f.xs[1] \in Nodes(e) /\ f.xs[2] \in Nodes(e)
    <3>1. f \in Expr /\ Nodes(f) \subseteq Nodes(e) /\ DOMAIN f.xs = {1, 2}
      BY <2>2, UnderExpr, ExprAssumption
    <3>2. f.xs[1] \in Nodes(f.xs[1]) /\ f.xs[2] \in Nodes(f.xs[2])
      BY <3>1, Parts, UnderExpr
    <3> QED
      BY <3>1, <3>2, Parts
  <2> QED
    BY <2>1, <2>2, Spine
<1> DEFINE OnSpine(f) == Mentioned(Head1(f)) \cup UNION {Mentioned(Args(f)[i]) : i \in DOMAIN Args(f)}
           Bad == {f \in Expr : ~(Mentioned(f) \subseteq OnSpine(f))}
<1>2. ASSUME NEW f \in Bad PROVE \E i \in DOMAIN f.xs : f.xs[i] \in Bad
  <2>0. f \in Expr /\ Head1(f) = HeadBy(f) /\ Args(f) = ArgsBy(f)
    BY SpineAssumption
  <2>1. f.t = "Apply"
    BY <2>0 DEF HeadBy
  <2>2. DOMAIN f.xs = {1, 2} /\ f.xs[1] \in Expr /\ f.xs[2] \in Expr
    BY <2>0, <2>1, ExprAssumption, Parts
  <2> SUFFICES ASSUME f.xs[1] \notin Bad PROVE FALSE
    BY <2>2
  <2> DEFINE g == f.xs[1]
             a == f.xs[2]
  <2>3. Head1(f) = Head1(g) /\ Args(f) = Append(Args(g), a)
    BY <2>0, <2>1 DEF HeadBy, ArgsBy
  <2>4. Args(g) \in Seq(Expr)
    <3>1. Expr \in SUBSET Expr /\ \A h \in Expr : h.t = "Apply" => h.xs[1] \in Expr /\ h.xs[2] \in Expr
      BY ExprAssumption, Parts
    <3> QED
      BY <2>2, <3>1, Spine DEF SpineIn
  <2>5. Mentioned(f) = Mentioned(g) \cup Mentioned(a)
    BY <2>0, <2>1, <2>2, MentionedParts
  <2>6. Mentioned(g) \subseteq OnSpine(g)
    BY <2>2
  <2>7. a = Args(f)[Len(Args(g)) + 1] /\ Len(Args(g)) + 1 \in DOMAIN Args(f)
    BY <2>3, <2>4
  <2>8. \A i \in DOMAIN Args(g) : i \in DOMAIN Args(f) /\ Args(f)[i] = Args(g)[i]
    BY <2>3, <2>4
  <2>9. Mentioned(f) \subseteq OnSpine(f)
    BY <2>3, <2>5, <2>6, <2>7, <2>8
  <2> QED
    BY <2>9
<1>3. Bad = {}
  <2> HIDE DEF Bad
  <2>1. Bad \in SUBSET Expr
    BY DEF Bad
  <2> QED
    BY <1>2, <2>1, NoneLeast
<1> QED
  BY <1>1, <1>3

-----------------------------------------------------------------------------
(***************************************************************************)
(* The definitions of a chapter, and what their bodies mention.            *)
(***************************************************************************)
ChapterOK == \E family \in Chapters : chapter \in family

\* Every name is that of one definition, and there are no more names than
\* definitions.
LEMMA ChapterFacts ==
  ASSUME ChapterOK
  PROVE  /\ Len(chapter) \in Nat /\ DOMAIN chapter = 1 .. Len(chapter)
         /\ IsFiniteSet(Names) /\ Cardinality(Names) <= Len(chapter)
         /\ \A d \in ToSet(chapter) : d.name \in Names /\ Named(d.name) = d
         /\ \A n \in Names : Named(n) \in ToSet(chapter) /\ Named(n).name = n
<1>1. /\ Len(chapter) \in Nat /\ DOMAIN chapter = 1 .. Len(chapter)
      /\ \A i, j \in DOMAIN chapter : chapter[i].name = chapter[j].name => i = j
  BY ChaptersAssumption DEF ChapterOK
<1>2. IsFiniteSet(Names) /\ Cardinality(Names) <= Len(chapter)
  <2> DEFINE f == [i \in 1 .. Len(chapter) |-> chapter[i].name]
  <2>1. f \in Surjection(1 .. Len(chapter), Names)
    BY <1>1 DEF Surjection, Names, NamesOf
  <2>2. IsFiniteSet(1 .. Len(chapter)) /\ Cardinality(1 .. Len(chapter)) = Len(chapter)
    BY <1>1, FS_Interval
  <2> HIDE DEF f
  <2>3. IsFiniteSet(Names) /\ Cardinality(Names) <= Cardinality(1 .. Len(chapter))
    BY <2>1, <2>2, FS_Surjection
  <2> QED
    BY <2>2, <2>3
<1>3. ASSUME NEW i \in DOMAIN chapter PROVE Named(chapter[i].name) = chapter[i]
  BY <1>1 DEF Named, DefOf
<1> QED
  BY <1>1, <1>2, <1>3 DEF ToSet, Names, NamesOf

\* What the definitions of a chapter are.
LEMMA DefFacts ==
  ASSUME ChapterOK, NEW d \in ToSet(chapter)
  PROVE  d.body \in Expr /\ LocalsOf(d) \subseteq Local /\ d.grants \in SUBSET Grant
BY ChaptersAssumption DEF ChapterOK, ToSet

\* The cost walks are their equations.
LEMMA CostWalks ==
  ASSUME ChapterOK, NEW e \in Expr, NEW known \in SUBSET Names
  PROVE  /\ Allocates(e, known, Names) <=> AllocatesBy(e, known, Names)
         /\ \A strict \in BOOLEAN : Overbudget(e, known, strict, Names) <=> OverbudgetBy(e, known, strict, Names)
<1>1. Names \in UNION {{NamesOf(c) : c \in family} : family \in Chapters}
  BY DEF ChapterOK, Names
<1> QED
  BY <1>1, CostAssumption

\* When an expression of each form is over its budget.
OverIs(e, over, strict) ==
  /\ e.t = "Lit" => ~Overbudget(e, over, strict, Names)
  /\ e.t = "NameRef" => (Overbudget(e, over, strict, Names) <=> e.n \in RtUnsafe \cup over)
  /\ e.t = "Apply" =>
       (Overbudget(e, over, strict, Names) <=>
          \/ HeadOverbudget(Head1(e), Args(e), over, strict, Names)
          \/ \E i \in DOMAIN Args(e) : Overbudget(Args(e)[i], over, strict, Names))
  /\ e.t \in SeenThrough =>
       (Overbudget(e, over, strict, Names) <=>
          \/ BinopAllocates(e)
          \/ \E i \in DOMAIN e.xs : Overbudget(e.xs[i], over, strict, Names))
  /\ e.t \notin {"Lit", "NameRef", "Apply"} \cup SeenThrough => Overbudget(e, over, strict, Names)

LEMMA OverCases ==
  ASSUME ChapterOK, NEW e \in Expr, NEW over \in SUBSET Names, NEW strict \in BOOLEAN
  PROVE  OverIs(e, over, strict)
<1>1. Overbudget(e, over, strict, Names) <=> OverbudgetBy(e, over, strict, Names)
  BY CostWalks
<1>2. CASE e.t = "Lit"
  BY <1>1, <1>2 DEF OverIs, OverbudgetBy, SeenThrough
<1>3. CASE e.t = "NameRef"
  BY <1>1, <1>3 DEF OverIs, OverbudgetBy, SeenThrough
<1>4. CASE e.t = "Apply"
  BY <1>1, <1>4 DEF OverIs, OverbudgetBy, SeenThrough
<1>5. CASE e.t \in SeenThrough
  BY <1>1, <1>5 DEF OverIs, OverbudgetBy, SeenThrough
<1>6. CASE e.t \notin {"Lit", "NameRef", "Apply"} \cup SeenThrough
  BY <1>1, <1>6 DEF OverIs, OverbudgetBy
<1> QED
  BY <1>2, <1>3, <1>4, <1>5, <1>6

\* A mention of a name is the name, and has no parts.
LEMMA Leaf ==
  ASSUME NEW e \in Expr, e.t \in {"NameRef", "Lit"}
  PROVE  e.xs = <<>> /\ Mentioned(e) = IF e.t = "NameRef" THEN {e.n} ELSE {}
<1>1. e.xs = <<>>
  BY ExprAssumption
<1> QED
  BY <1>1, MentionedParts

\* What is on the spine of an expression is under it.
LEMMA SpineFacts ==
  ASSUME NEW e \in Expr
  PROVE  /\ Head1(e) \in Nodes(e) /\ Head1(e) \in Expr /\ Head1(e).t # "Apply"
         /\ \A i \in DOMAIN Args(e) :
               /\ Args(e)[i] \in Nodes(e) /\ Args(e)[i] \in Expr
               /\ Nodes(Args(e)[i]) \subseteq Nodes(e)
               /\ Mentioned(Args(e)[i]) \subseteq Mentioned(e)
               /\ e.t = "Apply" => Size(Args(e)[i]) < Size(e)
         /\ Head1(e).t = "NameRef" => Head1(e).n \in Mentioned(e)
         /\ Nodes(Head1(e)) \subseteq Nodes(e) /\ Mentioned(Head1(e)) \subseteq Mentioned(e)
         /\ e.t = "Apply" => Size(Head1(e)) < Size(e)
<1>1. SpineIn(e, Nodes(e)) /\ \A y \in Nodes(e) : y \in Expr /\ Nodes(y) \subseteq Nodes(e)
  BY SpineUnder, UnderExpr
<1>2. \A i \in DOMAIN Args(e) : Args(e)[i] \in Nodes(e)
  BY <1>1 DEF SpineIn
<1> QED
  BY <1>1, <1>2 DEF SpineIn, Mentioned

\* An expression that mentions one over its budget is over its budget.
LEMMA OverMentions ==
  ASSUME ChapterOK, NEW over \in SUBSET Names, NEW strict \in BOOLEAN,
         NEW e \in Expr, Mentioned(e) \cap over # {}
  PROVE  Overbudget(e, over, strict, Names)
<1> DEFINE Bad == {f \in Expr : Mentioned(f) \cap over # {} /\ ~Overbudget(f, over, strict, Names)}
<1> SUFFICES ASSUME Bad # {} PROVE FALSE
  OBVIOUS
<1>1. PICK f \in Bad : \A g \in Bad : Size(f) <= Size(g)
  <2>1. Bad \in SUBSET Expr
    OBVIOUS
  <2> HIDE DEF Bad
  <2> QED
    BY <2>1, Smallest
<1>2. f \in Expr /\ Mentioned(f) \cap over # {} /\ ~Overbudget(f, over, strict, Names)
  OBVIOUS
<1>3. \A g \in Expr : Mentioned(g) \cap over # {} /\ Size(g) < Size(f) => Overbudget(g, over, strict, Names)
  <2> SUFFICES ASSUME NEW g \in Bad, Size(g) < Size(f) PROVE FALSE
    OBVIOUS
  <2> QED
    BY <1>1, <1>2, SizeTyped
<1> HIDE DEF Bad
<1>4. OverIs(f, over, strict)
  BY <1>2, OverCases
<1>5. CASE f.t \in {"NameRef", "Lit"}
  BY <1>2, <1>4, <1>5, Leaf DEF OverIs
<1>6. CASE f.t = "Apply"
  <2>1. /\ ~HeadOverbudget(Head1(f), Args(f), over, strict, Names)
        /\ \A i \in DOMAIN Args(f) : ~Overbudget(Args(f)[i], over, strict, Names)
    BY <1>2, <1>4, <1>6 DEF OverIs
  <2>2. Head1(f).t = "NameRef" /\ Head1(f).n \notin over
    BY <2>1 DEF HeadOverbudget
  <2>3. Mentioned(Head1(f)) = {Head1(f).n}
    BY <1>2, <2>2, SpineFacts, Leaf
  <2>4. PICK i \in DOMAIN Args(f) : Mentioned(Args(f)[i]) \cap over # {}
    BY <1>2, <2>2, <2>3, SpineUnder
  <2>5. Args(f)[i] \in Expr /\ Size(Args(f)[i]) < Size(f)
    BY <1>2, <1>6, SpineFacts
  <2> QED
    BY <1>3, <2>1, <2>4, <2>5
<1>7. CASE f.t \in SeenThrough
  <2>1. \A i \in DOMAIN f.xs : ~Overbudget(f.xs[i], over, strict, Names)
    BY <1>2, <1>4, <1>7 DEF OverIs
  <2>2. Mentioned(f) = UNION {Mentioned(f.xs[i]) : i \in DOMAIN f.xs}
    BY <1>2, <1>7, MentionedParts DEF SeenThrough
  <2>3. PICK i \in DOMAIN f.xs : Mentioned(f.xs[i]) \cap over # {}
    BY <1>2, <2>2
  <2> QED
    BY <1>2, <1>3, <2>1, <2>3, Parts
<1> QED
  BY <1>2, <1>4, <1>5, <1>6, <1>7 DEF OverIs

\* An expression is over its budget of itself, or mentions one that is.
LEMMA OverOnly ==
  ASSUME ChapterOK, NEW over \in SUBSET Names, NEW strict \in BOOLEAN,
         NEW e \in Expr, Overbudget(e, over, strict, Names)
  PROVE  Overbudget(e, {}, strict, Names) \/ Mentioned(e) \cap over # {}
<1> DEFINE Bad == {f \in Expr : /\ Overbudget(f, over, strict, Names)
                                /\ ~Overbudget(f, {}, strict, Names)
                                /\ Mentioned(f) \cap over = {}}
<1> SUFFICES ASSUME Bad # {} PROVE FALSE
  OBVIOUS
<1>1. PICK f \in Bad : \A g \in Bad : Size(f) <= Size(g)
  <2>1. Bad \in SUBSET Expr
    OBVIOUS
  <2> HIDE DEF Bad
  <2> QED
    BY <2>1, Smallest
<1>2. /\ f \in Expr /\ Mentioned(f) \cap over = {}
      /\ Overbudget(f, over, strict, Names) /\ ~Overbudget(f, {}, strict, Names)
  OBVIOUS
<1>3. ASSUME NEW g \in Expr, Size(g) < Size(f), Mentioned(g) \subseteq Mentioned(f),
             Overbudget(g, over, strict, Names)
      PROVE  Overbudget(g, {}, strict, Names)
  <2> SUFFICES ASSUME g \in Bad PROVE FALSE
    BY <1>2, <1>3
  <2> QED
    BY <1>1, <1>2, <1>3, SizeTyped
<1> HIDE DEF Bad
<1>4. OverIs(f, over, strict) /\ OverIs(f, {}, strict)
  <2>1. {} \in SUBSET Names
    OBVIOUS
  <2> QED
    BY <1>2, <2>1, OverCases
<1>5. CASE f.t \in {"NameRef", "Lit"}
  BY <1>2, <1>4, <1>5, Leaf DEF OverIs
<1>6. CASE f.t = "Apply"
  <2>1. /\ ~HeadOverbudget(Head1(f), Args(f), {}, strict, Names)
        /\ \A i \in DOMAIN Args(f) : ~Overbudget(Args(f)[i], {}, strict, Names)
    BY <1>2, <1>4, <1>6 DEF OverIs
  <2>2. Head1(f).t = "NameRef"
    BY <2>1 DEF HeadOverbudget
  <2>3. Head1(f).n \notin over
    BY <1>2, <2>2, SpineFacts
  <2>4. ~HeadOverbudget(Head1(f), Args(f), over, strict, Names)
    BY <2>1, <2>3 DEF HeadOverbudget
  <2>5. PICK i \in DOMAIN Args(f) : Overbudget(Args(f)[i], over, strict, Names)
    BY <1>2, <1>4, <1>6, <2>4 DEF OverIs
  <2>6. Args(f)[i] \in Expr /\ Size(Args(f)[i]) < Size(f) /\ Mentioned(Args(f)[i]) \subseteq Mentioned(f)
    BY <1>2, <1>6, SpineFacts
  <2> QED
    BY <1>3, <2>1, <2>5, <2>6
<1>7. CASE f.t \in SeenThrough
  <2>1. ~BinopAllocates(f) /\ \A i \in DOMAIN f.xs : ~Overbudget(f.xs[i], {}, strict, Names)
    BY <1>2, <1>4, <1>7 DEF OverIs
  <2>2. PICK i \in DOMAIN f.xs : Overbudget(f.xs[i], over, strict, Names)
    BY <1>2, <1>4, <1>7, <2>1 DEF OverIs
  <2>3. f.xs[i] \in Expr /\ Size(f.xs[i]) < Size(f) /\ Mentioned(f.xs[i]) \subseteq Mentioned(f)
    BY <1>2, Parts DEF Mentioned
  <2> QED
    BY <1>3, <2>1, <2>2, <2>3
<1> QED
  BY <1>2, <1>4, <1>5, <1>6, <1>7 DEF OverIs

-----------------------------------------------------------------------------
(***************************************************************************)
(* The rounds.                                                             *)
(***************************************************************************)
Kinds == {"growing", "alloc", "over", "overfixed"}

SetsTyped(s) == s = [k \in Kinds |-> s[k]] /\ \A k \in Kinds : s[k] \subseteq Names

\* The definitions that mention one of a set.
Leading(S) == {n \in Names : MentionsAny(Named(n), S)}

\* What each of the sets begins with.
LEMMA SeedsAre ==
  ASSUME ChapterOK
  PROVE  /\ SetsTyped(Seeds)
         /\ Seeds.alloc = {n \in Names : Allocates(Named(n).body, {}, Names)}
         /\ Seeds.over = {n \in Names : Overbudget(Named(n).body, {}, FALSE, Names)}
         /\ Seeds.overfixed = {n \in Names : Overbudget(Named(n).body, {}, TRUE, Names)}
<1>1. Seeds.growing \subseteq Names
  <2>1. Seeds.growing = DefsWhere(LAMBDA d : Grows(d.body, d.name, d.params))
    BY DEF Seeds
  <2> QED
    BY <2>1, ChapterFacts DEF DefsWhere
<1>2. Seeds.alloc = {n \in Names : Allocates(Named(n).body, {}, Names)}
  <2>1. Seeds.alloc = {d.name : d \in {d \in ToSet(chapter) : Allocates(d.body, {}, Names)}}
    BY DEF Seeds, DefsWhere
  <2> QED
    BY <2>1, ChapterFacts
<1>3. Seeds.over = {n \in Names : Overbudget(Named(n).body, {}, FALSE, Names)}
  <2>1. Seeds.over = {d.name : d \in {d \in ToSet(chapter) : Overbudget(d.body, {}, FALSE, Names)}}
    BY DEF Seeds, DefsWhere
  <2> QED
    BY <2>1, ChapterFacts
<1>4. Seeds.overfixed = {n \in Names : Overbudget(Named(n).body, {}, TRUE, Names)}
  <2>1. Seeds.overfixed = {d.name : d \in {d \in ToSet(chapter) : Overbudget(d.body, {}, TRUE, Names)}}
    BY DEF Seeds, DefsWhere
  <2> QED
    BY <2>1, ChapterFacts
<1>5. Seeds = [k \in Kinds |-> Seeds[k]]
  BY DEF Seeds, Kinds
<1> QED
  BY <1>1, <1>2, <1>3, <1>4, <1>5 DEF SetsTyped, Kinds

\* Whatever its walk, a round adds the definitions that mention one of the set.
LEMMA GrownIs ==
  ASSUME ChapterOK, NEW s, SetsTyped(s), Seeds.over \subseteq s.over, Seeds.overfixed \subseteq s.overfixed
  PROVE  Grown(s) = [k \in Kinds |-> s[k] \cup Leading(s[k])]
<1>0. s.growing \subseteq Names /\ s.alloc \subseteq Names /\ s.over \subseteq Names /\ s.overfixed \subseteq Names
  BY DEF SetsTyped, Kinds
<1>1. ASSUME NEW S, S \subseteq Names
      PROVE  DefsWhere(LAMBDA d : MentionsAny(d, S)) = Leading(S)
  BY <1>1, ChapterFacts DEF DefsWhere, Leading
<1>2. ASSUME NEW S \in SUBSET Names, NEW strict \in BOOLEAN, NEW n \in Names,
             Overbudget(Named(n).body, {}, strict, Names) => n \in S
      PROVE  n \in S \/ Overbudget(Named(n).body, S, strict, Names) <=> n \in S \cup Leading(S)
  <2>1. Named(n) \in ToSet(chapter) /\ Named(n).name = n /\ Named(n).body \in Expr
    BY ChapterFacts, DefFacts
  <2>2. Overbudget(Named(n).body, S, strict, Names)
          => Overbudget(Named(n).body, {}, strict, Names) \/ Mentioned(Named(n).body) \cap S # {}
    BY <2>1, OverOnly
  <2>3. Mentioned(Named(n).body) \cap S # {} => Overbudget(Named(n).body, S, strict, Names)
    BY <2>1, OverMentions
  <2> QED
    BY <1>2, <2>1, <2>2, <2>3 DEF Leading, MentionsAny
<1>3. Grown(s).growing = s.growing \cup Leading(s.growing)
  <2>1. Grown(s).growing = s.growing \cup DefsWhere(LAMBDA d : MentionsAny(d, s.growing))
    BY DEF Grown
  <2> QED
    BY <1>0, <1>1, <2>1
<1>4. Grown(s).alloc = s.alloc \cup Leading(s.alloc)
  <2>1. Grown(s).alloc = s.alloc \cup DefsWhere(LAMBDA d : MentionsAny(d, s.alloc))
    BY DEF Grown
  <2> QED
    BY <1>0, <1>1, <2>1
<1>5. Grown(s).over = s.over \cup Leading(s.over)
  <2>1. Grown(s).over = s.over \cup {d.name : d \in {d \in ToSet(chapter) : Overbudget(d.body, s.over, FALSE, Names)}}
    BY DEF Grown, DefsWhere
  <2>2. {d.name : d \in {d \in ToSet(chapter) : Overbudget(d.body, s.over, FALSE, Names)}}
          = {n \in Names : Overbudget(Named(n).body, s.over, FALSE, Names)}
    BY ChapterFacts
  <2>3. ASSUME NEW n \in Names
        PROVE  n \in s.over \/ Overbudget(Named(n).body, s.over, FALSE, Names) <=> n \in s.over \cup Leading(s.over)
    <3>1. Overbudget(Named(n).body, {}, FALSE, Names) => n \in s.over
      BY SeedsAre
    <3> QED
      BY <1>0, <1>2, <3>1
  <2> QED
    BY <1>0, <2>1, <2>2, <2>3 DEF Leading
<1>6. Grown(s).overfixed = s.overfixed \cup Leading(s.overfixed)
  <2>1. Grown(s).overfixed = s.overfixed \cup {d.name : d \in {d \in ToSet(chapter) : Overbudget(d.body, s.overfixed, TRUE, Names)}}
    BY DEF Grown, DefsWhere
  <2>2. {d.name : d \in {d \in ToSet(chapter) : Overbudget(d.body, s.overfixed, TRUE, Names)}}
          = {n \in Names : Overbudget(Named(n).body, s.overfixed, TRUE, Names)}
    BY ChapterFacts
  <2>3. ASSUME NEW n \in Names
        PROVE  n \in s.overfixed \/ Overbudget(Named(n).body, s.overfixed, TRUE, Names) <=> n \in s.overfixed \cup Leading(s.overfixed)
    <3>1. Overbudget(Named(n).body, {}, TRUE, Names) => n \in s.overfixed
      BY SeedsAre
    <3> QED
      BY <1>0, <1>2, <3>1
  <2> QED
    BY <1>0, <2>1, <2>2, <2>3 DEF Leading
<1>7. Grown(s) = [k \in Kinds |-> Grown(s)[k]]
  BY DEF Grown, Kinds
<1> QED
  BY <1>3, <1>4, <1>5, <1>6, <1>7 DEF Kinds

\* A set of definitions shut under mentions, with the seeds in it.
Shut(seed, T) == seed \subseteq T /\ \A d \in ToSet(chapter) : MentionsAny(d, T) => d.name \in T

LEMMA LeadingToIs ==
  ASSUME NEW seed
  PROVE  LeadingTo(seed) = {n \in Names : \A T \in SUBSET Names : Shut(seed, T) => n \in T}
BY DEF LeadingTo, Shut

\* From seeds to a set and on, nothing is added that does not lead to the seeds.
LEMMA LeadingWithin ==
  ASSUME ChapterOK, NEW seed, seed \subseteq Names, NEW S \in SUBSET LeadingTo(seed)
  PROVE  seed \subseteq LeadingTo(seed) /\ Leading(S) \subseteq LeadingTo(seed)
<1>1. seed \subseteq LeadingTo(seed)
  BY LeadingToIs DEF Shut
<1>2. ASSUME NEW n \in Leading(S), NEW T \in SUBSET Names, Shut(seed, T) PROVE n \in T
  <2>1. S \subseteq T
    BY <1>2, LeadingToIs
  <2>2. n \in Names /\ MentionsAny(Named(n), T)
    BY <1>2, <2>1 DEF Leading, MentionsAny
  <2> QED
    BY <1>2, <2>2, ChapterFacts DEF Shut
<1> QED
  BY <1>1, <1>2, LeadingToIs DEF Leading

\* A set with the seeds in it that takes in nothing more is all that leads to them.
LEMMA LeadingWhole ==
  ASSUME ChapterOK, NEW seed, NEW S \in SUBSET LeadingTo(seed), seed \subseteq S, Leading(S) \subseteq S
  PROVE  S = LeadingTo(seed)
<1>1. S \subseteq Names
  BY LeadingToIs
<1>2. Shut(seed, S)
  BY <1>1, ChapterFacts DEF Shut, Leading
<1> QED
  BY <1>1, <1>2, LeadingToIs

\* How far the rounds have come: each set lies between its seeds and all that
\* leads to them, and has closed or taken in a definition a round.
RoundsInv ==
  /\ ChapterOK
  /\ phase \in {"reading", "closing", "judged", "refused", "running"}
  /\ round \in 0 .. Len(chapter)
  /\ SetsTyped(sets)
  /\ phase = "reading" => round = 0
  /\ phase # "reading" => \A k \in Kinds : Seeds[k] \subseteq sets[k] /\ sets[k] \subseteq LeadingTo(Seeds[k])
  /\ phase = "closing" => \A k \in Kinds : Leading(sets[k]) \subseteq sets[k] \/ Cardinality(sets[k]) > round
  /\ phase \in {"judged", "refused", "running"} => \A k \in Kinds : sets[k] = LeadingTo(Seeds[k])

\* A round looks at each set, and the sets are closed when it changes none.
LEMMA RoundIs ==
  ASSUME RoundsInv, phase = "closing"
  PROVE  /\ Grown(sets) = [k \in Kinds |-> sets[k] \cup Leading(sets[k])]
         /\ Grown(sets) = sets <=> \A k \in Kinds : Leading(sets[k]) \subseteq sets[k]
<1>1. Grown(sets) = [k \in Kinds |-> sets[k] \cup Leading(sets[k])]
  BY GrownIs DEF RoundsInv, Kinds
<1>2. sets = [k \in Kinds |-> sets[k]]
  BY DEF RoundsInv, SetsTyped
<1>3. Grown(sets) = sets <=> \A k \in Kinds : sets[k] \cup Leading(sets[k]) = sets[k]
  BY <1>1, <1>2, Zenon
<1> QED
  BY <1>1, <1>3

\* When the rounds are over every set is all that leads to its seeds.
LEMMA ClosedIs ==
  ASSUME RoundsInv, Closed
  PROVE  \A k \in Kinds : sets[k] = LeadingTo(Seeds[k])
<1>1. phase = "closing" /\ ChapterOK
  BY DEF Closed, RoundsInv
<1> SUFFICES ASSUME NEW k \in Kinds PROVE sets[k] = LeadingTo(Seeds[k])
  OBVIOUS
<1>2. Seeds[k] \subseteq sets[k] /\ sets[k] \subseteq LeadingTo(Seeds[k]) /\ sets[k] \subseteq Names
  BY <1>1 DEF RoundsInv, SetsTyped
<1>3. Leading(sets[k]) \subseteq sets[k]
  <2>1. CASE Grown(sets) = sets
    BY <1>1, <2>1, RoundIs
  <2>2. CASE round = Rounds
    <3>1. Cardinality(sets[k]) <= Cardinality(Names) /\ Cardinality(sets[k]) \in Nat /\ Cardinality(Names) \in Nat
      BY <1>1, <1>2, ChapterFacts, FS_Subset, FS_CardinalityType
    <3>2. ~(Cardinality(sets[k]) > round)
      BY <1>1, <2>2, <3>1, ChapterFacts DEF Rounds
    <3> QED
      BY <1>1, <3>2 DEF RoundsInv
  <2> QED
    BY <2>1, <2>2 DEF Closed
<1> QED
  BY <1>1, <1>2, <1>3, LeadingWhole

LEMMA RoundsInit == Init => RoundsInv
<1> SUFFICES ASSUME Init PROVE RoundsInv
  OBVIOUS
<1>1. ChapterOK
  BY DEF Init, ChapterOK
<1>2. SetsTyped(sets)
  BY DEF Init, SetsTyped, Empty, Kinds
<1> QED
  BY <1>1, <1>2, ChapterFacts DEF Init, RoundsInv

\* As long as the chapter stays the same, so does what is found in it.
LEMMA SameChapter ==
  ASSUME chapter' = chapter
  PROVE  /\ Names' = Names /\ Seeds' = Seeds /\ (ChapterOK' <=> ChapterOK)
         /\ \A n : Named(n)' = Named(n)
<1>1. Names' = Names /\ \A n : Named(n)' = Named(n)
  BY DEF Names, Named
<1>2. Seeds' = Seeds
  BY <1>1 DEF Seeds, DefsWhere
<1> QED
  BY <1>1, <1>2 DEF ChapterOK

LEMMA RoundsNext == RoundsInv /\ [Next]_vars => RoundsInv'
<1> SUFFICES ASSUME RoundsInv, [Next]_vars PROVE RoundsInv'
  OBVIOUS
<1>1. chapter' = chapter /\ ChapterOK
  BY DEF Next, Seed, Round, Judge, Start, Call, Allocate, Touch, Return, vars, RoundsInv
<1>2. /\ Names' = Names /\ Seeds' = Seeds /\ ChapterOK'
      /\ \A S : Leading(S)' = Leading(S) /\ LeadingTo(S)' = LeadingTo(S)
  BY <1>1, SameChapter DEF Leading, LeadingTo
<1>3. CASE Seed
  <2>1. sets' = Seeds /\ phase' = "closing" /\ round' = 0 /\ Len(chapter) \in Nat
    BY <1>1, <1>3, ChapterFacts DEF Seed, RoundsInv
  <2>2. SetsTyped(sets)' /\ \A k \in Kinds : Seeds[k] \subseteq Names
    BY <1>1, <1>2, <2>1, SeedsAre DEF SetsTyped
  <2>3. \A k \in Kinds : Seeds[k] \subseteq LeadingTo(Seeds[k])
    BY <1>1, <2>2, LeadingWithin
  <2>4. ASSUME NEW k \in Kinds PROVE Leading(sets'[k]) \subseteq sets'[k] \/ Cardinality(sets'[k]) > 0
    <3>1. CASE sets'[k] = {}
      BY <3>1 DEF Leading, MentionsAny
    <3>2. CASE sets'[k] # {}
      <4>1. IsFiniteSet(sets'[k])
        BY <1>1, <2>1, <2>2, ChapterFacts, FS_Subset
      <4> QED
        BY <3>2, <4>1, FS_EmptySet, FS_CardinalityType
    <3> QED
      BY <3>1, <3>2
  <2> QED
    BY <1>1, <1>2, <2>1, <2>2, <2>3, <2>4 DEF RoundsInv
<1>4. CASE Round
  <2>1. /\ phase = "closing" /\ phase' = "closing" /\ round' = round + 1
        /\ round \in Nat /\ round < Len(chapter) /\ Len(chapter) \in Nat
    BY <1>1, <1>4, ChapterFacts DEF Round, Rounds, RoundsInv
  <2>2. sets' = [k \in Kinds |-> sets[k] \cup Leading(sets[k])]
    BY <1>4, <2>1, RoundIs DEF Round
  <2>3. ASSUME NEW k \in Kinds
        PROVE  /\ Seeds[k] \subseteq sets'[k] /\ sets'[k] \subseteq LeadingTo(Seeds[k]) /\ sets'[k] \subseteq Names
               /\ Leading(sets'[k]) \subseteq sets'[k] \/ Cardinality(sets'[k]) > round'
    <3>1. /\ Seeds[k] \subseteq sets[k] /\ sets[k] \subseteq LeadingTo(Seeds[k]) /\ sets[k] \subseteq Names
          /\ Leading(sets[k]) \subseteq sets[k] \/ Cardinality(sets[k]) > round
      BY <2>1 DEF RoundsInv, SetsTyped
    <3>2. sets'[k] = sets[k] \cup Leading(sets[k])
      BY <2>2
    <3>3. Leading(sets[k]) \subseteq LeadingTo(Seeds[k]) /\ Leading(sets[k]) \subseteq Names
      BY <1>1, <3>1, LeadingWithin DEF Leading
    <3>4. CASE Leading(sets[k]) \subseteq sets[k]
      <4>1. sets'[k] = sets[k]
        BY <3>2, <3>4
      <4> QED
        BY <3>1, <3>4, <4>1
    <3>5. CASE ~(Leading(sets[k]) \subseteq sets[k])
      <4>1. IsFiniteSet(sets'[k]) /\ sets[k] \subseteq sets'[k] /\ sets[k] # sets'[k]
        BY <1>1, <3>1, <3>2, <3>3, <3>5, ChapterFacts, FS_Subset
      <4>2. Cardinality(sets[k]) < Cardinality(sets'[k]) /\ Cardinality(sets'[k]) \in Nat /\ Cardinality(sets[k]) \in Nat
        <5>1. Cardinality(sets[k]) <= Cardinality(sets'[k]) /\ Cardinality(sets[k]) # Cardinality(sets'[k])
          BY <4>1, FS_Subset
        <5>2. Cardinality(sets'[k]) \in Nat /\ Cardinality(sets[k]) \in Nat
          BY <4>1, FS_Subset, FS_CardinalityType
        <5> QED
          BY <5>1, <5>2
      <4> QED
        BY <2>1, <3>1, <3>2, <3>3, <3>5, <4>2
    <3> QED
      BY <3>4, <3>5
  <2>4. SetsTyped(sets)'
    BY <1>2, <2>2, <2>3 DEF SetsTyped
  <2> QED
    BY <1>1, <1>2, <2>1, <2>3, <2>4 DEF RoundsInv
<1>5. CASE Judge
  <2>1. \A k \in Kinds : sets[k] = LeadingTo(Seeds[k])
    BY <1>5, ClosedIs DEF Judge
  <2>2. phase' \in {"judged", "refused"} /\ UNCHANGED <<sets, round>> /\ phase = "closing"
    BY <1>5 DEF Judge, Closed
  <2> QED
    BY <1>1, <1>2, <2>1, <2>2 DEF RoundsInv, SetsTyped
<1>6. CASE Start \/ Call \/ Allocate \/ Touch \/ Return
  <2>1. phase \in {"judged", "running"} /\ phase' = "running" /\ UNCHANGED <<sets, round>>
    BY <1>6 DEF Start, Call, Allocate, Touch, Return, Running
  <2> QED
    BY <1>1, <1>2, <2>1 DEF RoundsInv, SetsTyped
<1>7. CASE UNCHANGED vars
  BY <1>1, <1>2, <1>7 DEF RoundsInv, SetsTyped, vars
<1> QED
  BY <1>3, <1>4, <1>5, <1>6, <1>7 DEF Next

\* The rounds end with every definition that reaches one that breaks the class,
\* and no other: one pass for each definition is enough (cost.rs, close).
THEOREM RoundsReach == Spec => []RoundsReachAll
<1>1. RoundsInv => RoundsReachAll
  <2>1. RoundsInv => DOMAIN Seeds = Kinds
    BY SeedsAre DEF RoundsInv, SetsTyped
  <2> QED
    BY <2>1, ClosedIs DEF RoundsReachAll
<1> QED
  BY <1>1, RoundsInit, RoundsNext, PTL DEF Spec

-----------------------------------------------------------------------------
(***************************************************************************)
(* What evaluating a body does.                                            *)
(***************************************************************************)
\* What evaluating an expression does of itself, where some names are local.
OwnActs(e, l) ==
  CASE e.t = "NameRef" -> (IF e.n \in l THEN {} ELSE {Mention(e.n)})
    [] e.t = "Apply" ->
         (IF Head1(e).t # "NameRef" \/ Head1(e).n \in l THEN {Fresh} ELSE {Application(Head1(e).n, Args(e))})
    [] e.t \in {"List", "Record", "Lambda"} -> {Fresh}
    [] e.t = "Binary" -> OfOperator(e.n)
    [] OTHER -> {}

\* The acts that make something at once.
Makes == {Fresh, Consing}

LEMMA MakesWhat == ASSUME NEW a \in Makes, NEW o \in Outcomes(a) PROVE o.kind \in {"input", "cons"}
<1>1. CASE a = Fresh
  BY <1>1 DEF Outcomes, Fresh, Alloc
<1>2. CASE a = Consing
  BY <1>2 DEF Outcomes, Consing, Alloc
<1> QED
  BY <1>1, <1>2 DEF Makes

LEMMA OperatorMakes == \A op : OfOperator(op) \subseteq Makes
BY DEF OfOperator, Makes

\* The expressions it evaluates, each with the names that are local there.
Inner(e, l) ==
  CASE e.t = "NameRef" -> {}
    [] e.t = "Apply" -> (IF Head1(e).t # "NameRef" THEN {<<Head1(e), l>>} ELSE {})
                          \cup {<<Args(e)[i], l>> : i \in DOMAIN Args(e)}
    [] OTHER -> {<<e.xs[i], l \cup Binds(e, i)>> : i \in DOMAIN e.xs}

\* All that it does is its own or done by one of those.
LEMMA ActsSplit ==
  ASSUME NEW e \in Expr, NEW l \in SUBSET Local
  PROVE  \A a \in Acts(e, l) : a \in OwnActs(e, l) \/ \E q \in Inner(e, l) : a \in Acts(q[1], q[2])
<1> DEFINE OfParts == UNION {Acts(e.xs[i], l \cup Binds(e, i)) : i \in DOMAIN e.xs}
           Split == \A a \in Acts(e, l) : a \in OwnActs(e, l) \/ \E q \in Inner(e, l) : a \in Acts(q[1], q[2])
<1>1. Acts(e, l) = ActsBy(e, l)
  BY LocalsAssumption
<1>2. CASE e.t = "NameRef"
  BY <1>1, <1>2 DEF ActsBy, OwnActs
<1>3. CASE e.t = "Apply"
  <2>1. ASSUME NEW i \in DOMAIN Args(e), NEW a \in Acts(Args(e)[i], l)
        PROVE  \E q \in Inner(e, l) : a \in Acts(q[1], q[2])
    <3>1. <<Args(e)[i], l>> \in Inner(e, l)
      BY <1>3 DEF Inner
    <3> QED
      BY <2>1, <3>1
  <2>2. ASSUME NEW a \in Acts(Head1(e), l), Head1(e).t # "NameRef"
        PROVE  \E q \in Inner(e, l) : a \in Acts(q[1], q[2])
    <3>1. <<Head1(e), l>> \in Inner(e, l)
      BY <1>3, <2>2 DEF Inner
    <3> QED
      BY <2>2, <3>1
  <2>3. Acts(e, l) = (IF Head1(e).t # "NameRef" THEN {Fresh} \cup Acts(Head1(e), l)
                      ELSE IF Head1(e).n \in l THEN {Fresh}
                      ELSE {Application(Head1(e).n, Args(e))})
                     \cup UNION {Acts(Args(e)[i], l) : i \in DOMAIN Args(e)}
    BY <1>1, <1>3 DEF ActsBy
  <2>4. OwnActs(e, l) = IF Head1(e).t # "NameRef" \/ Head1(e).n \in l THEN {Fresh} ELSE {Application(Head1(e).n, Args(e))}
    BY <1>3 DEF OwnActs
  <2> QED
    BY <2>1, <2>2, <2>3, <2>4
<1>4. CASE e.t \notin {"NameRef", "Apply"}
  <2>1. ASSUME NEW i \in DOMAIN e.xs, NEW a \in Acts(e.xs[i], l \cup Binds(e, i))
        PROVE  \E q \in Inner(e, l) : a \in Acts(q[1], q[2])
    <3>1. <<e.xs[i], l \cup Binds(e, i)>> \in Inner(e, l)
      BY <1>4 DEF Inner
    <3> QED
      BY <2>1, <3>1
  <2>2. Acts(e, l) = OwnActs(e, l) \cup OfParts
    <3>1. CASE e.t \in {"List", "Record", "Lambda"}
      BY <1>1, <1>4, <3>1 DEF ActsBy, OwnActs
    <3>2. CASE e.t = "Binary"
      BY <1>1, <1>4, <3>2 DEF ActsBy, OwnActs
    <3>3. CASE e.t \notin {"List", "Record", "Lambda", "Binary"}
      BY <1>1, <1>4, <3>3 DEF ActsBy, OwnActs
    <3> QED
      BY <3>1, <3>2, <3>3
  <2> QED
    BY <2>1, <2>2
<1> QED
  BY <1>2, <1>3, <1>4

\* What is never done of itself by any of some expressions that hold all they
\* evaluate is never done by them.
LEMMA ActsNone ==
  ASSUME NEW P \in SUBSET (Expr \X SUBSET Local), NEW Bad,
         \A p \in P : OwnActs(p[1], p[2]) \cap Bad = {} /\ Inner(p[1], p[2]) \subseteq P
  PROVE  \A p \in P : Acts(p[1], p[2]) \cap Bad = {}
<1> DEFINE B == {p \in P : Acts(p[1], p[2]) \cap Bad # {}}
           F == {p[1] : p \in B}
<1> SUFFICES ASSUME B # {} PROVE FALSE
  OBVIOUS
<1>1. PICK e \in F : \A f \in F : Size(e) <= Size(f)
  <2>1. F \in SUBSET Expr /\ F # {}
    OBVIOUS
  <2> HIDE DEF F
  <2> QED
    BY <2>1, Smallest
<1>2. PICK p \in B : p[1] = e
  OBVIOUS
<1>3. p \in P /\ p[1] \in Expr /\ p[2] \in SUBSET Local
  OBVIOUS
<1>4. PICK a \in Acts(p[1], p[2]) : a \in Bad
  OBVIOUS
<1>5. PICK q \in Inner(p[1], p[2]) : a \in Acts(q[1], q[2])
  BY <1>3, <1>4, ActsSplit
<1>6. q \in B
  BY <1>3, <1>4, <1>5
<1>7. Size(q[1]) < Size(p[1])
  <2>1. CASE p[1].t = "Apply"
    <3>1. Size(Head1(p[1])) < Size(p[1]) /\ \A i \in DOMAIN Args(p[1]) : Size(Args(p[1])[i]) < Size(p[1])
      BY <1>3, <2>1, SpineFacts
    <3> QED
      BY <1>5, <2>1, <3>1 DEF Inner
  <2>2. CASE p[1].t # "Apply"
    BY <1>3, <1>5, <2>2, Parts DEF Inner
  <2> QED
    BY <2>1, <2>2
<1>8. q[1] \in F /\ q[1] \in Expr
  BY <1>6
<1> QED
  BY <1>1, <1>2, <1>3, <1>7, <1>8, SizeTyped

\* What a definition evaluates, with the names local there, where no local that
\* is a builtin too is applied.
Sound(d) == {p \in Nodes(d.body) \X SUBSET LocalsOf(d) : ~AppliesLocalBuiltin(p[1], p[2])}

LEMMA SoundInner ==
  ASSUME ChapterOK, NEW d \in ToSet(chapter), NEW p \in Sound(d)
  PROVE  /\ p \in Expr \X SUBSET Local /\ p[1] \in Nodes(d.body) /\ p[1] \in Expr /\ p[2] \subseteq LocalsOf(d)
         /\ Inner(p[1], p[2]) \subseteq Sound(d)
         /\ p[1].t = "Apply" /\ Head1(p[1]).t = "NameRef" => Head1(p[1]).n \notin p[2] \cap DOMAIN AllocClass
<1> DEFINE e == p[1]
           l == p[2]
<1>1. d.body \in Expr /\ LocalsOf(d) \subseteq Local
  BY DefFacts
<1>2. e \in Nodes(d.body) /\ e \in Expr /\ l \in SUBSET LocalsOf(d) /\ l \in SUBSET Local /\ p \in Expr \X SUBSET Local
      /\ ~AppliesLocalBuiltin(e, l) /\ Nodes(e) \subseteq Nodes(d.body)
  BY <1>1, UnderExpr DEF Sound
<1>3. ASSUME NEW f \in Expr, f \in Nodes(d.body), ~AppliesLocalBuiltin(f, l)
      PROVE  /\ \A i \in DOMAIN f.xs : f.xs[i] \in Nodes(d.body) /\ ~AppliesLocalBuiltin(f.xs[i], l \cup Binds(f, i))
             /\ \A i \in DOMAIN f.xs : Binds(f, i) \subseteq LocalsOf(d)
             /\ f.t = "Apply" /\ f.xs[1].t = "NameRef" => f.xs[1].n \notin l \cap DOMAIN AllocClass
  <2>1. ~AppliesLocalBuiltinBy(f, l)
    BY <1>2, <1>3, LocalsAssumption
  <2>2. \A i \in DOMAIN f.xs : f.xs[i] \in Nodes(f.xs[i]) /\ Nodes(f.xs[i]) \subseteq Nodes(f) /\ Nodes(f) \subseteq Nodes(d.body)
    BY <1>1, <1>3, Parts, UnderExpr
  <2>3. \A i \in DOMAIN f.xs : Binds(f, i) \subseteq LocalsOf(d)
    BY <1>3 DEF LocalsOf
  <2> QED
    BY <2>1, <2>2, <2>3 DEF AppliesLocalBuiltinBy
<1>4. CASE e.t = "Apply"
  <2> DEFINE S == {f \in Nodes(d.body) : ~AppliesLocalBuiltin(f, l)}
  <2>1. S \in SUBSET Expr /\ e \in S
    BY <1>1, <1>2, UnderExpr
  <2>2. ASSUME NEW f \in S, f.t = "Apply" PROVE f.xs[1] \in S /\ f.xs[2] \in S
    <3>1. f \in Expr /\ DOMAIN f.xs = {1, 2} /\ Binds(f, 1) = {} /\ Binds(f, 2) = {}
      BY <2>1, <2>2, ExprAssumption
    <3>2. ~AppliesLocalBuiltin(f.xs[1], l \cup Binds(f, 1)) /\ ~AppliesLocalBuiltin(f.xs[2], l \cup Binds(f, 2))
          /\ f.xs[1] \in Nodes(d.body) /\ f.xs[2] \in Nodes(d.body)
      BY <1>3, <3>1
    <3>3. l \cup Binds(f, 1) = l /\ l \cup Binds(f, 2) = l
      BY <3>1
    <3> QED
      BY <3>2, <3>3
  <2>3. SpineIn(e, S)
    <3> HIDE DEF S
    <3> QED
      BY <2>1, <2>2, Spine
  <2>4. Head1(e) \in S /\ \A i \in DOMAIN Args(e) : Args(e)[i] \in S
    BY <2>3 DEF SpineIn
  <2>5. PICK y \in S : y.t = "Apply" /\ y.xs[1] = Head1(e)
    BY <1>4, <2>3 DEF SpineIn
  <2>6. Head1(e).t = "NameRef" => Head1(e).n \notin l \cap DOMAIN AllocClass
    BY <1>3, <2>1, <2>5
  <2>7. \A f \in S : <<f, l>> \in Sound(d)
    BY <1>2 DEF Sound
  <2>8. Inner(e, l) \subseteq Sound(d)
    BY <1>4, <2>4, <2>7 DEF Inner
  <2> QED
    BY <1>2, <2>6, <2>8
<1>5. CASE e.t # "Apply"
  <2>1. \A i \in DOMAIN e.xs : <<e.xs[i], l \cup Binds(e, i)>> \in Sound(d)
    <3> SUFFICES ASSUME NEW i \in DOMAIN e.xs PROVE <<e.xs[i], l \cup Binds(e, i)>> \in Sound(d)
      OBVIOUS
    <3>1. e.xs[i] \in Nodes(d.body) /\ ~AppliesLocalBuiltin(e.xs[i], l \cup Binds(e, i)) /\ Binds(e, i) \subseteq LocalsOf(d)
      BY <1>2, <1>3
    <3> QED
      BY <1>2, <3>1 DEF Sound
  <2>2. Inner(e, l) \subseteq Sound(d)
    BY <1>5, <2>1 DEF Inner
  <2> QED
    BY <1>2, <1>5, <2>2
<1> QED
  BY <1>4, <1>5

\* A definition that no refusal is about, with its body and its parameters, is
\* among what it evaluates.
LEMMA SoundBody ==
  ASSUME ChapterOK, NEW d \in ToSet(chapter), ~AppliesLocalBuiltin(d.body, ToSet(d.params))
  PROVE  <<d.body, ToSet(d.params)>> \in Sound(d)
BY DefFacts, UnderExpr DEF Sound, LocalsOf

\* What a definition applies or mentions, its body mentions.
LEMMA ActsMentioned ==
  ASSUME ChapterOK, NEW d \in ToSet(chapter), ~AppliesLocalBuiltin(d.body, ToSet(d.params)),
         NEW a \in Acts(d.body, ToSet(d.params))
  PROVE  a \in Makes \/ (a.n \in Mentioned(d.body) /\ (a = Mention(a.n) \/ a = Application(a.n, a.args)))
<1> DEFINE Good(b) == b \in Makes \/ (b.n \in Mentioned(d.body) /\ (b = Mention(b.n) \/ b = Application(b.n, b.args)))
           Bad == {b \in Acts(d.body, ToSet(d.params)) : ~Good(b)}
<1>1. ASSUME NEW p \in Sound(d) PROVE \A b \in OwnActs(p[1], p[2]) : Good(b)
  <2>1. p[1] \in Expr /\ p[1] \in Nodes(d.body) /\ Mentioned(p[1]) \subseteq Mentioned(d.body)
    <3>1. p[1] \in Expr /\ p[1] \in Nodes(d.body) /\ d.body \in Expr
      BY SoundInner, DefFacts
    <3> QED
      BY <3>1, UnderExpr DEF Mentioned
  <2>2. CASE p[1].t = "NameRef"
    <3>1. \A b \in OwnActs(p[1], p[2]) : b = Mention(p[1].n)
      BY <2>2 DEF OwnActs
    <3> QED
      BY <2>1, <2>2, <3>1, Leaf DEF Mention
  <2>3. CASE p[1].t = "Apply"
    <3>1. \A b \in OwnActs(p[1], p[2]) : b \in Makes \/ (Head1(p[1]).t = "NameRef" /\ b = Application(Head1(p[1]).n, Args(p[1])))
      BY <2>3 DEF OwnActs, Makes
    <3>2. Head1(p[1]).t = "NameRef" => Head1(p[1]).n \in Mentioned(p[1])
      BY <2>1, SpineFacts
    <3> QED
      BY <2>1, <3>1, <3>2 DEF Application
  <2>4. CASE p[1].t \notin {"NameRef", "Apply"}
    <3>1. OwnActs(p[1], p[2]) \subseteq Makes
      BY <2>4, OperatorMakes DEF OwnActs, Makes
    <3> QED
      BY <3>1
  <2> QED
    BY <2>2, <2>3, <2>4
<1>2. Sound(d) \in SUBSET (Expr \X SUBSET Local) /\ \A p \in Sound(d) : Inner(p[1], p[2]) \subseteq Sound(d)
  BY SoundInner
<1>3. \A p \in Sound(d) : OwnActs(p[1], p[2]) \cap Bad = {}
  BY <1>1
<1>4. \A p \in Sound(d) : Acts(p[1], p[2]) \cap Bad = {}
  <2> HIDE DEF Bad
  <2> QED
    BY <1>2, <1>3, ActsNone
<1>5. Acts(d.body, ToSet(d.params)) \cap Bad = {}
  BY <1>4, SoundBody
<1> QED
  BY <1>5

-----------------------------------------------------------------------------
(***************************************************************************)
(* What a definition of a class does of itself.                            *)
(***************************************************************************)
Classes == {"none", "fixed", "budgeted"}

\* An expression is within a class, as its walk finds.
Fits(e, class) ==
  IF class = "none" THEN ~Allocates(e, {}, Names) ELSE ~Overbudget(e, {}, class = "fixed", Names)

HeadFits(head, args, class) ==
  IF class = "none" THEN ~HeadAllocates(head, {}, Names)
  ELSE ~HeadOverbudget(head, args, {}, class = "fixed", Names)

\* What it may allocate then besides lists with `::`, and a call or a touch may
\* come of it.
Allowed(class) == IF class = "none" THEN {} ELSE IF class = "fixed" THEN {"fixed"} ELSE {"fixed", "budgeted"}

Keeps(a, class) == \A o \in Outcomes(a) : o.kind \in {"call", "touch", "cons"} \cup Allowed(class)

LEMMA ConsKeeps == ASSUME NEW class PROVE Keeps(Consing, class)
BY DEF Keeps, Outcomes, Consing, Alloc

\* An expression that fits is of a form seen through, and its parts fit.
LEMMA FitsParts ==
  ASSUME ChapterOK, NEW e \in Expr, NEW class \in Classes, Fits(e, class)
  PROVE  /\ e.t \in {"Lit", "NameRef", "Apply"} \cup SeenThrough
         /\ e.t = "Apply" => HeadFits(Head1(e), Args(e), class) /\ \A i \in DOMAIN Args(e) : Fits(Args(e)[i], class)
         /\ e.t \in SeenThrough => ~BinopAllocates(e) /\ \A i \in DOMAIN e.xs : Fits(e.xs[i], class)
<1>1. CASE class # "none"
  <2>1. {} \in SUBSET Names /\ (class = "fixed") \in BOOLEAN
    OBVIOUS
  <2>2. OverIs(e, {}, class = "fixed")
    BY <2>1, OverCases
  <2>3. ~Overbudget(e, {}, class = "fixed", Names)
    BY <1>1 DEF Fits
  <2>4. e.t \in {"Lit", "NameRef", "Apply"} \cup SeenThrough
    BY <2>2, <2>3 DEF OverIs
  <2>5. e.t = "Apply" => /\ ~HeadOverbudget(Head1(e), Args(e), {}, class = "fixed", Names)
                         /\ \A i \in DOMAIN Args(e) : ~Overbudget(Args(e)[i], {}, class = "fixed", Names)
    BY <2>2, <2>3 DEF OverIs
  <2>6. e.t \in SeenThrough => ~BinopAllocates(e) /\ \A i \in DOMAIN e.xs : ~Overbudget(e.xs[i], {}, class = "fixed", Names)
    BY <2>2, <2>3 DEF OverIs
  <2> QED
    BY <1>1, <2>4, <2>5, <2>6 DEF Fits, HeadFits
<1>2. CASE class = "none"
  <2>1. \A f \in Expr : Allocates(f, {}, Names) <=> AllocatesBy(f, {}, Names)
    <3>1. {} \in SUBSET Names
      OBVIOUS
    <3> QED
      BY <3>1, CostWalks
  <2>2. ~Allocates(e, {}, Names) /\ ~AllocatesBy(e, {}, Names)
    BY <1>2, <2>1 DEF Fits
  <2>3. e.t \in {"Lit", "NameRef", "Apply"} \cup SeenThrough
    BY <2>2 DEF AllocatesBy
  <2>4. ASSUME e.t = "Apply" PROVE HeadFits(Head1(e), Args(e), class) /\ \A i \in DOMAIN Args(e) : Fits(Args(e)[i], class)
    <3> DEFINE S == {f \in Expr : ~Allocates(f, {}, Names)}
    <3>1. ASSUME NEW f \in S, f.t = "Apply" PROVE f.xs[1] \in S /\ f.xs[2] \in S
      <4>1. f \in Expr /\ ~AllocatesBy(f, {}, Names) /\ DOMAIN f.xs = {1, 2}
        BY <2>1, <3>1, ExprAssumption
      <4>2. ~Allocates(f.xs[1], {}, Names) /\ ~Allocates(f.xs[2], {}, Names)
        BY <3>1, <4>1 DEF AllocatesBy
      <4> QED
        BY <4>1, <4>2, Parts
    <3>2. S \in SUBSET Expr /\ e \in S
      BY <2>2
    <3>3. SpineIn(e, S)
      <4> HIDE DEF S
      <4> QED
        BY <3>1, <3>2, Spine
    <3>4. \A i \in DOMAIN Args(e) : ~Allocates(Args(e)[i], {}, Names)
      BY <3>3 DEF SpineIn
    <3>5. ~HeadAllocates(Head1(e), {}, Names)
      BY <2>2, <2>4 DEF AllocatesBy, SeenThrough
    <3> QED
      BY <1>2, <3>4, <3>5 DEF Fits, HeadFits
  <2>5. ASSUME e.t \in SeenThrough PROVE ~BinopAllocates(e) /\ \A i \in DOMAIN e.xs : Fits(e.xs[i], class)
    <3>1. ~BinopAllocates(e) /\ \A i \in DOMAIN e.xs : ~Allocates(e.xs[i], {}, Names)
      BY <2>2, <2>5 DEF AllocatesBy, SeenThrough
    <3> QED
      BY <1>2, <3>1 DEF Fits
  <2> QED
    BY <2>3, <2>4, <2>5
<1> QED
  BY <1>1, <1>2

\* What is applied there is a definition, or a builtin of the class; no local is.
LEMMA HeadKeeps ==
  ASSUME NEW class \in Classes, NEW head, NEW args, HeadFits(head, args, class),
         head.n \in RtSafe => head.n \in Names \cup DOMAIN AllocClass
  PROVE  /\ head.t = "NameRef"
         /\ head.n \in Names \cup DOMAIN AllocClass
         /\ Keeps(Application(head.n, args), class)
<1>1. head.t = "NameRef"
  BY DEF HeadFits, HeadAllocates, HeadOverbudget
<1>2. CASE head.n \in Names
  BY <1>1, <1>2 DEF Keeps, Outcomes, Application, CallTo
<1>3. CASE head.n \notin Names
  <2> DEFINE n == head.n
  <2>1. CASE class = "none"
    <3>1. n \in RtSafe \/ Class(n) = "none"
      BY <1>3, <2>1 DEF HeadFits, HeadAllocates
    <3>2. n \in DOMAIN AllocClass
      BY <1>3, <3>1 DEF Class
    <3>3. Class(n) = "none"
      BY <3>1, <3>2, BuiltinsAssumption DEF Class
    <3>4. Outcomes(Application(n, args)) = Uses(n, args)
      BY <1>3 DEF Outcomes, Application
    <3>5. \A o \in Uses(n, args) : o.kind = "touch"
      BY <3>3 DEF Uses, TouchBy
    <3> QED
      BY <1>1, <3>2, <3>4, <3>5 DEF Keeps
  <2>2. CASE class # "none"
    <3>1. \/ Class(n) \in {"none", "fixed"}
          \/ Class(n) = "budgeted" /\ class = "budgeted"
          \/ Class(n) = "budgetedBy" /\ LiteralArg(args, BudgetArg[n])
          \/ n \in RtSafe /\ Class(n) \notin {"none", "fixed", "budgeted", "budgetedBy"}
      <4>1. ~HeadOverbudget(head, args, {}, class = "fixed", Names)
        BY <2>2 DEF HeadFits
      <4>2. CASE Class(n) \in {"none", "fixed"}
        BY <4>2
      <4>3. CASE Class(n) = "budgeted"
        BY <1>3, <2>2, <4>1, <4>3 DEF HeadOverbudget, Classes
      <4>4. CASE Class(n) = "budgetedBy"
        BY <1>3, <4>1, <4>4 DEF HeadOverbudget
      <4>5. CASE Class(n) \notin {"none", "fixed", "budgeted", "budgetedBy"}
        BY <1>3, <4>1, <4>5 DEF HeadOverbudget
      <4> QED
        BY <4>2, <4>3, <4>4, <4>5
    <3>2. n \in DOMAIN AllocClass
      BY <1>3, <3>1 DEF Class
    <3>3. \/ Class(n) \in {"none", "fixed"}
          \/ Class(n) = "budgeted" /\ class = "budgeted"
          \/ Class(n) = "budgetedBy" /\ BudgetArg[n] \in DOMAIN args /\ args[BudgetArg[n]].t = "Lit"
      BY <3>1, <3>2, BuiltinsAssumption DEF Class, LiteralArg
    <3>4. Outcomes(Application(n, args)) = Uses(n, args)
      BY <1>3 DEF Outcomes, Application
    <3>5. \A o \in Uses(n, args) : o.kind \in {"touch"} \cup Allowed(class)
      <4>1. CASE n \in DOMAIN ScopedOp
        BY <4>1 DEF Uses, TouchBy
      <4>2. CASE n \notin DOMAIN ScopedOp /\ Class(n) = "none"
        BY <4>2 DEF Uses
      <4>3. CASE n \notin DOMAIN ScopedOp /\ Class(n) = "fixed"
        BY <2>2, <4>3 DEF Uses, Alloc, Allowed
      <4>4. CASE n \notin DOMAIN ScopedOp /\ Class(n) = "budgeted" /\ class = "budgeted"
        BY <4>4 DEF Uses, Alloc, Allowed
      <4>5. CASE n \notin DOMAIN ScopedOp /\ Class(n) = "budgetedBy" /\ BudgetArg[n] \in DOMAIN args /\ args[BudgetArg[n]].t = "Lit"
        BY <2>2, <4>5 DEF Uses, Alloc, Allowed
      <4> QED
        BY <3>3, <4>1, <4>2, <4>3, <4>4, <4>5
    <3> QED
      BY <1>1, <3>2, <3>4, <3>5 DEF Keeps
  <2> QED
    BY <2>1, <2>2
<1> QED
  BY <1>2, <1>3

\* A mention allocates nothing: it runs a definition, or touches something.
LEMMA MentionKeeps ==
  ASSUME NEW n, NEW class
  PROVE  Keeps(Mention(n), class)
<1>1. Outcomes(Mention(n)) = IF n \in Names THEN (IF Named(n).params = <<>> THEN {CallTo(n)} ELSE {})
                             ELSE IF n \in DOMAIN ScopedOp THEN {TouchBy(n, <<>>)} ELSE {}
  BY DEF Outcomes, Mention
<1> QED
  BY <1>1 DEF Keeps, CallTo, TouchBy

\* A definition that fits a class allocates of itself as the class allows.
LEMMA FitsKeeps ==
  ASSUME ChapterOK, Unshadowed, SafeIsBuiltin,
         NEW d \in ToSet(chapter), ~AppliesLocalBuiltin(d.body, ToSet(d.params)),
         NEW class \in Classes, Fits(d.body, class)
  PROVE  \A a \in Acts(d.body, ToSet(d.params)) : Keeps(a, class)
<1> DEFINE Bad == {a \in Acts(d.body, ToSet(d.params)) : ~Keeps(a, class)}
           P   == {p \in Sound(d) : Fits(p[1], class)}
<1>1. ASSUME NEW p \in P
      PROVE  /\ \A a \in OwnActs(p[1], p[2]) : Keeps(a, class)
             /\ \A q \in Inner(p[1], p[2]) : Fits(q[1], class)
  <2> DEFINE e == p[1]
             l == p[2]
  <2>1. p \in Sound(d) /\ e \in Expr /\ e \in Nodes(d.body) /\ Fits(e, class) /\ l \subseteq LocalsOf(d)
    BY SoundInner
  <2>2. /\ e.t \in {"Lit", "NameRef", "Apply"} \cup SeenThrough
        /\ e.t = "Apply" => HeadFits(Head1(e), Args(e), class) /\ \A i \in DOMAIN Args(e) : Fits(Args(e)[i], class)
        /\ e.t \in SeenThrough => ~BinopAllocates(e) /\ \A i \in DOMAIN e.xs : Fits(e.xs[i], class)
    BY <2>1, FitsParts
  <2>3. CASE e.t = "NameRef"
    BY <2>3, MentionKeeps DEF OwnActs, Inner
  <2>4. CASE e.t = "Apply"
    <3>1. Head1(e).n \in RtSafe /\ Head1(e).t = "NameRef" => Head1(e).n \in Names \cup DOMAIN AllocClass
      <4>1. Head1(e).t = "NameRef" => Head1(e).n \in Mentioned(d.body)
        <5>1. d.body \in Expr /\ Head1(e) \in Nodes(e)
          BY <2>1, SpineFacts, DefFacts
        <5>2. Head1(e) \in Nodes(d.body)
          BY <2>1, <5>1, UnderExpr
        <5> QED
          BY <5>2 DEF Mentioned
      <4> QED
        BY <4>1 DEF SafeIsBuiltin
    <3>2. Head1(e).t = "NameRef"
      BY <2>2, <2>4 DEF HeadFits, HeadAllocates, HeadOverbudget
    <3>3. Head1(e).n \in Names \cup DOMAIN AllocClass /\ Keeps(Application(Head1(e).n, Args(e)), class)
      BY <2>2, <2>4, <3>1, <3>2, HeadKeeps
    <3>4. Head1(e).n \notin l
      BY <2>1, <2>4, <3>2, <3>3, SoundInner DEF Unshadowed
    <3> QED
      BY <2>2, <2>4, <3>2, <3>3, <3>4 DEF OwnActs, Inner
  <2>5. CASE e.t \in SeenThrough
    <3>1. e.t = "Binary" => e.n \in Logic \/ e.n[1] = "::"
      BY <2>1, <2>2, <2>5, BuiltinsAssumption DEF BinopAllocates
    <3>2. \A a \in OwnActs(e, l) : Keeps(a, class)
      BY <2>5, <3>1, ConsKeeps DEF OwnActs, SeenThrough, OfOperator
    <3>3. Inner(e, l) = {<<e.xs[i], l \cup Binds(e, i)>> : i \in DOMAIN e.xs}
      BY <2>5 DEF Inner, SeenThrough
    <3> QED
      BY <2>2, <2>5, <3>2, <3>3
  <2>6. CASE e.t = "Lit"
    <3>1. e.xs = <<>>
      BY <2>1, <2>6, ExprAssumption
    <3> QED
      BY <2>6, <3>1 DEF OwnActs, Inner
  <2> QED
    BY <2>2, <2>3, <2>4, <2>5, <2>6
<1>2. P \in SUBSET (Expr \X SUBSET Local) /\ \A p \in P : Inner(p[1], p[2]) \subseteq P
  BY <1>1, SoundInner
<1>3. \A p \in P : OwnActs(p[1], p[2]) \cap Bad = {}
  BY <1>1
<1>4. <<d.body, ToSet(d.params)>> \in P
  BY SoundBody
<1>5. \A p \in P : Acts(p[1], p[2]) \cap Bad = {}
  <2> HIDE DEF Bad, P
  <2> QED
    BY <1>2, <1>3, ActsNone
<1>6. Acts(d.body, ToSet(d.params)) \cap Bad = {}
  BY <1>4, <1>5
<1> QED
  BY <1>6

-----------------------------------------------------------------------------
(***************************************************************************)
(* Runs of an accepted chapter.                                            *)
(***************************************************************************)
\* The judgements of a definition in a chapter that is not refused.
LEMMA AcceptedDef ==
  ASSUME ~Refused, NEW d \in ToSet(chapter)
  PROVE  /\ ~Exceeded(d.bounded, d.name)
         /\ d.punctual => ~Unpunctual(d)
         /\ ~OutOfScope(d)
         /\ ~AppliesLocalBuiltin(d.body, ToSet(d.params))
BY DEF Refused

\* What a definition does comes of an act of its body.
LEMMA DoesFrom ==
  ASSUME NEW n, NEW o \in DoesOf(n)
  PROVE  \E a \in Acts(Named(n).body, ToSet(Named(n).params)) : o \in Outcomes(a)
BY DEF DoesOf

\* A builtin calls nothing; an operation touches something, and no other does.
LEMMA UsesOf ==
  ASSUME NEW n, NEW args, NEW u \in Uses(n, args)
  PROVE  u.kind # "call" /\ (u.kind = "touch" => n \in DOMAIN ScopedOp /\ u = TouchBy(n, args))
<1>1. CASE n \in DOMAIN ScopedOp
  BY <1>1 DEF Uses, TouchBy
<1>2. CASE n \notin DOMAIN ScopedOp /\ Class(n) = "none"
  BY <1>2 DEF Uses
<1>3. CASE n \notin DOMAIN ScopedOp /\ Class(n) \in {"fixed", "budgeted"}
  BY <1>3 DEF Uses, Alloc
<1>4. CASE n \notin DOMAIN ScopedOp /\ Class(n) = "budgetedBy"
  BY <1>4 DEF Uses, Alloc
<1>5. CASE n \notin DOMAIN ScopedOp /\ Class(n) \notin {"none", "fixed", "budgeted", "budgetedBy"}
  BY <1>5 DEF Uses, Alloc
<1> QED
  BY <1>1, <1>2, <1>3, <1>4, <1>5

\* What it calls is a definition that its body mentions.
LEMMA CallsMention ==
  ASSUME ChapterOK, ~Refused, NEW n \in Names, NEW o \in DoesOf(n), o.kind = "call"
  PROVE  o.n \in Names /\ o.n \in Mentioned(Named(n).body)
<1>1. PICK a \in Acts(Named(n).body, ToSet(Named(n).params)) : o \in Outcomes(a)
  BY DoesFrom
<1>2. Named(n) \in ToSet(chapter) /\ ~AppliesLocalBuiltin(Named(n).body, ToSet(Named(n).params))
  BY ChapterFacts, AcceptedDef
<1>3. a \in Makes \/ (a.n \in Mentioned(Named(n).body) /\ (a = Mention(a.n) \/ a = Application(a.n, a.args)))
  BY <1>1, <1>2, ActsMentioned
<1>4. CASE a \in Makes
  BY <1>1, <1>4, MakesWhat
<1>5. CASE a.n \in Mentioned(Named(n).body) /\ a = Mention(a.n)
  <2>1. a.act = "mention"
    BY <1>5 DEF Mention
  <2>2. o \in IF a.n \in Names THEN (IF Named(a.n).params = <<>> THEN {CallTo(a.n)} ELSE {})
              ELSE IF a.n \in DOMAIN ScopedOp THEN {TouchBy(a.n, <<>>)} ELSE {}
    BY <1>1, <2>1 DEF Outcomes
  <2> QED
    BY <1>5, <2>2 DEF CallTo, TouchBy
<1>6. CASE a.n \in Mentioned(Named(n).body) /\ a = Application(a.n, a.args)
  <2>1. a.act = "apply"
    BY <1>6 DEF Application
  <2>2. o \in IF a.n \in Names THEN {CallTo(a.n)} ELSE Uses(a.n, a.args)
    BY <1>1, <2>1 DEF Outcomes
  <2>3. \A u \in Uses(a.n, a.args) : u.kind # "call"
    BY UsesOf
  <2> QED
    BY <1>6, <2>2, <2>3 DEF CallTo
<1> QED
  BY <1>3, <1>4, <1>5, <1>6

\* The definitions over a class.
SetOf(class) == IF class = "none" THEN sets.alloc ELSE IF class = "fixed" THEN sets.overfixed ELSE sets.over

\* One that is not fits the class, and mentions none that is.
LEMMA OutsideSet ==
  ASSUME RoundsInv, phase \in {"judged", "running"}, NEW class \in Classes, NEW n \in Names, n \notin SetOf(class)
  PROVE  Fits(Named(n).body, class) /\ \A m \in Names : m \in Mentioned(Named(n).body) => m \notin SetOf(class)
<1>1. ChapterOK
  BY DEF RoundsInv
<1>2. PICK k \in Kinds : SetOf(class) = sets[k] /\ k = IF class = "none" THEN "alloc" ELSE IF class = "fixed" THEN "overfixed" ELSE "over"
  BY DEF SetOf, Kinds
<1>3. sets[k] = LeadingTo(Seeds[k]) /\ Seeds[k] \subseteq Names
  BY <1>1, SeedsAre DEF RoundsInv, SetsTyped
<1>4. Seeds[k] \subseteq sets[k] /\ Leading(sets[k]) \subseteq sets[k]
  BY <1>1, <1>3, LeadingWithin
<1>5. n \notin Seeds[k] /\ n \notin Leading(sets[k])
  BY <1>2, <1>4
<1>6. Fits(Named(n).body, class)
  <2>1. CASE class = "none"
    BY <1>1, <1>2, <1>5, <2>1, SeedsAre DEF Fits
  <2>2. CASE class = "fixed"
    BY <1>1, <1>2, <1>5, <2>2, SeedsAre DEF Fits
  <2>3. CASE class = "budgeted"
    BY <1>1, <1>2, <1>5, <2>3, SeedsAre DEF Fits
  <2> QED
    BY <2>1, <2>2, <2>3 DEF Classes
<1>7. ASSUME NEW m \in Names, m \in Mentioned(Named(n).body), m \in SetOf(class) PROVE FALSE
  BY <1>1, <1>2, <1>5, <1>7, ChapterFacts DEF Leading, MentionsAny
<1> QED
  BY <1>6, <1>7

\* All that is asked of a chapter stays as it was.
LEMMA SameVerdict ==
  ASSUME chapter' = chapter
  PROVE  /\ \A n : DoesOf(n)' = DoesOf(n)
         /\ Unshadowed' <=> Unshadowed
         /\ SafeIsBuiltin' <=> SafeIsBuiltin
         /\ sets' = sets => (Refused' <=> Refused) /\ \A class : SetOf(class)' = SetOf(class)
<1>1. Names' = Names /\ \A n : Named(n)' = Named(n)
  BY SameChapter
<1>2. \A n : DoesOf(n)' = DoesOf(n)
  <2>1. \A a : Outcomes(a)' = Outcomes(a)
    BY <1>1 DEF Outcomes
  <2> QED
    BY <1>1, <2>1 DEF DoesOf
<1>3. (Unshadowed' <=> Unshadowed) /\ (SafeIsBuiltin' <=> SafeIsBuiltin)
  BY <1>1 DEF Unshadowed, SafeIsBuiltin
<1>4. ASSUME sets' = sets PROVE Refused' <=> Refused
  <2>1. \A d : OutOfScope(d)' <=> OutOfScope(d)
    BY <1>1 DEF OutOfScope, OpOutside, CalleeOutside
  <2>2. \A class, n : Exceeded(class, n)' <=> Exceeded(class, n)
    BY <1>4 DEF Exceeded
  <2>3. \A d : Unpunctual(d)' <=> Unpunctual(d)
    BY DEF Unpunctual, CallsUnsafe, Punctual
  <2> QED
    BY <2>1, <2>2, <2>3 DEF Refused
<1>5. ASSUME sets' = sets PROVE \A class : SetOf(class)' = SetOf(class)
  BY <1>5 DEF SetOf
<1> QED
  BY <1>2, <1>3, <1>4, <1>5

\* The stack holds definitions, and is used by the run of an accepted chapter only.
RunsInv ==
  /\ RoundsInv
  /\ stack \in Seq(Names)
  /\ phase \in {"judged", "running"} => ~Refused
  /\ phase # "running" => stack = <<>> /\ done = {} /\ touched = {}

\* What calling and returning leave of a stack.
LEMMA Pushed ==
  ASSUME NEW S, NEW s \in Seq(S), s # <<>>, NEW m
  PROVE  /\ Len(s) \in DOMAIN s /\ Last(s) = s[Len(s)] /\ Last(s) \in S /\ 1 \in DOMAIN s
         /\ Append(s, m) # <<>> /\ Append(s, m)[1] = s[1]
         /\ \A i \in DOMAIN s : i \in 1 .. Len(s) /\ Append(s, m)[i] = s[i]
         /\ Append(s, m)[Len(s) + 1] = m /\ Len(s) \in Nat
         /\ \A i \in DOMAIN Append(s, m) : i \in DOMAIN s \/ i = Len(s) + 1
BY DEF Last

LEMMA Popped ==
  ASSUME NEW S, NEW s \in Seq(S), s # <<>>
  PROVE  /\ Front(s) \in Seq(S)
         /\ \A i \in DOMAIN Front(s) : i \in DOMAIN s /\ Front(s)[i] = s[i]
         /\ Front(s) # <<>> => Front(s)[1] = s[1]
<1>1. Len(s) \in Nat /\ Len(s) # 0
  OBVIOUS
<1>2. Front(s) = SubSeq(s, 1, Len(s) - 1)
  BY DEF Front
<1>3. /\ SubSeq(s, 1, Len(s) - 1) \in Seq(S) /\ Len(SubSeq(s, 1, Len(s) - 1)) = Len(s) - 1
      /\ \A i \in 1 .. Len(s) - 1 : SubSeq(s, 1, Len(s) - 1)[i] = s[i]
  <2>1. PICK n \in Nat : n = Len(s) - 1
    BY <1>1
  <2>2. \A i \in 1 .. n : s[i] \in S
    BY <1>1, <2>1
  <2>3. /\ SubSeq(s, 1, n) \in Seq(S) /\ Len(SubSeq(s, 1, n)) = (IF 1 <= n THEN n - 1 + 1 ELSE 0)
        /\ \A i \in 1 .. n - 1 + 1 : SubSeq(s, 1, n)[i] = s[1 + i - 1]
    BY <2>2, SubSeqProperties
  <2>4. n - 1 + 1 = n /\ \A i \in 1 .. n : 1 + i - 1 = i
    OBVIOUS
  <2>5. Len(SubSeq(s, 1, n)) = n
    BY <2>3, <2>4
  <2> QED
    BY <2>1, <2>3, <2>4, <2>5
<1>4. \A i \in DOMAIN Front(s) : i \in 1 .. Len(s) - 1
  BY <1>2, <1>3
<1>5. Front(s) # <<>> => 1 \in 1 .. Len(s) - 1
  BY <1>1, <1>2, <1>3
<1> QED
  BY <1>1, <1>2, <1>3, <1>4, <1>5

LEMMA RunsInit == Init => RunsInv
BY RoundsInit DEF Init, RunsInv

LEMMA RunsNext == RunsInv /\ [Next]_vars => RunsInv'
<1> SUFFICES ASSUME RunsInv, [Next]_vars PROVE RunsInv'
  OBVIOUS
<1>1. RoundsInv /\ RoundsInv' /\ ChapterOK
  BY RoundsNext DEF RunsInv, RoundsInv
<1>2. chapter' = chapter
  BY DEF Next, Seed, Round, Judge, Start, Call, Allocate, Touch, Return, vars
<1>3. Names' = Names /\ (sets' = sets => (Refused' <=> Refused))
  BY <1>2, SameChapter, SameVerdict
<1>4. CASE Seed \/ Round
  <2>1. phase' = "closing" /\ phase # "running" /\ UNCHANGED <<stack, done, touched>>
    BY <1>4 DEF Seed, Round
  <2> QED
    BY <1>1, <1>3, <2>1 DEF RunsInv
<1>5. CASE Judge
  <2>1. /\ phase # "running" /\ phase' = (IF Refused THEN "refused" ELSE "judged")
        /\ UNCHANGED <<sets, stack, done, touched>>
    BY <1>5 DEF Judge, Closed
  <2> QED
    BY <1>1, <1>3, <2>1 DEF RunsInv
<1>6. CASE Start
  <2>1. phase = "judged" /\ phase' = "running" /\ UNCHANGED <<sets, done, touched>>
    BY <1>6 DEF Start
  <2>2. PICK d \in ToSet(chapter) : stack' = <<d.name>>
    BY <1>6 DEF Start
  <2>3. d.name \in Names
    BY <1>1, ChapterFacts
  <2> QED
    BY <1>1, <1>3, <2>1, <2>2, <2>3 DEF RunsInv
<1>7. CASE Call
  <2>1. phase = "running" /\ phase' = "running" /\ stack # <<>> /\ sets' = sets
    BY <1>7 DEF Call, Running
  <2>2. PICK o \in DoesOf(Last(stack)) : o.kind = "call" /\ stack' = Append(stack, o.n)
    BY <1>7 DEF Call
  <2>3. o.n \in Names
    <3>1. Last(stack) \in Names
      BY <2>1, Pushed DEF RunsInv
    <3>2. ~Refused
      BY <2>1 DEF RunsInv
    <3> QED
      BY <1>1, <2>2, <3>1, <3>2, CallsMention
  <2> QED
    BY <1>1, <1>3, <2>1, <2>2, <2>3 DEF RunsInv
<1>8. CASE Allocate \/ Touch
  <2>1. phase = "running" /\ phase' = "running" /\ UNCHANGED <<sets, stack>>
    BY <1>8 DEF Allocate, Touch, Running
  <2> QED
    BY <1>1, <1>3, <2>1 DEF RunsInv
<1>9. CASE Return
  <2>1. phase = "running" /\ phase' = "running" /\ stack # <<>> /\ stack' = Front(stack) /\ sets' = sets
    BY <1>9 DEF Return, Running
  <2>2. Front(stack) \in Seq(Names)
    BY <2>1, Popped DEF RunsInv
  <2> QED
    BY <1>1, <1>3, <2>1, <2>2 DEF RunsInv
<1>10. CASE UNCHANGED vars
  BY <1>1, <1>3, <1>10 DEF RunsInv, vars
<1> QED
  BY <1>4, <1>5, <1>6, <1>7, <1>8, <1>9, <1>10 DEF Next

\* What was found stays among the chapter's names, and so does the stack.
THEOREM Typed == Spec => []TypeOK
<1>1. RunsInv => TypeOK
  <2> SUFFICES ASSUME RunsInv PROVE TypeOK
    OBVIOUS
  <2>1. DOMAIN Empty = Kinds
    BY DEF Empty, Kinds
  <2>2. ToSet(stack) \subseteq Names
    BY DEF RunsInv, ToSet
  <2> QED
    BY <2>1, <2>2 DEF RunsInv, RoundsInv, SetsTyped, TypeOK
<1> QED
  BY <1>1, RunsInit, RunsNext, PTL DEF Spec

\* What a step of an accepted chapter's run leaves as it was.
LEMMA RunStep ==
  ASSUME RunsInv, [Next]_vars, stack' # <<>>
  PROVE  /\ chapter' = chapter /\ sets' = sets /\ ChapterOK /\ RoundsInv /\ ~Refused
         /\ phase \in {"judged", "running"}
         /\ stack = <<>> => phase = "judged" /\ Start
         /\ stack # <<>> => phase = "running" /\ (Call \/ Allocate \/ Touch \/ Return \/ UNCHANGED <<stack, done, touched>>)
<1>1. chapter' = chapter /\ RoundsInv /\ ChapterOK
  BY DEF Next, Seed, Round, Judge, Start, Call, Allocate, Touch, Return, vars, RunsInv, RoundsInv
<1>2. CASE stack = <<>>
  <2>1. Start
    BY <1>2 DEF Next, Seed, Round, Judge, Call, Allocate, Touch, Return, Running, vars
  <2> QED
    BY <1>1, <1>2, <2>1 DEF Start, RunsInv
<1>3. CASE stack # <<>>
  <2>1. phase = "running"
    BY <1>3 DEF RunsInv
  <2>2. Call \/ Allocate \/ Touch \/ Return \/ UNCHANGED vars
    BY <2>1 DEF Next, Seed, Round, Judge, Closed, Start
  <2> QED
    BY <1>1, <1>3, <2>1, <2>2 DEF Call, Allocate, Touch, Return, vars, RunsInv
<1> QED
  BY <1>2, <1>3

\* While a run lasts, no definition on the stack is over the class of the first,
\* and what was allocated is allowed in that class.
CostInv ==
  stack # <<>> /\ Unshadowed /\ SafeIsBuiltin =>
    \A class \in Classes :
      Named(stack[1]).bounded = class =>
        /\ \A i \in DOMAIN stack : stack[i] \notin SetOf(class)
        /\ Counted \subseteq Allowed(class)

LEMMA CostNext == RunsInv /\ CostInv /\ [Next]_vars => CostInv'
<1> SUFFICES ASSUME RunsInv, CostInv, [Next]_vars, stack' # <<>>, Unshadowed', SafeIsBuiltin',
                    NEW class \in Classes, Named(stack[1])'.bounded = class
             PROVE  (\A i \in DOMAIN stack : stack[i] \notin SetOf(class))' /\ Counted' \subseteq Allowed(class)
  BY DEF CostInv
<1>1. /\ chapter' = chapter /\ sets' = sets /\ ChapterOK /\ RoundsInv /\ ~Refused
      /\ phase \in {"judged", "running"}
      /\ stack = <<>> => phase = "judged" /\ Start
      /\ stack # <<>> => phase = "running" /\ (Call \/ Allocate \/ Touch \/ Return \/ UNCHANGED <<stack, done, touched>>)
  BY RunStep
<1>2. /\ Unshadowed /\ SafeIsBuiltin /\ SetOf(class)' = SetOf(class)
      /\ \A n : Named(n)' = Named(n)
  BY <1>1, SameVerdict, SameChapter
<1>3. stack \in Seq(Names)
  BY DEF RunsInv
<1>4. CASE stack = <<>>
  <2>1. PICK d \in ToSet(chapter) : stack' = <<d.name>>
    BY <1>1, <1>4 DEF Start
  <2>2. Counted' = {}
    BY <1>1, <1>4 DEF Start, RunsInv, Counted
  <2>3. d.bounded = class /\ ~Exceeded(d.bounded, d.name)
    BY <1>1, <1>2, <2>1, ChapterFacts, AcceptedDef
  <2>4. d.name \notin SetOf(class)
    BY <2>3 DEF Exceeded, SetOf, Classes
  <2>5. \A i \in DOMAIN stack' : stack'[i] = d.name
    BY <2>1
  <2> QED
    BY <1>2, <2>2, <2>4, <2>5
<1>5. CASE stack # <<>>
  <2>1. Len(stack) \in DOMAIN stack /\ Last(stack) = stack[Len(stack)] /\ Last(stack) \in Names
    BY <1>3, <1>5, Pushed
  <2>2. stack'[1] = stack[1]
    BY <1>1, <1>3, <1>5, Pushed, Popped DEF Call, Allocate, Touch, Return
  <2>3. (\A i \in DOMAIN stack : stack[i] \notin SetOf(class)) /\ Counted \subseteq Allowed(class)
    BY <1>2, <1>5, <2>2 DEF CostInv
  <2>4. Last(stack) \notin SetOf(class)
    BY <2>1, <2>3
  <2>5. Fits(Named(Last(stack)).body, class) /\ \A m \in Names : m \in Mentioned(Named(Last(stack)).body) => m \notin SetOf(class)
    BY <1>1, <2>1, <2>4, OutsideSet
  <2>6. CASE Call
    <3>1. PICK o \in DoesOf(Last(stack)) : o.kind = "call" /\ stack' = Append(stack, o.n)
      BY <2>6 DEF Call
    <3>2. o.n \notin SetOf(class)
      BY <1>1, <2>1, <2>5, <3>1, CallsMention
    <3>3. Counted' = Counted
      BY <2>6 DEF Call, Counted
    <3>4. \A i \in DOMAIN stack' : stack'[i] = o.n \/ (i \in DOMAIN stack /\ stack'[i] = stack[i])
      BY <1>3, <1>5, <3>1, Pushed
    <3> QED
      BY <1>2, <2>3, <3>2, <3>3, <3>4
  <2>7. CASE Allocate
    <3>1. stack' = stack
      BY <2>7 DEF Allocate
    <3>2. PICK o \in DoesOf(Last(stack)) : o.kind \notin {"call", "touch"} /\ done' = done \cup {o.kind}
      BY <2>7 DEF Allocate
    <3>3. PICK a \in Acts(Named(Last(stack)).body, ToSet(Named(Last(stack)).params)) : o \in Outcomes(a)
      BY <3>2, DoesFrom
    <3>4. Named(Last(stack)) \in ToSet(chapter)
      BY <1>1, <2>1, ChapterFacts
    <3>5. ~AppliesLocalBuiltin(Named(Last(stack)).body, ToSet(Named(Last(stack)).params))
      BY <1>1, <3>4, AcceptedDef
    <3>6. Keeps(a, class)
      BY <1>1, <1>2, <2>5, <3>3, <3>4, <3>5, FitsKeeps
    <3>7. o.kind = "cons" \/ o.kind \in Allowed(class)
      BY <3>2, <3>3, <3>6 DEF Keeps
    <3>8. Counted' \subseteq Allowed(class)
      BY <2>3, <3>2, <3>7 DEF Counted
    <3> QED
      BY <1>2, <2>3, <3>1, <3>8
  <2>8. CASE Return
    <3>1. stack' = Front(stack) /\ Counted' = Counted
      BY <2>8 DEF Return, Counted
    <3>2. \A i \in DOMAIN stack' : i \in DOMAIN stack /\ stack'[i] = stack[i]
      BY <1>3, <1>5, <3>1, Popped
    <3> QED
      BY <1>2, <2>3, <3>1, <3>2
  <2>9. CASE Touch \/ UNCHANGED <<stack, done, touched>>
    <3>1. stack' = stack /\ Counted' = Counted
      BY <2>9 DEF Touch, Counted
    <3> QED
      BY <1>2, <2>3, <3>1
  <2> QED
    BY <1>1, <1>5, <2>6, <2>7, <2>8, <2>9
<1> QED
  BY <1>4, <1>5

-----------------------------------------------------------------------------
(***************************************************************************)
(* Scopes.                                                                 *)
(***************************************************************************)
\* One scope begins another.
Begins(s, r) == Len(s) <= Len(r) /\ \A k \in 1 .. Len(s) : s[k] = r[k]

LEMMA BeginsIs ==
  ASSUME NEW s \in Scope, NEW r \in Scope, Len(s) <= Len(r)
  PROVE  s = SubSeq(r, 1, Len(s)) <=> \A k \in 1 .. Len(s) : s[k] = r[k]
<1>1. PICK n \in Nat : n = Len(s)
  BY DEF Scope
<1>2. \A i \in 1 .. n : r[i] \in STRING
  BY <1>1 DEF Scope
<1>3. /\ SubSeq(r, 1, n) \in Seq(STRING) /\ Len(SubSeq(r, 1, n)) = (IF 1 <= n THEN n - 1 + 1 ELSE 0)
      /\ \A i \in 1 .. n - 1 + 1 : SubSeq(r, 1, n)[i] = r[1 + i - 1]
  BY <1>2, SubSeqProperties
<1>4. n - 1 + 1 = n /\ \A i \in 1 .. n : 1 + i - 1 = i
  OBVIOUS
<1>5. Len(SubSeq(r, 1, n)) = n /\ \A i \in 1 .. n : SubSeq(r, 1, n)[i] = r[i]
  BY <1>3, <1>4
<1>6. s \in Seq(STRING) /\ SubSeq(r, 1, n) \in Seq(STRING)
  BY <1>3 DEF Scope
<1> QED
  BY <1>1, <1>5, <1>6, SeqEqual

\* What a resource lies in, place by place.
LEMMA WithinIs ==
  ASSUME NEW eff, NEW s \in Scope, NEW r \in Scope
  PROVE  s \in Within(eff, r) <=>
           IF eff[1] = "Console" THEN s = r
           ELSE /\ s # <<>> /\ Begins(s, r)
                /\ eff[1] # "Network" => Len(s) = Len(r) \/ "/" \in {r[Len(s)], r[Len(s) + 1]}
<1>1. Len(s) \in Nat /\ Len(r) \in Nat /\ DOMAIN r = 1 .. Len(r) /\ (s = <<>> <=> Len(s) = 0)
  BY DEF Scope
<1>2. \A i \in DOMAIN r : Len(SubSeq(r, 1, i)) = i
  <2> SUFFICES ASSUME NEW i \in DOMAIN r PROVE Len(SubSeq(r, 1, i)) = i
    OBVIOUS
  <2>1. i \in Nat /\ 1 <= i /\ i <= Len(r)
    BY <1>1
  <2>2. \A k \in 1 .. i : r[k] \in STRING
    BY <1>1, <2>1 DEF Scope
  <2>3. Len(SubSeq(r, 1, i)) = IF 1 <= i THEN i - 1 + 1 ELSE 0
    BY <2>1, <2>2, SubSeqProperties
  <2> QED
    BY <2>1, <2>3
<1>3. Begins(s, r) <=> Len(s) <= Len(r) /\ s = SubSeq(r, 1, Len(s))
  BY BeginsIs DEF Begins
<1>4. CASE eff[1] = "Network"
  <2>1. s \in Within(eff, r) <=> \E i \in DOMAIN r : s = SubSeq(r, 1, i)
    BY <1>4 DEF Within
  <2>2. (\E i \in DOMAIN r : s = SubSeq(r, 1, i)) <=> Len(s) \in DOMAIN r /\ s = SubSeq(r, 1, Len(s))
    BY <1>2
  <2> QED
    BY <1>1, <1>3, <1>4, <2>1, <2>2
<1>5. CASE eff[1] = "Console"
  BY <1>5 DEF Within
<1>6. CASE eff[1] \notin {"Network", "Console"}
  <2> DEFINE Cut(i) == i = Len(r) \/ "/" \in {r[i], r[i + 1]}
  <2>1. s \in Within(eff, r) <=> \E i \in DOMAIN r : Cut(i) /\ s = SubSeq(r, 1, i)
    BY <1>6 DEF Within
  <2>2. (\E i \in DOMAIN r : Cut(i) /\ s = SubSeq(r, 1, i)) <=> Len(s) \in DOMAIN r /\ Cut(Len(s)) /\ s = SubSeq(r, 1, Len(s))
    <3> HIDE DEF Cut
    <3> QED
      BY <1>2
  <2>3. Len(s) \in DOMAIN r /\ s = SubSeq(r, 1, Len(s)) <=> s # <<>> /\ Begins(s, r)
    BY <1>1, <1>3
  <2>4. s \in Within(eff, r) <=> s # <<>> /\ Begins(s, r) /\ Cut(Len(s))
    <3> HIDE DEF Cut
    <3> QED
      BY <2>1, <2>2, <2>3
  <2>5. eff[1] # "Network" /\ eff[1] # "Console"
    BY <1>6
  <2> QED
    BY <2>4, <2>5
<1> QED
  BY <1>4, <1>5, <1>6

\* A scope that lies in one that lies in a third lies in the third.
LEMMA WithinTransitive ==
  ASSUME NEW eff, NEW s \in Scope, NEW r \in Scope, NEW q \in Scope, s \in Within(eff, r), r \in Within(eff, q)
  PROVE  s \in Within(eff, q)
<1>1. Len(s) \in Nat /\ Len(r) \in Nat /\ Len(q) \in Nat /\ (s = <<>> <=> Len(s) = 0)
  BY DEF Scope
<1>2. CASE eff[1] = "Console"
  BY <1>2, WithinIs
<1>3. CASE eff[1] # "Console"
  <2>1. /\ s # <<>> /\ Begins(s, r) /\ Begins(r, q)
        /\ eff[1] # "Network" => Len(s) = Len(r) \/ "/" \in {r[Len(s)], r[Len(s) + 1]}
        /\ eff[1] # "Network" => Len(r) = Len(q) \/ "/" \in {q[Len(r)], q[Len(r) + 1]}
    BY <1>3, WithinIs
  <2>2. Begins(s, q)
    BY <1>1, <2>1 DEF Begins
  <2>3. ASSUME eff[1] # "Network" PROVE Len(s) = Len(q) \/ "/" \in {q[Len(s)], q[Len(s) + 1]}
    <3>1. CASE Len(s) = Len(r)
      BY <2>1, <2>3, <3>1
    <3>2. CASE Len(s) # Len(r)
      <4>1. Len(s) \in 1 .. Len(r) /\ Len(s) + 1 \in 1 .. Len(r)
        BY <1>1, <2>1, <3>2 DEF Begins
      <4>2. r[Len(s)] = q[Len(s)] /\ r[Len(s) + 1] = q[Len(s) + 1]
        BY <2>1, <4>1 DEF Begins
      <4> QED
        BY <2>1, <2>3, <3>2, <4>2
    <3> QED
      BY <3>1, <3>2
  <2> QED
    BY <1>3, <2>1, <2>2, <2>3, WithinIs
<1> QED
  BY <1>2, <1>3

\* What a scope admits lies in it, but for a host whose port is left open.
LEMMA AdmitsWithin ==
  ASSUME NEW eff, NEW s \in Scope, NEW r \in Scope, s # <<>>, ScopeAdmits(eff, s, r),
         eff[1] = "Network" => Len(r) # 1
  PROVE  r # <<>> /\ s \in Within(eff, r)
<1>1. Len(s) \in Nat /\ Len(r) \in Nat /\ Len(s) # 0 /\ (r = <<>> <=> Len(r) = 0)
  BY DEF Scope
<1>2. CASE eff[1] = "Network"
  <2>1. r # <<>> /\ r[1] = s[1] /\ (Len(s) = 1 \/ r = s)
    BY <1>2 DEF ScopeAdmits, AuthorityAdmits
  <2>2. Begins(s, r)
    BY <1>1, <2>1 DEF Begins
  <2> QED
    BY <1>2, <2>1, <2>2, WithinIs
<1>3. CASE eff[1] = "Console"
  BY <1>3, WithinIs DEF ScopeAdmits
<1>4. CASE eff[1] \notin {"Network", "Console"}
  <2>1. IsPrefix(s, r) /\ (s = r \/ Last(s) = "/" \/ r[Len(s) + 1] = "/")
    BY <1>4 DEF ScopeAdmits, PathAdmits
  <2>2. Len(s) <= Len(r) /\ SubSeq(s, 1, Len(s)) = SubSeq(r, 1, Len(s))
    BY <2>1 DEF IsPrefix
  <2>3. s = SubSeq(s, 1, Len(s))
    BY <1>1, BeginsIs
  <2>4. Begins(s, r)
    BY <2>2, <2>3, BeginsIs DEF Begins
  <2>5. Last(s) = r[Len(s)]
    BY <1>1, <2>4 DEF Last, Begins
  <2>6. Len(s) = Len(r) \/ "/" \in {r[Len(s)], r[Len(s) + 1]}
    BY <2>1, <2>5
  <2> QED
    BY <1>1, <1>4, <2>2, <2>4, <2>6, WithinIs
<1> QED
  BY <1>2, <1>3, <1>4

\* The effects that operations perform.
Performed == {ScopedOp[n] : n \in DOMAIN ScopedOp}

\* Some grants cover an effect on a resource.
Admitted(grants, eff, res) ==
  \E l \in grants : CoveredBy(l.eff, eff) /\ (l.scope = <<>> \/ l.scope \in Within(eff, res))

\* Whatever the ones cover the others cover.
Outer(grants, inner) ==
  \A eff \in Performed : \A res \in Scope : Admitted(inner, eff, res) => Admitted(grants, eff, res)

\* What covers an effect that covers a third covers the third.
LEMMA CoveredTransitive ==
  ASSUME NEW a \in Seq(STRING) \ {<<>>}, NEW b \in Seq(STRING) \ {<<>>}, NEW eff \in Performed,
         CoveredBy(a, b), CoveredBy(b, eff)
  PROVE  CoveredBy(a, eff) /\ b[1] = eff[1]
<1>1. eff \in Seq(STRING) /\ Len(eff) = 2
  BY EffectsAssumption DEF Performed
<1>2. ASSUME NEW e \in Seq(STRING) \ {<<>>} PROVE SubSeq(e, 1, 1) = <<e[1]>>
  <2>1. 1 <= Len(e)
    OBVIOUS
  <2>2. e[1] \in STRING
    BY <2>1
  <2>3. <<e[1]>> \in Scope /\ e \in Scope /\ Len(<<e[1]>>) = 1 /\ <<e[1]>>[1] = e[1]
    BY <2>2 DEF Scope
  <2>4. <<e[1]>> = SubSeq(e, 1, Len(<<e[1]>>))
    BY <2>1, <2>3, BeginsIs
  <2> QED
    BY <2>3, <2>4
<1>3. SubSeq(eff, 1, 1) = <<eff[1]>> /\ SubSeq(b, 1, 1) = <<b[1]>>
  BY <1>1, <1>2
<1>4. b[1] = eff[1]
  BY <1>3 DEF CoveredBy
<1> QED
  BY <1>3, <1>4 DEF CoveredBy

\* What is permitted on a resource is covered there, but for an open port.
LEMMA PermitsAdmits ==
  ASSUME NEW grants \in SUBSET Grant, NEW eff, NEW res \in Scope, ScopePermits(grants, eff, res),
         eff[1] = "Network" => Len(res) # 1
  PROVE  \E l \in grants : CoveredBy(l.eff, eff) /\ (l.scope = <<>> \/ (res # <<>> /\ l.scope \in Within(eff, res)))
<1>1. PICK l \in grants : CoveredBy(l.eff, eff) /\ (l.scope = <<>> \/ ScopeAdmits(eff, l.scope, res))
  BY DEF ScopePermits
<1>2. l.scope \in Scope
  BY DEF Grant
<1> QED
  BY <1>1, <1>2, AdmitsWithin

\* Grants that permit whatever is granted to a callee cover what it covers.
LEMMA PermitsOuter ==
  ASSUME NEW grants \in SUBSET Grant, NEW inner \in SUBSET Grant,
         \A l \in inner : ScopePermits(grants, l.eff, l.scope),
         \A l \in inner : l.eff[1] = "Network" => Len(l.scope) # 1
  PROVE  Outer(grants, inner)
<1> SUFFICES ASSUME NEW eff \in Performed, NEW res \in Scope, Admitted(inner, eff, res)
             PROVE  Admitted(grants, eff, res)
  BY DEF Outer
<1>1. PICK m \in inner : CoveredBy(m.eff, eff) /\ (m.scope = <<>> \/ m.scope \in Within(eff, res))
  BY DEF Admitted
<1>2. m.scope \in Scope /\ m.eff \in Seq(STRING) \ {<<>>}
  BY DEF Grant
<1>3. PICK l \in grants : CoveredBy(l.eff, m.eff) /\ (l.scope = <<>> \/ (m.scope # <<>> /\ l.scope \in Within(m.eff, m.scope)))
  BY <1>2, PermitsAdmits
<1>4. l.scope \in Scope /\ l.eff \in Seq(STRING) \ {<<>>}
  BY DEF Grant
<1>5. CoveredBy(l.eff, eff) /\ m.eff[1] = eff[1]
  BY <1>1, <1>2, <1>3, <1>4, CoveredTransitive
<1>6. ASSUME l.scope # <<>> PROVE l.scope \in Within(eff, res)
  <2>1. m.scope # <<>> /\ l.scope \in Within(m.eff, m.scope) /\ m.scope \in Within(eff, res)
    BY <1>1, <1>3, <1>6
  <2>2. Within(m.eff, m.scope) = Within(eff, m.scope)
    BY <1>5 DEF Within
  <2> QED
    BY <1>2, <1>4, <2>1, <2>2, WithinTransitive
<1> QED
  BY <1>5, <1>6 DEF Admitted

\* Where no grant has a scope, one of the effect is enough.
LEMMA UnscopedPermits ==
  ASSUME NEW grants, \A l \in grants : l.scope = <<>>, NEW eff, HasGrant(grants, eff)
  PROVE  \A res : ScopePermits(grants, eff, res) /\ Admitted(grants, eff, res)
BY DEF HasGrant, ScopePermits, Admitted

\* What the lint of scopes takes for granted.
ScopesAsked == EffectsDeclared /\ PerformersApplied /\ OperationsKept /\ PortsNamed

\* An act by which nothing is performed unseen: an application that the lint
\* looks at, or a mention of what performs nothing.
Seen(d, b) ==
  \/ b \in Makes
  \/ /\ b = Mention(b.n)
     /\ b.n \notin DOMAIN ScopedOp /\ (b.n \in Names => Named(b.n).grants = {})
  \/ /\ b = Application(b.n, b.args)
     /\ b.args # <<>>
     /\ \E y \in Nodes(d.body) :
          y.t = "Apply" /\ y.xs[1].t = "NameRef" /\ y.xs[1].n = b.n /\ y.xs[2] = b.args[1]

LEMMA ActsSeen ==
  ASSUME ChapterOK, PerformersApplied, NEW d \in ToSet(chapter), ~AppliesLocalBuiltin(d.body, ToSet(d.params))
  PROVE  \A b \in Acts(d.body, ToSet(d.params)) : Seen(d, b)
<1> DEFINE Bad == {b \in Acts(d.body, ToSet(d.params)) : ~Seen(d, b)}
           P   == {p \in Sound(d) : ~Performer(p[1])}
<1>1. ASSUME NEW p \in P
      PROVE  /\ \A b \in OwnActs(p[1], p[2]) : Seen(d, b)
             /\ \A q \in Inner(p[1], p[2]) : ~Performer(q[1])
  <2> DEFINE e == p[1]
             l == p[2]
  <2>1. d.body \in Expr /\ e \in Expr /\ e \in Nodes(d.body) /\ ~Performer(e) /\ Nodes(e) \subseteq Nodes(d.body)
    BY SoundInner, DefFacts, UnderExpr
  <2>2. CASE e.t = "NameRef"
    <3>1. \A b \in OwnActs(e, l) : b = Mention(e.n)
      BY <2>2 DEF OwnActs
    <3>2. e.n \notin DOMAIN ScopedOp /\ (e.n \in Names => Named(e.n).grants = {})
      BY <2>1, <2>2 DEF Performer
    <3>3. Seen(d, Mention(e.n))
      BY <3>2 DEF Seen, Mention
    <3> QED
      BY <2>2, <3>1, <3>3 DEF Inner
  <2>3. CASE e.t = "Apply"
    <3>1. SpineIn(e, Nodes(e)) /\ \A y \in Nodes(e) : y \in Expr
      BY <2>1, SpineUnder, UnderExpr
    <3>2. \A b \in OwnActs(e, l) : b \in Makes \/ (Head1(e).t = "NameRef" /\ b = Application(Head1(e).n, Args(e)))
      BY <2>3 DEF OwnActs, Makes
    <3>3. ASSUME Head1(e).t = "NameRef" PROVE Seen(d, Application(Head1(e).n, Args(e)))
      <4>1. PICK y \in Nodes(e) : y.t = "Apply" /\ y.xs[1] = Head1(e) /\ y.xs[2] = Args(e)[1]
        BY <2>3, <3>1 DEF SpineIn
      <4>2. Args(e) # <<>>
        BY <2>3, <3>1 DEF SpineIn
      <4> QED
        BY <2>1, <3>3, <4>1, <4>2 DEF Seen, Application
    <3>4. ASSUME NEW i \in DOMAIN Args(e) PROVE ~Performer(Args(e)[i])
      <4>1. PICK y \in Nodes(e) : y.t = "Apply" /\ y.xs[2] = Args(e)[i]
        BY <3>1 DEF SpineIn
      <4>2. y \in Nodes(d.body) /\ 2 \in DOMAIN y.xs
        BY <2>1, <3>1, <4>1, ExprAssumption
      <4> QED
        BY <4>1, <4>2 DEF PerformersApplied
    <3>5. Head1(e).t # "NameRef" => ~Performer(Head1(e))
      BY DEF Performer
    <3> QED
      BY <2>3, <3>2, <3>3, <3>4, <3>5 DEF Inner, Seen
  <2>4. CASE e.t \notin {"NameRef", "Apply"}
    <3>1. \A b \in OwnActs(e, l) : b \in Makes
      BY <2>4, OperatorMakes DEF OwnActs, Makes
    <3>2. \A i \in DOMAIN e.xs : ~Performer(e.xs[i])
      BY <2>1, <2>4 DEF PerformersApplied
    <3> QED
      BY <2>4, <3>1, <3>2 DEF Inner, Seen
  <2> QED
    BY <2>2, <2>3, <2>4
<1>2. P \in SUBSET (Expr \X SUBSET Local) /\ \A p \in P : Inner(p[1], p[2]) \subseteq P
  BY <1>1, SoundInner
<1>3. \A p \in P : OwnActs(p[1], p[2]) \cap Bad = {}
  BY <1>1
<1>4. <<d.body, ToSet(d.params)>> \in P
  BY SoundBody DEF PerformersApplied
<1>5. \A p \in P : Acts(p[1], p[2]) \cap Bad = {}
  <2> HIDE DEF Bad, P
  <2> QED
    BY <1>2, <1>3, ActsNone
<1>6. Acts(d.body, ToSet(d.params)) \cap Bad = {}
  BY <1>4, <1>5
<1> QED
  BY <1>6

\* The authority of a URL names a host and a port.
LEMMA AuthorityTyped ==
  ASSUME NEW eff, eff[1] = "Network", NEW text \in Scope, Len(text) \in {2, 3}
  PROVE  OpResource(eff, text) \in Scope /\ Len(OpResource(eff, text)) = 2
<1>1. text \in Seq(STRING) /\ text # <<>>
  BY DEF Scope
<1>2. CASE Len(text) = 3
  <2>1. OpResource(eff, text) = Tail(text)
    BY <1>2, Zenon DEF OpResource
  <2>2. Tail(text) \in Seq(STRING) /\ Len(Tail(text)) = Len(text) - 1
    BY <1>1, HeadTailProperties
  <2> QED
    BY <1>2, <2>1, <2>2 DEF Scope
<1>3. CASE Len(text) = 2
  <2>1. text[2] \in STRING /\ Len(text) # 3
    BY <1>1, <1>3
  <2>2. OpResource(eff, text) = <<text[2], IF text[1] = "https" THEN "443" ELSE "80">>
    BY <2>1, Zenon DEF OpResource
  <2>3. PICK port \in STRING : port = IF text[1] = "https" THEN "443" ELSE "80"
    <3>1. "443" \in STRING /\ "80" \in STRING
      BY EffectsAssumption
    <3>2. CASE text[1] = "https"
      BY <3>1, <3>2
    <3>3. CASE text[1] # "https"
      BY <3>1, <3>3
    <3> QED
      BY <3>2, <3>3
  <2>4. <<text[2], port>> \in Seq(STRING) /\ Len(<<text[2], port>>) = 2
    BY <2>1
  <2>5. OpResource(eff, text) = <<text[2], port>>
    BY <2>2, <2>3, Zenon
  <2> QED
    BY <2>4, <2>5, Zenon DEF Scope
<1> QED
  BY <1>2, <1>3

\* What an accepted definition touches lies in its own scopes.
LEMMA TouchAdmitted ==
  ASSUME ChapterOK, ~Refused, ScopesAsked, NEW n \in Names, NEW o \in DoesOf(n), o.kind = "touch"
  PROVE  o.eff \in Performed /\ o.res \in Scope /\ Admitted(Named(n).grants, o.eff, o.res)
<1> DEFINE d == Named(n)
<1>1. PICK a \in Acts(d.body, ToSet(d.params)) : o \in Outcomes(a)
  BY DoesFrom
<1>2. d \in ToSet(chapter) /\ d.body \in Expr /\ d.grants \in SUBSET Grant
      /\ ~AppliesLocalBuiltin(d.body, ToSet(d.params)) /\ ~OutOfScope(d)
  BY ChapterFacts, AcceptedDef, DefFacts
<1>3. Seen(d, a)
  BY <1>1, <1>2, ActsSeen DEF ScopesAsked
<1> HIDE DEF d
<1>4. CASE a \in Makes
  BY <1>1, <1>4, MakesWhat
<1>5. CASE a = Mention(a.n) /\ a.n \notin DOMAIN ScopedOp
  <2>1. a.act = "mention"
    BY <1>5 DEF Mention
  <2>2. o \in IF a.n \in Names THEN (IF Named(a.n).params = <<>> THEN {CallTo(a.n)} ELSE {}) ELSE {}
    BY <1>1, <1>5, <2>1 DEF Outcomes
  <2> QED
    BY <2>2 DEF CallTo
<1>6. CASE a = Application(a.n, a.args) /\ a.args # <<>>
           /\ \E y \in Nodes(d.body) :
                y.t = "Apply" /\ y.xs[1].t = "NameRef" /\ y.xs[1].n = a.n /\ y.xs[2] = a.args[1]
  <2> DEFINE k == a.n
             arg == a.args[1]
             eff == ScopedOp[k]
  <2>1. PICK y \in Nodes(d.body) : y.t = "Apply" /\ y.xs[1].t = "NameRef" /\ y.xs[1].n = k /\ y.xs[2] = arg
    BY <1>6
  <2>2. o \in IF k \in Names THEN {CallTo(k)} ELSE Uses(k, a.args)
    <3>1. a.act = "apply"
      BY <1>6 DEF Application
    <3> QED
      BY <1>1, <3>1 DEF Outcomes
  <2>3. k \notin Names /\ k \in DOMAIN ScopedOp /\ o = TouchBy(k, a.args)
    <3>1. k \notin Names /\ o \in Uses(k, a.args)
      BY <2>2 DEF CallTo
    <3> QED
      BY <3>1, UsesOf
  <2>4. /\ eff \in Performed /\ o.eff = eff
        /\ o.res = IF k \in DOMAIN Channel THEN Channel[k] ELSE IF arg.t = "Lit" THEN OpResource(eff, arg.n) ELSE Anywhere
    BY <1>6, <2>3 DEF TouchBy, Performed
  <2>5. HasGrant(d.grants, eff)
    <3>1. y.xs[1] \in Nodes(d.body)
      <4>1. y \in Expr /\ Nodes(y) \subseteq Nodes(d.body) /\ 1 \in DOMAIN y.xs
        BY <1>2, <2>1, UnderExpr, ExprAssumption
      <4> QED
        BY <4>1, Parts, UnderExpr
    <3>2. k \in Mentioned(d.body)
      BY <2>1, <3>1 DEF Mentioned
    <3> QED
      BY <1>2, <2>3, <3>2 DEF ScopesAsked, EffectsDeclared
  <2>6. o.res \in Scope /\ (eff[1] = "Network" /\ (k \in DOMAIN Channel \/ arg.t = "Lit") => Len(o.res) # 1)
    <3>1. CASE k \in DOMAIN Channel
      BY <2>3, <2>4, <3>1, EffectsAssumption
    <3>2. CASE k \notin DOMAIN Channel /\ arg.t = "Lit"
      <4>1. arg.n \in Scope /\ (eff[1] = "Network" => Len(arg.n) \in {2, 3})
        BY <1>2, <2>1, <2>3, <3>2, UnderExpr, EffectsAssumption
      <4>2. o.res = OpResource(eff, arg.n)
        BY <2>4, <3>2
      <4>3. CASE eff[1] # "Network"
        BY <4>1, <4>2, <4>3 DEF OpResource
      <4>4. CASE eff[1] = "Network"
        BY <4>1, <4>2, <4>4, AuthorityTyped
      <4> QED
        BY <4>1, <4>3, <4>4
    <3>3. CASE k \notin DOMAIN Channel /\ arg.t # "Lit"
      BY <2>4, <3>3 DEF Anywhere, Scope
    <3> QED
      BY <3>1, <3>2, <3>3
  <2>7. CASE \A l \in d.grants : l.scope = <<>>
    BY <2>4, <2>5, <2>6, <2>7, UnscopedPermits DEF d
  <2>8. CASE \E l \in d.grants : l.scope # <<>>
    <3>1. ~OpOutside(d.grants, k, arg)
      BY <1>2, <2>1, <2>3, <2>8 DEF OutOfScope
    <3>2. ScopePermits(d.grants, eff, o.res) /\ (k \in DOMAIN Channel \/ arg.t = "Lit")
      BY <2>4, <2>5, <3>1 DEF OpOutside
    <3>3. \E l \in d.grants : CoveredBy(l.eff, eff) /\ (l.scope = <<>> \/ (o.res # <<>> /\ l.scope \in Within(eff, o.res)))
      BY <1>2, <2>6, <3>2, PermitsAdmits
    <3> QED
      BY <2>4, <2>6, <3>3 DEF Admitted, d
  <2> QED
    BY <2>7, <2>8
<1> QED
  BY <1>3, <1>4, <1>5, <1>6 DEF Seen

\* An accepted definition covers all that a definition it calls covers.
LEMMA CallOuter ==
  ASSUME ChapterOK, ~Refused, ScopesAsked, NEW n \in Names, NEW o \in DoesOf(n), o.kind = "call"
  PROVE  Outer(Named(n).grants, Named(o.n).grants)
<1> DEFINE d == Named(n)
           m == o.n
<1>1. PICK a \in Acts(d.body, ToSet(d.params)) : o \in Outcomes(a)
  BY DoesFrom
<1>2. /\ d \in ToSet(chapter) /\ d.name = n /\ d.body \in Expr /\ d.grants \in SUBSET Grant
      /\ ~AppliesLocalBuiltin(d.body, ToSet(d.params)) /\ ~OutOfScope(d)
  BY ChapterFacts, AcceptedDef, DefFacts
<1>3. m \in Names /\ m \in Mentioned(d.body)
  BY CallsMention
<1>4. Named(m) \in ToSet(chapter) /\ Named(m).name = m /\ Named(m).grants \in SUBSET Grant
  BY <1>3, ChapterFacts, DefFacts
<1>5. Seen(d, a)
  BY <1>1, <1>2, ActsSeen DEF ScopesAsked
<1>6. CASE m = n
  BY <1>6 DEF Outer
<1>7. CASE Named(m).grants = {}
  BY <1>7 DEF Outer, Admitted
<1>8. CASE m # n /\ Named(m).grants # {}
  <2>1. a = Application(a.n, a.args) /\ a.n = m
    <3>1. CASE a \in Makes
      BY <1>1, <3>1, MakesWhat
    <3>2. CASE a = Mention(a.n) /\ (a.n \in Names => Named(a.n).grants = {})
      <4>1. a.act = "mention"
        BY <3>2 DEF Mention
      <4>2. o \in IF a.n \in Names THEN (IF Named(a.n).params = <<>> THEN {CallTo(a.n)} ELSE {})
                  ELSE IF a.n \in DOMAIN ScopedOp THEN {TouchBy(a.n, <<>>)} ELSE {}
        BY <1>1, <4>1 DEF Outcomes
      <4>3. o = CallTo(a.n) /\ a.n \in Names
        BY <4>2 DEF TouchBy
      <4> QED
        BY <1>8, <3>2, <4>3 DEF CallTo
    <3>3. CASE a = Application(a.n, a.args)
      <4>1. a.act = "apply"
        BY <3>3 DEF Application
      <4>2. o \in IF a.n \in Names THEN {CallTo(a.n)} ELSE Uses(a.n, a.args)
        BY <1>1, <4>1 DEF Outcomes
      <4>3. \A u \in Uses(a.n, a.args) : u.kind # "call"
        BY UsesOf
      <4> QED
        BY <3>3, <4>2, <4>3 DEF CallTo
    <3> QED
      BY <1>5, <3>1, <3>2, <3>3 DEF Seen
  <2>2. PICK y \in Nodes(d.body) : y.t = "Apply" /\ y.xs[1].t = "NameRef" /\ y.xs[1].n = m
    <3>1. a \notin Makes /\ a # Mention(a.n)
      BY <2>1 DEF Makes, Fresh, Consing, Mention, Application
    <3> QED
      BY <1>5, <2>1, <3>1 DEF Seen
  <2>3. \A l \in Named(m).grants : HasGrant(d.grants, l.eff)
    BY <1>2, <1>3 DEF ScopesAsked, EffectsDeclared
  <2>4. \A l \in Named(m).grants : ScopePermits(d.grants, l.eff, l.scope)
    <3>1. CASE \A l \in d.grants : l.scope = <<>>
      BY <2>3, <3>1, UnscopedPermits
    <3>2. CASE \E l \in d.grants : l.scope # <<>>
      <4>1. m \notin DOMAIN ScopedOp
        BY <1>3 DEF ScopesAsked, OperationsKept
      <4>2. ~CalleeOutside(d.grants, m)
        BY <1>2, <2>2, <3>2, <4>1 DEF OutOfScope
      <4> QED
        BY <1>3, <2>3, <4>2 DEF CalleeOutside
    <3> QED
      BY <3>1, <3>2
  <2>5. \A l \in Named(m).grants : l.eff[1] = "Network" => Len(l.scope) # 1
    BY <1>2, <1>3, <1>4, <1>8 DEF ScopesAsked, PortsNamed
  <2> QED
    BY <1>2, <1>4, <2>4, <2>5, PermitsOuter
<1> QED
  BY <1>6, <1>7, <1>8

\* While a run lasts, the first definition's grants cover all that those of the
\* others on the stack cover, and all that was touched.
ScopeInv ==
  stack # <<>> /\ ScopesAsked =>
    /\ \A i \in DOMAIN stack : Outer(Named(stack[1]).grants, Named(stack[i]).grants)
    /\ \A t \in touched : Admitted(Named(stack[1]).grants, t.eff, t.res)

LEMMA ScopeNext == RunsInv /\ ScopeInv /\ [Next]_vars => ScopeInv'
<1> SUFFICES ASSUME RunsInv, ScopeInv, [Next]_vars PROVE ScopeInv'
  OBVIOUS
<1>0. chapter' = chapter
  BY DEF Next, Seed, Round, Judge, Start, Call, Allocate, Touch, Return, vars
<1> SUFFICES ASSUME stack' # <<>>, ScopesAsked'
             PROVE  /\ \A i \in DOMAIN stack' : Outer(Named(stack'[1]).grants, Named(stack'[i]).grants)
                    /\ \A t \in touched' : Admitted(Named(stack'[1]).grants, t.eff, t.res)
  BY <1>0 DEF ScopeInv, Named
<1>1. /\ chapter' = chapter /\ sets' = sets /\ ChapterOK /\ RoundsInv /\ ~Refused
      /\ phase \in {"judged", "running"}
      /\ stack = <<>> => phase = "judged" /\ Start
      /\ stack # <<>> => phase = "running" /\ (Call \/ Allocate \/ Touch \/ Return \/ UNCHANGED <<stack, done, touched>>)
  BY RunStep
<1>2. ScopesAsked
  <2>1. Names' = Names /\ \A n : Named(n)' = Named(n)
    BY <1>1, SameChapter
  <2> QED
    BY <1>1, <2>1 DEF ScopesAsked, EffectsDeclared, PerformersApplied, Performer, OperationsKept, PortsNamed
<1>3. stack \in Seq(Names)
  BY DEF RunsInv
<1>4. CASE stack = <<>>
  <2>1. PICK d \in ToSet(chapter) : stack' = <<d.name>>
    BY <1>1, <1>4 DEF Start
  <2>2. touched' = {}
    BY <1>1, <1>4 DEF Start, RunsInv
  <2>3. \A i \in DOMAIN stack' : stack'[i] = stack'[1]
    BY <2>1
  <2> QED
    BY <2>2, <2>3 DEF Outer
<1>5. CASE stack # <<>>
  <2>1. Len(stack) \in DOMAIN stack /\ Last(stack) = stack[Len(stack)] /\ Last(stack) \in Names
    BY <1>3, <1>5, Pushed
  <2>2. stack'[1] = stack[1]
    BY <1>1, <1>3, <1>5, Pushed, Popped DEF Call, Allocate, Touch, Return
  <2>3. /\ \A i \in DOMAIN stack : Outer(Named(stack[1]).grants, Named(stack[i]).grants)
        /\ \A t \in touched : Admitted(Named(stack[1]).grants, t.eff, t.res)
    BY <1>2, <1>5 DEF ScopeInv
  <2>4. Outer(Named(stack[1]).grants, Named(Last(stack)).grants)
    BY <2>1, <2>3
  <2>5. CASE Call
    <3>1. PICK o \in DoesOf(Last(stack)) : o.kind = "call" /\ stack' = Append(stack, o.n)
      BY <2>5 DEF Call
    <3>2. Outer(Named(Last(stack)).grants, Named(o.n).grants)
      BY <1>1, <1>2, <2>1, <3>1, CallOuter
    <3>3. Outer(Named(stack[1]).grants, Named(o.n).grants)
      BY <2>4, <3>2 DEF Outer
    <3>4. touched' = touched
      BY <2>5 DEF Call
    <3>5. \A i \in DOMAIN stack' : stack'[i] = o.n \/ (i \in DOMAIN stack /\ stack'[i] = stack[i])
      BY <1>3, <1>5, <3>1, Pushed
    <3> QED
      BY <2>2, <2>3, <3>3, <3>4, <3>5
  <2>6. CASE Touch
    <3>1. stack' = stack
      BY <2>6 DEF Touch
    <3>2. PICK o \in DoesOf(Last(stack)) : o.kind = "touch" /\ touched' = touched \cup {[eff |-> o.eff, res |-> o.res]}
      BY <2>6 DEF Touch
    <3>3. o.eff \in Performed /\ o.res \in Scope /\ Admitted(Named(Last(stack)).grants, o.eff, o.res)
      BY <1>1, <1>2, <2>1, <3>2, TouchAdmitted
    <3>4. Admitted(Named(stack[1]).grants, o.eff, o.res)
      BY <2>4, <3>3 DEF Outer
    <3> QED
      BY <2>2, <2>3, <3>1, <3>2, <3>4
  <2>7. CASE Return
    <3>1. stack' = Front(stack) /\ touched' = touched
      BY <2>7 DEF Return
    <3>2. \A i \in DOMAIN stack' : i \in DOMAIN stack /\ stack'[i] = stack[i]
      BY <1>3, <1>5, <3>1, Popped
    <3> QED
      BY <2>2, <2>3, <3>1, <3>2
  <2>8. CASE Allocate \/ UNCHANGED <<stack, done, touched>>
    <3>1. stack' = stack /\ touched' = touched
      BY <2>8 DEF Allocate
    <3> QED
      BY <2>2, <2>3, <3>1
  <2> QED
    BY <1>1, <1>5, <2>5, <2>6, <2>7, <2>8
<1> QED
  BY <1>4, <1>5

\* Apart from the lists that `::` builds, a run of an accepted chapter allocates
\* no more than the definition it starts from declares (cost.rs,
\* check_bounded_decls); and it touches nothing outside the scopes that
\* definition's signature grants (effect_scope.rs), whatever it calls.
THEOREM Promised == Spec => []PromisesKept
<1>1. Init => RunsInv /\ CostInv /\ ScopeInv
  BY RunsInit DEF Init, CostInv, ScopeInv
<1>2. RunsInv /\ CostInv /\ ScopeInv /\ [Next]_vars => (RunsInv /\ CostInv /\ ScopeInv)'
  BY RunsNext, CostNext, ScopeNext
<1>3. RunsInv /\ CostInv /\ ScopeInv => PromisesKept
  <2> SUFFICES ASSUME RunsInv, CostInv, ScopeInv, stack # <<>>, Unshadowed, SafeIsBuiltin
               PROVE  CostKept(Named(stack[1])) /\ (ScopesAsked => ScopesKept(Named(stack[1])))
    BY DEF PromisesKept, ScopesAsked
  <2>1. CostKept(Named(stack[1]))
    BY DEF CostInv, CostKept, Classes, Allowed
  <2>2. ScopesAsked => ScopesKept(Named(stack[1]))
    BY DEF ScopeInv, ScopesKept, Admitted
  <2> QED
    BY <2>1, <2>2
<1> QED
  BY <1>1, <1>2, <1>3, PTL DEF Spec

-----------------------------------------------------------------------------
(***************************************************************************)
(* Punctual definitions.                                                   *)
(***************************************************************************)
Calls == CallsOf(chapter)

LEMMA PunctualFacts ==
  ASSUME ChapterOK
  PROVE  /\ Punctual \subseteq Names /\ IsFiniteSet(Punctual)
         /\ \A n \in Names : n \in Punctual <=> Named(n).punctual
         /\ DOMAIN Calls = Punctual
         /\ \A n \in Punctual : Calls[n] = (Mentioned(Named(n).body) \ {n}) \cap Punctual
<1>1. \A i \in DOMAIN chapter : chapter[i] \in ToSet(chapter)
  BY DEF ToSet
<1>2. Punctual \subseteq Names
  BY DEF Punctual, PunctualOf, Names, NamesOf
<1>3. ASSUME NEW n \in Names PROVE n \in Punctual <=> Named(n).punctual
  <2>1. Named(n) \in ToSet(chapter) /\ Named(n).name = n
    BY ChapterFacts
  <2>2. PICK i \in DOMAIN chapter : chapter[i] = Named(n)
    BY <2>1 DEF ToSet
  <2>3. Named(n).punctual => n \in Punctual
    BY <2>1, <2>2 DEF Punctual, PunctualOf
  <2>4. ASSUME n \in Punctual PROVE Named(n).punctual
    <3>1. PICK j \in DOMAIN chapter : chapter[j].punctual /\ chapter[j].name = n
      BY <2>4 DEF Punctual, PunctualOf
    <3>2. Named(n) = chapter[j]
      BY <1>1, <3>1, ChapterFacts
    <3> QED
      BY <3>1, <3>2
  <2> QED
    BY <2>3, <2>4
<1>4. IsFiniteSet(Punctual)
  BY <1>2, ChapterFacts, FS_Subset
<1> QED
  BY <1>2, <1>3, <1>4 DEF Calls, CallsOf, Punctual, Named

\* A set of punctual definitions that holds what its own call.
Complete(T) == T \subseteq Punctual /\ \A n \in T : Calls[n] \subseteq T

\* Where the search ends without the definition it is for, all that was found
\* is complete, and the definition is not in it.
Avoids(todo, visited, target) == \E T : todo \cup visited \subseteq T /\ Complete(T) /\ target \notin T

\* The definitions left to look at and those visited, between them, hold what the
\* latter call.
Searching(todo, visited, target) ==
  /\ todo \subseteq Punctual /\ visited \subseteq Punctual
  /\ \A n \in visited : Calls[n] \subseteq todo \cup visited
  /\ target \in Punctual /\ target \notin visited
  /\ ~Reaches(Calls, todo, visited, target)

\* What is left after one more.
Rest(todo, visited, cur) == (todo \ {cur}) \cup (IF cur \in visited THEN {} ELSE Calls[cur])

Onward(todo, visited, cur, target) ==
  /\ Searching(Rest(todo, visited, cur), visited \cup {cur}, target)
  /\ todo \cup visited \subseteq Rest(todo, visited, cur) \cup visited \cup {cur}

LEMMA SearchStep ==
  ASSUME ChapterOK, NEW todo, NEW visited, NEW target, Searching(todo, visited, target), todo # {}
  PROVE  \E cur \in todo : Onward(todo, visited, cur, target)
<1> DEFINE cur == CHOOSE n \in todo : TRUE
<1>1. cur \in todo
  OBVIOUS
<1>2. Calls \in UNION {{CallsOf(c) : c \in family} : family \in Chapters}
  BY DEF Calls, ChapterOK
<1>3. todo \in SUBSET DOMAIN Calls /\ visited \in SUBSET DOMAIN Calls /\ target \in DOMAIN Calls
  BY PunctualFacts DEF Searching
<1>4. ~ReachesBy(Calls, todo, visited, target)
  BY <1>2, <1>3, ReachesAssumption DEF Searching
<1>5. cur # target /\ ~Reaches(Calls, Rest(todo, visited, cur), visited \cup {cur}, target)
  BY <1>4 DEF ReachesBy, Rest
<1> HIDE DEF cur
<1>6. \A n \in Punctual : Calls[n] \subseteq Punctual
  BY PunctualFacts
<1>7. Searching(Rest(todo, visited, cur), visited \cup {cur}, target)
  BY <1>1, <1>5, <1>6 DEF Searching, Rest
<1>8. todo \cup visited \subseteq Rest(todo, visited, cur) \cup visited \cup {cur}
  BY DEF Rest
<1> QED
  BY <1>1, <1>7, <1>8 DEF Onward

\* How much there is to look at at most, and how much is left.
Unvisited(visited) == Cardinality(Punctual \ visited)

\* A search under way that does not avoid what it is for.
Astray(todo, visited, target) ==
  /\ todo \in SUBSET Punctual /\ visited \in SUBSET Punctual
  /\ Searching(todo, visited, target) /\ ~Avoids(todo, visited, target)

\* A step of such a search is one too, with less left to look at: fewer to visit,
\* or as many and fewer of them next.
LEMMA StepAstray ==
  ASSUME ChapterOK, NEW todo, NEW visited, NEW target, Astray(todo, visited, target)
  PROVE  \E rest, seen \in SUBSET Punctual :
           /\ Astray(rest, seen, target)
           /\ \/ Unvisited(seen) < Unvisited(visited)
              \/ Unvisited(seen) = Unvisited(visited) /\ Cardinality(rest) < Cardinality(todo)
<1>1. /\ todo \in SUBSET Punctual /\ visited \in SUBSET Punctual
      /\ Searching(todo, visited, target) /\ ~Avoids(todo, visited, target)
  BY DEF Astray
<1>2. \A S \in SUBSET Punctual : IsFiniteSet(S) /\ Cardinality(S) \in Nat
  BY PunctualFacts, FS_Subset, FS_CardinalityType
<1>3. todo # {}
  <2> SUFFICES ASSUME todo = {} PROVE Avoids(todo, visited, target)
    BY <1>1
  <2>1. Complete(visited) /\ target \notin visited
    BY <1>1 DEF Searching, Complete
  <2> QED
    BY <2>1 DEF Avoids
<1>4. PICK cur \in todo : Onward(todo, visited, cur, target)
  BY <1>1, <1>3, SearchStep
<1> DEFINE rest == Rest(todo, visited, cur)
           seen == visited \cup {cur}
<1>5. Searching(rest, seen, target) /\ todo \cup visited \subseteq rest \cup seen
  BY <1>4 DEF Onward
<1>6. rest \in SUBSET Punctual /\ seen \in SUBSET Punctual
  BY <1>5 DEF Searching
<1>7. ~Avoids(rest, seen, target)
  BY <1>1, <1>5 DEF Avoids
<1>8. Astray(rest, seen, target)
  BY <1>5, <1>6, <1>7 DEF Astray
<1>9. CASE cur \in visited
  <2>1. seen = visited /\ rest = todo \ {cur}
    BY <1>9 DEF Rest
  <2>2. IsFiniteSet(todo) /\ rest \subseteq todo /\ rest # todo /\ Cardinality(todo) \in Nat /\ Cardinality(rest) \in Nat
    BY <1>1, <1>2, <1>6, <2>1
  <2>3. Cardinality(rest) <= Cardinality(todo) /\ Cardinality(rest) # Cardinality(todo)
    BY <2>2, FS_Subset
  <2>4. Cardinality(rest) < Cardinality(todo) /\ Unvisited(seen) = Unvisited(visited)
    BY <2>1, <2>2, <2>3
  <2> HIDE DEF rest, seen
  <2> QED
    BY <1>6, <1>8, <2>4
<1>10. CASE cur \notin visited
  <2>1. Punctual \ seen \subseteq Punctual \ visited /\ Punctual \ seen # Punctual \ visited
    BY <1>1, <1>10
  <2>2. IsFiniteSet(Punctual \ visited) /\ Unvisited(seen) \in Nat /\ Unvisited(visited) \in Nat
    BY <1>2 DEF Unvisited
  <2>3. Unvisited(seen) <= Unvisited(visited) /\ Unvisited(seen) # Unvisited(visited)
    BY <2>1, <2>2, FS_Subset DEF Unvisited
  <2>4. Unvisited(seen) < Unvisited(visited)
    BY <2>2, <2>3
  <2> HIDE DEF rest, seen
  <2> QED
    BY <1>6, <1>8, <2>4
<1> QED
  BY <1>9, <1>10

LEMMA SearchAvoids ==
  ASSUME ChapterOK, NEW todo, NEW visited, NEW target, Searching(todo, visited, target)
  PROVE  Avoids(todo, visited, target)
<1> SUFFICES ASSUME Astray(todo, visited, target) PROVE FALSE
  BY DEF Astray, Searching
<1>1. \A S \in SUBSET Punctual : IsFiniteSet(S) /\ Cardinality(S) \in Nat /\ Unvisited(S) \in Nat
  BY PunctualFacts, FS_Subset, FS_CardinalityType DEF Unvisited
<1> DEFINE M == {k \in Nat : \E t, v \in SUBSET Punctual : Astray(t, v, target) /\ Unvisited(v) = k}
<1>2. M \in SUBSET Nat /\ M # {}
  BY <1>1 DEF Astray
<1>3. PICK m \in M : \A k \in M : m <= k
  <2> HIDE DEF M
  <2> QED
    BY <1>2, LeastNat
<1> DEFINE L == {k \in Nat : \E t, v \in SUBSET Punctual : Astray(t, v, target) /\ Unvisited(v) = m /\ Cardinality(t) = k}
<1>4. L \in SUBSET Nat /\ L # {}
  <2>1. PICK t, v \in SUBSET Punctual : Astray(t, v, target) /\ Unvisited(v) = m
    BY <1>3
  <2>2. Cardinality(t) \in L
    BY <1>1, <2>1
  <2> QED
    BY <2>2
<1>5. PICK l \in L : \A k \in L : l <= k
  <2> HIDE DEF L
  <2> QED
    BY <1>4, LeastNat
<1>6. PICK t, v \in SUBSET Punctual : Astray(t, v, target) /\ Unvisited(v) = m /\ Cardinality(t) = l
  BY <1>5
<1>7. PICK r, s \in SUBSET Punctual :
        /\ Astray(r, s, target)
        /\ \/ Unvisited(s) < Unvisited(v)
           \/ Unvisited(s) = Unvisited(v) /\ Cardinality(r) < Cardinality(t)
  BY <1>6, StepAstray
<1>8. Unvisited(s) \in M
  BY <1>1, <1>7
<1>9. Unvisited(s) = m => Cardinality(r) \in L
  BY <1>1, <1>7
<1>10. m <= Unvisited(s) /\ (Unvisited(s) = m => l <= Cardinality(r))
  BY <1>3, <1>5, <1>8, <1>9
<1> HIDE DEF M, L
<1> QED
  BY <1>1, <1>6, <1>7, <1>10

\* What is ahead of a punctual definition: what its calls lead to.
Ahead(n) == {m \in Punctual : \A T : Complete(T) /\ Calls[n] \subseteq T => m \in T}

\* One whose calls do not come back to it is not ahead of itself.
LEMMA NotAhead ==
  ASSUME ChapterOK, NEW n \in Punctual, ~Cyclic(Calls, n)
  PROVE  n \notin Ahead(n)
<1>1. Searching(Calls[n], {}, n)
  BY PunctualFacts DEF Searching, Cyclic
<1>2. PICK T : Calls[n] \subseteq T /\ Complete(T) /\ n \notin T
  BY <1>1, SearchAvoids DEF Avoids
<1> QED
  BY <1>2 DEF Ahead

\* What a definition calls is ahead of all that it is ahead of.
LEMMA AheadCalls ==
  ASSUME ChapterOK, NEW n \in Punctual, NEW m \in Calls[n]
  PROVE  m \in Ahead(n) /\ \A k \in Punctual : n \in Ahead(k) => m \in Ahead(k)
<1>1. m \in Punctual
  BY PunctualFacts
<1> QED
  BY <1>1 DEF Ahead, Complete

\* A punctual definition allocates nothing of itself.
LEMMA PunctualKeeps ==
  ASSUME ChapterOK, Unshadowed, SafeIsBuiltin,
         NEW d \in ToSet(chapter), ~AppliesLocalBuiltin(d.body, ToSet(d.params)), ~Unpunctual(d)
  PROVE  \A a \in Acts(d.body, ToSet(d.params)) : Keeps(a, "none")
<1> DEFINE Bad == {a \in Acts(d.body, ToSet(d.params)) : ~Keeps(a, "none")}
<1>1. ASSUME NEW p \in Sound(d) PROVE \A a \in OwnActs(p[1], p[2]) : Keeps(a, "none")
  <2> DEFINE e == p[1]
             l == p[2]
  <2>1. e \in Expr /\ e \in Nodes(d.body) /\ l \subseteq LocalsOf(d) /\ d.body \in Expr /\ Nodes(e) \subseteq Nodes(d.body)
    BY SoundInner, DefFacts, UnderExpr
  <2>2. ~HoldsLambda(d.body) /\ ~RtAllocates(d.body) /\ ~CallsUnsafe(d.body)
    BY DEF Unpunctual
  <2>3. CASE e.t = "NameRef"
    BY <2>3, MentionKeeps DEF OwnActs
  <2>4. CASE e.t = "Apply"
    <3>1. Head1(e).t # "Apply" /\ \E y \in Nodes(e) : y.t = "Apply" /\ y.xs[1] = Head1(e)
      BY <2>1, <2>4, SpineUnder DEF SpineIn
    <3>2. Head1(e).t = "NameRef" /\ Head1(e).n \in Punctual \cup RtSafe
      BY <2>1, <2>2, <3>1 DEF CallsUnsafe
    <3>3. Head1(e).n \in Mentioned(d.body)
      <4>1. Head1(e) \in Nodes(d.body)
        BY <2>1, SpineFacts
      <4> QED
        BY <3>2, <4>1 DEF Mentioned
    <3>4. Head1(e).n \in Names \/ (Head1(e).n \in RtSafe /\ Head1(e).n \in DOMAIN AllocClass)
      BY <3>2, <3>3, PunctualFacts DEF SafeIsBuiltin
    <3>5. Head1(e).n \notin l
      BY <2>1, <2>4, <3>2, <3>4, SoundInner DEF Unshadowed
    <3>6. OwnActs(e, l) = {Application(Head1(e).n, Args(e))}
      BY <2>4, <3>2, <3>5 DEF OwnActs
    <3>7. Keeps(Application(Head1(e).n, Args(e)), "none")
      <4> DEFINE n == Head1(e).n
      <4>1. CASE n \in Names
        BY <4>1 DEF Keeps, Outcomes, Application, CallTo
      <4>2. CASE n \notin Names
        <5>1. n \in RtSafe /\ n \in DOMAIN AllocClass
          BY <3>4, <4>2
        <5>2. n \notin DOMAIN ScopedOp /\ Class(n) = "none"
          BY <5>1, BuiltinsAssumption DEF Class
        <5>3. Uses(n, Args(e)) = {}
          BY <5>2 DEF Uses
        <5>4. Outcomes(Application(n, Args(e))) = Uses(n, Args(e))
          BY <4>2 DEF Outcomes, Application
        <5> QED
          BY <5>3, <5>4 DEF Keeps
      <4> QED
        BY <4>1, <4>2
    <3> QED
      BY <3>6, <3>7
  <2>5. CASE e.t \notin {"NameRef", "Apply"}
    <3>1. e.t \notin {"List", "Record", "Lambda"}
      BY <2>1, <2>2 DEF HoldsLambda, RtAllocates
    <3>2. e.t = "Binary" => e.n \in Logic \/ e.n[1] = "::"
      BY <2>1, <2>2, BuiltinsAssumption DEF RtAllocates
    <3>3. \A a \in OwnActs(e, l) : Keeps(a, "none")
      BY <2>5, <3>1, <3>2, ConsKeeps DEF OwnActs, OfOperator
    <3> QED
      BY <3>3
  <2> QED
    BY <2>3, <2>4, <2>5
<1>2. Sound(d) \in SUBSET (Expr \X SUBSET Local) /\ \A p \in Sound(d) : Inner(p[1], p[2]) \subseteq Sound(d)
  BY SoundInner
<1>3. \A p \in Sound(d) : OwnActs(p[1], p[2]) \cap Bad = {}
  BY <1>1
<1>4. \A p \in Sound(d) : Acts(p[1], p[2]) \cap Bad = {}
  <2> HIDE DEF Bad
  <2> QED
    BY <1>2, <1>3, ActsNone
<1>5. Acts(d.body, ToSet(d.params)) \cap Bad = {}
  BY <1>4, SoundBody
<1> QED
  BY <1>5

\* What is asked of a chapter with punctual definitions.
PunctualAsked == Unshadowed /\ SafeIsBuiltin /\ MentionsPunctual

\* In a run from a punctual definition the stack holds punctual definitions, each
\* ahead of all before it, and nothing was allocated but with `::`.
PunctualInv ==
  stack # <<>> /\ PunctualAsked /\ stack[1] \in Punctual =>
    /\ Counted = {}
    /\ \A i \in DOMAIN stack : stack[i] \in Punctual
    /\ \A i, j \in DOMAIN stack : i < j => stack[j] \in Ahead(stack[i])

LEMMA PunctualNext == RunsInv /\ PunctualInv /\ [Next]_vars => PunctualInv'
<1> SUFFICES ASSUME RunsInv, PunctualInv, [Next]_vars PROVE PunctualInv'
  OBVIOUS
<1>1. chapter' = chapter
  BY DEF Next, Seed, Round, Judge, Start, Call, Allocate, Touch, Return, vars
<1>2. Punctual' = Punctual /\ \A n : Ahead(n)' = Ahead(n)
  BY <1>1 DEF Punctual, Ahead, Complete, Calls
<1> SUFFICES ASSUME stack' # <<>>, PunctualAsked', stack'[1] \in Punctual
             PROVE  /\ Counted' = {}
                    /\ \A i \in DOMAIN stack' : stack'[i] \in Punctual
                    /\ \A i, j \in DOMAIN stack' : i < j => stack'[j] \in Ahead(stack'[i])
  BY <1>2 DEF PunctualInv
<1>3. /\ sets' = sets /\ ChapterOK /\ RoundsInv /\ ~Refused
      /\ phase \in {"judged", "running"}
      /\ stack = <<>> => phase = "judged" /\ Start
      /\ stack # <<>> => phase = "running" /\ (Call \/ Allocate \/ Touch \/ Return \/ UNCHANGED <<stack, done, touched>>)
  BY RunStep
<1>4. PunctualAsked
  <2>1. Names' = Names /\ (Unshadowed' <=> Unshadowed) /\ (SafeIsBuiltin' <=> SafeIsBuiltin)
    BY <1>1, SameChapter, SameVerdict
  <2> QED
    BY <1>1, <1>2, <2>1 DEF PunctualAsked, MentionsPunctual
<1>5. stack \in Seq(Names)
  BY DEF RunsInv
<1>6. CASE stack = <<>>
  <2>1. PICK d \in ToSet(chapter) : stack' = <<d.name>>
    BY <1>3, <1>6 DEF Start
  <2>2. Counted' = {}
    BY <1>3, <1>6 DEF Start, RunsInv, Counted
  <2>3. DOMAIN stack' = {1}
    BY <2>1
  <2> QED
    BY <2>2, <2>3
<1>7. CASE stack # <<>>
  <2>1. Len(stack) \in DOMAIN stack /\ Last(stack) = stack[Len(stack)] /\ Last(stack) \in Names /\ DOMAIN stack = 1 .. Len(stack) /\ Len(stack) \in Nat
    BY <1>5, <1>7, Pushed
  <2>2. stack'[1] = stack[1]
    BY <1>3, <1>5, <1>7, Pushed, Popped DEF Call, Allocate, Touch, Return
  <2>3. /\ Counted = {}
        /\ \A i \in DOMAIN stack : stack[i] \in Punctual
        /\ \A i, j \in DOMAIN stack : i < j => stack[j] \in Ahead(stack[i])
    BY <1>4, <1>7, <2>2 DEF PunctualInv
  <2> DEFINE top == Last(stack)
             d   == Named(top)
  <2>4. /\ top \in Punctual /\ d \in ToSet(chapter) /\ d.name = top
        /\ ~Unpunctual(d) /\ ~AppliesLocalBuiltin(d.body, ToSet(d.params)) /\ d.punctual
    <3>1. top \in Punctual
      BY <2>1, <2>3
    <3>2. d \in ToSet(chapter) /\ d.name = top
      BY <1>3, <2>1, ChapterFacts
    <3>3. d.punctual
      BY <1>3, <2>1, <3>1, PunctualFacts
    <3> QED
      BY <1>3, <3>1, <3>2, <3>3, AcceptedDef
  <2>5. CASE Call
    <3>1. PICK o \in DoesOf(top) : o.kind = "call" /\ stack' = Append(stack, o.n)
      BY <2>5 DEF Call
    <3>2. o.n \in Names /\ o.n \in Mentioned(d.body)
      BY <1>3, <2>1, <3>1, CallsMention
    <3>3. o.n \in Calls[top]
      <4>1. o.n \in Punctual
        BY <1>4, <2>4, <3>2 DEF PunctualAsked, MentionsPunctual
      <4>2. o.n # top
        BY <2>4, <3>2 DEF Unpunctual
      <4> QED
        BY <1>3, <2>4, <3>2, <4>1, <4>2, PunctualFacts
    <3>4. o.n \in Punctual /\ o.n \in Ahead(top) /\ \A k \in Punctual : top \in Ahead(k) => o.n \in Ahead(k)
      BY <1>3, <2>4, <3>3, AheadCalls, PunctualFacts
    <3>5. Counted' = Counted
      BY <2>5 DEF Call, Counted
    <3>6. /\ \A i \in DOMAIN stack : stack'[i] = stack[i]
          /\ \A i \in DOMAIN stack' : i \in DOMAIN stack \/ i = Len(stack) + 1
          /\ stack'[Len(stack) + 1] = o.n
      BY <1>5, <1>7, <3>1, Pushed
    <3>7. \A i \in DOMAIN stack : o.n \in Ahead(stack[i])
      <4> SUFFICES ASSUME NEW i \in DOMAIN stack PROVE o.n \in Ahead(stack[i])
        OBVIOUS
      <4>1. CASE i = Len(stack)
        BY <2>1, <3>4, <4>1
      <4>2. CASE i # Len(stack)
        <5>1. i < Len(stack)
          BY <2>1, <4>2
        <5>2. top \in Ahead(stack[i]) /\ stack[i] \in Punctual
          BY <2>1, <2>3, <5>1
        <5> QED
          BY <3>4, <5>2
      <4> QED
        BY <4>1, <4>2
    <3>8. \A i \in DOMAIN stack' : stack'[i] \in Punctual
      BY <2>3, <3>4, <3>6
    <3>9. ASSUME NEW i \in DOMAIN stack', NEW j \in DOMAIN stack', i < j PROVE stack'[j] \in Ahead(stack'[i])
      <4>1. i \in DOMAIN stack
        BY <2>1, <3>6, <3>9
      <4> QED
        BY <2>3, <3>6, <3>7, <3>9, <4>1
    <3> QED
      BY <2>3, <3>5, <3>8, <3>9
  <2>6. CASE Allocate
    <3>1. PICK o \in DoesOf(top) : o.kind \notin {"call", "touch"} /\ done' = done \cup {o.kind} /\ stack' = stack
      BY <2>6 DEF Allocate
    <3>2. PICK a \in Acts(d.body, ToSet(d.params)) : o \in Outcomes(a)
      BY <3>1, DoesFrom
    <3>3. Keeps(a, "none")
      BY <1>3, <1>4, <2>4, <3>2, PunctualKeeps DEF PunctualAsked
    <3>4. o.kind = "cons"
      BY <3>1, <3>2, <3>3 DEF Keeps, Allowed
    <3> QED
      BY <2>3, <3>1, <3>4 DEF Counted
  <2>7. CASE Return
    <3>1. stack' = Front(stack) /\ Counted' = Counted
      BY <2>7 DEF Return, Counted
    <3>2. \A i \in DOMAIN stack' : i \in DOMAIN stack /\ stack'[i] = stack[i]
      BY <1>5, <1>7, <3>1, Popped
    <3> QED
      BY <2>3, <3>1, <3>2
  <2>8. CASE Touch \/ UNCHANGED <<stack, done, touched>>
    <3>1. stack' = stack /\ Counted' = Counted
      BY <2>8 DEF Touch, Counted
    <3> QED
      BY <2>3, <3>1
  <2> HIDE DEF d, top
  <2> QED
    BY <1>3, <1>7, <2>5, <2>6, <2>7, <2>8
<1> QED
  BY <1>6, <1>7

\* A stack on which every definition is ahead of those before it holds none twice.
LEMMA StackBounded ==
  ASSUME RunsInv, ~Refused,
         \A i \in DOMAIN stack : stack[i] \in Punctual,
         \A i, j \in DOMAIN stack : i < j => stack[j] \in Ahead(stack[i])
  PROVE  Len(stack) <= Cardinality(Punctual)
<1>1. ChapterOK /\ stack \in Seq(Names)
  BY DEF RunsInv, RoundsInv
<1>2. Len(stack) \in Nat /\ DOMAIN stack = 1 .. Len(stack)
  BY <1>1
<1>3. ASSUME NEW n \in Punctual PROVE n \notin Ahead(n)
  <2>1. Named(n) \in ToSet(chapter) /\ Named(n).name = n /\ Named(n).punctual
    BY <1>1, PunctualFacts, ChapterFacts
  <2>2. ~Unpunctual(Named(n))
    BY <2>1, AcceptedDef
  <2>3. ~Cyclic(Calls, n)
    BY <2>1, <2>2 DEF Unpunctual, Calls
  <2> QED
    BY <1>1, <2>3, NotAhead
<1>4. ASSUME NEW i \in 1 .. Len(stack), NEW j \in 1 .. Len(stack), stack[i] = stack[j] PROVE i = j
  <2>1. CASE i < j
    BY <1>2, <1>3, <1>4, <2>1
  <2>2. CASE j < i
    BY <1>2, <1>3, <1>4, <2>2
  <2> QED
    BY <1>2, <2>1, <2>2
<1>5. stack \in [1 .. Len(stack) -> Punctual]
  BY <1>1, <1>2
<1>6. stack \in Injection(1 .. Len(stack), Punctual)
  BY <1>4, <1>5 DEF Injection, IsInjective
<1>7. IsFiniteSet(Punctual)
  BY <1>1, PunctualFacts
<1>8. Cardinality(1 .. Len(stack)) <= Cardinality(Punctual)
  BY <1>6, <1>7, FS_Injection
<1> QED
  BY <1>2, <1>8, FS_Interval

\* A run from a punctual definition calls no deeper than there are punctual
\* definitions, so it ends, and allocates nothing but lists with `::`
\* (punctual.rs).
THEOREM PunctualEnds == Spec => []PunctualRunsEnd
<1>1. Init => RunsInv /\ PunctualInv
  BY RunsInit DEF Init, PunctualInv
<1>2. RunsInv /\ PunctualInv /\ [Next]_vars => (RunsInv /\ PunctualInv)'
  BY RunsNext, PunctualNext
<1>3. RunsInv /\ PunctualInv => PunctualRunsEnd
  <2> SUFFICES ASSUME RunsInv, PunctualInv, phase = "running", stack # <<>>, PunctualAsked, Named(stack[1]).punctual
               PROVE  Counted = {} /\ Len(stack) <= Cardinality(Punctual)
    BY DEF PunctualRunsEnd, PunctualAsked
  <2>1. stack[1] \in Names /\ ChapterOK /\ ~Refused
    BY Pushed DEF RunsInv, RoundsInv
  <2>2. stack[1] \in Punctual
    BY <2>1, PunctualFacts
  <2> QED
    BY <2>1, <2>2, StackBounded DEF PunctualInv
<1> QED
  BY <1>1, <1>2, <1>3, PTL DEF Spec
=============================================================================
