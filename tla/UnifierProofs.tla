--------------------------- MODULE UnifierProofs ---------------------------
(***************************************************************************)
(* For every set of types, every number of variables and every order of    *)
(* calls: the slots of the unifier hold types, its rows resolve to an end  *)
(* and a mismatch inside an equality is reported; and until a bound        *)
(* variable is uncovered under `linear` its slots are written once, never  *)
(* in a circle, and what a call that answers true has unified is one type, *)
(* then and for good.                                                      *)
(*                                                                         *)
(* What holds of the slots in any case is Chains: a variable passed on to  *)
(* a variable is passed on to a lower one, and no slot holds a `linear`.   *)
(* So resolving a type ends whatever was written.  That a binding closes   *)
(* no circle rests besides on both sides of the pair being unbound where   *)
(* they are variables, which the match sees to except under `linear`.      *)
(*                                                                         *)
(* For the mismatches it is EqInv: `propeqDepth` counts the equalities on  *)
(* the stack, and a call that has failed inside one has left a code or two *)
(* rows refused without one.                                               *)
(*                                                                         *)
(* For the rows, and for the types of all four tables, it is UnifierInv:   *)
(* every row in a slot or in a call in progress has been minted, so the    *)
(* tail `unify_row` mints next is in no row yet.                           *)
(*                                                                         *)
(* For the types that are one it is AgreeInv, about every call in progress *)
(* and not the innermost alone: while nothing has failed in it or in those *)
(* inside it, its two types are one given the pairs still to come.         *)
(***************************************************************************)
EXTENDS Unifier, RowProofs, FiniteSetTheorems

AnyPair == TypePairs \cup RowPairs

-----------------------------------------------------------------------------
(***************************************************************************)
(* Reading the slots.                                                      *)
(***************************************************************************)

LEMMA WalkSuccTyped ==
  ASSUME NEW s \in [VarId -> Term]
  PROVE  WalkSucc(s) \in [VarId -> SUBSET VarId]
BY WalkedAssumption DEF WalkSucc

LEMMA VarSuccTyped ==
  ASSUME NEW s \in [VarId -> Term]
  PROVE  VarSucc(s) \in [VarId -> SUBSET VarId]
BY TermAssumption DEF VarSucc

\* A variable passed on to a variable is passed on to a lower one, and what a
\* slot holds was stripped of `linear`.
Chains(s) ==
  /\ Acyclic(VarSucc(s))
  /\ \A i \in VarId : s[i].tag # "Linear" /\ (s[i].tag = "Var" => s[i].num <= i)

\* Resolving a type ends, at a type that is not a bound variable.
LEMMA ResolveEnds ==
  ASSUME NEW s \in [VarId -> Term], Chains(s), NEW t \in Term
  PROVE  /\ Resolve(s, t) \in Term
         /\ t.tag # "Linear" => Resolve(s, t).tag # "Linear"
         /\ Resolve(s, t).tag = "Var" => Resolve(s, t).num \in VarId /\ Unbound(s, Resolve(s, t).num)
<1>1. CASE t.tag # "Var"
  BY <1>1 DEF Resolve
<1>2. CASE t.tag = "Var"
  <2> DEFINE succ == VarSucc(s)
             end  == CHOOSE e \in Reach(succ, {t.num}) : succ[e] = {}
  <2>1. t.num \in VarId
    BY <1>2, TermAssumption
  <2>2. \E e \in Reach(succ, {t.num}) : succ[e] = {}
    BY <2>1, VarSuccTyped, AcyclicEnds DEF Chains
  <2>3. end \in Reach(succ, {t.num}) /\ succ[end] = {}
    BY <2>2
  <2>4. end \in VarId
    BY <2>3 DEF Reach, VarSucc
  <2>5. Resolve(s, t) = s[end]
    BY <1>2 DEF Resolve
  <2>6. s[end] \in Term /\ s[end].tag # "Linear"
    BY <2>4 DEF Chains
  <2>7. s[end].tag = "Var" => s[end] = Var(end)
    BY <2>3, <2>4 DEF VarSucc, Unbound
  <2>8. Var(end).num = end
    BY DEF Var, Node
  <2> QED
    BY <2>4, <2>5, <2>6, <2>7, <2>8 DEF Unbound
<1> QED
  BY <1>1, <1>2

\* A type as the match sees it: resolved, and without `linear`.  A variable it
\* sees is unbound, unless `linear` covered it.
LEMMA StrippedEnds ==
  ASSUME NEW s \in [VarId -> Term], Chains(s), NEW t \in Term
  PROVE  LET r == Bare[Resolve(s, t)]
         IN  /\ r \in Term /\ r.tag # "Linear" /\ Bare[r] = r
             /\ r.tag = "Var" => r.num \in VarId /\ r = Var(r.num)
             /\ r.tag = "Var" /\ Resolve(s, t).tag # "Linear" => Unbound(s, r.num)
<1>1. /\ Resolve(s, t) \in Term
      /\ Resolve(s, t).tag = "Var" => Resolve(s, t).num \in VarId /\ Unbound(s, Resolve(s, t).num)
  BY ResolveEnds
<1>2. Bare[Resolve(s, t)] \in Term /\ Bare[Resolve(s, t)].tag # "Linear"
  BY <1>1, BareAssumption
<1>3. Bare[Bare[Resolve(s, t)]] = Bare[Resolve(s, t)]
  BY <1>2, BareAssumption
<1>4. Bare[Resolve(s, t)].tag = "Var" =>
        /\ Bare[Resolve(s, t)].num \in VarId
        /\ Bare[Resolve(s, t)] = Var(Bare[Resolve(s, t)].num)
  BY <1>2, TermAssumption
<1>5. Resolve(s, t).tag # "Linear" => Bare[Resolve(s, t)] = Resolve(s, t)
  BY <1>1, BareAssumption
<1> QED
  BY <1>1, <1>2, <1>3, <1>4, <1>5

-----------------------------------------------------------------------------
(***************************************************************************)
(* The calls in progress.                                                  *)
(***************************************************************************)

\* A frame as its arm makes it.
LEMMA FrameTyped ==
  ASSUME NEW kind \in FrameKind, NEW a \in Term, NEW b \in Term, NEW pairs \in Seq(AnyPair)
  PROVE  Frame(kind, a, b, pairs) \in Frames
BY DEF Frame, Frames, AnyPair

\* The pair at hand is one of the frame's pairs.
LEMMA GoalTyped ==
  ASSUME stack \in Seq(Frames), stack # <<>>, ~Done(Top)
  PROVE  /\ Top \in Frames /\ Top.rest # <<>> /\ Goal \in AnyPair
         /\ Goal.sort = "type" => Goal.l \in Term /\ Goal.r \in Term
<1>1. Len(stack) \in 1 .. Len(stack) /\ Top \in Frames
  BY DEF Top, Last
<1>2. Top.rest \in Seq(AnyPair) /\ Top.rest # <<>>
  BY <1>1 DEF Frames, AnyPair, Done
<1>3. Goal \in AnyPair
  BY <1>2 DEF Goal
<1>4. Goal.sort = "type" => Goal \in TypePairs
  BY <1>3 DEF AnyPair, RowPairs
<1>5. Goal.sort = "type" => Goal.l \in Term /\ Goal.r \in Term
  BY <1>4 DEF TypePairs
<1> QED
  BY <1>1, <1>2, <1>3, <1>5

LEMMA ContinueTyped ==
  ASSUME NEW calls \in Seq(Frames), calls # <<>>, NEW f \in Frames
  PROVE  Continue(calls, f) \in Seq(Frames)
BY DEF Continue

LEMMA AnswerTyped ==
  ASSUME stack \in Seq(Frames), stack # <<>>, ~Done(Top), NEW ok \in BOOLEAN, Answer(ok)
  PROVE  stack' \in Seq(Frames)
<1> DEFINE g == [Top EXCEPT !.rest = Tail(@), !.acc = @ /\ ok]
<1>1. Top \in Frames /\ Top.rest \in Seq(AnyPair) /\ Top.rest # <<>>
  BY GoalTyped DEF Frames, AnyPair
<1>2. Tail(Top.rest) \in Seq(AnyPair)
  BY <1>1
<1>3. g \in Frames
  BY <1>1, <1>2 DEF Frames, AnyPair
<1>4. stack' = Continue(stack, g)
  BY DEF Answer
<1> QED
  BY <1>3, <1>4, ContinueTyped

LEMMA DescendTyped ==
  ASSUME stack \in Seq(Frames), stack # <<>>, ~Done(Top),
         NEW kind \in FrameKind, NEW a \in Term, NEW b \in Term, NEW pairs \in Seq(AnyPair),
         Descend(kind, a, b, pairs)
  PROVE  stack' \in Seq(Frames)
<1> DEFINE g == [Top EXCEPT !.rest = Tail(@)]
<1>1. Top \in Frames /\ Top.rest \in Seq(AnyPair) /\ Top.rest # <<>>
  BY GoalTyped DEF Frames, AnyPair
<1>2. Tail(Top.rest) \in Seq(AnyPair)
  BY <1>1
<1>3. g \in Frames
  BY <1>1, <1>2 DEF Frames, AnyPair
<1>4. Continue(stack, g) \in Seq(Frames)
  BY <1>3, ContinueTyped
<1>5. Frame(kind, a, b, pairs) \in Frames
  BY FrameTyped
<1>6. stack' = Append(Continue(stack, g), Frame(kind, a, b, pairs))
  BY DEF Descend
<1> QED
  BY <1>4, <1>5, <1>6

LEMMA ReturnTyped ==
  ASSUME stack \in Seq(Frames), Return
  PROVE  stack' \in Seq(Frames)
<1> DEFINE outer == SubSeq(stack, 1, Len(stack) - 1)
           g     == [Last(outer) EXCEPT !.acc = @ /\ Top.acc]
<1>1. stack # <<>> /\ Len(stack) \in Nat \ {0}
  BY DEF Return, Returning
<1>2. outer \in Seq(Frames)
  BY <1>1
<1>3. CASE outer = <<>>
  BY <1>3 DEF Return, Returning
<1>4. CASE outer # <<>>
  <2>1. Last(outer) \in Frames /\ Top \in Frames
    BY <1>1, <1>2, <1>4 DEF Top, Last
  <2>2. g \in Frames
    BY <2>1 DEF Frames
  <2>3. stack' = Continue(outer, g)
    BY <1>4 DEF Return, Returning
  <2> QED
    BY <1>2, <1>4, <2>2, <2>3, ContinueTyped
<1> QED
  BY <1>3, <1>4

LEMMA TypePairTyped ==
  ASSUME NEW x \in Term, NEW y \in Term
  PROVE  TypePair(x, y) \in AnyPair
BY DEF TypePair, TypePairs, AnyPair

LEMMA PairsTyped ==
  ASSUME NEW xs \in Seq(Term), NEW ys \in Seq(Term), Len(xs) = Len(ys)
  PROVE  Pairs(xs, ys) \in Seq(AnyPair)
<1>1. \A k \in 1 .. Len(xs) : TypePair(xs[k], ys[k]) \in AnyPair
  BY TypePairTyped
<1> QED
  BY <1>1 DEF Pairs

-----------------------------------------------------------------------------
(***************************************************************************)
(* The arms.                                                               *)
(***************************************************************************)

\* What a step may do to the slots: nothing, or one binding the abstract array
\* allows.
Writes ==
  \/ subst' = subst
  \/ \E i \in VarId : \E t \in Term : Slots!Bind(i, t)

\* The unifier reads its slots as the abstract array does.
LEMMA SameReading ==
  Slots!Succ(subst) = WalkSucc(subst)
BY DEF Slots!Succ, Slots!IsBlank, WalkSucc, Unbound

LEMMA SameReach ==
  ASSUME NEW succ, NEW from
  PROVE  Slots!Reach(succ, from) = Reach(succ, from)
BY DEF Slots!Reach, Reach, Slots!Closed, Closed

\* A binding that keeps the occurs check's promise is one of the abstract array.
LEMMA BindIsBind ==
  ASSUME NEW i \in VarId, NEW t \in Term, Unbound(subst, i), t # Var(i),
         i \notin Reach(WalkSucc(subst), Walked[t]), BindVar(i, t)
  PROVE  Slots!Bind(i, t)
BY SameReading, SameReach DEF Slots!Bind, Slots!IsBlank, Unbound, BindVar

\* Two unbound variables: the one bound to is at its own end.
LEMMA VariableBind ==
  ASSUME subst \in [VarId -> Term], NEW i \in VarId, NEW j \in VarId, i # j,
         Unbound(subst, i), Unbound(subst, j), BindVar(i, Var(j))
  PROVE  Slots!Bind(i, Var(j))
<1>1. Var(j) \in Term /\ Var(j).tag = "Var" /\ Var(j).num = j /\ Var(i).num = i
  BY TermAssumption DEF Var, Node
<1>2. Walked[Var(j)] = {j}
  BY <1>1, WalkedAssumption
<1>3. Closed(WalkSucc(subst), {j}) /\ {j} \in SUBSET DOMAIN WalkSucc(subst)
  BY DEF Closed, WalkSucc
<1>4. Reach(WalkSucc(subst), {j}) \subseteq {j}
  BY <1>3, ReachLeast
<1> QED
  BY <1>1, <1>2, <1>4, BindIsBind

\* A variable meets a type that is none: the occurs check decides.
LEMMA CheckedBind ==
  ASSUME NEW v \in Term, NEW t \in Term, v.num \in VarId, Unbound(subst, v.num),
         t.tag # "Var", BindOrRefuse(v, t)
  PROVE  Writes
<1>1. CASE OccursIn(subst, v.num, t)
  BY <1>1 DEF BindOrRefuse, Writes
<1>2. CASE ~OccursIn(subst, v.num, t)
  <2>1. BindVar(v.num, t)
    BY <1>2 DEF BindOrRefuse
  <2>2. v.num \notin Reach(WalkSucc(subst), Walked[t])
    BY <1>2 DEF OccursIn
  <2>3. t # Var(v.num)
    BY DEF Var, Node
  <2> QED
    BY <2>1, <2>2, <2>3, BindIsBind DEF Writes
<1> QED
  BY <1>1, <1>2

\* What is kept of the slots whatever is written.
SlotsInv == SlotsOK /\ Chains(subst)

\* The two sides of the pair at hand.
LEMMA SidesTyped ==
  ASSUME SlotsInv, AtTypes
  PROVE  /\ Goal.l \in Term /\ Goal.r \in Term
         /\ Left \in Term /\ Left.tag # "Linear" /\ Bare[Left] = Left
         /\ Left.tag = "Var" => Left.num \in VarId /\ Left = Var(Left.num)
         /\ Right \in Term /\ Right.tag # "Linear" /\ Bare[Right] = Right
         /\ Right.tag = "Var" => Right.num \in VarId /\ Right = Var(Right.num)
<1>1. Goal.l \in Term /\ Goal.r \in Term
  BY GoalTyped DEF AtTypes, SlotsInv, SlotsOK
<1> QED
  BY <1>1, StrippedEnds DEF SlotsInv, SlotsOK, Left, Right

\* Where nothing was uncovered, a side that is a variable is unbound.
LEMMA SidesUnbound ==
  ASSUME SlotsInv, AtTypes, ~Uncovering
  PROVE  /\ Left.tag = "Var" => Unbound(subst, Left.num)
         /\ Right.tag = "Var" => Unbound(subst, Right.num)
<1>1. AtTypes /\ ~Uncovers(Goal.l) /\ ~Uncovers(Goal.r)
  BY DEF Uncovering
<1>2. Goal.l \in Term /\ Goal.r \in Term
  BY <1>1, SidesTyped
<1>3. Left.tag = "Var" => Unbound(subst, Left.num)
  BY <1>1, <1>2, StrippedEnds DEF SlotsInv, SlotsOK, Left, Uncovers
<1>4. Right.tag = "Var" => Unbound(subst, Right.num)
  BY <1>1, <1>2, StrippedEnds DEF SlotsInv, SlotsOK, Right, Uncovers
<1> QED
  BY <1>3, <1>4

\* The arms that do not bind leave the slots.
LEMMA ArmLeaves ==
  ASSUME NEW a, NEW b, Arm(a, b), ~BindVariables(a, b), ~BindVariable(a, b)
  PROVE  subst' = subst
BY DEF Arm, AbsorbError, SameVariable, UnifyFun, UnifyElement, UnifyNamed, UnifyMask,
       UnifyApply, PeelApply, MeetBareName, UnifyPropEq, SeeThrough, MeetOrConflict

\* Nothing is forgotten of what was uncovered, and only the arms write slots.
LEMMA OtherSteps ==
  ASSUME [Next]_vars
  PROVE  /\ ~uncovered' => ~uncovered /\ (UnifyStep => ~Uncovering)
         /\ ~UnifyStep => subst' = subst /\ uncovered' = uncovered
<1>1. CASE UnifyStep
  BY <1>1 DEF UnifyStep
<1>2. CASE ~UnifyStep
  <2>1. CASE \E x, y \in Operand : Unify(x, y)
    BY <1>2, <2>1 DEF Unify, Begin
  <2>2. CASE UnifyFunRow
    BY <1>2, <2>2 DEF UnifyFunRow
  <2>3. CASE Return
    BY <1>2, <2>3 DEF Return
  <2>4. CASE Fresh \/ FreshRow \/ UNCHANGED vars
    BY <1>2, <2>4 DEF Fresh, FreshRow, vars
  <2> QED
    BY <1>2, <2>1, <2>2, <2>3, <2>4 DEF Next, Step
<1> QED
  BY <1>1, <1>2

\* Every step that uncovers no bound variable either leaves the slots or binds one
\* as the abstract array does.
LEMMA StepWrites ==
  ASSUME SlotsInv, [Next]_vars, UnifyStep => ~Uncovering
  PROVE  Writes
<1> USE DEF SlotsInv, SlotsOK
<1>1. ASSUME UnifyStep, BindVariables(Left, Right)
      PROVE  Writes
  <2>1. /\ Left.num \in VarId /\ Left = Var(Left.num) /\ Unbound(subst, Left.num)
        /\ Right.num \in VarId /\ Right = Var(Right.num) /\ Unbound(subst, Right.num)
    BY <1>1, SidesTyped, SidesUnbound DEF UnifyStep, BindVariables, SameHead
  <2>2. CASE Left.num < Right.num /\ BindVar(Right.num, Left)
    BY <2>1, <2>2, VariableBind, TermAssumption DEF Writes, VarId
  <2>3. CASE Left.num > Right.num /\ BindVar(Left.num, Right)
    BY <2>1, <2>3, VariableBind, TermAssumption DEF Writes, VarId
  <2> QED
    BY <1>1, <2>2, <2>3 DEF BindVariables
<1>2. ASSUME UnifyStep, BindVariable(Left, Right)
      PROVE  Writes
  <2>1. /\ Left \in Term /\ Right \in Term
        /\ Left.tag = "Var" => Left.num \in VarId /\ Unbound(subst, Left.num)
        /\ Right.tag = "Var" => Right.num \in VarId /\ Unbound(subst, Right.num)
    BY <1>2, SidesTyped, SidesUnbound DEF UnifyStep
  <2>2. CASE Left.tag = "Var" /\ BindOrRefuse(Left, Right)
    BY <1>2, <2>1, <2>2, CheckedBind DEF BindVariable, SameHead
  <2>3. CASE Right.tag = "Var" /\ BindOrRefuse(Right, Left)
    BY <1>2, <2>1, <2>3, CheckedBind DEF BindVariable, SameHead
  <2> QED
    BY <1>2, <2>2, <2>3 DEF BindVariable
<1>3. CASE UnifyStep
  BY <1>1, <1>2, <1>3, ArmLeaves DEF UnifyStep, Writes
<1>4. CASE ~UnifyStep
  BY <1>4, OtherSteps DEF Writes
<1> QED
  BY <1>3, <1>4

LEMMA RefusedOrBound ==
  ASSUME NEW v, NEW t, BindOrRefuse(v, t)
  PROVE  subst' = subst \/ BindVar(v.num, t)
<1>1. CASE OccursIn(subst, v.num, t)
  BY <1>1 DEF BindOrRefuse
<1>2. CASE ~OccursIn(subst, v.num, t)
  BY <1>2 DEF BindOrRefuse
<1> QED
  BY <1>1, <1>2

\* In any case a slot is written with a type that is no `linear`, or with a lower
\* variable.
Sinks ==
  \/ subst' = subst
  \/ \E i \in VarId : \E t \in Term :
       /\ subst' = [subst EXCEPT ![i] = t]
       /\ t.tag # "Linear"
       /\ t.tag = "Var" => t.num < i

LEMMA StepSinks ==
  ASSUME SlotsInv, [Next]_vars
  PROVE  Sinks
<1>1. ASSUME AtTypes, BindVariables(Left, Right)
      PROVE  Sinks
  <2>1. /\ Left \in Term /\ Left.num \in VarId /\ Left.tag # "Linear"
        /\ Right \in Term /\ Right.num \in VarId /\ Right.tag # "Linear"
    BY <1>1, SidesTyped DEF BindVariables, SameHead
  <2> QED
    BY <1>1, <2>1 DEF BindVariables, BindVar, Sinks, VarId
<1>2. ASSUME AtTypes, BindVariable(Left, Right)
      PROVE  Sinks
  <2>1. /\ Left \in Term /\ Left.tag # "Linear" /\ (Left.tag = "Var" => Left.num \in VarId)
        /\ Right \in Term /\ Right.tag # "Linear" /\ (Right.tag = "Var" => Right.num \in VarId)
    BY <1>2, SidesTyped
  <2>2. ~(Left.tag = "Var" /\ Right.tag = "Var")
    BY <1>2 DEF BindVariable, SameHead
  <2>3. ASSUME NEW v, NEW t, BindOrRefuse(v, t)
        PROVE  subst' = subst \/ BindVar(v.num, t)
    BY <2>3, RefusedOrBound
  <2>4. CASE Left.tag = "Var" /\ BindOrRefuse(Left, Right)
    BY <2>1, <2>2, <2>3, <2>4 DEF BindVar, Sinks
  <2>5. CASE Right.tag = "Var" /\ BindOrRefuse(Right, Left)
    BY <2>1, <2>2, <2>3, <2>5 DEF BindVar, Sinks
  <2> QED
    BY <1>2, <2>4, <2>5 DEF BindVariable
<1>3. CASE UnifyStep
  BY <1>1, <1>2, <1>3, ArmLeaves DEF UnifyStep, Sinks
<1>4. CASE ~UnifyStep
  BY <1>4, OtherSteps DEF Sinks
<1> QED
  BY <1>3, <1>4

\* Such a write leaves the chains of variables falling.
LEMMA ChainsFall ==
  ASSUME NEW s \in [VarId -> Term], Chains(s), NEW i \in VarId, NEW t \in Term,
         t.tag # "Linear", t.tag = "Var" => t.num < i
  PROVE  Chains([s EXCEPT ![i] = t])
<1> DEFINE new  == [s EXCEPT ![i] = t]
           old  == VarSucc(s)
           succ == VarSucc(new)
<1>1. new[i] = t /\ \A j \in VarId : j # i => new[j] = s[j]
  OBVIOUS
<1>2. \A j \in VarId : new[j].tag # "Linear" /\ (new[j].tag = "Var" => new[j].num <= j)
  <2>1. t.tag = "Var" => t.num \in VarId
    BY TermAssumption
  <2>2. t.tag = "Var" => t.num <= i
    BY <2>1 DEF VarId
  <2> QED
    BY <1>1, <2>2 DEF Chains
<1>3. DOMAIN succ = VarId /\ DOMAIN old = VarId
  BY DEF VarSucc
<1>4. \A j \in VarId : j # i => succ[j] = old[j]
  BY <1>1 DEF VarSucc, Unbound
<1>5. \A n \in succ[i] : n < i
  BY <1>1 DEF VarSucc
<1>6. \A j \in VarId : \A n \in old[j] : n < j
  <2> SUFFICES ASSUME NEW j \in VarId, NEW n \in old[j] PROVE n < j
    OBVIOUS
  <2>1. s[j].tag = "Var" /\ n = s[j].num /\ s[j] # Var(j)
    BY DEF VarSucc, Unbound
  <2>2. n \in VarId /\ s[j] = Var(n)
    BY <2>1, TermAssumption
  <2>3. n <= j /\ n # j
    BY <2>1, <2>2 DEF Chains
  <2> QED
    BY <2>2, <2>3 DEF VarId
<1> HIDE DEF new
<1>7. Acyclic(succ)
  <2> HIDE DEF succ, old
  <2> SUFFICES ASSUME NEW S \in SUBSET VarId, S # {}
               PROVE  \E n \in S : succ[n] \cap S = {}
    BY <1>3 DEF Acyclic
  <2>0. Acyclic(old)
    BY DEF Chains, old
  <2>1. PICK n \in S : old[n] \cap S = {}
    BY <1>3, <2>0 DEF Acyclic
  <2>2. CASE n # i
    BY <1>4, <2>1, <2>2
  <2>3. CASE n = i
    <3> DEFINE Low == {j \in S : j < i}
    <3>1. CASE Low = {}
      <4>1. succ[i] \cap S = {}
        BY <1>5, <3>1
      <4> QED
        BY <2>3, <4>1
    <3>2. CASE Low # {}
      <4>1. Low \in SUBSET VarId
        OBVIOUS
      <4> HIDE DEF Low
      <4>2. PICK m \in Low : old[m] \cap Low = {}
        BY <1>3, <2>0, <3>2, <4>1 DEF Acyclic
      <4>3. m \in S /\ m \in VarId /\ m < i /\ m # i
        BY DEF Low, VarId
      <4>4. \A j \in old[m] \cap S : j \in Low
        <5> SUFFICES ASSUME NEW j \in old[m], j \in S PROVE j \in Low
          OBVIOUS
        <5>1. j < m /\ j \in VarId
          BY <1>6, <4>3
        <5>2. j < i
          BY <4>3, <5>1 DEF VarId
        <5> QED
          BY <5>2 DEF Low
      <4>5. succ[m] \cap S = {}
        BY <1>4, <4>2, <4>3, <4>4
      <4> QED
        BY <4>3, <4>5
    <3> QED
      BY <3>1, <3>2
  <2> QED
    BY <2>2, <2>3
<1> QED
  BY <1>2, <1>7 DEF Chains, new

-----------------------------------------------------------------------------
(***************************************************************************)
(* Steps keep the invariant.                                               *)
(***************************************************************************)

\* The pairs a type application is taken apart into.
LEMMA PeelPairs ==
  ASSUME NEW app \in Term, NEW t \in Term, Peels(app, t)
  PROVE  <<TypePair(app.args[1], PeeledHead(t)), TypePair(app.args[2], Last(t.args))>> \in Seq(AnyPair)
<1> DEFINE head == PeeledHead(t)
<1>1. t.args \in Seq(Term) /\ t.args # <<>>
  <2>1. CASE t.tag \in Listish
    BY <2>1, TermAssumption DEF OneArg
  <2>2. CASE t.tag \notin Listish
    BY <2>2, TermAssumption DEF Peels
  <2> QED
    BY <2>1, <2>2
<1>2. Last(t.args) \in Term
  BY <1>1 DEF Last
<1>3. head \in Term
  <2>1. CASE t.tag = "List"
    BY <2>1, TermAssumption DEF PeeledHead
  <2>2. CASE t.tag = "LinkedList"
    BY <2>2, TermAssumption DEF PeeledHead
  <2>3. CASE t.tag \notin Listish
    <3>1. PeelHead(t) \in Term
      BY <2>3, TermAssumption DEF Peels
    <3> QED
      BY <2>3, <3>1 DEF Listish, PeeledHead
  <2> QED
    BY <2>1, <2>2, <2>3 DEF Listish
<1>4. app.args[1] \in Term /\ app.args[2] \in Term
  BY TermAssumption DEF Peels, TwoArg
<1>5. <<TypePair(app.args[1], head), TypePair(app.args[2], Last(t.args))>> \in Seq(AnyPair)
  BY <1>2, <1>3, <1>4, TypePairTyped
<1> QED
  BY <1>5

LEMMA PeelTyped ==
  ASSUME stack \in Seq(Frames), stack # <<>>, ~Done(Top), NEW app \in Term, NEW t \in Term,
         Peels(app, t), PeelArgument(app, t)
  PROVE  stack' \in Seq(Frames)
BY PeelPairs, DescendTyped DEF PeelArgument, FrameKind

\* The subtypes of a type.
LEMMA ArgsTyped ==
  ASSUME NEW t \in Term
  PROVE  /\ t.args \in Seq(Term)
         /\ t.tag \in OneArg => Len(t.args) = 1 /\ 1 \in DOMAIN t.args /\ t.args[1] \in Term
         /\ t.tag \in TwoArg => /\ Len(t.args) = 2 /\ 1 \in DOMAIN t.args /\ 2 \in DOMAIN t.args
                                /\ t.args[1] \in Term /\ t.args[2] \in Term
<1>1. /\ t.args \in Seq(Term)
      /\ t.tag \in OneArg => Len(t.args) = 1
      /\ t.tag \in TwoArg => Len(t.args) = 2
  BY TermAssumption
<1>2. \A k \in 1 .. Len(t.args) : k \in DOMAIN t.args /\ t.args[k] \in Term
  BY <1>1
<1> QED
  BY <1>1, <1>2

\* Whatever arm is taken, the calls in progress hold types in play.
LEMMA ArmTyped ==
  ASSUME stack \in Seq(Frames), stack # <<>>, ~Done(Top),
         NEW a \in Term, NEW b \in Term, Arm(a, b)
  PROVE  stack' \in Seq(Frames)
<1> USE DEF FrameKind
<1>1. /\ a.args \in Seq(Term) /\ b.args \in Seq(Term)
      /\ a.tag \in OneArg => Len(a.args) = 1 /\ a.args[1] \in Term
      /\ b.tag \in OneArg => Len(b.args) = 1 /\ b.args[1] \in Term
      /\ a.tag \in TwoArg => Len(a.args) = 2 /\ a.args[1] \in Term /\ a.args[2] \in Term
      /\ b.tag \in TwoArg => Len(b.args) = 2 /\ b.args[1] \in Term /\ b.args[2] \in Term
  BY ArgsTyped
<1>2. CASE \E ok \in BOOLEAN : Answer(ok)
  BY <1>2, AnswerTyped
<1>3. ASSUME NEW kind \in FrameKind, Len(a.args) = Len(b.args),
             Descend(kind, a, b, Pairs(a.args, b.args))
      PROVE  stack' \in Seq(Frames)
  BY <1>1, <1>3, PairsTyped, DescendTyped
<1>4. CASE AbsorbError(a, b) \/ SameVariable(a, b) \/ BindVariables(a, b) \/ MeetBareName(a, b)
  <2>1. Answer(TRUE)
    BY <1>4 DEF AbsorbError, SameVariable, BindVariables, MeetBareName
  <2> QED
    BY <1>2, <2>1
<1>5. CASE BindVariable(a, b)
  <2>1. Answer(TRUE) \/ Answer(FALSE)
    BY <1>5 DEF BindVariable, BindOrRefuse, Answer
  <2> QED
    BY <1>2, <2>1
<1>6. CASE UnifyFun(a, b)
  <2>1. a.tag \in TwoArg /\ b.tag \in TwoArg /\ a.row \in Row(RowId) /\ b.row \in Row(RowId)
    BY <1>6, TermAssumption DEF UnifyFun, SameHead, TwoArg
  <2>2. RowPair(a.row, b.row) \in AnyPair
    BY <2>1 DEF RowPair, RowPairs, AnyPair
  <2>3. <<TypePair(a.args[1], b.args[1]), RowPair(a.row, b.row),
          TypePair(a.args[2], b.args[2])>> \in Seq(AnyPair)
    BY <1>1, <2>1, <2>2, TypePairTyped
  <2> QED
    BY <1>6, <2>3, DescendTyped DEF UnifyFun
<1>7. CASE UnifyElement(a, b)
  <2>1. a.tag \in OneArg /\ b.tag \in OneArg
    BY <1>7 DEF UnifyElement, Elementwise, SameHead, OneArg
  <2> QED
    BY <1>1, <1>3, <1>7, <2>1 DEF UnifyElement
<1>8. CASE UnifyNamed(a, b)
  <2>1. CASE Len(a.args) = Len(b.args)
    <3>1. Descend("Seq", a, b, Pairs(a.args, b.args))
      BY <1>8, <2>1 DEF UnifyNamed
    <3> QED
      BY <1>3, <2>1, <3>1
  <2>2. CASE Len(a.args) # Len(b.args)
    <3>1. Answer(FALSE)
      BY <1>8, <2>2 DEF UnifyNamed, Answer, Descend
    <3> QED
      BY <1>2, <3>1
  <2> QED
    BY <2>1, <2>2
<1>9. CASE UnifyMask(a, b)
  <2>1. a.tag \in OneArg /\ b.tag \in OneArg
    BY <1>9 DEF UnifyMask, SameMask, SameHead, OneArg
  <2> QED
    BY <1>1, <1>3, <1>9, <2>1 DEF UnifyMask
<1>10. CASE UnifyApply(a, b) \/ UnifyPropEq(a, b)
  <2>1. a.tag \in TwoArg /\ b.tag \in TwoArg
    BY <1>10 DEF UnifyApply, UnifyPropEq, SameHead, TwoArg
  <2> QED
    BY <1>1, <1>3, <1>10, <2>1 DEF UnifyApply, UnifyPropEq
<1>11. CASE PeelApply(a, b)
  BY <1>11, PeelTyped DEF PeelApply
<1>12. CASE SeeThrough(a, b)
  <2>1. CASE a.tag \in Quantified
    <3>1. <<TypePair(a.args[1], b)>> \in Seq(AnyPair)
      BY <1>1, <2>1, TypePairTyped DEF OneArg
    <3> QED
      BY <1>12, <2>1, <3>1, DescendTyped DEF SeeThrough
  <2>2. CASE a.tag \notin Quantified
    <3>1. <<TypePair(a, b.args[1])>> \in Seq(AnyPair)
      BY <1>1, <1>12, <2>2, TypePairTyped DEF OneArg, SeeThrough, Transparent
    <3> QED
      BY <1>12, <2>2, <3>1, DescendTyped DEF SeeThrough
  <2> QED
    BY <2>1, <2>2
<1>13. CASE MeetOrConflict(a, b)
  BY <1>2, <1>13 DEF MeetOrConflict
<1> QED
  BY <1>4, <1>5, <1>6, <1>7, <1>8, <1>9, <1>10, <1>11, <1>12, <1>13 DEF Arm

LEMMA UnifyRowAnswers ==
  ASSUME NEW rs, NEW next, NEW r1, NEW r2
  PROVE  UnifyRow(rs, next, r1, r2).ok \in BOOLEAN
BY DEF UnifyRow, UnifyResolved, UnifyOpen, Agreed, Refused

\* A step keeps the calls in progress well formed.
LEMMA StepCalls ==
  ASSUME SlotsInv, [Next]_vars
  PROVE  stack' \in Seq(Frames)
<1> USE DEF SlotsInv, SlotsOK
<1>1. CASE UnifyStep
  <2>1. stack # <<>> /\ ~Done(Top) /\ Arm(Left, Right)
    BY <1>1 DEF UnifyStep, AtTypes
  <2>2. Left \in Term /\ Right \in Term
    BY <1>1, SidesTyped DEF UnifyStep
  <2> QED
    BY <2>1, <2>2, ArmTyped
<1>2. CASE UnifyFunRow
  <2>1. PICK u : u.ok \in BOOLEAN /\ Answer(u.ok)
    <3> DEFINE u == UnifyRow(rowSubst, nextRow, Goal.l, Goal.r)
    <3>1. u.ok \in BOOLEAN
      BY UnifyRowAnswers
    <3>2. Answer(u.ok)
      BY <1>2 DEF UnifyFunRow
    <3> QED
      BY <3>1, <3>2
  <2> QED
    BY <1>2, <2>1, AnswerTyped DEF UnifyFunRow, AtRows
<1>3. CASE Return
  BY <1>3, ReturnTyped
<1>4. CASE \E x, y \in Operand : Unify(x, y)
  <2>1. PICK x \in Operand, y \in Operand : Unify(x, y)
    BY <1>4
  <2>2. x \in Term /\ y \in Term
    BY TermAssumption
  <2>3. <<TypePair(x, y)>> \in Seq(AnyPair)
    BY <2>2, TypePairTyped
  <2>4. Frame("Top", x, y, <<TypePair(x, y)>>) \in Frames
    BY <2>2, <2>3, FrameTyped DEF FrameKind
  <2> QED
    BY <2>1, <2>4 DEF Unify, Begin
<1>5. CASE Fresh \/ FreshRow \/ UNCHANGED vars
  BY <1>5 DEF Fresh, FreshRow, vars
<1> QED
  BY <1>1, <1>2, <1>3, <1>4, <1>5 DEF Next, Step

LEMMA InitSlots == Init => SlotsInv /\ NoWalkedCycle
<1> SUFFICES ASSUME Init PROVE SlotsInv /\ NoWalkedCycle
  OBVIOUS
<1>1. SlotsOK
  BY TermAssumption DEF Init, SlotsOK
<1>2. \A i \in VarId : Unbound(subst, i) /\ subst[i].tag = "Var" /\ subst[i].num = i
  BY DEF Init, Unbound, Var, Node
<1>3. \A i \in VarId : WalkSucc(subst)[i] = {} /\ VarSucc(subst)[i] = {}
  BY <1>2 DEF WalkSucc, VarSucc
<1>4. Acyclic(WalkSucc(subst)) /\ Acyclic(VarSucc(subst))
  BY <1>3 DEF Acyclic, WalkSucc, VarSucc
<1>5. Chains(subst)
  BY <1>2, <1>4 DEF Chains, VarId
<1> QED
  BY <1>1, <1>4, <1>5 DEF SlotsInv, NoWalkedCycle

\* Whatever is unified with what, the slots and the calls stay well formed.
LEMMA NextSlots ==
  ASSUME SlotsInv, [Next]_vars
  PROVE  SlotsInv'
<1>1. stack' \in Seq(Frames)
  BY StepCalls
<1>2. CASE subst' = subst
  BY <1>1, <1>2 DEF SlotsInv, SlotsOK
<1>3. ASSUME NEW i \in VarId, NEW t \in Term, subst' = [subst EXCEPT ![i] = t],
             t.tag # "Linear", t.tag = "Var" => t.num < i
      PROVE  SlotsInv'
  <2>1. subst \in [VarId -> Term] /\ Chains(subst)
    BY DEF SlotsInv, SlotsOK
  <2>2. Chains([subst EXCEPT ![i] = t])
    BY <1>3, <2>1, ChainsFall
  <2>3. subst' \in [VarId -> Term] /\ Chains(subst')
    BY <1>3, <2>1, <2>2
  <2> QED
    BY <1>1, <2>3 DEF SlotsInv, SlotsOK
<1> QED
  BY <1>2, <1>3, StepSinks DEF Sinks

\* A binding of the abstract array closes no circle.
LEMMA BindKeeps ==
  ASSUME SlotsOK, Acyclic(WalkSucc(subst)), NEW i \in VarId, NEW t \in Term, Slots!Bind(i, t)
  PROVE  Acyclic(WalkSucc(subst'))
<1> USE DEF SlotsOK
<1>1. subst' = [subst EXCEPT ![i] = t] /\ t # Var(i)
  BY DEF Slots!Bind
<1>2. i \notin Reach(WalkSucc(subst), Walked[t])
  BY SameReading, SameReach DEF Slots!Bind
<1>3. Walked[t] \in SUBSET VarId /\ WalkSucc(subst) \in [VarId -> SUBSET VarId]
  BY WalkedAssumption, WalkSuccTyped
<1>4. Acyclic([WalkSucc(subst) EXCEPT ![i] = Walked[t]])
  BY <1>2, <1>3, AcyclicBind
<1>5. WalkSucc(subst') = [WalkSucc(subst) EXCEPT ![i] = Walked[t]]
  BY <1>1 DEF WalkSucc, Unbound
<1> QED
  BY <1>4, <1>5

LEMMA NextAcyclic ==
  ASSUME SlotsInv, NoWalkedCycle, [Next]_vars
  PROVE  NoWalkedCycle'
<1> SUFFICES ASSUME ~uncovered' PROVE Acyclic(WalkSucc(subst'))
  BY DEF NoWalkedCycle
<1>1. Acyclic(WalkSucc(subst))
  BY OtherSteps DEF NoWalkedCycle
<1>2. CASE subst' = subst
  BY <1>1, <1>2
<1>3. CASE \E i \in VarId : \E t \in Term : Slots!Bind(i, t)
  BY <1>1, <1>3, BindKeeps DEF SlotsInv
<1> QED
  BY <1>2, <1>3, OtherSteps, StepWrites DEF Writes

-----------------------------------------------------------------------------
(***************************************************************************)
(* What is proved of every behaviour.                                      *)
(***************************************************************************)

\* The slots hold types, and the calls in progress hold types and rows.
THEOREM SlotsTyped == Spec => []SlotsOK
<1>1. SlotsInv /\ [Next]_vars => SlotsInv'
  BY NextSlots
<1>2. SlotsInv => SlotsOK
  BY DEF SlotsInv
<1> QED
  BY <1>1, <1>2, InitSlots, PTL DEF Spec

\* The occurs check keeps its promise: along everything it walks no variable
\* ever leads back to itself, as long as no bound variable was uncovered.
THEOREM SubstitutionAcyclic == Spec => []NoWalkedCycle
<1>1. SlotsInv /\ [Next]_vars => SlotsInv'
  BY NextSlots
<1>2. SlotsInv /\ NoWalkedCycle /\ [Next]_vars => NoWalkedCycle'
  BY NextAcyclic
<1> QED
  BY <1>1, <1>2, InitSlots, PTL DEF Spec

\* The unifier, at every step of its recursion, implements the array whose
\* slots are written once and never in a circle; only a step that uncovers a bound
\* variable may write otherwise.
THEOREM UnifierBindsOnce == Spec => BindsOnce
<1>1. SlotsInv /\ [Next]_vars => SlotsInv'
  BY NextSlots
<1>2. Init => Slots!Init
  BY DEF Init, Slots!Init
<1>3. SlotsInv /\ [Next]_vars => [Slots!Next \/ Uncovering]_subst
  BY StepWrites DEF Writes, Slots!Next
<1> QED
  BY <1>1, <1>2, <1>3, InitSlots, PTL DEF Spec, BindsOnce

\* What one call decided is never undone by a later one, unless that one meets
\* the variable itself under `linear`.
THEOREM DecidedStays == Spec => NeverRebound
<1>1. SlotsInv /\ [Next]_vars => SlotsInv'
  BY NextSlots
<1>2. SlotsInv /\ [Next]_vars
        => [\A i \in VarId : Unbound(subst, i) \/ subst'[i] = subst[i] \/ UnderLinear(i)]_vars
  <2> SUFFICES ASSUME SlotsInv, [Next]_vars, NEW i \in VarId, ~Unbound(subst, i), ~UnderLinear(i)
               PROVE  subst'[i] = subst[i]
    OBVIOUS
  <2>1. CASE ~UnifyStep
    BY <2>1, OtherSteps
  <2>2. CASE UnifyStep
    <3>1. AtTypes /\ Arm(Left, Right) /\ subst \in [VarId -> Term] /\ Chains(subst)
      BY <2>2 DEF UnifyStep, SlotsInv, SlotsOK
    <3>2. Var(i).tag = "Var" /\ Var(i).num = i
      BY DEF Var, Node
    <3>3. Left # Var(i) /\ Right # Var(i)
      BY <3>1, <3>2, SidesTyped, StrippedEnds DEF UnderLinear, Uncovers, Left, Right
    <3>4. ASSUME NEW j, NEW t, BindVar(j, t), j # i
          PROVE  subst'[i] = subst[i]
      BY <3>1, <3>4 DEF BindVar
    <3>5. /\ Left.tag = "Var" => Left.num # i
          /\ Right.tag = "Var" => Right.num # i
      BY <3>1, <3>3, SidesTyped
    <3>6. CASE BindVariables(Left, Right)
      BY <3>4, <3>5, <3>6 DEF BindVariables, SameHead
    <3>7. CASE BindVariable(Left, Right)
      BY <3>4, <3>5, <3>7, RefusedOrBound DEF BindVariable
    <3> QED
      BY <3>1, <3>6, <3>7, ArmLeaves
  <2> QED
    BY <2>1, <2>2
<1> QED
  BY <1>1, <1>2, InitSlots, PTL DEF Spec, NeverRebound

-----------------------------------------------------------------------------
(***************************************************************************)
(* Inside an equality.                                                     *)
(***************************************************************************)

\* The equalities among the first calls.
EqCalls(calls) == {k \in 1 .. Len(calls) : calls[k].kind = "PropEq"}

\* The k-th call is part of one.
Inside(calls, k) == \E j \in EqCalls(calls) : j <= k

\* Inside an equality no call has failed unless the program was told, or rows
\* were refused without a word.
FailuresTold(calls, told) ==
  \A k \in 1 .. Len(calls) : Inside(calls, k) /\ ~calls[k].acc => told

Told == diags # <<>> \/ unsaid

Codes == {2001, 2010, 2090}

EqInv ==
  /\ diags \in Seq(Codes) /\ unsaid \in BOOLEAN
  /\ propeqDepth = Cardinality(EqCalls(stack))
  /\ FailuresTold(stack, Told)

\* The innermost call goes on: the equalities are the same, and what is known of
\* the calls stays known when it is known of this one.
LEMMA ContinueKeeps ==
  ASSUME NEW calls \in Seq(Frames), calls # <<>>, NEW g \in Frames,
         g.kind = Last(calls).kind,
         NEW told \in BOOLEAN, NEW now \in BOOLEAN, FailuresTold(calls, told), told => now,
         Inside(calls, Len(calls)) /\ ~g.acc => now
  PROVE  /\ EqCalls(Continue(calls, g)) = EqCalls(calls)
         /\ FailuresTold(Continue(calls, g), now)
<1> DEFINE n == Len(calls)
           after == Continue(calls, g)
<1>1. n \in Nat \ {0} /\ Len(after) = n
  BY DEF Continue
<1>2. after[n] = g /\ \A k \in 1 .. n : k # n => after[k] = calls[k]
  <2>1. DOMAIN calls = 1 .. n /\ n \in 1 .. n
    BY <1>1
  <2> QED
    BY <2>1 DEF Continue
<1>3. calls[n].kind = g.kind
  BY DEF Last
<1> HIDE DEF after
<1>4. EqCalls(after) = EqCalls(calls)
  BY <1>1, <1>2, <1>3 DEF EqCalls
<1>5. \A k \in 1 .. n : Inside(after, k) = Inside(calls, k)
  BY <1>4 DEF Inside
<1>6. FailuresTold(after, now)
  <2> SUFFICES ASSUME NEW k \in 1 .. n, Inside(calls, k), ~after[k].acc
               PROVE  now
    BY <1>1, <1>5 DEF FailuresTold
  <2>1. CASE k = n
    BY <1>2, <2>1
  <2>2. CASE k # n
    BY <1>2, <2>2 DEF FailuresTold
  <2> QED
    BY <2>1, <2>2
<1> QED
  BY <1>4, <1>6 DEF after

\* A call begins.
LEMMA PushKeeps ==
  ASSUME NEW calls \in Seq(Frames), NEW f \in Frames, f.acc,
         NEW told \in BOOLEAN, FailuresTold(calls, told)
  PROVE  /\ EqCalls(Append(calls, f))
              = IF f.kind = "PropEq" THEN EqCalls(calls) \cup {Len(calls) + 1} ELSE EqCalls(calls)
         /\ FailuresTold(Append(calls, f), told)
<1> DEFINE n == Len(calls)
           after == Append(calls, f)
<1>1. n \in Nat /\ Len(after) = n + 1
  OBVIOUS
<1>2. after[n + 1] = f /\ \A k \in 1 .. n : after[k] = calls[k]
  BY <1>1
<1> HIDE DEF after
<1>3. EqCalls(after) = IF f.kind = "PropEq" THEN EqCalls(calls) \cup {n + 1} ELSE EqCalls(calls)
  BY <1>1, <1>2 DEF EqCalls
<1>4. \A k \in 1 .. n : Inside(after, k) => Inside(calls, k)
  BY <1>1, <1>3 DEF Inside
<1>5. FailuresTold(after, told)
  <2> SUFFICES ASSUME NEW k \in 1 .. (n + 1), Inside(after, k), ~after[k].acc
               PROVE  told
    BY <1>1 DEF FailuresTold
  <2>1. CASE k = n + 1
    BY <1>2, <2>1
  <2>2. CASE k \in 1 .. n
    BY <1>2, <1>4, <2>2 DEF FailuresTold
  <2> QED
    BY <1>1, <2>1, <2>2
<1> QED
  BY <1>3, <1>5 DEF after

\* The innermost call ends.
LEMMA PopKeeps ==
  ASSUME NEW calls \in Seq(Frames), calls # <<>>,
         NEW told \in BOOLEAN, FailuresTold(calls, told)
  PROVE  LET outer == SubSeq(calls, 1, Len(calls) - 1)
         IN  /\ outer \in Seq(Frames) /\ Len(outer) = Len(calls) - 1
             /\ EqCalls(outer) = IF Last(calls).kind = "PropEq"
                                 THEN EqCalls(calls) \ {Len(calls)} ELSE EqCalls(calls)
             /\ Len(calls) \in EqCalls(calls) <=> Last(calls).kind = "PropEq"
             /\ Inside(outer, Len(outer)) => Inside(calls, Len(calls))
             /\ FailuresTold(outer, told)
<1> DEFINE n == Len(calls)
           outer == SubSeq(calls, 1, n - 1)
<1>0. n \in Nat \ {0}
  OBVIOUS
<1>1. outer \in Seq(Frames) /\ Len(outer) = n - 1
  <2>1. \A k \in 1 .. (n - 1) : calls[k] \in Frames
    BY <1>0
  <2>2. outer = [k \in 1 .. (n - 1) |-> calls[k]]
    BY <1>0
  <2> HIDE DEF outer
  <2>3. n - 1 \in Nat
    BY <1>0
  <2> QED
    BY <2>1, <2>2, <2>3
<1>2. \A k \in 1 .. (n - 1) : outer[k] = calls[k]
  BY <1>0
<1> HIDE DEF outer
<1>3. n \in EqCalls(calls) <=> Last(calls).kind = "PropEq"
  BY <1>0, <1>1 DEF EqCalls, Last
<1>4. EqCalls(outer) = EqCalls(calls) \ {n}
  BY <1>0, <1>1, <1>2 DEF EqCalls
<1>5. \A k \in 1 .. (n - 1) : Inside(outer, k) => Inside(calls, k)
  BY <1>4 DEF Inside
<1>6. Inside(outer, Len(outer)) => Inside(calls, n)
  BY <1>0, <1>1, <1>4 DEF Inside, EqCalls
<1>7. FailuresTold(outer, told)
  BY <1>0, <1>1, <1>2, <1>5 DEF FailuresTold
<1>8. EqCalls(outer) = IF Last(calls).kind = "PropEq" THEN EqCalls(calls) \ {n} ELSE EqCalls(calls)
  BY <1>3, <1>4
<1> QED
  BY <1>0, <1>1, <1>3, <1>6, <1>7, <1>8 DEF outer

\* Equalities can be counted.
LEMMA EqCount ==
  ASSUME NEW calls \in Seq(Frames)
  PROVE  /\ IsFiniteSet(EqCalls(calls)) /\ Cardinality(EqCalls(calls)) \in Nat
         /\ Inside(calls, Len(calls)) <=> Cardinality(EqCalls(calls)) > 0
<1>1. IsFiniteSet(1 .. Len(calls))
  BY FS_Interval
<1>2. EqCalls(calls) \in SUBSET (1 .. Len(calls))
  BY DEF EqCalls
<1>3. IsFiniteSet(EqCalls(calls))
  BY <1>1, <1>2, FS_Subset
<1>4. Cardinality(EqCalls(calls)) \in Nat
  BY <1>3, FS_CardinalityType
<1>5. Cardinality(EqCalls(calls)) = 0 <=> EqCalls(calls) = {}
  BY <1>3, FS_EmptySet
<1>6. Inside(calls, Len(calls)) <=> EqCalls(calls) # {}
  BY <1>2 DEF Inside
<1> QED
  BY <1>3, <1>4, <1>5, <1>6

\* Codes are only ever added.
LEMMA ReportAdds ==
  ASSUME diags \in Seq(Codes), NEW codes \in Seq(Codes), Report(codes)
  PROVE  /\ diags' \in Seq(Codes)
         /\ diags # <<>> \/ codes # <<>> => diags' # <<>>
<1>1. diags' = diags \o codes
  BY DEF Report
<1>2. Len(diags') = Len(diags) + Len(codes) /\ diags' \in Seq(Codes)
  BY <1>1
<1> QED
  BY <1>2

\* Inside an equality a conflict is always reported.
LEMMA ConflictAdds ==
  ASSUME diags \in Seq(Codes), NEW a, NEW b, ReportConflict(a, b)
  PROVE  /\ diags' \in Seq(Codes)
         /\ diags # <<>> \/ propeqDepth > 0 => diags' # <<>>
<1> DEFINE codes == IF Reported(a, b) THEN <<2001>> ELSE <<>>
<1>1. codes \in Seq(Codes)
  <2>1. <<2001>> \in Seq(Codes) /\ <<>> \in Seq(Codes)
    BY DEF Codes
  <2> QED
    BY <2>1
<1>2. propeqDepth > 0 => codes # <<>>
  BY DEF Reported
<1>3. Report(codes)
  BY DEF ReportConflict
<1> HIDE DEF codes
<1> QED
  BY <1>1, <1>2, <1>3, ReportAdds

\* A pair is decided; when it failed inside an equality, the program is told.
LEMMA AnswerKeeps ==
  ASSUME SlotsOK, EqInv, stack # <<>>, ~Done(Top), NEW ok \in BOOLEAN, Answer(ok),
         diags' \in Seq(Codes), unsaid' \in BOOLEAN, Told => Told',
         propeqDepth > 0 /\ ~ok => Told', propeqDepth' = propeqDepth
  PROVE  EqInv'
<1> DEFINE g == [Top EXCEPT !.rest = Tail(@), !.acc = @ /\ ok]
<1>1. Top \in Frames /\ Top.rest \in Seq(AnyPair) /\ Top.rest # <<>> /\ Top = Last(stack)
  BY GoalTyped DEF SlotsOK, Frames, AnyPair, Top
<1>2. Tail(Top.rest) \in Seq(AnyPair)
  BY <1>1
<1>3. g \in Frames /\ g.kind = Top.kind /\ g.acc = (Top.acc /\ ok)
  BY <1>1, <1>2 DEF Frames, AnyPair
<1>4. stack' = Continue(stack, g)
  BY DEF Answer
<1> HIDE DEF g
<1>5. Told \in BOOLEAN /\ Told' \in BOOLEAN
  BY DEF Told, EqInv
<1>6. ASSUME Inside(stack, Len(stack)), ~g.acc
      PROVE  Told'
  <2>1. CASE ~ok
    BY <1>6, <2>1, EqCount DEF EqInv, SlotsOK
  <2>2. CASE ~Top.acc
    <3>1. Len(stack) \in 1 .. Len(stack) /\ Top = stack[Len(stack)]
      BY DEF SlotsOK, Top, Last
    <3> QED
      BY <1>6, <2>2, <3>1 DEF EqInv, FailuresTold
  <2> QED
    BY <1>3, <1>6, <2>1, <2>2
<1>7. EqCalls(stack') = EqCalls(stack) /\ FailuresTold(stack', Told')
  <2>1. FailuresTold(stack, Told) /\ stack \in Seq(Frames)
    BY DEF EqInv, SlotsOK
  <2>2. g.kind = Last(stack).kind
    BY <1>1, <1>3
  <2> QED
    BY <1>3, <1>4, <1>5, <1>6, <2>1, <2>2, ContinueKeeps
<1> QED
  BY <1>7 DEF EqInv

\* A pair needs others, and these begin with nothing failed.
LEMMA DescendKeeps ==
  ASSUME SlotsOK, EqInv, stack # <<>>, ~Done(Top),
         NEW kind \in FrameKind, NEW a \in Term, NEW b \in Term, NEW pairs \in Seq(AnyPair),
         Descend(kind, a, b, pairs), diags' = diags, unsaid' = unsaid,
         propeqDepth' = IF kind = "PropEq" THEN propeqDepth + 1 ELSE propeqDepth
  PROVE  EqInv'
<1> DEFINE g == [Top EXCEPT !.rest = Tail(@)]
           f == Frame(kind, a, b, pairs)
           rest == Continue(stack, g)
<1>1. Top \in Frames /\ Top.rest \in Seq(AnyPair) /\ Top.rest # <<>> /\ Top = Last(stack)
  BY GoalTyped DEF SlotsOK, Frames, AnyPair, Top
<1>2. Tail(Top.rest) \in Seq(AnyPair)
  BY <1>1
<1>3. g \in Frames /\ g.kind = Top.kind /\ g.acc = Top.acc
  BY <1>1, <1>2 DEF Frames, AnyPair
<1>4. f \in Frames /\ f.kind = kind /\ f.acc
  BY FrameTyped DEF Frame
<1>5. stack' = Append(rest, f)
  BY DEF Descend
<1> HIDE DEF g, f
<1>6. rest \in Seq(Frames) /\ Len(rest) = Len(stack)
  BY <1>3, ContinueTyped DEF SlotsOK, Continue
<1>7. Told \in BOOLEAN /\ Told' = Told
  BY DEF Told, EqInv
<1>8. Inside(stack, Len(stack)) /\ ~g.acc => Told
  <2>1. Len(stack) \in 1 .. Len(stack) /\ Top = stack[Len(stack)]
    BY DEF SlotsOK, Top, Last
  <2> QED
    BY <1>3, <2>1 DEF EqInv, FailuresTold
<1>9. EqCalls(rest) = EqCalls(stack) /\ FailuresTold(rest, Told)
  <2>1. FailuresTold(stack, Told) /\ stack \in Seq(Frames)
    BY DEF EqInv, SlotsOK
  <2>2. g.kind = Last(stack).kind
    BY <1>1, <1>3
  <2> QED
    BY <1>3, <1>7, <1>8, <2>1, <2>2, ContinueKeeps
<1> HIDE DEF rest
<1>10. /\ EqCalls(stack') = IF kind = "PropEq" THEN EqCalls(rest) \cup {Len(rest) + 1} ELSE EqCalls(rest)
       /\ FailuresTold(stack', Told)
  BY <1>4, <1>5, <1>6, <1>7, <1>9, PushKeeps
<1>11. propeqDepth' = Cardinality(EqCalls(stack'))
  <2>1. IsFiniteSet(EqCalls(rest)) /\ Cardinality(EqCalls(rest)) = propeqDepth
    BY <1>6, <1>9, EqCount DEF EqInv
  <2>2. Len(rest) + 1 \notin EqCalls(rest)
    BY <1>6 DEF EqCalls
  <2>3. Cardinality(EqCalls(rest) \cup {Len(rest) + 1}) = propeqDepth + 1
    BY <2>1, <2>2, FS_AddElement
  <2> QED
    BY <1>10, <2>1, <2>3
<1> QED
  BY <1>7, <1>10, <1>11 DEF EqInv

\* A call returns its answer; that something was reported is known already.
LEMMA ReturnKeeps ==
  ASSUME SlotsOK, EqInv, Return
  PROVE  EqInv'
<1> DEFINE n     == Len(stack)
           outer == SubSeq(stack, 1, n - 1)
           g     == [Last(outer) EXCEPT !.acc = @ /\ Top.acc]
<1>1. stack \in Seq(Frames) /\ stack # <<>> /\ Top = Last(stack)
  BY DEF Return, Returning, SlotsOK, Top
<1>2. n \in Nat \ {0}
  BY <1>1
<1>3. /\ outer \in Seq(Frames) /\ Len(outer) = n - 1
      /\ EqCalls(outer) = IF Last(stack).kind = "PropEq" THEN EqCalls(stack) \ {n} ELSE EqCalls(stack)
      /\ n \in EqCalls(stack) <=> Last(stack).kind = "PropEq"
      /\ Inside(outer, Len(outer)) => Inside(stack, n)
      /\ FailuresTold(outer, Told)
  <2>1. Told \in BOOLEAN /\ FailuresTold(stack, Told)
    BY DEF Told, EqInv
  <2> QED
    BY <1>1, <2>1, PopKeeps
<1>4. diags' \in Seq(Codes) /\ unsaid' \in BOOLEAN /\ (Told => Told')
  <2>0. unsaid' = unsaid /\ unsaid \in BOOLEAN
    BY DEF Return, EqInv
  <2>1. CASE diags' = diags
    BY <2>0, <2>1 DEF EqInv, Told
  <2>2. CASE ReportConflict(Top.a, Top.b)
    BY <2>0, <2>2, ConflictAdds DEF EqInv, Told
  <2> QED
    BY <2>1, <2>2 DEF Return
<1>5. propeqDepth' = IF Top.kind = "PropEq" THEN propeqDepth - 1 ELSE propeqDepth
  BY DEF Return, LeavePropEq
<1>6. stack' = IF outer = <<>> THEN <<>> ELSE Continue(outer, g)
  BY DEF Return
<1> HIDE DEF outer
<1>7. EqCalls(stack') = EqCalls(outer) /\ FailuresTold(stack', Told')
  <2>1. CASE outer = <<>>
    <3>1. stack' = outer /\ Len(outer) = 0
      BY <1>6, <2>1
    <3> QED
      BY <1>3, <3>1 DEF FailuresTold
  <2>2. CASE outer # <<>>
    <3>1. Len(outer) \in 1 .. Len(outer)
      BY <1>3, <2>2
    <3>2. Last(outer) \in Frames /\ Top \in Frames /\ Last(outer) = outer[Len(outer)]
      BY <1>1, <1>2, <1>3, <3>1 DEF Last
    <3>3. g \in Frames /\ g.kind = Last(outer).kind /\ g.acc = (Last(outer).acc /\ Top.acc)
      BY <3>2 DEF Frames
    <3>4. stack' = Continue(outer, g)
      BY <1>6, <2>2
    <3> HIDE DEF g
    <3>5. Told \in BOOLEAN /\ Told' \in BOOLEAN
      BY <1>4 DEF Told, EqInv
    <3>6. ASSUME Inside(outer, Len(outer)), ~g.acc
          PROVE  Told'
      <4>1. CASE ~Last(outer).acc
        BY <1>3, <1>4, <3>1, <3>2, <3>6, <4>1 DEF FailuresTold
      <4>2. CASE ~Top.acc
        <5>1. n \in 1 .. n /\ Top = stack[n] /\ Inside(stack, n)
          BY <1>1, <1>2, <1>3, <3>6 DEF Last
        <5> QED
          BY <1>4, <4>2, <5>1 DEF EqInv, FailuresTold
      <4> QED
        BY <3>3, <3>6, <4>1, <4>2
    <3> QED
      BY <1>3, <1>4, <2>2, <3>3, <3>4, <3>5, <3>6, ContinueKeeps
  <2> QED
    BY <2>1, <2>2
<1>8. propeqDepth' = Cardinality(EqCalls(stack'))
  <2>1. IsFiniteSet(EqCalls(stack)) /\ propeqDepth = Cardinality(EqCalls(stack))
    BY <1>1, EqCount DEF EqInv
  <2>2. CASE Top.kind = "PropEq"
    <3>1. n \in EqCalls(stack) /\ EqCalls(stack') = EqCalls(stack) \ {n}
      BY <1>1, <1>3, <1>7, <2>2
    <3>2. Cardinality(EqCalls(stack) \ {n}) = Cardinality(EqCalls(stack)) - 1
      BY <2>1, <3>1, FS_RemoveElement
    <3> QED
      BY <1>5, <2>1, <2>2, <3>1, <3>2
  <2>3. CASE Top.kind # "PropEq"
    BY <1>1, <1>3, <1>5, <1>7, <2>1, <2>3
  <2> QED
    BY <2>2, <2>3
<1> QED
  BY <1>4, <1>7, <1>8 DEF EqInv

\* A type application is taken apart.
LEMMA PeelKeeps ==
  ASSUME SlotsOK, EqInv, stack # <<>>, ~Done(Top),
         NEW app \in Term, NEW t \in Term, Peels(app, t), PeelArgument(app, t),
         diags' = diags, unsaid' = unsaid, propeqDepth' = propeqDepth
  PROVE  EqInv'
<1> DEFINE pairs == <<TypePair(app.args[1], PeeledHead(t)), TypePair(app.args[2], Last(t.args))>>
<1>1. pairs \in Seq(AnyPair)
  BY PeelPairs
<1>2. Descend("Seq", app, t, pairs)
  BY DEF PeelArgument
<1> HIDE DEF pairs
<1> QED
  BY <1>1, <1>2, DescendKeeps DEF FrameKind

\* A variable meets a type: bound, or refused and reported.
LEMMA BindOrRefuseKeeps ==
  ASSUME SlotsOK, EqInv, stack # <<>>, ~Done(Top), NEW v, NEW t, BindOrRefuse(v, t),
         propeqDepth' = propeqDepth, unsaid' = unsaid
  PROVE  EqInv'
<1>1. CASE OccursIn(subst, v.num, t)
  <2>0. Answer(FALSE)
    BY <1>1 DEF BindOrRefuse, Answer
  <2>1. Report(<<2010>>)
    BY <1>1 DEF BindOrRefuse
  <2>2. diags' \in Seq(Codes) /\ Told'
    <3> DEFINE codes == <<2010>>
    <3>1. codes \in Seq(Codes) /\ codes # <<>> /\ Report(codes)
      BY <2>1 DEF Codes
    <3> HIDE DEF codes
    <3> QED
      BY <3>1, ReportAdds DEF EqInv, Told
  <2>3. CASE \E ok \in BOOLEAN : Answer(ok)
    BY <2>2, <2>3, AnswerKeeps DEF EqInv
  <2> QED
    BY <2>0, <2>3
<1>2. CASE ~OccursIn(subst, v.num, t)
  <2>1. diags' = diags /\ Answer(TRUE)
    BY <1>2 DEF BindOrRefuse
  <2> QED
    BY <2>1, AnswerKeeps DEF EqInv, Told
<1> QED
  BY <1>1, <1>2

\* No arm refuses rows: that is between the pairs of types.
LEMMA ArmSilent ==
  ASSUME NEW a, NEW b, Arm(a, b)
  PROVE  unsaid' = unsaid
BY DEF Arm, AbsorbError, SameVariable, BindVariables, BindVariable, UnifyFun, UnifyElement,
       UnifyNamed, UnifyMask, UnifyApply, PeelApply, MeetBareName, UnifyPropEq, SeeThrough,
       MeetOrConflict, keepAll

\* Whatever arm is taken, a failure inside an equality is reported.
LEMMA ArmKeeps ==
  ASSUME SlotsOK, EqInv, stack # <<>>, ~Done(Top), NEW a \in Term, NEW b \in Term, Arm(a, b)
  PROVE  EqInv'
<1> USE DEF FrameKind
<1>0. unsaid' = unsaid /\ unsaid \in BOOLEAN
  BY ArmSilent DEF EqInv
<1>1. /\ a.args \in Seq(Term) /\ b.args \in Seq(Term)
      /\ a.tag \in OneArg => Len(a.args) = 1 /\ a.args[1] \in Term
      /\ b.tag \in OneArg => Len(b.args) = 1 /\ b.args[1] \in Term
      /\ a.tag \in TwoArg => Len(a.args) = 2 /\ a.args[1] \in Term /\ a.args[2] \in Term
      /\ b.tag \in TwoArg => Len(b.args) = 2 /\ b.args[1] \in Term /\ b.args[2] \in Term
  BY ArgsTyped
<1>2. ASSUME Answer(TRUE), diags' = diags, propeqDepth' = propeqDepth
      PROVE  EqInv'
  BY <1>0, <1>2, AnswerKeeps DEF EqInv, Told
<1>3. ASSUME NEW kind \in FrameKind, kind # "PropEq", Len(a.args) = Len(b.args),
             Descend(kind, a, b, Pairs(a.args, b.args)), diags' = diags, propeqDepth' = propeqDepth
      PROVE  EqInv'
  BY <1>0, <1>1, <1>3, PairsTyped, DescendKeeps
<1>4. ASSUME NEW ok \in BOOLEAN, Answer(ok), propeqDepth' = propeqDepth, diags' \in Seq(Codes),
             diags # <<>> \/ (propeqDepth > 0 /\ ~ok) => diags' # <<>>
      PROVE  EqInv'
  <2>1. (Told => Told') /\ (propeqDepth > 0 /\ ~ok => Told')
    BY <1>0, <1>4 DEF Told
  <2> QED
    BY <1>0, <1>4, <2>1, AnswerKeeps
<1>5. CASE AbsorbError(a, b) \/ SameVariable(a, b) \/ BindVariables(a, b) \/ MeetBareName(a, b)
  <2>1. Answer(TRUE) /\ diags' = diags /\ propeqDepth' = propeqDepth
    BY <1>5 DEF AbsorbError, SameVariable, BindVariables, MeetBareName, keepAll
  <2> QED
    BY <1>2, <2>1
<1>6. CASE BindVariable(a, b)
  <2>1. propeqDepth' = propeqDepth /\ (BindOrRefuse(a, b) \/ BindOrRefuse(b, a))
    BY <1>6 DEF BindVariable, keepAll
  <2> QED
    BY <1>0, <2>1, BindOrRefuseKeeps
<1>7. CASE UnifyFun(a, b)
  <2> DEFINE pairs == <<TypePair(a.args[1], b.args[1]), RowPair(a.row, b.row),
                        TypePair(a.args[2], b.args[2])>>
  <2>1. /\ a.tag \in TwoArg /\ b.tag \in TwoArg
        /\ a.row \in Row(RowId) /\ b.row \in Row(RowId)
    BY <1>7, TermAssumption DEF UnifyFun, SameHead, TwoArg
  <2>2. RowPair(a.row, b.row) \in AnyPair
    BY <2>1 DEF RowPair, RowPairs, AnyPair
  <2>3. pairs \in Seq(AnyPair)
    BY <1>1, <2>1, <2>2, TypePairTyped
  <2>4. Descend("Fun", a, b, pairs) /\ diags' = diags /\ propeqDepth' = propeqDepth
    BY <1>7 DEF UnifyFun, keepAll
  <2> HIDE DEF pairs
  <2> QED
    BY <1>0, <2>3, <2>4, DescendKeeps
<1>8. CASE UnifyElement(a, b)
  <2>1. a.tag \in OneArg /\ b.tag \in OneArg
    BY <1>8 DEF UnifyElement, Elementwise, SameHead, OneArg
  <2>2. Descend("Seq", a, b, Pairs(a.args, b.args)) /\ diags' = diags /\ propeqDepth' = propeqDepth
    BY <1>8 DEF UnifyElement, keepAll
  <2> QED
    BY <1>1, <1>3, <2>1, <2>2
<1>9. CASE UnifyNamed(a, b)
  <2>1. propeqDepth' = propeqDepth
    BY <1>9 DEF UnifyNamed, keepAll
  <2>2. CASE Len(a.args) = Len(b.args)
    <3>1. Descend("Seq", a, b, Pairs(a.args, b.args)) /\ diags' = diags
      BY <1>9, <2>2 DEF UnifyNamed
    <3> QED
      BY <1>3, <2>1, <2>2, <3>1
  <2>3. CASE Len(a.args) # Len(b.args)
    <3>1. Answer(FALSE)
      BY <1>9, <2>3 DEF UnifyNamed, Answer, Descend
    <3>2. diags' \in Seq(Codes) /\ diags' # <<>>
      <4> DEFINE codes == <<2001>>
      <4>1. codes \in Seq(Codes) /\ codes # <<>>
        BY DEF Codes
      <4>2. Report(codes)
        BY <1>9, <2>3 DEF UnifyNamed, Report
      <4> HIDE DEF codes
      <4> QED
        BY <4>1, <4>2, ReportAdds DEF EqInv
    <3>3. CASE \E ok \in BOOLEAN : Answer(ok)
      BY <1>4, <2>1, <3>2, <3>3
    <3> QED
      BY <3>1, <3>3
  <2> QED
    BY <2>2, <2>3
<1>10. CASE UnifyMask(a, b)
  <2>1. a.tag \in OneArg /\ b.tag \in OneArg
    BY <1>10 DEF UnifyMask, SameMask, SameHead, OneArg
  <2>2. Descend("Mask", a, b, Pairs(a.args, b.args)) /\ diags' = diags /\ propeqDepth' = propeqDepth
    BY <1>10 DEF UnifyMask, keepAll
  <2> QED
    BY <1>1, <1>3, <2>1, <2>2
<1>11. CASE UnifyApply(a, b)
  <2>1. a.tag \in TwoArg /\ b.tag \in TwoArg
    BY <1>11 DEF UnifyApply, SameHead, TwoArg
  <2>2. Descend("Seq", a, b, Pairs(a.args, b.args)) /\ diags' = diags /\ propeqDepth' = propeqDepth
    BY <1>11 DEF UnifyApply, keepAll
  <2> QED
    BY <1>1, <1>3, <2>1, <2>2
<1>12. CASE UnifyPropEq(a, b)
  <2>1. a.tag \in TwoArg /\ b.tag \in TwoArg
    BY <1>12 DEF UnifyPropEq, SameHead, TwoArg
  <2>2. Descend("PropEq", a, b, Pairs(a.args, b.args)) /\ diags' = diags /\ propeqDepth' = propeqDepth + 1
    BY <1>12 DEF UnifyPropEq
  <2>3. Pairs(a.args, b.args) \in Seq(AnyPair)
    BY <1>1, <2>1, PairsTyped
  <2> QED
    BY <1>0, <2>2, <2>3, DescendKeeps
<1>13. CASE PeelApply(a, b)
  <2>1. diags' = diags /\ propeqDepth' = propeqDepth
    BY <1>13 DEF PeelApply, keepAll
  <2> QED
    BY <1>0, <1>13, <2>1, PeelKeeps DEF PeelApply
<1>14. CASE SeeThrough(a, b)
  <2>1. diags' = diags /\ propeqDepth' = propeqDepth
    BY <1>14 DEF SeeThrough, keepAll
  <2>2. ASSUME NEW x \in Term, NEW y \in Term, Descend("Seq", a, b, <<TypePair(x, y)>>)
        PROVE  EqInv'
    <3> DEFINE pairs == <<TypePair(x, y)>>
    <3>1. pairs \in Seq(AnyPair)
      BY TypePairTyped
    <3>2. Descend("Seq", a, b, pairs)
      BY <2>2
    <3> HIDE DEF pairs
    <3> QED
      BY <1>0, <2>1, <3>1, <3>2, DescendKeeps
  <2>3. CASE a.tag \in Quantified
    <3>1. Descend("Seq", a, b, <<TypePair(a.args[1], b)>>)
      BY <1>14, <2>3 DEF SeeThrough
    <3>2. a.tag \in OneArg
      BY <2>3 DEF OneArg
    <3> QED
      BY <1>1, <2>2, <3>1, <3>2
  <2>4. CASE a.tag \notin Quantified
    <3>1. Descend("Seq", a, b, <<TypePair(a, b.args[1])>>)
      BY <1>14, <2>4 DEF SeeThrough
    <3>2. b.tag \in OneArg
      BY <1>14, <2>4 DEF OneArg, SeeThrough, Transparent
    <3> QED
      BY <1>1, <2>2, <3>1, <3>2
  <2> QED
    BY <2>3, <2>4
<1>15. CASE MeetOrConflict(a, b)
  <2>1. propeqDepth' = propeqDepth
    BY <1>15 DEF MeetOrConflict, keepAll
  <2>2. CASE a = b
    <3>1. Answer(TRUE) /\ diags' = diags
      BY <1>15, <2>2 DEF MeetOrConflict
    <3> QED
      BY <1>2, <2>1, <3>1
  <2>3. CASE a # b
    <3>1. diags' \in Seq(Codes) /\ (diags # <<>> \/ propeqDepth > 0 => diags' # <<>>)
      BY <1>15, <2>3, ConflictAdds DEF MeetOrConflict, EqInv
    <3>2. CASE \E ok \in BOOLEAN : Answer(ok)
      BY <1>4, <2>1, <3>1, <3>2
    <3>3. Answer(a = b)
      BY <1>15 DEF MeetOrConflict
    <3> QED
      BY <3>2, <3>3
  <2> QED
    BY <2>2, <2>3
<1> QED
  BY <1>5, <1>6, <1>7, <1>8, <1>9, <1>10, <1>11, <1>12, <1>13, <1>14, <1>15 DEF Arm

\* Rows refused inside an equality are reported, or kept account of.
LEMMA UnifyFunRowKeeps ==
  ASSUME SlotsOK, EqInv, UnifyFunRow
  PROVE  EqInv'
<1> DEFINE u     == UnifyRow(rowSubst, nextRow, Goal.l, Goal.r)
           codes == IF u.reported THEN <<2090>> ELSE <<>>
<1>1. stack # <<>> /\ ~Done(Top)
  BY DEF UnifyFunRow, AtRows
<1>2. /\ Answer(u.ok) /\ Report(codes) /\ propeqDepth' = propeqDepth
      /\ unsaid' = (unsaid \/ (propeqDepth > 0 /\ ~u.ok /\ ~u.reported))
  BY DEF UnifyFunRow
<1>3. u.ok \in BOOLEAN
  BY UnifyRowAnswers
<1> HIDE DEF u
<1>4. codes \in Seq(Codes) /\ (u.reported => codes # <<>>)
  <2>1. <<2090>> \in Seq(Codes) /\ <<>> \in Seq(Codes) /\ <<2090>> # <<>>
    BY DEF Codes
  <2> QED
    BY <2>1
<1> HIDE DEF codes
<1>5. diags' \in Seq(Codes) /\ (diags # <<>> \/ codes # <<>> => diags' # <<>>)
  BY <1>2, <1>4, ReportAdds DEF EqInv
<1>6. unsaid' \in BOOLEAN /\ (Told => Told') /\ (propeqDepth > 0 /\ ~u.ok => Told')
  BY <1>2, <1>4, <1>5 DEF EqInv, Told
<1> QED
  BY <1>1, <1>2, <1>3, <1>5, <1>6, AnswerKeeps

\* A call of `unify` begins outside every equality.
LEMMA BeginKeeps ==
  ASSUME SlotsOK, EqInv, NEW x \in Operand, NEW y \in Operand, Begin(x, y)
  PROVE  EqInv'
<1> DEFINE pairs == <<TypePair(x, y)>>
           f     == Frame("Top", x, y, pairs)
<1>1. x \in Term /\ y \in Term
  BY TermAssumption
<1>2. pairs \in Seq(AnyPair)
  BY <1>1, TypePairTyped
<1>3. f \in Frames
  BY <1>1, <1>2, FrameTyped DEF FrameKind
<1>4. f.kind # "PropEq"
  BY DEF Frame
<1>5. /\ stack' = <<f>> /\ diags' = <<>> /\ unsaid' = FALSE
      /\ stack = <<>> /\ propeqDepth' = propeqDepth
  BY DEF Begin, Idle
<1> HIDE DEF f
<1>6. EqCalls(stack) = {} /\ EqCalls(stack') = {}
  BY <1>4, <1>5 DEF EqCalls
<1>7. FailuresTold(stack', Told')
  <2>1. \A k : ~Inside(stack', k)
    BY <1>6 DEF Inside
  <2> QED
    BY <2>1 DEF FailuresTold
<1>8. diags' \in Seq(Codes) /\ unsaid' \in BOOLEAN
  <2>1. <<>> \in Seq(Codes)
    OBVIOUS
  <2> QED
    BY <1>5, <2>1
<1>9. propeqDepth' = Cardinality(EqCalls(stack'))
  BY <1>5, <1>6 DEF EqInv
<1> QED
  BY <1>7, <1>8, <1>9 DEF EqInv

MismatchInv == SlotsInv /\ EqInv

LEMMA InitMismatch == Init => MismatchInv
<1> SUFFICES ASSUME Init PROVE EqInv
  BY InitSlots DEF MismatchInv
<1>1. stack = <<>> /\ diags = <<>> /\ propeqDepth = 0 /\ unsaid = FALSE
  BY DEF Init
<1>2. EqCalls(stack) = {}
  BY <1>1 DEF EqCalls
<1>3. FailuresTold(stack, Told)
  <2>1. \A k : ~Inside(stack, k)
    BY <1>2 DEF Inside
  <2> QED
    BY <2>1 DEF FailuresTold
<1>4. <<>> \in Seq(Codes)
  OBVIOUS
<1>5. propeqDepth = Cardinality(EqCalls(stack))
  BY <1>1, <1>2, FS_EmptySet
<1> QED
  BY <1>1, <1>3, <1>4, <1>5 DEF EqInv

LEMMA NextMismatch ==
  ASSUME MismatchInv, [Next]_vars
  PROVE  MismatchInv'
<1> USE DEF MismatchInv
<1>1. SlotsOK /\ SlotsInv'
  BY NextSlots DEF SlotsInv
<1>2. CASE UnifyStep
  <2>1. stack # <<>> /\ ~Done(Top) /\ Arm(Left, Right)
    BY <1>2 DEF UnifyStep, AtTypes
  <2>2. Left \in Term /\ Right \in Term
    BY <1>2, SidesTyped DEF UnifyStep
  <2> QED
    BY <1>1, <2>1, <2>2, ArmKeeps
<1>3. CASE UnifyFunRow
  BY <1>1, <1>3, UnifyFunRowKeeps
<1>4. CASE Return
  BY <1>1, <1>4, ReturnKeeps
<1>5. CASE \E x, y \in Operand : Unify(x, y)
  BY <1>1, <1>5, BeginKeeps DEF Unify
<1>6. CASE Fresh \/ FreshRow \/ UNCHANGED vars
  <2>1. stack' = stack /\ diags' = diags /\ propeqDepth' = propeqDepth /\ unsaid' = unsaid
    BY <1>6 DEF Fresh, FreshRow, vars
  <2> QED
    BY <1>1, <2>1 DEF EqInv, Told
<1> QED
  BY <1>2, <1>3, <1>4, <1>5, <1>6 DEF Next, Step

\* Whatever an equality's two sides are and however deep inside them they
\* differ, the program is told: a failed call inside an equality has left a code,
\* unless what failed was two rows `unify_row` refuses without one.
THEOREM MismatchesReported == Spec => []ProofMismatchReported
<1>1. MismatchInv /\ [Next]_vars => MismatchInv'
  BY NextMismatch
<1>2. MismatchInv => ProofMismatchReported
  <2> SUFFICES ASSUME MismatchInv, NEW k \in DOMAIN stack, stack[k].kind = "PropEq", ~stack[k].acc
               PROVE  Told
    BY DEF ProofMismatchReported, Told
  <2>1. k \in 1 .. Len(stack) /\ k <= k
    BY DEF MismatchInv, SlotsInv, SlotsOK
  <2>2. Inside(stack, k)
    BY <2>1 DEF Inside, EqCalls
  <2> QED
    BY <2>1, <2>2 DEF MismatchInv, EqInv, FailuresTold
<1> QED
  BY <1>1, <1>2, InitMismatch, PTL DEF Spec

-----------------------------------------------------------------------------
(***************************************************************************)
(* The rows.                                                               *)
(***************************************************************************)

\* The types whose rows are among the first n minted.
RowsKnown(n) == {t \in Term : MentionsRow[t] \subseteq 0 .. (n - 1)}

KnownPair(n, q) ==
  IF q.sort = "row" THEN q.l \in Row(0 .. (n - 1)) /\ q.r \in Row(0 .. (n - 1))
  ELSE q.l \in RowsKnown(n) /\ q.r \in RowsKnown(n)

PairsKnown(n, calls) ==
  \A k \in 1 .. Len(calls) : \A m \in DOMAIN calls[k].rest : KnownPair(n, calls[k].rest[m])

\* The row slots lead nowhere twice, and every row in a slot or in a call in
\* progress was minted: the row `unify_row` mints next is nobody's yet.
RowsInv ==
  /\ nextRow \in 0 .. MaxRows
  /\ RowsSound(RowId, 0 .. (nextRow - 1), rowSubst)
  /\ subst \in [VarId -> RowsKnown(nextRow)]
  /\ PairsKnown(nextRow, stack)

LEMMA MoreKnown ==
  ASSUME NEW n \in Nat, NEW m \in Nat, n <= m
  PROVE  /\ RowsKnown(n) \subseteq RowsKnown(m)
         /\ \A q : KnownPair(n, q) => KnownPair(m, q)
         /\ \A calls : PairsKnown(n, calls) => PairsKnown(m, calls)
<1>1. 0 .. (n - 1) \subseteq 0 .. (m - 1)
  OBVIOUS
<1>2. RowsKnown(n) \subseteq RowsKnown(m)
  BY <1>1 DEF RowsKnown
<1>3. Row(0 .. (n - 1)) \subseteq Row(0 .. (m - 1))
  BY <1>1 DEF Row
<1>4. \A q : KnownPair(n, q) => KnownPair(m, q)
  BY <1>2, <1>3 DEF KnownPair
<1> QED
  BY <1>2, <1>4 DEF PairsKnown

\* A type mentions the rows its subtypes mention.
LEMMA RowsOfParts ==
  ASSUME NEW t \in Term, NEW k \in DOMAIN t.args
  PROVE  MentionsRow[t.args[k]] \subseteq MentionsRow[t]
<1> DEFINE below == UNION {MentionsRow[t.args[m]] : m \in DOMAIN t.args}
<1>1. MentionsRow[t.args[k]] \subseteq below
  OBVIOUS
<1>2. below \subseteq MentionsRow[t]
  BY MentionsAssumption
<1> QED
  BY <1>1, <1>2

\* What a type is taken apart into mentions no other rows.
LEMMA KnownParts ==
  ASSUME NEW n \in Nat, NEW t \in RowsKnown(n)
  PROVE  /\ t \in Term
         /\ \A k \in DOMAIN t.args : t.args[k] \in RowsKnown(n)
         /\ t.tag = "Fun" => t.row \in Row(0 .. (n - 1))
<1>1. t \in Term /\ MentionsRow[t] \subseteq 0 .. (n - 1)
  BY DEF RowsKnown
<1>2. \A k \in DOMAIN t.args : t.args[k] \in RowsKnown(n)
  <2> SUFFICES ASSUME NEW k \in DOMAIN t.args PROVE t.args[k] \in RowsKnown(n)
    OBVIOUS
  <2>1. t.args[k] \in Term
    BY <1>1, ArgsTyped
  <2> QED
    BY <1>1, <2>1, RowsOfParts DEF RowsKnown
<1>3. ASSUME t.tag = "Fun"
      PROVE  t.row \in Row(0 .. (n - 1))
  <2>1. t.row \in Row(RowId)
    BY <1>1, <1>3, TermAssumption
  <2>2. IsOpen(t.row) => t.row.id \in MentionsRow[t]
    BY <1>1, <1>3, MentionsAssumption
  <2> QED
    BY <1>1, <2>1, <2>2 DEF Row, IsOpen
<1> QED
  BY <1>1, <1>2, <1>3

LEMMA KnownLeaf ==
  ASSUME NEW n \in Nat, NEW t \in Term, t.args = <<>>, t.tag # "Fun"
  PROVE  t \in RowsKnown(n)
<1>1. MentionsRow[t] = {}
  BY MentionsAssumption
<1> QED
  BY <1>1 DEF RowsKnown

LEMMA KnownSeen ==
  ASSUME NEW n \in Nat, NEW s \in [VarId -> RowsKnown(n)], Chains(s), NEW t \in RowsKnown(n)
  PROVE  Bare[Resolve(s, t)] \in RowsKnown(n)
<1>1. s \in [VarId -> Term] /\ t \in Term
  BY DEF RowsKnown
<1>2. Resolve(s, t) \in RowsKnown(n)
  <2>1. CASE t.tag # "Var"
    BY <2>1 DEF Resolve
  <2>2. CASE t.tag = "Var"
    <3> DEFINE succ == VarSucc(s)
               end  == CHOOSE e \in Reach(succ, {t.num}) : succ[e] = {}
    <3>1. t.num \in VarId
      BY <1>1, <2>2, TermAssumption
    <3>2. \E e \in Reach(succ, {t.num}) : succ[e] = {}
      BY <1>1, <3>1, VarSuccTyped, AcyclicEnds DEF Chains
    <3>3. end \in Reach(succ, {t.num})
      BY <3>2
    <3>4. end \in VarId
      BY <3>3 DEF Reach, VarSucc
    <3>5. Resolve(s, t) = s[end]
      BY <2>2 DEF Resolve
    <3> QED
      BY <3>4, <3>5
  <2> QED
    BY <2>1, <2>2
<1>3. MentionsRow[Bare[Resolve(s, t)]] = MentionsRow[Resolve(s, t)] /\ Bare[Resolve(s, t)] \in Term
  BY <1>2, MentionsAssumption, BareAssumption DEF RowsKnown
<1> QED
  BY <1>2, <1>3 DEF RowsKnown

LEMMA KnownPeel ==
  ASSUME NEW n \in Nat, NEW t \in RowsKnown(n)
  PROVE  /\ TypeCon(ListName) \in RowsKnown(n) /\ TypeCon(LinkedListName) \in RowsKnown(n)
         /\ t.tag \in Named /\ t.args # <<>> => PeelHead(t) \in RowsKnown(n)
<1>1. t \in Term /\ t.args \in Seq(Term)
  BY TermAssumption DEF RowsKnown
<1>2. ASSUME NEW c, TypeCon(c) \in Term
      PROVE  TypeCon(c) \in RowsKnown(n)
  <2>1. TypeCon(c).tag # "Fun" /\ TypeCon(c).args = <<>>
    BY DEF TypeCon, Node
  <2> QED
    BY <1>2, <2>1, KnownLeaf
<1>3. ASSUME t.tag \in Named, t.args # <<>>
      PROVE  PeelHead(t) \in RowsKnown(n)
  <2>1. PeelHead(t) \in Term
    BY <1>1, <1>3, TermAssumption
  <2>2. CASE Len(t.args) = 1
    BY <1>2, <2>1, <2>2 DEF PeelHead
  <2>3. CASE Len(t.args) # 1
    <3> DEFINE xs == SubSeq(t.args, 1, Len(t.args) - 1)
    <3>1. Len(t.args) \in Nat /\ Len(t.args) > 0
      BY <1>1, <1>3
    <3>2. xs \in Seq(Term) /\ \A k \in DOMAIN xs : k \in DOMAIN t.args /\ xs[k] = t.args[k]
      BY <1>1, <3>1
    <3>3. PeelHead(t).tag = "Constructed" /\ PeelHead(t).args = xs
      BY <2>3 DEF PeelHead, Node
    <3> HIDE DEF xs
    <3>4. \A k \in DOMAIN xs : MentionsRow[xs[k]] \subseteq 0 .. (n - 1)
      BY <3>2, KnownParts DEF RowsKnown
    <3>5. MentionsRow[PeelHead(t)] = UNION {MentionsRow[xs[k]] : k \in DOMAIN xs}
      BY <2>1, <3>3, MentionsAssumption
    <3>6. MentionsRow[PeelHead(t)] \subseteq 0 .. (n - 1)
      BY <3>4, <3>5
    <3> QED
      BY <2>1, <3>6 DEF RowsKnown
  <2> QED
    BY <2>2, <2>3
<1> QED
  BY <1>2, <1>3, TermAssumption

LEMMA KnownTypePair ==
  ASSUME NEW n, NEW x \in RowsKnown(n), NEW y \in RowsKnown(n)
  PROVE  KnownPair(n, TypePair(x, y))
BY DEF KnownPair, TypePair

-----------------------------------------------------------------------------

LEMMA GoalKnown ==
  ASSUME SlotsOK, NEW n, PairsKnown(n, stack), stack # <<>>, ~Done(Top)
  PROVE  /\ KnownPair(n, Goal)
         /\ \A m \in DOMAIN Tail(Top.rest) : KnownPair(n, Tail(Top.rest)[m])
<1>1. Len(stack) \in 1 .. Len(stack)
  BY DEF SlotsOK
<1>2. Top.rest \in Seq(AnyPair) /\ Top.rest # <<>> /\ Top = stack[Len(stack)]
  BY GoalTyped DEF SlotsOK, Frames, AnyPair, Top, Last
<1>3. 1 \in DOMAIN Top.rest /\ Goal = Top.rest[1]
  BY <1>2 DEF Goal
<1>4. \A m \in DOMAIN Tail(Top.rest) : m + 1 \in DOMAIN Top.rest /\ Tail(Top.rest)[m] = Top.rest[m + 1]
  BY <1>2
<1>5. \A m \in DOMAIN Top.rest : KnownPair(n, Top.rest[m])
  BY <1>1, <1>2 DEF PairsKnown
<1> QED
  BY <1>3, <1>4, <1>5

LEMMA ContinueKnown ==
  ASSUME NEW n, NEW calls \in Seq(Frames), calls # <<>>, NEW g, PairsKnown(n, calls),
         \A m \in DOMAIN g.rest : KnownPair(n, g.rest[m])
  PROVE  PairsKnown(n, Continue(calls, g))
<1> DEFINE after == Continue(calls, g)
<1>1. Len(calls) \in Nat \ {0} /\ Len(after) = Len(calls)
  BY DEF Continue
<1>2. after[Len(calls)] = g /\ \A k \in 1 .. Len(calls) : k # Len(calls) => after[k] = calls[k]
  <2>1. DOMAIN calls = 1 .. Len(calls) /\ Len(calls) \in 1 .. Len(calls)
    BY <1>1
  <2> QED
    BY <2>1 DEF Continue
<1> HIDE DEF after
<1>3. PairsKnown(n, after)
  <2> SUFFICES ASSUME NEW k \in 1 .. Len(calls), NEW m \in DOMAIN after[k].rest
               PROVE  KnownPair(n, after[k].rest[m])
    BY <1>1 DEF PairsKnown
  <2>1. CASE k = Len(calls)
    BY <1>2, <2>1
  <2>2. CASE k # Len(calls)
    BY <1>2, <2>2 DEF PairsKnown
  <2> QED
    BY <2>1, <2>2
<1> QED
  BY <1>3 DEF after

LEMMA AnswerKnown ==
  ASSUME SlotsOK, NEW n, PairsKnown(n, stack), stack # <<>>, ~Done(Top), NEW ok, Answer(ok)
  PROVE  PairsKnown(n, stack')
<1> DEFINE g == [Top EXCEPT !.rest = Tail(@), !.acc = @ /\ ok]
<1>1. Top \in Frames
  BY GoalTyped DEF SlotsOK
<1>2. g.rest = Tail(Top.rest)
  BY <1>1 DEF Frames
<1>3. stack' = Continue(stack, g)
  BY DEF Answer
<1> HIDE DEF g
<1> QED
  BY <1>2, <1>3, GoalKnown, ContinueKnown DEF SlotsOK

LEMMA DescendKnown ==
  ASSUME SlotsOK, NEW n, PairsKnown(n, stack), stack # <<>>, ~Done(Top),
         NEW kind, NEW a, NEW b, NEW pairs, Descend(kind, a, b, pairs),
         \A m \in DOMAIN pairs : KnownPair(n, pairs[m])
  PROVE  PairsKnown(n, stack')
<1> DEFINE g == [Top EXCEPT !.rest = Tail(@)]
           f == Frame(kind, a, b, pairs)
           rest == Continue(stack, g)
<1>1. Top \in Frames /\ Top.rest \in Seq(AnyPair) /\ Top.rest # <<>>
  BY GoalTyped DEF SlotsOK, Frames, AnyPair
<1>2. g \in Frames /\ g.rest = Tail(Top.rest)
  <2>1. Tail(Top.rest) \in Seq(AnyPair)
    BY <1>1
  <2> QED
    BY <1>1, <2>1 DEF Frames, AnyPair
<1>3. f.rest = pairs
  BY DEF Frame
<1>4. stack' = Append(rest, f)
  BY DEF Descend
<1> HIDE DEF g, f
<1>5. PairsKnown(n, rest)
  BY <1>2, GoalKnown, ContinueKnown DEF SlotsOK
<1>6. rest \in Seq(Frames)
  BY <1>2, ContinueTyped DEF SlotsOK
<1> HIDE DEF rest
<1>7. Len(rest) \in Nat /\ Len(stack') = Len(rest) + 1 /\ stack'[Len(rest) + 1] = f
  BY <1>4, <1>6
<1>8. \A k \in 1 .. Len(rest) : stack'[k] = rest[k]
  BY <1>4, <1>6
<1> SUFFICES ASSUME NEW k \in 1 .. (Len(rest) + 1), NEW m \in DOMAIN stack'[k].rest
             PROVE  KnownPair(n, stack'[k].rest[m])
  BY <1>7 DEF PairsKnown
<1>9. CASE k = Len(rest) + 1
  BY <1>3, <1>7, <1>9
<1>10. CASE k \in 1 .. Len(rest)
  BY <1>5, <1>8, <1>10 DEF PairsKnown
<1> QED
  BY <1>7, <1>9, <1>10

LEMMA ReturnKnown ==
  ASSUME SlotsOK, NEW n, PairsKnown(n, stack), Return
  PROVE  PairsKnown(n, stack')
<1> DEFINE outer == SubSeq(stack, 1, Len(stack) - 1)
           g     == [Last(outer) EXCEPT !.acc = @ /\ Top.acc]
<1>1. stack \in Seq(Frames) /\ Len(stack) \in Nat \ {0}
  BY DEF Return, Returning, SlotsOK
<1>2. outer \in Seq(Frames) /\ \A k \in 1 .. Len(outer) : k \in 1 .. Len(stack) /\ outer[k] = stack[k]
  BY <1>1
<1>3. stack' = IF outer = <<>> THEN <<>> ELSE Continue(outer, g)
  BY DEF Return
<1> HIDE DEF outer
<1>4. PairsKnown(n, outer)
  BY <1>2 DEF PairsKnown
<1>5. CASE outer = <<>>
  BY <1>3, <1>5 DEF PairsKnown
<1>6. CASE outer # <<>>
  <2>1. Len(outer) \in 1 .. Len(outer) /\ Last(outer) = outer[Len(outer)] /\ Last(outer) \in Frames
    BY <1>2, <1>6 DEF Last
  <2>2. g.rest = Last(outer).rest
    BY <2>1 DEF Frames
  <2> HIDE DEF g
  <2>3. \A m \in DOMAIN g.rest : KnownPair(n, g.rest[m])
    BY <1>4, <2>1, <2>2 DEF PairsKnown
  <2> QED
    BY <1>2, <1>3, <1>4, <1>6, <2>3, ContinueKnown
<1> QED
  BY <1>5, <1>6

-----------------------------------------------------------------------------

LEMMA KnownPairs ==
  ASSUME NEW n \in Nat, NEW a \in RowsKnown(n), NEW b \in RowsKnown(n), Len(a.args) = Len(b.args)
  PROVE  \A m \in DOMAIN Pairs(a.args, b.args) : KnownPair(n, Pairs(a.args, b.args)[m])
<1>1. a.args \in Seq(Term) /\ b.args \in Seq(Term)
  BY ArgsTyped DEF RowsKnown
<1> SUFFICES ASSUME NEW m \in 1 .. Len(a.args)
             PROVE  KnownPair(n, TypePair(a.args[m], b.args[m]))
  BY <1>1 DEF Pairs
<1>2. m \in DOMAIN a.args /\ m \in DOMAIN b.args
  BY <1>1
<1> QED
  BY <1>2, KnownParts, KnownTypePair

LEMMA PeelKnown ==
  ASSUME SlotsOK, NEW n \in Nat, PairsKnown(n, stack), stack # <<>>, ~Done(Top),
         NEW app \in RowsKnown(n), NEW t \in RowsKnown(n), Peels(app, t), PeelArgument(app, t)
  PROVE  PairsKnown(n, stack')
<1> DEFINE head == PeeledHead(t)
           pairs == <<TypePair(app.args[1], head), TypePair(app.args[2], Last(t.args))>>
<1>1. t.args \in Seq(Term) /\ t.args # <<>> /\ t \in Term /\ app \in Term
  <2>1. t \in Term /\ app \in Term
    BY DEF RowsKnown
  <2>2. t.args \in Seq(Term) /\ (t.tag \in Listish => Len(t.args) = 1)
    BY <2>1, ArgsTyped DEF OneArg
  <2>3. t.tag \notin Listish => t.args # <<>>
    BY DEF Peels
  <2> QED
    BY <2>1, <2>2, <2>3
<1>2. Last(t.args) \in RowsKnown(n)
  <2>1. Len(t.args) \in DOMAIN t.args
    BY <1>1
  <2> QED
    BY <2>1, KnownParts DEF Last
<1>3. t.tag = "List" \/ t.tag = "LinkedList" \/ (t.tag \in Named /\ t.tag \notin Listish)
  BY DEF Peels, Listish, Named
<1>4. head \in RowsKnown(n)
  <2>1. CASE t.tag = "List"
    BY <2>1, KnownPeel DEF PeeledHead
  <2>2. CASE t.tag = "LinkedList"
    BY <2>2, KnownPeel DEF PeeledHead
  <2>3. CASE t.tag \in Named /\ t.tag \notin Listish
    <3>1. head = PeelHead(t)
      BY <2>3 DEF Listish, PeeledHead
    <3> QED
      BY <1>1, <2>3, <3>1, KnownPeel
  <2> QED
    BY <1>3, <2>1, <2>2, <2>3
<1>5. app.args[1] \in RowsKnown(n) /\ app.args[2] \in RowsKnown(n)
  <2>1. 1 \in DOMAIN app.args /\ 2 \in DOMAIN app.args
    BY <1>1, ArgsTyped DEF Peels, TwoArg
  <2> QED
    BY <2>1, KnownParts
<1>6. Descend("Seq", app, t, pairs)
  BY DEF PeelArgument
<1> HIDE DEF head
<1>7. \A m \in DOMAIN pairs : KnownPair(n, pairs[m])
  BY <1>2, <1>4, <1>5, KnownTypePair
<1> HIDE DEF pairs
<1> QED
  BY <1>6, <1>7, DescendKnown

\* Whatever arm is taken, the pairs it leaves and the slot it writes mention
\* rows already minted.
LEMMA ArmKnown ==
  ASSUME SlotsOK, NEW n \in Nat, PairsKnown(n, stack), stack # <<>>, ~Done(Top),
         NEW a \in RowsKnown(n), NEW b \in RowsKnown(n), Arm(a, b)
  PROVE  PairsKnown(n, stack')
<1>1. a \in Term /\ b \in Term
  BY DEF RowsKnown
<1>2. /\ \A k \in DOMAIN a.args : a.args[k] \in RowsKnown(n)
      /\ \A k \in DOMAIN b.args : b.args[k] \in RowsKnown(n)
      /\ a.tag = "Fun" => a.row \in Row(0 .. (n - 1))
      /\ b.tag = "Fun" => b.row \in Row(0 .. (n - 1))
  BY KnownParts
<1>3. CASE \E ok : Answer(ok)
  BY <1>3, AnswerKnown
<1>4. ASSUME NEW kind, Len(a.args) = Len(b.args), Descend(kind, a, b, Pairs(a.args, b.args))
      PROVE  PairsKnown(n, stack')
  BY <1>4, KnownPairs, DescendKnown
<1>5. /\ a.tag \in OneArg => Len(a.args) = 1 /\ 1 \in DOMAIN a.args
      /\ b.tag \in OneArg => Len(b.args) = 1 /\ 1 \in DOMAIN b.args
      /\ a.tag \in TwoArg => Len(a.args) = 2 /\ 1 \in DOMAIN a.args /\ 2 \in DOMAIN a.args
      /\ b.tag \in TwoArg => Len(b.args) = 2 /\ 1 \in DOMAIN b.args /\ 2 \in DOMAIN b.args
  BY <1>1, ArgsTyped
<1>6. CASE AbsorbError(a, b) \/ SameVariable(a, b) \/ BindVariables(a, b) \/ MeetBareName(a, b)
  <2>1. Answer(TRUE)
    BY <1>6 DEF AbsorbError, SameVariable, BindVariables, MeetBareName
  <2> QED
    BY <1>3, <2>1
<1>7. CASE BindVariable(a, b) \/ MeetOrConflict(a, b)
  <2>1. Answer(TRUE) \/ Answer(FALSE) \/ Answer(a = b)
    BY <1>7 DEF BindVariable, BindOrRefuse, MeetOrConflict, Answer
  <2> QED
    BY <1>3, <2>1
<1>8. CASE UnifyFun(a, b)
  <2> DEFINE pairs == <<TypePair(a.args[1], b.args[1]), RowPair(a.row, b.row),
                        TypePair(a.args[2], b.args[2])>>
  <2>1. a.tag = "Fun" /\ b.tag = "Fun" /\ a.tag \in TwoArg /\ b.tag \in TwoArg
    BY <1>8 DEF UnifyFun, SameHead, TwoArg
  <2>2. KnownPair(n, RowPair(a.row, b.row))
    BY <1>2, <2>1 DEF KnownPair, RowPair
  <2>3. KnownPair(n, TypePair(a.args[1], b.args[1])) /\ KnownPair(n, TypePair(a.args[2], b.args[2]))
    BY <1>2, <1>5, <2>1, KnownTypePair
  <2>4. \A m \in DOMAIN pairs : KnownPair(n, pairs[m])
    BY <2>2, <2>3
  <2>5. Descend("Fun", a, b, pairs)
    BY <1>8 DEF UnifyFun
  <2> HIDE DEF pairs
  <2> QED
    BY <2>4, <2>5, DescendKnown
<1>9. CASE UnifyElement(a, b)
  <2>1. a.tag \in OneArg /\ b.tag \in OneArg
    BY <1>9 DEF UnifyElement, Elementwise, SameHead, OneArg
  <2> QED
    BY <1>4, <1>5, <1>9, <2>1 DEF UnifyElement
<1>10. CASE UnifyNamed(a, b)
  <2>1. CASE Len(a.args) = Len(b.args)
    <3>1. Descend("Seq", a, b, Pairs(a.args, b.args))
      BY <1>10, <2>1 DEF UnifyNamed
    <3> QED
      BY <1>4, <2>1, <3>1
  <2>2. CASE Len(a.args) # Len(b.args)
    <3>1. Answer(FALSE)
      BY <1>10, <2>2 DEF UnifyNamed, Answer, Descend
    <3> QED
      BY <1>3, <3>1
  <2> QED
    BY <2>1, <2>2
<1>11. CASE UnifyMask(a, b)
  <2>1. a.tag \in OneArg /\ b.tag \in OneArg
    BY <1>11 DEF UnifyMask, SameMask, SameHead, OneArg
  <2> QED
    BY <1>4, <1>5, <1>11, <2>1 DEF UnifyMask
<1>12. CASE UnifyApply(a, b) \/ UnifyPropEq(a, b)
  <2>1. a.tag \in TwoArg /\ b.tag \in TwoArg
    BY <1>12 DEF UnifyApply, UnifyPropEq, SameHead, TwoArg
  <2> QED
    BY <1>4, <1>5, <1>12, <2>1 DEF UnifyApply, UnifyPropEq
<1>13. CASE PeelApply(a, b)
  BY <1>13, PeelKnown DEF PeelApply
<1>14. CASE SeeThrough(a, b)
  <2>1. ASSUME NEW x \in RowsKnown(n), NEW y \in RowsKnown(n),
               Descend("Seq", a, b, <<TypePair(x, y)>>)
        PROVE  PairsKnown(n, stack')
    <3> DEFINE pairs == <<TypePair(x, y)>>
    <3>1. \A m \in DOMAIN pairs : KnownPair(n, pairs[m])
      BY KnownTypePair
    <3>2. Descend("Seq", a, b, pairs)
      BY <2>1
    <3> HIDE DEF pairs
    <3> QED
      BY <3>1, <3>2, DescendKnown
  <2>2. CASE a.tag \in Quantified
    <3>1. Descend("Seq", a, b, <<TypePair(a.args[1], b)>>)
      BY <1>14, <2>2 DEF SeeThrough
    <3>2. a.tag \in OneArg
      BY <2>2 DEF OneArg
    <3> QED
      BY <1>2, <1>5, <2>1, <3>1, <3>2
  <2>3. CASE a.tag \notin Quantified
    <3>1. Descend("Seq", a, b, <<TypePair(a, b.args[1])>>)
      BY <1>14, <2>3 DEF SeeThrough
    <3>2. b.tag \in OneArg
      BY <1>14, <2>3 DEF OneArg, SeeThrough, Transparent
    <3> QED
      BY <1>2, <1>5, <2>1, <3>1, <3>2
  <2> QED
    BY <2>2, <2>3
<1> QED
  BY <1>6, <1>7, <1>8, <1>9, <1>10, <1>11, <1>12, <1>13, <1>14 DEF Arm

LEMMA ArmBindsKnown ==
  ASSUME NEW n, subst \in [VarId -> RowsKnown(n)], NEW a \in RowsKnown(n), NEW b \in RowsKnown(n),
         Arm(a, b)
  PROVE  subst' \in [VarId -> RowsKnown(n)]
<1>1. ASSUME NEW i, NEW t \in RowsKnown(n), BindVar(i, t)
      PROVE  subst' \in [VarId -> RowsKnown(n)]
  BY <1>1 DEF BindVar
<1>2. CASE BindVariables(a, b)
  BY <1>1, <1>2 DEF BindVariables
<1>3. CASE BindVariable(a, b)
  <2>1. ASSUME NEW v, NEW t \in RowsKnown(n), BindOrRefuse(v, t)
        PROVE  subst' \in [VarId -> RowsKnown(n)]
    <3>1. CASE OccursIn(subst, v.num, t)
      BY <2>1, <3>1 DEF BindOrRefuse
    <3>2. CASE ~OccursIn(subst, v.num, t)
      <4>1. BindVar(v.num, t)
        BY <2>1, <3>2 DEF BindOrRefuse
      <4> QED
        BY <1>1, <4>1
    <3> QED
      BY <3>1, <3>2
  <2> QED
    BY <1>3, <2>1 DEF BindVariable
<1>4. CASE ~BindVariables(a, b) /\ ~BindVariable(a, b)
  <2>1. subst' = subst
    BY <1>4 DEF Arm, AbsorbError, SameVariable, UnifyFun, UnifyElement, UnifyNamed, UnifyMask,
              UnifyApply, PeelApply, MeetBareName, UnifyPropEq, SeeThrough, MeetOrConflict
  <2> QED
    BY <2>1
<1> QED
  BY <1>2, <1>3, <1>4

LEMMA ArmRows ==
  ASSUME NEW a, NEW b, Arm(a, b)
  PROVE  rowSubst' = rowSubst /\ nextRow' = nextRow /\ nextId' = nextId /\ answer' = answer
BY DEF Arm, AbsorbError, SameVariable, BindVariables, BindVariable, UnifyFun, UnifyElement,
       UnifyNamed, UnifyMask, UnifyApply, PeelApply, MeetBareName, UnifyPropEq, SeeThrough,
       MeetOrConflict, keepRows, keepAll

LEMMA FunRowKnown ==
  ASSUME SlotsOK, RowsInv, UnifyFunRow
  PROVE  RowsInv'
<1> DEFINE u == UnifyRow(rowSubst, nextRow, Goal.l, Goal.r)
           minted == 0 .. (nextRow - 1)
<1>1. stack # <<>> /\ ~Done(Top) /\ Goal.sort = "row"
  BY DEF UnifyFunRow, AtRows
<1>2. Goal.l \in Row(minted) /\ Goal.r \in Row(minted)
  BY <1>1, GoalKnown DEF RowsInv, KnownPair
<1>3. /\ u.next <= MaxRows /\ rowSubst' = u.rs /\ nextRow' = u.next /\ subst' = subst
      /\ Answer(u.ok)
  BY DEF UnifyFunRow
<1>4. u.next = nextRow \/ u.next = nextRow + 1
  BY DEF UnifyRow, UnifyResolved, UnifyOpen, Agreed, Refused
<1>5. nextRow \in 0 .. MaxRows /\ MaxRows \in Nat
  BY MaxRowsAssumption DEF RowsInv
<1>6. u.next # nextRow => nextRow \in RowId \ minted
  BY <1>3, <1>4, <1>5 DEF RowId
<1>7. \/ u.next = nextRow     /\ RowsSound(RowId, minted, u.rs)
      \/ u.next = nextRow + 1 /\ RowsSound(RowId, minted \cup {nextRow}, u.rs)
  <2>1. RowsSound(RowId, minted, rowSubst) /\ nextRow \in Int
    BY <1>5 DEF RowsInv
  <2>2. UnifyRow(rowSubst, nextRow, Goal.l, Goal.r).next # nextRow => nextRow \in RowId \ minted
    BY <1>6
  <2> HIDE DEF minted
  <2>3. LET w == UnifyRow(rowSubst, nextRow, Goal.l, Goal.r)
        IN  \/ w.next = nextRow     /\ RowsSound(RowId, minted, w.rs)
            \/ w.next = nextRow + 1 /\ RowsSound(RowId, minted \cup {nextRow}, w.rs)
    BY <1>2, <2>1, <2>2, UnifyRowSound
  <2> QED
    BY <2>3
<1> HIDE DEF u
<1>8. nextRow + 1 \in Nat /\ nextRow <= nextRow + 1 /\ 0 .. (nextRow + 1 - 1) = minted \cup {nextRow}
  BY <1>5
<1>9. RowsSound(RowId, 0 .. (nextRow' - 1), rowSubst') /\ nextRow' \in 0 .. MaxRows
  <2>1. CASE u.next = nextRow /\ RowsSound(RowId, minted, u.rs)
    BY <1>3, <1>5, <2>1
  <2>2. CASE u.next = nextRow + 1 /\ RowsSound(RowId, minted \cup {nextRow}, u.rs)
    <3>1. nextRow' = nextRow + 1 /\ nextRow + 1 <= MaxRows
      BY <1>3, <2>2
    <3>2. nextRow' \in 0 .. MaxRows /\ 0 .. (nextRow' - 1) = minted \cup {nextRow}
      BY <1>5, <1>8, <3>1
    <3> QED
      BY <1>3, <2>2, <3>2
  <2> QED
    BY <1>7, <2>1, <2>2
<1>10. nextRow' \in Nat /\ nextRow <= nextRow'
  BY <1>3, <1>4, <1>5
<1>11. PairsKnown(nextRow, stack')
  BY <1>1, <1>3, AnswerKnown DEF RowsInv
<1>12. RowsKnown(nextRow) \subseteq RowsKnown(nextRow') /\ PairsKnown(nextRow', stack')
  BY <1>5, <1>10, <1>11, MoreKnown
<1>13. subst' \in [VarId -> RowsKnown(nextRow')]
  BY <1>3, <1>12 DEF RowsInv
<1> QED
  BY <1>9, <1>12, <1>13 DEF RowsInv

UnifierInv == MismatchInv /\ RowsInv /\ nextId \in Nat /\ {answer, uncovered} \subseteq BOOLEAN

LEMMA InitUnifier == Init => UnifierInv
<1> SUFFICES ASSUME Init PROVE RowsInv /\ nextId \in Nat /\ {answer, uncovered} \subseteq BOOLEAN
  BY InitMismatch DEF UnifierInv
<1>1. nextRow = 0 /\ rowSubst = [i \in RowId |-> RowVar(i)] /\ stack = <<>>
      /\ subst = [i \in VarId |-> Var(i)] /\ nextId \in Nat
      /\ {answer, uncovered} \subseteq BOOLEAN
  BY DEF Init
<1>2. nextRow \in 0 .. MaxRows
  BY <1>1, MaxRowsAssumption
<1>3. RowsSound(RowId, 0 .. (nextRow - 1), rowSubst)
  <2>1. NoTail \notin RowId
    BY DEF NoTail, RowId
  <2>2. rowSubst \in [RowId -> Row(RowId)]
    BY <1>1 DEF Row, RowVar
  <2>3. \A i \in RowId : RowSucc(rowSubst)[i] = {}
    BY <1>1 DEF RowSucc, RowUnbound
  <2>4. DOMAIN RowSucc(rowSubst) = RowId
    BY <1>1 DEF RowSucc
  <2>5. Acyclic(RowSucc(rowSubst))
    BY <2>3, <2>4 DEF Acyclic
  <2>6. 0 .. (nextRow - 1) = {}
    BY <1>1
  <2>7. \A i \in RowId : RowUnbound(rowSubst, i)
    BY <1>1 DEF RowUnbound
  <2> QED
    BY <2>1, <2>2, <2>5, <2>6, <2>7 DEF RowsSound
<1>4. subst \in [VarId -> RowsKnown(nextRow)]
  <2> SUFFICES ASSUME NEW i \in VarId PROVE Var(i) \in RowsKnown(0)
    BY <1>1
  <2>1. Var(i) \in Term
    BY TermAssumption
  <2>2. Var(i).args = <<>> /\ Var(i).tag # "Fun"
    BY DEF Var, Node
  <2> QED
    BY <2>1, <2>2, KnownLeaf
<1>5. PairsKnown(nextRow, stack)
  BY <1>1 DEF PairsKnown
<1> QED
  BY <1>1, <1>2, <1>3, <1>4, <1>5 DEF RowsInv

\* A step keeps every row in play minted, and the row slots sound.
LEMMA NextUnifier ==
  ASSUME UnifierInv, [Next]_vars
  PROVE  UnifierInv'
<1> USE DEF UnifierInv
<1>1. SlotsOK /\ Chains(subst) /\ MismatchInv'
  BY NextMismatch DEF MismatchInv, SlotsInv
<1>2. nextRow \in Nat /\ nextId \in Nat /\ answer \in BOOLEAN
  BY DEF RowsInv
<1>0. uncovered' \in BOOLEAN
  <2>1. CASE UnifyStep
    BY <2>1 DEF UnifyStep, Uncovers
  <2>2. CASE ~UnifyStep
    BY <2>2, OtherSteps
  <2> QED
    BY <2>1, <2>2
<1>3. CASE UnifyStep
  <2>1. stack # <<>> /\ ~Done(Top) /\ Arm(Left, Right) /\ Goal.sort = "type"
    BY <1>3 DEF UnifyStep, AtTypes
  <2>2. Goal.l \in RowsKnown(nextRow) /\ Goal.r \in RowsKnown(nextRow)
    BY <1>1, <2>1, GoalKnown DEF RowsInv, KnownPair
  <2>3. Left \in RowsKnown(nextRow) /\ Right \in RowsKnown(nextRow)
    BY <1>1, <1>2, <2>2, KnownSeen DEF RowsInv, Left, Right
  <2>4. /\ PairsKnown(nextRow, stack')
        /\ subst' \in [VarId -> RowsKnown(nextRow)]
    BY <1>1, <1>2, <2>1, <2>3, ArmKnown, ArmBindsKnown DEF RowsInv
  <2>5. rowSubst' = rowSubst /\ nextRow' = nextRow /\ nextId' = nextId /\ answer' = answer
    BY <2>1, ArmRows
  <2> QED
    BY <1>1, <1>2, <1>0, <2>4, <2>5 DEF RowsInv
<1>4. CASE UnifyFunRow
  <2>1. nextId' = nextId /\ answer' = answer
    BY <1>4 DEF UnifyFunRow
  <2> QED
    BY <1>1, <1>2, <1>0, <1>4, <2>1, FunRowKnown
<1>5. CASE Return
  <2>1. rowSubst' = rowSubst /\ nextRow' = nextRow /\ nextId' = nextId /\ subst' = subst
    BY <1>5 DEF Return, keepRows
  <2>2. PairsKnown(nextRow, stack')
    BY <1>1, <1>5, ReturnKnown DEF RowsInv
  <2>3. answer' \in BOOLEAN
    <3>1. Top \in Frames
      BY <1>1, <1>5 DEF Return, Returning, SlotsOK, Top, Last
    <3> QED
      BY <1>2, <1>5, <3>1 DEF Return, Frames
  <2> QED
    BY <1>1, <1>2, <1>0, <2>1, <2>2, <2>3 DEF RowsInv
<1>6. CASE \E x, y \in Operand : Unify(x, y)
  <2>1. PICK x \in Operand, y \in Operand : Unify(x, y)
    BY <1>6
  <2> DEFINE pairs == <<TypePair(x, y)>>
  <2>2. x \in RowsKnown(nextRow) /\ y \in RowsKnown(nextRow)
    BY <2>1, TermAssumption DEF Unify, Minted, RowsKnown
  <2>3. \A m \in DOMAIN pairs : KnownPair(nextRow, pairs[m])
    BY <2>2, KnownTypePair
  <2>4. /\ stack' = <<Frame("Top", x, y, pairs)>> /\ subst' = subst /\ answer' = answer
        /\ rowSubst' = rowSubst /\ nextRow' = nextRow /\ nextId' = nextId
    BY <2>1 DEF Unify, Begin, keepRows
  <2> HIDE DEF pairs
  <2>5. PairsKnown(nextRow, stack')
    BY <2>3, <2>4 DEF PairsKnown, Frame
  <2> QED
    BY <1>1, <1>2, <1>0, <2>4, <2>5 DEF RowsInv
<1>7. CASE Fresh
  <2>1. /\ stack' = stack /\ subst' = subst /\ answer' = answer
        /\ rowSubst' = rowSubst /\ nextRow' = nextRow /\ nextId' = nextId + 1
    BY <1>7 DEF Fresh
  <2> QED
    BY <1>1, <1>2, <1>0, <2>1 DEF RowsInv
<1>8. CASE FreshRow
  <2>1. /\ stack' = stack /\ subst' = subst /\ answer' = answer
        /\ rowSubst' = rowSubst /\ nextRow' = nextRow + 1 /\ nextId' = nextId
        /\ nextRow + RowsPerCall < MaxRows
    BY <1>8 DEF FreshRow
  <2>2. nextRow \in RowId /\ nextRow + 1 \in 0 .. MaxRows /\ nextRow + 1 \in Nat
    BY <1>2, <2>1, BoundAssumption, MaxRowsAssumption DEF RowId
  <2>3. RowsSound(RowId, (0 .. (nextRow - 1)) \cup {nextRow}, rowSubst)
    BY <2>2, MintSound DEF RowsInv
  <2>4. 0 .. (nextRow' - 1) = (0 .. (nextRow - 1)) \cup {nextRow}
    BY <1>2, <2>1
  <2>5. RowsKnown(nextRow) \subseteq RowsKnown(nextRow + 1) /\ PairsKnown(nextRow + 1, stack)
    BY <1>2, <2>2, MoreKnown DEF RowsInv
  <2>6. subst \in [VarId -> RowsKnown(nextRow + 1)]
    BY <2>5 DEF RowsInv
  <2>7. RowsSound(RowId, 0 .. (nextRow' - 1), rowSubst')
    BY <2>1, <2>3, <2>4
  <2>8. RowsInv'
    BY <2>1, <2>2, <2>5, <2>6, <2>7 DEF RowsInv
  <2> QED
    BY <1>1, <1>2, <1>0, <2>1, <2>8
<1>9. CASE UNCHANGED vars
  BY <1>1, <1>2, <1>0, <1>9 DEF vars, RowsInv
<1> QED
  BY <1>3, <1>4, <1>5, <1>6, <1>7, <1>8, <1>9 DEF Next, Step

\* What every state of the unifier holds, its row slots and its counters
\* included, whatever is unified with what.
THEOREM UnifierTyped == Spec => []TypeOK
<1>1. UnifierInv /\ [Next]_vars => UnifierInv'
  BY NextUnifier
<1>2. UnifierInv => TypeOK
  <2> SUFFICES ASSUME UnifierInv PROVE TypeOK
    OBVIOUS
  <2>1. SlotsOK /\ stack \in Seq(Frames)
    BY DEF UnifierInv, MismatchInv, SlotsInv, SlotsOK
  <2>2. propeqDepth \in Nat
    BY <2>1, EqCount DEF UnifierInv, MismatchInv, EqInv
  <2> QED
    BY <2>1, <2>2 DEF TypeOK, UnifierInv, MismatchInv, EqInv, Codes, RowsInv, RowsSound
<1> QED
  BY <1>1, <1>2, InitUnifier, PTL DEF Spec

\* Rows met while types are unified, at any depth of the recursion, can be
\* resolved to an end: binding a row leads none back to itself.
THEOREM RowsResolve == Spec => []NoRowCycle
<1>1. UnifierInv /\ [Next]_vars => UnifierInv'
  BY NextUnifier
<1>2. UnifierInv => NoRowCycle
  BY DEF UnifierInv, RowsInv, RowsSound, NoRowCycle
<1> QED
  BY <1>1, <1>2, InitUnifier, PTL DEF Spec

-----------------------------------------------------------------------------
(***************************************************************************)
(* Types that are one.                                                     *)
(***************************************************************************)

\* A variable leads to one variable at most.
LEMMA OneSucc ==
  ASSUME NEW s \in [VarId -> Term]
  PROVE  \A n \in VarId : \A p, q \in VarSucc(s)[n] : p = q
BY DEF VarSucc

\* What is read after an unbound variable was bound to a type that is no bound
\* variable: whoever ended there reads that type, and nobody else notices.
LEMMA ResolveAfter ==
  ASSUME NEW s \in [VarId -> Term], Chains(s),
         NEW i \in VarId, Unbound(s, i), NEW t \in Term, t # Var(i),
         t.tag = "Var" => Unbound(s, t.num),
         NEW new \in [VarId -> Term], new[i] = t, \A j \in VarId : j # i => new[j] = s[j],
         Chains(new), NEW u \in Term
  PROVE  Resolve(new, u) = IF Resolve(s, u) = Var(i) THEN t ELSE Resolve(s, u)
<1>1. CASE u.tag # "Var"
  <2>1. Resolve(s, u) = u /\ Resolve(new, u) = u
    BY <1>1 DEF Resolve
  <2>2. u # Var(i)
    BY <1>1 DEF Var, Node
  <2> QED
    BY <2>1, <2>2
<1>2. CASE u.tag = "Var"
  <2> DEFINE T     == IF t.tag = "Var" THEN {t.num} ELSE {}
             succ  == VarSucc(s)
             nsucc == VarSucc(new)
             C     == Reach(succ, {u.num})
             nC    == Reach(nsucc, {u.num})
             end   == CHOOSE e \in C : succ[e] = {}
             nend  == CHOOSE e \in nC : nsucc[e] = {}
  <2>1. u.num \in VarId /\ new \in [VarId -> Term]
    BY <1>2, TermAssumption
  <2>2. /\ succ \in [VarId -> SUBSET VarId] /\ Acyclic(succ)
        /\ \A n \in VarId : \A p, q \in succ[n] : p = q
    BY VarSuccTyped, OneSucc DEF Chains
  <2>3. /\ nsucc \in [VarId -> SUBSET VarId] /\ Acyclic(nsucc)
        /\ \A n \in VarId : \A p, q \in nsucc[n] : p = q
    BY <2>1, VarSuccTyped, OneSucc DEF Chains
  <2>4. t.tag = "Var" => t.num \in VarId /\ t = Var(t.num) /\ t.num # i
    BY TermAssumption
  <2>5. T \in SUBSET VarId /\ \A j \in T : succ[j] = {}
    BY <2>4 DEF VarSucc
  <2>6. succ[i] = {} /\ nsucc[i] = T /\ \A n \in VarId : n # i => nsucc[n] = succ[n]
    BY <2>1 DEF VarSucc, Unbound
  <2>7. Closed(succ, T)
    BY <2>5 DEF Closed
  <2>8. Resolve(s, u) = s[end] /\ Resolve(new, u) = new[nend]
    BY <1>2 DEF Resolve
  <2>9. /\ \A n \in VarId : n # i => new[n] = s[n]
        /\ new[i] = t /\ s[i] = Var(i)
    BY DEF Unbound
  <2>10. \A n \in VarId : succ[n] = {} => (s[n] = Var(i) <=> n = i)
    <3> SUFFICES ASSUME NEW n \in VarId, succ[n] = {}, s[n] = Var(i) PROVE n = i
      BY <2>9
    <3>1. s[n].tag = "Var" /\ s[n].num = i
      BY DEF Var, Node
    <3>2. s[n] = Var(n)
      BY <3>1 DEF VarSucc, Unbound
    <3> QED
      BY <3>1, <3>2 DEF Var, Node
  <2> HIDE DEF T, succ, nsucc
  <2>11. nC = C \cup (IF i \in C THEN T ELSE {})
    <3>1. {u.num} \in SUBSET VarId
      BY <2>1
    <3>0. /\ succ \in [VarId -> SUBSET VarId] /\ nsucc \in [VarId -> SUBSET VarId]
          /\ T \in SUBSET VarId /\ Closed(succ, T) /\ succ[i] = {} /\ nsucc[i] = T
          /\ \A n \in VarId : n # i => nsucc[n] = succ[n]
      BY <2>2, <2>3, <2>5, <2>6, <2>7
    <3> HIDE DEF C, nC
    <3>2. Reach(nsucc, {u.num}) = Reach(succ, {u.num}) \cup (IF i \in Reach(succ, {u.num}) THEN T ELSE {})
      BY <3>0, <3>1, ReachBind
    <3> QED
      BY <3>2 DEF C, nC
  <2>12. end \in C /\ succ[end] = {} /\ C \subseteq VarId
    <3>1. \E e \in C : succ[e] = {}
      BY <2>1, <2>2, AcyclicEnds
    <3>2. C \subseteq VarId
      BY <2>2 DEF Reach
    <3> QED
      BY <3>1, <3>2
  <2>13. nend \in nC /\ nsucc[nend] = {}
    <3>1. \E e \in nC : nsucc[e] = {}
      BY <2>1, <2>3, AcyclicEnds
    <3> QED
      BY <3>1
  <2>14. i \in C => end = i
    BY <2>1, <2>2, <2>6, <2>12, OneEnd
  <2>15. ASSUME NEW e \in nC, nsucc[e] = {} PROVE nend = e
    BY <2>1, <2>3, <2>13, <2>15, OneEnd
  <2> HIDE DEF C, nC, end, nend
  <2>16. CASE i \notin C
    <3>1. nC = C /\ end # i /\ end \in VarId
      BY <2>11, <2>12, <2>16
    <3>2. nend = end
      BY <2>6, <2>12, <2>15, <3>1
    <3>3. Resolve(new, u) = Resolve(s, u)
      BY <2>8, <2>9, <3>1, <3>2
    <3>4. Resolve(s, u) # Var(i)
      BY <2>8, <2>10, <2>12, <3>1
    <3> QED
      BY <3>3, <3>4
  <2>17. CASE i \in C
    <3>1. end = i /\ nC = C \cup T /\ Resolve(s, u) = Var(i)
      BY <2>8, <2>9, <2>11, <2>14, <2>17
    <3>2. new[nend] = t
      <4>1. CASE t.tag = "Var"
        <5>1. t.num \in T
          BY <4>1 DEF T
        <5>2. t.num \in nC /\ nsucc[t.num] = {} /\ t.num # i /\ t.num \in VarId
          BY <2>4, <2>5, <2>6, <3>1, <4>1, <5>1
        <5>3. nend = t.num
          BY <2>15, <5>2
        <5>4. s[t.num] = Var(t.num)
          BY <4>1 DEF Unbound
        <5> QED
          BY <2>4, <2>9, <4>1, <5>2, <5>3, <5>4
      <4>2. CASE t.tag # "Var"
        <5>1. T = {}
          BY <4>2 DEF T
        <5>2. nend = i
          BY <2>6, <2>15, <2>17, <3>1, <5>1
        <5> QED
          BY <2>9, <5>2
      <4> QED
        BY <4>1, <4>2
    <3> QED
      BY <2>8, <3>1, <3>2
  <2> QED
    BY <2>16, <2>17
<1> QED
  BY <1>1, <1>2

\* A type that is no bound variable resolves to itself.
LEMMA ResolveStill ==
  ASSUME NEW s \in [VarId -> Term], Chains(s), NEW r \in Term, r.tag = "Var" => Unbound(s, r.num)
  PROVE  Resolve(s, r) = r
<1>1. CASE r.tag # "Var"
  BY <1>1 DEF Resolve
<1>2. CASE r.tag = "Var"
  <2> DEFINE succ == VarSucc(s)
             C    == Reach(succ, {r.num})
             end  == CHOOSE e \in C : succ[e] = {}
  <2>1. r.num \in VarId /\ s[r.num] = Var(r.num) /\ r = Var(r.num)
    BY <1>2, TermAssumption DEF Unbound
  <2>2. succ \in [VarId -> SUBSET VarId] /\ Acyclic(succ)
    BY VarSuccTyped DEF Chains
  <2>3. succ[r.num] = {}
    BY <2>1 DEF VarSucc, Unbound
  <2>4. C \subseteq {r.num}
    <3>1. Closed(succ, {r.num}) /\ {r.num} \in SUBSET DOMAIN succ
      BY <2>1, <2>2, <2>3 DEF Closed
    <3> HIDE DEF succ
    <3> QED
      BY <3>1, ReachLeast
  <2>5. \E e \in C : succ[e] = {}
    BY <2>1, <2>2, AcyclicEnds
  <2>6. end = r.num
    BY <2>4, <2>5
  <2>7. Resolve(s, r) = s[end]
    BY <1>2 DEF Resolve
  <2> QED
    BY <2>1, <2>6, <2>7
<1> QED
  BY <1>1, <1>2

\* A type reads as what it resolves to once `linear` is off it: two turns are one.
LEMMA SeenIs ==
  ASSUME NEW s \in [VarId -> Term], Chains(s), NEW u \in Term
  PROVE  /\ Seen(s, u) = Resolve(s, Bare[u])
         /\ Seen(s, u) \in Term /\ Bare[Seen(s, u)] = Seen(s, u)
         /\ Seen(s, u).tag = "Var" => Unbound(s, Seen(s, u).num)
<1> DEFINE v == Resolve(s, Bare[u])
<1>1. Bare[u] \in Term /\ Bare[u].tag # "Linear"
  BY BareAssumption
<1>2. /\ v \in Term /\ v.tag # "Linear"
      /\ v.tag = "Var" => Unbound(s, v.num)
  BY <1>1, ResolveEnds
<1>3. Bare[v] = v
  BY <1>2, BareAssumption
<1>4. CASE u.tag = "Linear"
  <2>1. Resolve(s, u) = u
    BY <1>4 DEF Resolve
  <2> QED
    BY <1>2, <1>3, <2>1 DEF Seen
<1>5. CASE u.tag # "Linear"
  <2>1. Bare[u] = u
    BY <1>5, BareAssumption
  <2>2. Resolve(s, v) = v
    BY <1>2, ResolveStill
  <2> QED
    BY <1>2, <1>3, <2>1, <2>2 DEF Seen
<1> QED
  BY <1>4, <1>5

LEMMA SeenAfter ==
  ASSUME NEW s \in [VarId -> Term], Chains(s),
         NEW i \in VarId, Unbound(s, i), NEW t \in Term, t # Var(i),
         t.tag = "Var" => Unbound(s, t.num),
         NEW new \in [VarId -> Term], new[i] = t, \A j \in VarId : j # i => new[j] = s[j],
         Chains(new), NEW u \in Term
  PROVE  Seen(new, u) = IF Seen(s, u) = Var(i) THEN t ELSE Seen(s, u)
<1>1. Bare[u] \in Term
  BY BareAssumption
<1>2. Seen(s, u) = Resolve(s, Bare[u]) /\ Seen(new, u) = Resolve(new, Bare[u])
  BY SeenIs
<1> QED
  BY <1>1, <1>2, ResolveAfter

\* A side that is no bound variable is its type as it reads, and reads as itself.
LEMMA SideSeen ==
  ASSUME NEW s \in [VarId -> Term], Chains(s), NEW u \in Term,
         NEW r, r = Bare[Resolve(s, u)], r.tag = "Var" => Unbound(s, r.num)
  PROVE  Seen(s, u) = r /\ Seen(s, r) = r
<1>1. r \in Term /\ Bare[r] = r
  BY StrippedEnds
<1>2. Resolve(s, r) = r
  BY <1>1, ResolveStill
<1>3. Seen(s, u) = r
  BY <1>1, <1>2 DEF Seen
<1>4. Seen(s, r) = r
  BY <1>1, <1>2 DEF Seen
<1> QED
  BY <1>3, <1>4

-----------------------------------------------------------------------------
(***************************************************************************)
(* Pairs that meet.                                                        *)
(***************************************************************************)
PairsOf(n) == TypePairs \cup {p \in RowPairs : {p.l, p.r} \subseteq Row(0 .. (n - 1))}

\* With more pairs to rely on, whatever met still meets.
LEMMA MeetMore ==
  ASSUME NEW E, NEW F, E \subseteq F, NEW a, NEW b, Meet(E, a, b)
  PROVE  Meet(F, a, b)
BY DEF Meet, PartsMeet, PeeledMeet, BodiesMeet

LEMMA PairMeetsMore ==
  ASSUME NEW s, NEW rs, NEW E, NEW F, E \subseteq F, NEW p, PairMeets(s, rs, E, p)
  PROVE  PairMeets(s, rs, F, p)
BY MeetMore DEF PairMeets

\* A variable meets nothing but itself and an error.
LEMMA VariableMeets ==
  ASSUME NEW E, NEW a, NEW b, Meet(E, a, b), a.tag = "Var" \/ b.tag = "Var"
  PROVE  a = b \/ Absorbed(a, b)
<1> SUFFICES ASSUME ~Absorbed(a, b) PROVE a = b
  OBVIOUS
<1>1. OneVariable(a, b)
  BY DEF OneVariable
<1>2. ~BareName(a, b) /\ ~BareName(b, a) /\ ~Peels(a, b) /\ ~Peels(b, a)
  BY DEF BareName, Peels, Listish, Named
<1>3. ~Proofs(a, b)
  BY DEF Proofs
<1>4. ~SameShape(a, b)
  BY DEF SameShape, Elementwise, SameName, SameMask, SameHead, Listish, Named, TwoArg
<1> QED
  BY <1>1, <1>2, <1>3, <1>4 DEF Meet, PeeledMeet, BodiesMeet

\* The binding an arm makes.
Binding(i, t) ==
  /\ Unbound(subst, i) /\ t # Var(i)
  /\ t.tag = "Var" => Unbound(subst, t.num)
  /\ subst' = [subst EXCEPT ![i] = t]

LEMMA SeenBound ==
  ASSUME SlotsInv, SlotsInv', NEW i \in VarId, NEW t \in Term, Binding(i, t), NEW u \in Term
  PROVE  Seen(subst', u) = IF Seen(subst, u) = Var(i) THEN t ELSE Seen(subst, u)
<1>1. /\ subst \in [VarId -> Term] /\ Chains(subst)
      /\ subst' \in [VarId -> Term] /\ Chains(subst')
  BY DEF SlotsInv, SlotsOK
<1>2. /\ Unbound(subst, i) /\ t # Var(i)
      /\ t.tag = "Var" => Unbound(subst, t.num)
      /\ subst'[i] = t /\ \A j \in VarId : j # i => subst'[j] = subst[j]
  BY <1>1 DEF Binding
<1> QED
  BY <1>1, <1>2, SeenAfter

\* Binding a variable undoes no pair that met.
LEMMA PairStays ==
  ASSUME SlotsInv, SlotsInv', NEW i \in VarId, NEW t \in Term, Binding(i, t),
         NEW rs, NEW E, NEW p \in AnyPair, PairMeets(subst, rs, E, p)
  PROVE  PairMeets(subst', rs, E, p)
<1>1. CASE p.sort = "row"
  BY <1>1 DEF PairMeets
<1>2. CASE p.sort # "row"
  <2> DEFINE a == Seen(subst, p.l)
             b == Seen(subst, p.r)
             x == Seen(subst', p.l)
             y == Seen(subst', p.r)
  <2>1. p.l \in Term /\ p.r \in Term
    BY <1>2 DEF AnyPair, TypePairs, RowPairs
  <2>2. x = (IF a = Var(i) THEN t ELSE a) /\ y = (IF b = Var(i) THEN t ELSE b)
    BY <2>1, SeenBound
  <2>3. Meet(E, a, b)
    BY <1>2 DEF PairMeets
  <2> HIDE DEF a, b, x, y
  <2>4. Var(i).tag = "Var"
    BY DEF Var, Node
  <2>5. Meet(E, x, y)
    <3>1. CASE a # Var(i) /\ b # Var(i)
      BY <2>2, <2>3, <3>1
    <3>2. CASE a = b
      BY <2>2, <3>2 DEF Meet
    <3>3. CASE a # b /\ (a = Var(i) \/ b = Var(i))
      <4>1. Absorbed(a, b)
        BY <2>3, <2>4, <3>3, VariableMeets
      <4>2. (a.tag = "Error" /\ x = a) \/ (b.tag = "Error" /\ y = b)
        BY <2>2, <2>4, <4>1 DEF Absorbed
      <4>3. Absorbed(x, y)
        BY <4>2 DEF Absorbed
      <4> QED
        BY <4>3 DEF Meet
    <3> QED
      BY <3>1, <3>2, <3>3
  <2> QED
    BY <1>2, <2>5 DEF PairMeets, x, y
<1> QED
  BY <1>1, <1>2

-----------------------------------------------------------------------------
(***************************************************************************)
(* What an arm makes of the pair at hand.                                  *)
(***************************************************************************)

\* The pairs of a sequence.
Those(pairs) == {pairs[m] : m \in DOMAIN pairs}

\* An arm decides the pair at hand, or names the pairs it depends on.
Decides(ok, a, b) == Answer(ok) /\ (ok => subst' = subst /\ Meet({}, a, b))

DependsOn(a, b) ==
  \E kind \in FrameKind : \E x, y \in {a, b} : \E pairs \in Seq(AnyPair) :
    /\ Descend(kind, x, y, pairs) /\ subst' = subst
    /\ Meet(Those(pairs), a, b) /\ Meet(Those(pairs), x, y)

LEMMA SameShapeMeets ==
  ASSUME NEW a \in Term, NEW b \in Term, SameShape(a, b), a.tag # "Fun",
         NEW kind \in FrameKind, Descend(kind, a, b, Pairs(a.args, b.args)), subst' = subst
  PROVE  DependsOn(a, b)
<1> DEFINE pairs == Pairs(a.args, b.args)
<1>1. a.args \in Seq(Term) /\ b.args \in Seq(Term) /\ Len(a.args) = Len(b.args)
  BY ArgsTyped DEF SameShape
<1>2. pairs \in Seq(AnyPair)
  BY <1>1, PairsTyped
<1>3. DOMAIN pairs = DOMAIN a.args /\ \A k \in DOMAIN a.args : pairs[k] = TypePair(a.args[k], b.args[k])
  BY <1>1 DEF Pairs
<1>4. Descend(kind, a, b, pairs)
  OBVIOUS
<1> HIDE DEF pairs
<1>5. \A k \in DOMAIN a.args : TypePair(a.args[k], b.args[k]) \in Those(pairs)
  BY <1>3 DEF Those
<1>6. Meet(Those(pairs), a, b)
  BY <1>5 DEF Meet, PartsMeet
<1> QED
  BY <1>2, <1>4, <1>6 DEF DependsOn

LEMMA FunMeets ==
  ASSUME NEW a \in Term, NEW b \in Term, UnifyFun(a, b)
  PROVE  DependsOn(a, b)
<1> DEFINE pairs == <<TypePair(a.args[1], b.args[1]), RowPair(a.row, b.row),
                      TypePair(a.args[2], b.args[2])>>
<1>1. a.tag = "Fun" /\ b.tag = "Fun" /\ a.tag \in TwoArg /\ b.tag \in TwoArg
  BY DEF UnifyFun, SameHead, TwoArg
<1>2. a.row \in Row(RowId) /\ b.row \in Row(RowId)
  BY <1>1, TermAssumption
<1>3. /\ Len(a.args) = 2 /\ Len(b.args) = 2 /\ a.args \in Seq(Term)
      /\ a.args[1] \in Term /\ a.args[2] \in Term /\ b.args[1] \in Term /\ b.args[2] \in Term
  BY <1>1, ArgsTyped
<1>4. RowPair(a.row, b.row) \in AnyPair
  BY <1>2 DEF RowPair, RowPairs, AnyPair
<1>5. TypePair(a.args[1], b.args[1]) \in AnyPair /\ TypePair(a.args[2], b.args[2]) \in AnyPair
  BY <1>3, TypePairTyped
<1>6. pairs \in Seq(AnyPair)
  BY <1>4, <1>5
<1>7. DOMAIN pairs = {1, 2, 3} /\ DOMAIN a.args = {1, 2}
  BY <1>3
<1>8. /\ TypePair(a.args[1], b.args[1]) \in Those(pairs) /\ RowPair(a.row, b.row) \in Those(pairs)
      /\ TypePair(a.args[2], b.args[2]) \in Those(pairs)
  <2>1. /\ pairs[1] = TypePair(a.args[1], b.args[1]) /\ pairs[2] = RowPair(a.row, b.row)
        /\ pairs[3] = TypePair(a.args[2], b.args[2])
    OBVIOUS
  <2> HIDE DEF pairs
  <2> QED
    BY <1>7, <2>1 DEF Those
<1>9. Descend("Fun", a, b, pairs) /\ subst' = subst
  BY DEF UnifyFun
<1> HIDE DEF pairs
<1>10. \A k \in DOMAIN a.args : TypePair(a.args[k], b.args[k]) \in Those(pairs)
  BY <1>7, <1>8
<1>11. SameShape(a, b)
  BY <1>1, <1>3 DEF SameShape, SameHead
<1>12. Meet(Those(pairs), a, b)
  BY <1>8, <1>10, <1>11 DEF Meet, PartsMeet
<1> QED
  BY <1>6, <1>9, <1>12 DEF DependsOn, FrameKind

LEMMA PeelMeets ==
  ASSUME NEW app \in Term, NEW t \in Term, Peels(app, t), PeelArgument(app, t), subst' = subst
  PROVE  DependsOn(app, t) /\ DependsOn(t, app)
<1> DEFINE pairs == <<TypePair(app.args[1], PeeledHead(t)), TypePair(app.args[2], Last(t.args))>>
<1>1. PeeledHead(t) \in Term /\ Last(t.args) \in Term
  <2>1. t.args \in Seq(Term) /\ t.args # <<>>
    BY ArgsTyped DEF Peels, OneArg
  <2>2. Last(t.args) \in Term
    BY <2>1 DEF Last
  <2>3. PeelHead(t) \in Term \/ t.tag \in Listish
    BY <2>1, TermAssumption DEF Peels
  <2> QED
    BY <2>2, <2>3, TermAssumption DEF PeeledHead, Listish
<1>2. app.args[1] \in Term /\ app.args[2] \in Term
  BY ArgsTyped DEF Peels, TwoArg
<1>3. pairs \in Seq(AnyPair)
  BY <1>1, <1>2, TypePairTyped
<1>4. /\ pairs[1] = TypePair(app.args[1], PeeledHead(t))
      /\ pairs[2] = TypePair(app.args[2], Last(t.args)) /\ DOMAIN pairs = {1, 2}
  OBVIOUS
<1>5. Descend("Seq", app, t, pairs)
  BY DEF PeelArgument
<1> HIDE DEF pairs
<1>6. PeeledMeet(Those(pairs), app, t)
  BY <1>4 DEF PeeledMeet, Those
<1>7. Meet(Those(pairs), app, t) /\ Meet(Those(pairs), t, app)
  BY <1>6 DEF Meet
<1> QED
  BY <1>3, <1>5, <1>7 DEF DependsOn, FrameKind

LEMMA SeeThroughMeets ==
  ASSUME NEW a \in Term, NEW b \in Term, SeeThrough(a, b)
  PROVE  DependsOn(a, b)
<1> DEFINE pair  == IF a.tag \in Quantified THEN TypePair(a.args[1], b) ELSE TypePair(a, b.args[1])
           pairs == <<pair>>
<1>1. a.tag \in Quantified \/ b.tag \in Quantified
  BY DEF SeeThrough, Transparent
<1>2. pair \in AnyPair
  BY <1>1, ArgsTyped, TypePairTyped DEF OneArg
<1>3. Descend("Seq", a, b, pairs) /\ subst' = subst /\ ~OneVariable(a, b)
  BY DEF SeeThrough
<1>4. pairs \in Seq(AnyPair) /\ DOMAIN pairs = {1} /\ pairs[1] = pair
  BY <1>2
<1> HIDE DEF pairs
<1>5. BodiesMeet(Those(pairs), a, b)
  BY <1>1, <1>3, <1>4 DEF BodiesMeet, Those
<1>6. Meet(Those(pairs), a, b)
  BY <1>5 DEF Meet
<1> QED
  BY <1>3, <1>4, <1>6 DEF DependsOn, FrameKind

\* What an arm that binds nothing comes to.
LEMMA ArmMeets ==
  ASSUME NEW a \in Term, NEW b \in Term, Arm(a, b), ~BindVariables(a, b), ~BindVariable(a, b)
  PROVE  (\E ok \in BOOLEAN : Decides(ok, a, b)) \/ DependsOn(a, b)
<1>1. CASE AbsorbError(a, b) \/ SameVariable(a, b) \/ MeetBareName(a, b)
  <2>1. Answer(TRUE) /\ subst' = subst
    BY <1>1 DEF AbsorbError, SameVariable, MeetBareName
  <2>2. Meet({}, a, b)
    BY <1>1 DEF AbsorbError, SameVariable, MeetBareName, Meet
  <2> QED
    BY <2>1, <2>2 DEF Decides
<1>2. CASE UnifyFun(a, b)
  BY <1>2, FunMeets
<1>3. CASE UnifyElement(a, b)
  <2>1. Elementwise(a, b) /\ Descend("Seq", a, b, Pairs(a.args, b.args)) /\ subst' = subst
    BY <1>3 DEF UnifyElement
  <2>2. a.tag \in OneArg /\ b.tag \in OneArg /\ a.tag # "Fun"
    BY <2>1 DEF Elementwise, SameHead, OneArg, Listish
  <2>3. SameShape(a, b)
    BY <2>1, <2>2, ArgsTyped DEF SameShape
  <2> QED
    BY <2>1, <2>2, <2>3, SameShapeMeets DEF FrameKind
<1>4. CASE UnifyNamed(a, b)
  <2>1. CASE Len(a.args) = Len(b.args)
    <3>1. SameShape(a, b) /\ a.tag # "Fun"
      BY <1>4, <2>1 DEF UnifyNamed, SameShape, SameName, Named
    <3>2. Descend("Seq", a, b, Pairs(a.args, b.args)) /\ subst' = subst
      BY <1>4, <2>1 DEF UnifyNamed
    <3> QED
      BY <3>1, <3>2, SameShapeMeets DEF FrameKind
  <2>2. CASE Len(a.args) # Len(b.args)
    <3>1. Answer(FALSE)
      BY <1>4, <2>2 DEF UnifyNamed, Answer, Descend
    <3> QED
      BY <3>1 DEF Decides
  <2> QED
    BY <2>1, <2>2
<1>5. CASE UnifyMask(a, b)
  <2>1. SameMask(a, b) /\ Descend("Mask", a, b, Pairs(a.args, b.args)) /\ subst' = subst
    BY <1>5 DEF UnifyMask
  <2>2. a.tag \in OneArg /\ b.tag \in OneArg /\ a.tag # "Fun"
    BY <2>1 DEF SameMask, SameHead, OneArg
  <2>3. SameShape(a, b)
    BY <2>1, <2>2, ArgsTyped DEF SameShape
  <2> QED
    BY <2>1, <2>2, <2>3, SameShapeMeets DEF FrameKind
<1>6. CASE UnifyApply(a, b) \/ UnifyPropEq(a, b)
  <2>1. \/ Descend("Seq", a, b, Pairs(a.args, b.args))
        \/ Descend("PropEq", a, b, Pairs(a.args, b.args))
    BY <1>6 DEF UnifyApply, UnifyPropEq
  <2>2. subst' = subst /\ \E tag \in TwoArg : SameHead(tag, a, b)
    BY <1>6 DEF UnifyApply, UnifyPropEq, TwoArg
  <2>3. a.tag \in TwoArg /\ b.tag \in TwoArg /\ a.tag # "Fun"
    BY <1>6 DEF UnifyApply, UnifyPropEq, SameHead, TwoArg
  <2>4. SameShape(a, b)
    BY <2>2, <2>3, ArgsTyped DEF SameShape
  <2> QED
    BY <2>1, <2>2, <2>3, <2>4, SameShapeMeets DEF FrameKind
<1>7. CASE PeelApply(a, b)
  BY <1>7, PeelMeets DEF PeelApply
<1>8. CASE SeeThrough(a, b)
  BY <1>8, SeeThroughMeets
<1>9. CASE MeetOrConflict(a, b)
  <2>1. Answer(a = b) /\ subst' = subst
    BY <1>9 DEF MeetOrConflict
  <2>2. (a = b) \in BOOLEAN /\ (a = b => Meet({}, a, b))
    BY DEF Meet
  <2> QED
    BY <2>1, <2>2 DEF Decides
<1> QED
  BY <1>1, <1>2, <1>3, <1>4, <1>5, <1>6, <1>7, <1>8, <1>9 DEF Arm

-----------------------------------------------------------------------------

\* Where nothing is uncovered, the sides are the two types as they read.
LEMMA SidesRead ==
  ASSUME SlotsInv, AtTypes, ~Uncovering
  PROVE  /\ Left = Seen(subst, Goal.l) /\ Seen(subst, Left) = Left
         /\ Right = Seen(subst, Goal.r) /\ Seen(subst, Right) = Right
<1>1. Goal.l \in Term /\ Goal.r \in Term
  BY SidesTyped
<1>2. /\ Left.tag = "Var" => Unbound(subst, Left.num)
      /\ Right.tag = "Var" => Unbound(subst, Right.num)
  BY SidesUnbound
<1>3. Left = Bare[Resolve(subst, Goal.l)] /\ Right = Bare[Resolve(subst, Goal.r)]
  BY DEF Left, Right
<1>4. subst \in [VarId -> Term] /\ Chains(subst)
  BY DEF SlotsInv, SlotsOK
<1> HIDE DEF Left, Right
<1> QED
  BY <1>1, <1>2, <1>3, <1>4, SideSeen

\* The two arms that bind: the variable is unbound, and what it gets is read as
\* the match read it.
LEMMA VariablesMeet ==
  ASSUME SlotsInv, SlotsInv', AtTypes, ~Uncovering, BindVariables(Left, Right)
  PROVE  /\ Answer(TRUE)
         /\ \E i \in VarId : \E t \in Term : Binding(i, t)
         /\ Seen(subst', Goal.l) = Seen(subst', Goal.r)
<1>1. Goal.l \in Term /\ Goal.r \in Term
  BY SidesTyped
<1>2. /\ Left.num \in VarId /\ Left = Var(Left.num) /\ Unbound(subst, Left.num)
      /\ Right.num \in VarId /\ Right = Var(Right.num) /\ Unbound(subst, Right.num)
      /\ Left \in Term /\ Right \in Term
  BY SidesTyped, SidesUnbound DEF BindVariables, SameHead
<1>4. Left = Seen(subst, Goal.l) /\ Right = Seen(subst, Goal.r)
  BY SidesRead
<1>5. Answer(TRUE)
  BY DEF BindVariables
<1>6. CASE Left.num < Right.num /\ BindVar(Right.num, Left)
  <2>1. Left # Right /\ Binding(Right.num, Left)
    BY <1>2, <1>6 DEF Binding, BindVar, VarId
  <2>2. Seen(subst', Goal.l) = Left /\ Seen(subst', Goal.r) = Left
    BY <1>1, <1>2, <1>4, <2>1, SeenBound
  <2> QED
    BY <1>2, <1>5, <2>1, <2>2
<1>7. CASE Left.num > Right.num /\ BindVar(Left.num, Right)
  <2>1. Left # Right /\ Binding(Left.num, Right)
    BY <1>2, <1>7 DEF Binding, BindVar, VarId
  <2>2. Seen(subst', Goal.l) = Right /\ Seen(subst', Goal.r) = Right
    BY <1>1, <1>2, <1>4, <2>1, SeenBound
  <2> QED
    BY <1>2, <1>5, <2>1, <2>2
<1> QED
  BY <1>6, <1>7 DEF BindVariables

LEMMA VariableMeetsType ==
  ASSUME SlotsInv, SlotsInv', AtTypes, ~Uncovering, BindVariable(Left, Right)
  PROVE  \/ Answer(FALSE) /\ subst' = subst
         \/ /\ Answer(TRUE)
            /\ \E i \in VarId : \E t \in Term : Binding(i, t)
            /\ Seen(subst', Goal.l) = Seen(subst', Goal.r)
<1>1. Goal.l \in Term /\ Goal.r \in Term
  BY SidesTyped
<1>2. /\ Left \in Term /\ Right \in Term
      /\ Left.tag = "Var" => Left.num \in VarId /\ Left = Var(Left.num) /\ Unbound(subst, Left.num)
      /\ Right.tag = "Var" => Right.num \in VarId /\ Right = Var(Right.num) /\ Unbound(subst, Right.num)
  BY SidesTyped, SidesUnbound
<1>3. Left = Seen(subst, Goal.l) /\ Right = Seen(subst, Goal.r)
  BY SidesRead
<1>5. ~(Left.tag = "Var" /\ Right.tag = "Var") /\ Left # Right
  BY DEF BindVariable, SameHead, OneVariable
<1>6. ASSUME Left.tag = "Var", BindVar(Left.num, Right)
      PROVE  /\ \E i \in VarId : \E t \in Term : Binding(i, t)
             /\ Seen(subst', Goal.l) = Seen(subst', Goal.r)
  <2>1. Binding(Left.num, Right)
    BY <1>2, <1>5, <1>6 DEF Binding, BindVar
  <2>2. Seen(subst', Goal.l) = Right /\ Seen(subst', Goal.r) = Right
    BY <1>1, <1>2, <1>3, <1>5, <1>6, <2>1, SeenBound
  <2> QED
    BY <1>2, <1>6, <2>1, <2>2
<1>7. ASSUME Right.tag = "Var", BindVar(Right.num, Left)
      PROVE  /\ \E i \in VarId : \E t \in Term : Binding(i, t)
             /\ Seen(subst', Goal.l) = Seen(subst', Goal.r)
  <2>1. Binding(Right.num, Left)
    BY <1>2, <1>5, <1>7 DEF Binding, BindVar
  <2>2. Seen(subst', Goal.l) = Left /\ Seen(subst', Goal.r) = Left
    BY <1>1, <1>2, <1>3, <1>5, <1>7, <2>1, SeenBound
  <2> QED
    BY <1>2, <1>7, <2>1, <2>2
<1>8. ASSUME NEW v, NEW t, BindOrRefuse(v, t)
      PROVE  (Answer(FALSE) /\ subst' = subst) \/ (Answer(TRUE) /\ BindVar(v.num, t))
  BY <1>8 DEF BindOrRefuse, Answer
<1>9. \/ Left.tag = "Var" /\ BindOrRefuse(Left, Right)
      \/ Right.tag = "Var" /\ BindOrRefuse(Right, Left)
  BY DEF BindVariable
<1> QED
  BY <1>6, <1>7, <1>8, <1>9

-----------------------------------------------------------------------------
(***************************************************************************)
(* The calls in progress, and the pairs they have not begun.               *)
(***************************************************************************)

\* The pairs the calls from the k-th on have not begun.
PendingFrom(calls, k) == UNION {Those(calls[j].rest) : j \in k .. Len(calls)}

AllWell(calls, k) == \A j \in k .. Len(calls) : calls[j].acc

\* The pair q is one when the pairs P are.
Met(n, s, rs, P, q) ==
  \E E \in SUBSET PairsOf(n) : q \in E \cup P /\ \A p \in E : PairMeets(s, rs, E \cup P, p)

\* The two types of a call in which nothing failed, nor in those it waits for,
\* are one once the pairs still to come are.
Agreeing(n, s, rs, calls) ==
  \A k \in 1 .. Len(calls) :
    AllWell(calls, k) => Met(n, s, rs, PendingFrom(calls, k), TypePair(calls[k].a, calls[k].b))

AgreeInv == Agreeing(nextRow, subst, rowSubst, stack)

\* Pairs that met still meet, and no row is forgotten.
PairsStay(n, s, rs, n2, s2, rs2) ==
  /\ n \in Nat /\ n2 \in Nat /\ n <= n2
  /\ \A E : \A p \in PairsOf(n) : PairMeets(s, rs, E, p) => PairMeets(s2, rs2, E, p)

LEMMA MorePairs ==
  ASSUME NEW n \in Nat, NEW n2 \in Nat, n <= n2
  PROVE  PairsOf(n) \subseteq PairsOf(n2)
<1>1. 0 .. (n - 1) \subseteq 0 .. (n2 - 1)
  OBVIOUS
<1>2. Row(0 .. (n - 1)) \subseteq Row(0 .. (n2 - 1))
  BY <1>1 DEF Row
<1> QED
  BY <1>2 DEF PairsOf

LEMMA MetStays ==
  ASSUME NEW n, NEW s, NEW rs, NEW n2, NEW s2, NEW rs2, PairsStay(n, s, rs, n2, s2, rs2),
         NEW P, NEW P2, P \subseteq P2, NEW q, Met(n, s, rs, P, q)
  PROVE  Met(n2, s2, rs2, P2, q)
<1>1. PICK E \in SUBSET PairsOf(n) :
        q \in E \cup P /\ \A p \in E : PairMeets(s, rs, E \cup P, p)
  BY DEF Met
<1>2. E \in SUBSET PairsOf(n2) /\ q \in E \cup P2
  BY <1>1, MorePairs DEF PairsStay
<1>3. ASSUME NEW p \in E
      PROVE  PairMeets(s2, rs2, E \cup P2, p)
  <2>1. PairMeets(s2, rs2, E \cup P, p)
    BY <1>1 DEF PairsStay
  <2>2. E \cup P \subseteq E \cup P2
    OBVIOUS
  <2> QED
    BY <2>1, <2>2, PairMeetsMore
<1> QED
  BY <1>2, <1>3 DEF Met

\* One of the pairs is dealt with: it is one itself when the others are.
LEMMA MetWithout ==
  ASSUME NEW n, NEW s, NEW rs, NEW n2, NEW s2, NEW rs2, PairsStay(n, s, rs, n2, s2, rs2),
         NEW g \in PairsOf(n2), NEW P2, PairMeets(s2, rs2, P2, g),
         NEW P, P \subseteq P2 \cup {g}, NEW q, Met(n, s, rs, P, q)
  PROVE  Met(n2, s2, rs2, P2, q)
<1>1. PICK E \in SUBSET PairsOf(n) :
        q \in E \cup P /\ \A p \in E : PairMeets(s, rs, E \cup P, p)
  BY DEF Met
<1> DEFINE F == E \cup {g}
<1>2. F \in SUBSET PairsOf(n2) /\ q \in F \cup P2
  BY <1>1, MorePairs DEF PairsStay
<1>3. ASSUME NEW p \in E
      PROVE  PairMeets(s2, rs2, F \cup P2, p)
  <2>1. PairMeets(s2, rs2, E \cup P, p)
    BY <1>1 DEF PairsStay
  <2>2. E \cup P \subseteq F \cup P2
    OBVIOUS
  <2> QED
    BY <2>1, <2>2, PairMeetsMore
<1>4. PairMeets(s2, rs2, F \cup P2, g)
  <2>1. P2 \subseteq F \cup P2
    OBVIOUS
  <2> QED
    BY <2>1, PairMeetsMore
<1>5. \A p \in F : PairMeets(s2, rs2, F \cup P2, p)
  BY <1>3, <1>4
<1> QED
  BY <1>2, <1>5 DEF Met

-----------------------------------------------------------------------------

LEMMA ContinueReads ==
  ASSUME NEW calls \in Seq(Frames), calls # <<>>, NEW g
  PROVE  /\ Len(calls) \in Nat \ {0} /\ Len(Continue(calls, g)) = Len(calls)
         /\ Continue(calls, g)[Len(calls)] = g
         /\ \A k \in 1 .. Len(calls) : k # Len(calls) => Continue(calls, g)[k] = calls[k]
<1>1. Len(calls) \in Nat \ {0} /\ DOMAIN calls = 1 .. Len(calls) /\ Len(calls) \in 1 .. Len(calls)
  OBVIOUS
<1>2. Len(Continue(calls, g)) = Len(calls)
  BY DEF Continue
<1>3. /\ Continue(calls, g)[Len(calls)] = g
      /\ \A k \in 1 .. Len(calls) : k # Len(calls) => Continue(calls, g)[k] = calls[k]
  BY <1>1 DEF Continue
<1> QED
  BY <1>1, <1>2, <1>3

\* The innermost call takes its first pair.
LEMMA TakeReads ==
  ASSUME stack \in Seq(Frames), stack # <<>>, ~Done(Top), NEW g,
         g.rest = Tail(Top.rest), g.a = Top.a, g.b = Top.b, g.acc => Top.acc
  PROVE  LET after == Continue(stack, g)
         IN  \A k \in 1 .. Len(stack) :
               /\ PendingFrom(stack, k) \subseteq PendingFrom(after, k) \cup {Goal}
               /\ after[k].a = stack[k].a /\ after[k].b = stack[k].b
               /\ AllWell(after, k) => AllWell(stack, k)
<1> DEFINE after == Continue(stack, g)
           n == Len(stack)
<1>1. /\ n \in Nat \ {0} /\ Len(after) = n /\ after[n] = g
      /\ \A k \in 1 .. n : k # n => after[k] = stack[k]
  BY ContinueReads
<1>2. Top = stack[n] /\ Top.rest \in Seq(AnyPair) /\ Top.rest # <<>>
  BY GoalTyped DEF Frames, AnyPair, Top, Last
<1>3. Those(Top.rest) \subseteq Those(Tail(Top.rest)) \cup {Goal}
  <2> SUFFICES ASSUME NEW m \in DOMAIN Top.rest, m # 1
               PROVE  Top.rest[m] \in Those(Tail(Top.rest))
    BY <1>2 DEF Those, Goal
  <2>1. m - 1 \in DOMAIN Tail(Top.rest) /\ Tail(Top.rest)[m - 1] = Top.rest[m]
    BY <1>2
  <2> QED
    BY <2>1 DEF Those
<1> HIDE DEF after
<1> SUFFICES ASSUME NEW k \in 1 .. n
             PROVE  /\ PendingFrom(stack, k) \subseteq PendingFrom(after, k) \cup {Goal}
                    /\ after[k].a = stack[k].a /\ after[k].b = stack[k].b
                    /\ AllWell(after, k) => AllWell(stack, k)
  BY DEF after
<1>4. ASSUME NEW j \in k .. n
      PROVE  /\ Those(stack[j].rest) \subseteq Those(after[j].rest) \cup {Goal}
             /\ after[j].acc => stack[j].acc
  <2>1. CASE j = n
    BY <1>1, <1>2, <1>3, <2>1
  <2>2. CASE j # n
    BY <1>1, <2>2
  <2> QED
    BY <2>1, <2>2
<1>5. PendingFrom(stack, k) \subseteq PendingFrom(after, k) \cup {Goal}
  BY <1>1, <1>4 DEF PendingFrom
<1>6. AllWell(after, k) => AllWell(stack, k)
  BY <1>1, <1>4 DEF AllWell
<1>7. after[k].a = stack[k].a /\ after[k].b = stack[k].b
  <2>1. CASE k = n
    BY <1>1, <1>2, <2>1
  <2>2. CASE k # n
    BY <1>1, <2>2
  <2> QED
    BY <2>1, <2>2
<1> QED
  BY <1>5, <1>6, <1>7

\* A pair is decided.
LEMMA AnswerAgrees ==
  ASSUME SlotsOK, AgreeInv, stack # <<>>, ~Done(Top), NEW ok \in BOOLEAN, Answer(ok),
         PairsStay(nextRow, subst, rowSubst, nextRow', subst', rowSubst'),
         Goal \in PairsOf(nextRow'), ok => PairMeets(subst', rowSubst', {}, Goal)
  PROVE  AgreeInv'
<1> DEFINE g == [Top EXCEPT !.rest = Tail(@), !.acc = @ /\ ok]
<1>1. Top \in Frames
  BY GoalTyped DEF SlotsOK
<1>2. g.rest = Tail(Top.rest) /\ g.a = Top.a /\ g.b = Top.b /\ g.acc = (Top.acc /\ ok)
  BY <1>1 DEF Frames
<1>3. stack' = Continue(stack, g)
  BY DEF Answer
<1> HIDE DEF g
<1>4. /\ Len(stack) \in Nat \ {0} /\ Len(stack') = Len(stack) /\ stack'[Len(stack)] = g
  BY <1>3, ContinueReads DEF SlotsOK
<1>5. \A k \in 1 .. Len(stack) :
        /\ PendingFrom(stack, k) \subseteq PendingFrom(stack', k) \cup {Goal}
        /\ stack'[k].a = stack[k].a /\ stack'[k].b = stack[k].b
        /\ AllWell(stack', k) => AllWell(stack, k)
  <2>1. g.acc => Top.acc
    BY <1>2
  <2> QED
    BY <1>2, <1>3, <2>1, TakeReads DEF SlotsOK
<1> SUFFICES ASSUME NEW k \in 1 .. Len(stack), AllWell(stack', k)
             PROVE  Met(nextRow', subst', rowSubst', PendingFrom(stack', k),
                        TypePair(stack'[k].a, stack'[k].b))
  BY <1>4 DEF AgreeInv, Agreeing
<1> DEFINE P  == PendingFrom(stack, k)
           P2 == PendingFrom(stack', k)
           q  == TypePair(stack[k].a, stack[k].b)
<1>6. ok
  <2>1. g.acc
    BY <1>4 DEF AllWell
  <2> QED
    BY <1>2, <2>1
<1>7. Met(nextRow, subst, rowSubst, P, q)
  BY <1>5 DEF AgreeInv, Agreeing
<1>8. P \subseteq P2 \cup {Goal} /\ TypePair(stack'[k].a, stack'[k].b) = q
  BY <1>5
<1> HIDE DEF P, P2, q
<1>9. PairMeets(subst', rowSubst', P2, Goal)
  <2>1. {} \subseteq P2
    OBVIOUS
  <2> QED
    BY <1>6, <2>1, PairMeetsMore
<1>10. Met(nextRow', subst', rowSubst', P2, q)
  BY <1>7, <1>8, <1>9, MetWithout
<1> QED
  BY <1>8, <1>10 DEF P2

\* A pair waits for others.
LEMMA DescendAgrees ==
  ASSUME SlotsOK, AgreeInv, stack # <<>>, ~Done(Top), NEW kind \in FrameKind,
         NEW a \in Term, NEW b \in Term, NEW pairs \in Seq(AnyPair), Descend(kind, a, b, pairs),
         PairsStay(nextRow, subst, rowSubst, nextRow', subst', rowSubst'),
         Goal \in PairsOf(nextRow'), PairMeets(subst', rowSubst', Those(pairs), Goal),
         PairMeets(subst', rowSubst', Those(pairs), TypePair(a, b))
  PROVE  AgreeInv'
<1> DEFINE g == [Top EXCEPT !.rest = Tail(@)]
           f == Frame(kind, a, b, pairs)
           calls == Continue(stack, g)
           n == Len(stack)
<1>1. Top \in Frames /\ Top.rest \in Seq(AnyPair) /\ Top.rest # <<>>
  BY GoalTyped DEF SlotsOK, Frames, AnyPair
<1>2. /\ g \in Frames /\ g.rest = Tail(Top.rest) /\ g.a = Top.a /\ g.b = Top.b /\ g.acc = Top.acc
  <2>1. Tail(Top.rest) \in Seq(AnyPair)
    BY <1>1
  <2> QED
    BY <1>1, <2>1 DEF Frames, AnyPair
<1>3. f.rest = pairs /\ f.a = a /\ f.b = b
  BY DEF Frame
<1>4. stack' = Append(calls, f)
  BY DEF Descend
<1> HIDE DEF g, f
<1>5. n \in Nat \ {0} /\ Len(calls) = n /\ calls \in Seq(Frames)
  BY <1>2, ContinueReads, ContinueTyped DEF SlotsOK
<1>6. \A k \in 1 .. n :
        /\ PendingFrom(stack, k) \subseteq PendingFrom(calls, k) \cup {Goal}
        /\ calls[k].a = stack[k].a /\ calls[k].b = stack[k].b
        /\ AllWell(calls, k) => AllWell(stack, k)
  <2>1. g.acc => Top.acc
    BY <1>2
  <2> QED
    BY <1>2, <2>1, TakeReads DEF SlotsOK
<1> HIDE DEF calls
<1>7. /\ Len(stack') = n + 1 /\ stack'[n + 1] = f
      /\ \A k \in 1 .. n : stack'[k] = calls[k]
  BY <1>4, <1>5
<1> SUFFICES ASSUME NEW k \in 1 .. (n + 1), AllWell(stack', k)
             PROVE  Met(nextRow', subst', rowSubst', PendingFrom(stack', k),
                        TypePair(stack'[k].a, stack'[k].b))
  BY <1>7 DEF AgreeInv, Agreeing
<1> DEFINE P2 == PendingFrom(stack', k)
<1>8. Those(pairs) \subseteq P2
  BY <1>3, <1>5, <1>7 DEF PendingFrom
<1>9. CASE k = n + 1
  <2> DEFINE q == TypePair(a, b)
  <2>1. TypePair(stack'[k].a, stack'[k].b) = q
    BY <1>3, <1>7, <1>9
  <2>2. q \in PairsOf(nextRow')
    BY DEF PairsOf, TypePairs, TypePair
  <2> HIDE DEF q, P2
  <2>3. PairMeets(subst', rowSubst', {q} \cup P2, q)
    <3>1. Those(pairs) \subseteq {q} \cup P2
      BY <1>8
    <3>2. PairMeets(subst', rowSubst', Those(pairs), q)
      BY DEF q
    <3> QED
      BY <3>1, <3>2, PairMeetsMore
  <2>4. Met(nextRow', subst', rowSubst', P2, q)
    <3>1. {q} \in SUBSET PairsOf(nextRow') /\ q \in {q} \cup P2
      BY <2>2
    <3>2. \A p \in {q} : PairMeets(subst', rowSubst', {q} \cup P2, p)
      BY <2>3
    <3> QED
      BY <3>1, <3>2 DEF Met
  <2> QED
    BY <2>1, <2>4 DEF P2
<1>10. CASE k \in 1 .. n
  <2> DEFINE P == PendingFrom(stack, k)
             q == TypePair(stack[k].a, stack[k].b)
  <2>1. PendingFrom(calls, k) \subseteq P2
    BY <1>5, <1>7, <1>10 DEF PendingFrom
  <2>2. AllWell(calls, k)
    BY <1>5, <1>7, <1>10 DEF AllWell
  <2>3. Met(nextRow, subst, rowSubst, P, q)
    BY <1>6, <1>10, <2>2 DEF AgreeInv, Agreeing
  <2>4. P \subseteq P2 \cup {Goal} /\ TypePair(stack'[k].a, stack'[k].b) = q
    BY <1>6, <1>7, <1>10, <2>1
  <2> HIDE DEF P, q, P2
  <2>5. PairMeets(subst', rowSubst', P2, Goal)
    BY <1>8, PairMeetsMore
  <2>6. Met(nextRow', subst', rowSubst', P2, q)
    BY <2>3, <2>4, <2>5, MetWithout
  <2> QED
    BY <2>4, <2>6 DEF P2
<1> QED
  BY <1>5, <1>9, <1>10

\* A call returns: when it failed, so does the call it is part of.
LEMMA ReturnAgrees ==
  ASSUME SlotsOK, AgreeInv, Return,
         PairsStay(nextRow, subst, rowSubst, nextRow', subst', rowSubst')
  PROVE  AgreeInv'
<1> DEFINE n     == Len(stack)
           outer == SubSeq(stack, 1, n - 1)
           g     == [Last(outer) EXCEPT !.acc = @ /\ Top.acc]
<1>1. stack \in Seq(Frames) /\ n \in Nat \ {0} /\ Done(Top) /\ Top = stack[n]
  BY DEF Return, Returning, SlotsOK, Top, Last
<1>2. outer \in Seq(Frames) /\ Len(outer) = n - 1 /\ \A k \in 1 .. (n - 1) : outer[k] = stack[k]
  <2>1. \A k \in 1 .. (n - 1) : stack[k] \in Frames
    BY <1>1
  <2>2. outer = [k \in 1 .. (n - 1) |-> stack[k]] /\ n - 1 \in Nat
    BY <1>1
  <2> HIDE DEF outer
  <2> QED
    BY <2>1, <2>2
<1>3. stack' = IF outer = <<>> THEN <<>> ELSE Continue(outer, g)
  BY DEF Return
<1> HIDE DEF outer
<1>4. CASE outer = <<>>
  BY <1>3, <1>4 DEF AgreeInv, Agreeing
<1>5. CASE outer # <<>>
  <2>1. Last(outer) = stack[n - 1] /\ n - 1 \in 1 .. (n - 1) /\ stack[n - 1] \in Frames
    BY <1>1, <1>2, <1>5 DEF Last
  <2>2. /\ g.rest = stack[n - 1].rest /\ g.acc = (stack[n - 1].acc /\ Top.acc)
        /\ g.a = stack[n - 1].a /\ g.b = stack[n - 1].b
    BY <2>1 DEF Frames
  <2> HIDE DEF g
  <2>3. /\ Len(stack') = n - 1 /\ stack'[n - 1] = g
        /\ \A k \in 1 .. (n - 1) : k # n - 1 => stack'[k] = stack[k]
    BY <1>2, <1>3, <1>5, ContinueReads
  <2>4. \A k \in 1 .. (n - 1) :
          /\ stack'[k].rest = stack[k].rest /\ stack'[k].a = stack[k].a /\ stack'[k].b = stack[k].b
          /\ stack'[k].acc => stack[k].acc
    <3> SUFFICES ASSUME NEW k \in 1 .. (n - 1)
                 PROVE  /\ stack'[k].rest = stack[k].rest
                        /\ stack'[k].a = stack[k].a /\ stack'[k].b = stack[k].b
                        /\ stack'[k].acc => stack[k].acc
      OBVIOUS
    <3>1. CASE k = n - 1
      BY <2>2, <2>3, <3>1
    <3>2. CASE k # n - 1
      BY <2>3, <3>2
    <3> QED
      BY <3>1, <3>2
  <2> SUFFICES ASSUME NEW k \in 1 .. (n - 1), AllWell(stack', k)
               PROVE  Met(nextRow', subst', rowSubst', PendingFrom(stack', k),
                          TypePair(stack'[k].a, stack'[k].b))
    BY <2>3 DEF AgreeInv, Agreeing
  <2>5. Top.acc
    <3>1. n - 1 \in k .. (n - 1)
      BY <1>1
    <3>2. g.acc
      BY <2>3, <3>1 DEF AllWell
    <3> QED
      BY <2>2, <3>2
  <2>6. Those(stack[n].rest) = {}
    BY <1>1, <2>5 DEF Done, Those
  <2>7. AllWell(stack, k)
    <3> SUFFICES ASSUME NEW j \in k .. n PROVE stack[j].acc
      BY DEF AllWell
    <3>1. CASE j = n
      BY <1>1, <2>5, <3>1
    <3>2. CASE j # n
      <4>1. j \in k .. (n - 1) /\ j \in 1 .. (n - 1)
        BY <1>1, <3>2
      <4>2. stack'[j].acc
        BY <2>3, <4>1 DEF AllWell
      <4> QED
        BY <2>4, <4>1, <4>2
    <3> QED
      BY <3>1, <3>2
  <2>8. PendingFrom(stack, k) \subseteq PendingFrom(stack', k)
    <3> SUFFICES ASSUME NEW j \in k .. n, j # n
                 PROVE  Those(stack[j].rest) \subseteq PendingFrom(stack', k)
      BY <2>6 DEF PendingFrom
    <3>1. j \in k .. (n - 1) /\ j \in 1 .. (n - 1)
      BY <1>1
    <3>2. Those(stack'[j].rest) \subseteq PendingFrom(stack', k)
      BY <2>3, <3>1 DEF PendingFrom
    <3> QED
      BY <2>4, <3>1, <3>2
  <2>9. Met(nextRow, subst, rowSubst, PendingFrom(stack, k), TypePair(stack[k].a, stack[k].b))
    <3>1. k \in 1 .. n
      BY <1>1
    <3> QED
      BY <2>7, <3>1 DEF AgreeInv, Agreeing
  <2> QED
    BY <2>4, <2>8, <2>9, MetStays
<1> QED
  BY <1>4, <1>5

\* An outermost call begins.
LEMMA BeginAgrees ==
  ASSUME NEW x, NEW y, Begin(x, y)
  PROVE  AgreeInv'
<1> DEFINE q == TypePair(x, y)
           f == Frame("Top", x, y, <<q>>)
<1>1. stack' = <<f>> /\ f.rest = <<q>> /\ f.a = x /\ f.b = y
  BY DEF Begin, Frame
<1> HIDE DEF f
<1>2. Len(stack') = 1 /\ stack'[1] = f
  BY <1>1
<1>3. q \in PendingFrom(stack', 1)
  <2>1. q \in Those(<<q>>)
    BY DEF Those
  <2> QED
    BY <1>1, <1>2, <2>1 DEF PendingFrom
<1>4. Met(nextRow', subst', rowSubst', PendingFrom(stack', 1), q)
  <2>1. {} \in SUBSET PairsOf(nextRow') /\ q \in {} \cup PendingFrom(stack', 1)
    BY <1>3
  <2> QED
    BY <2>1 DEF Met
<1> QED
  BY <1>1, <1>2, <1>4 DEF AgreeInv, Agreeing

-----------------------------------------------------------------------------

\* No step that uncovers no bound variable undoes a pair that met.
LEMMA StepStays ==
  ASSUME UnifierInv, UnifierInv', [Next]_vars, UnifyStep => ~Uncovering
  PROVE  PairsStay(nextRow, subst, rowSubst, nextRow', subst', rowSubst')
<1>1. /\ SlotsInv /\ SlotsInv' /\ SlotsOK /\ RowsInv /\ RowsInv'
  BY DEF UnifierInv, MismatchInv, SlotsInv
<1>2. nextRow \in Nat /\ nextRow' \in Nat
  BY <1>1 DEF RowsInv
<1>3. ASSUME subst' = subst, rowSubst' = rowSubst, nextRow <= nextRow'
      PROVE  PairsStay(nextRow, subst, rowSubst, nextRow', subst', rowSubst')
  BY <1>2, <1>3 DEF PairsStay
<1>4. CASE UnifyStep
  <2>1. AtTypes /\ Arm(Left, Right)
    BY <1>4 DEF UnifyStep
  <2>2. rowSubst' = rowSubst /\ nextRow' = nextRow
    BY <2>1, ArmRows
  <2>3. subst' = subst \/ \E i \in VarId : \E t \in Term : Binding(i, t)
    <3>1. CASE BindVariables(Left, Right)
      BY <1>1, <1>4, <2>1, <3>1, VariablesMeet
    <3>2. CASE BindVariable(Left, Right)
      BY <1>1, <1>4, <2>1, <3>2, VariableMeetsType
    <3> QED
      BY <2>1, <3>1, <3>2, ArmLeaves
  <2>4. CASE subst' = subst
    BY <1>2, <1>3, <2>2, <2>4
  <2>5. CASE \E i \in VarId : \E t \in Term : Binding(i, t)
    <3>1. PICK i \in VarId, t \in Term : Binding(i, t)
      BY <2>5
    <3>2. ASSUME NEW E, NEW p \in PairsOf(nextRow), PairMeets(subst, rowSubst, E, p)
          PROVE  PairMeets(subst', rowSubst', E, p)
      <4>1. p \in AnyPair
        BY DEF PairsOf, AnyPair
      <4> QED
        BY <1>1, <2>2, <3>1, <3>2, <4>1, PairStays
    <3> QED
      BY <1>2, <2>2, <3>2 DEF PairsStay
  <2> QED
    BY <2>3, <2>4, <2>5
<1>5. CASE UnifyFunRow
  <2> DEFINE u      == UnifyRow(rowSubst, nextRow, Goal.l, Goal.r)
             minted == 0 .. (nextRow - 1)
  <2>1. /\ stack # <<>> /\ ~Done(Top) /\ Goal.sort = "row"
        /\ u.next <= MaxRows /\ rowSubst' = u.rs /\ nextRow' = u.next /\ subst' = subst
    BY <1>5 DEF UnifyFunRow, AtRows
  <2>2. Goal.l \in Row(minted) /\ Goal.r \in Row(minted)
    BY <1>1, <2>1, GoalKnown DEF RowsInv, KnownPair
  <2>3. u.next = nextRow \/ u.next = nextRow + 1
    BY DEF UnifyRow, UnifyResolved, UnifyOpen, Agreed, Refused
  <2>4. u.next # nextRow => nextRow \in RowId \ minted
    BY <1>2, <2>1, <2>3, MaxRowsAssumption DEF RowId
  <2>5. StillOne(Row(minted), rowSubst, u.rs)
    <3>1. RowsSound(RowId, minted, rowSubst) /\ nextRow \in Int
      BY <1>1, <1>2 DEF RowsInv
    <3>2. UnifyRow(rowSubst, nextRow, Goal.l, Goal.r).next # nextRow => nextRow \in RowId \ minted
      BY <2>4
    <3> HIDE DEF minted
    <3>3. StillOne(Row(minted), rowSubst, UnifyRow(rowSubst, nextRow, Goal.l, Goal.r).rs)
      BY <2>2, <3>1, <3>2, UnifyRowReads
    <3> QED
      BY <3>3
  <2> HIDE DEF u
  <2>6. ASSUME NEW E, NEW p \in PairsOf(nextRow), PairMeets(subst, rowSubst, E, p)
        PROVE  PairMeets(subst', rowSubst', E, p)
    <3>1. CASE p.sort = "row"
      <4>1. p.l \in Row(minted) /\ p.r \in Row(minted)
        BY <3>1 DEF PairsOf, TypePairs
      <4> HIDE DEF minted
      <4> QED
        BY <2>1, <2>5, <2>6, <3>1, <4>1 DEF PairMeets, StillOne
    <3>2. CASE p.sort # "row"
      BY <2>1, <2>6, <3>2 DEF PairMeets
    <3> QED
      BY <3>1, <3>2
  <2>7. nextRow <= nextRow'
    BY <1>2, <2>1, <2>3
  <2> QED
    BY <1>2, <2>6, <2>7 DEF PairsStay
<1>6. CASE Return \/ (\E x, y \in Operand : Unify(x, y)) \/ Fresh \/ FreshRow \/ UNCHANGED vars
  <2>1. subst' = subst /\ rowSubst' = rowSubst /\ (nextRow' = nextRow \/ nextRow' = nextRow + 1)
    BY <1>6 DEF Return, Unify, Begin, Fresh, FreshRow, keepRows, vars
  <2> QED
    BY <1>2, <1>3, <2>1
<1> QED
  BY <1>4, <1>5, <1>6 DEF Next, Step

\* The pair at hand is of types, or of rows already minted.
LEMMA GoalPair ==
  ASSUME SlotsOK, RowsInv, stack # <<>>, ~Done(Top), NEW n \in Nat, nextRow <= n
  PROVE  Goal \in PairsOf(n)
<1>1. Goal \in AnyPair
  BY GoalTyped DEF SlotsOK
<1>2. nextRow \in Nat /\ KnownPair(nextRow, Goal)
  BY GoalKnown DEF RowsInv
<1>3. Goal \in PairsOf(nextRow)
  BY <1>1, <1>2 DEF AnyPair, PairsOf, KnownPair, RowPairs
<1> QED
  BY <1>2, <1>3, MorePairs

LEMMA UnifyStepAgrees ==
  ASSUME UnifierInv, UnifierInv', AgreeInv, UnifyStep, ~Uncovering,
         PairsStay(nextRow, subst, rowSubst, nextRow', subst', rowSubst')
  PROVE  AgreeInv'
<1>1. SlotsInv /\ SlotsInv' /\ SlotsOK /\ RowsInv
  BY DEF UnifierInv, MismatchInv, SlotsInv
<1>2. AtTypes /\ stack # <<>> /\ ~Done(Top) /\ Goal.sort = "type" /\ Arm(Left, Right)
  BY DEF UnifyStep, AtTypes
<1>3. Goal \in PairsOf(nextRow')
  BY <1>1, <1>2, GoalPair DEF PairsStay
<1>4. Goal.l \in Term /\ Goal.r \in Term
  BY <1>1, <1>2, GoalTyped DEF SlotsOK
<1>5. Left = Seen(subst, Goal.l) /\ Right = Seen(subst, Goal.r)
  BY <1>1, <1>2, SidesRead
<1>6. /\ Left \in Term /\ Seen(subst, Left) = Left
      /\ Right \in Term /\ Seen(subst, Right) = Right
  BY <1>1, <1>2, SidesTyped, SidesRead
<1>7. ASSUME NEW E, Meet(E, Seen(subst', Goal.l), Seen(subst', Goal.r))
      PROVE  PairMeets(subst', rowSubst', E, Goal)
  BY <1>2, <1>7 DEF PairMeets
<1>8. ASSUME Answer(TRUE), Seen(subst', Goal.l) = Seen(subst', Goal.r)
      PROVE  AgreeInv'
  <2>1. PairMeets(subst', rowSubst', {}, Goal)
    BY <1>7, <1>8 DEF Meet
  <2> QED
    BY <1>1, <1>2, <1>3, <1>8, <2>1, AnswerAgrees
<1>9. ASSUME Answer(FALSE)
      PROVE  AgreeInv'
  BY <1>1, <1>2, <1>3, <1>9, AnswerAgrees
<1>10. CASE BindVariables(Left, Right)
  BY <1>1, <1>2, <1>8, <1>10, VariablesMeet
<1>11. CASE BindVariable(Left, Right)
  BY <1>1, <1>2, <1>8, <1>9, <1>11, VariableMeetsType
<1>12. ASSUME NEW ok \in BOOLEAN, Decides(ok, Left, Right)
       PROVE  AgreeInv'
  <2>1. CASE ok
    <3>1. Answer(ok) /\ Meet({}, Left, Right) /\ subst' = subst
      BY <1>12, <2>1 DEF Decides
    <3>2. PairMeets(subst', rowSubst', {}, Goal)
      BY <1>5, <1>7, <3>1
    <3> QED
      BY <1>1, <1>2, <1>3, <3>1, <3>2, AnswerAgrees
  <2>2. CASE ~ok
    BY <1>9, <1>12, <2>2 DEF Decides
  <2> QED
    BY <2>1, <2>2
<1>13. CASE DependsOn(Left, Right)
  <2>1. PICK kind \in FrameKind, x \in {Left, Right}, y \in {Left, Right}, pairs \in Seq(AnyPair) :
          /\ Descend(kind, x, y, pairs) /\ subst' = subst
          /\ Meet(Those(pairs), Left, Right) /\ Meet(Those(pairs), x, y)
    BY <1>13 DEF DependsOn
  <2>2. PairMeets(subst', rowSubst', Those(pairs), Goal)
    BY <1>5, <1>7, <2>1
  <2>3. x \in Term /\ y \in Term /\ Seen(subst, x) = x /\ Seen(subst, y) = y
    BY <1>6
  <2>4. PairMeets(subst', rowSubst', Those(pairs), TypePair(x, y))
    <3>1. TypePair(x, y).sort = "type" /\ TypePair(x, y).l = x /\ TypePair(x, y).r = y
      BY DEF TypePair
    <3>2. Meet(Those(pairs), Seen(subst', x), Seen(subst', y))
      BY <2>1, <2>3
    <3> QED
      BY <3>1, <3>2 DEF PairMeets
  <2> QED
    BY <1>1, <1>2, <1>3, <2>1, <2>2, <2>3, <2>4, DescendAgrees
<1> QED
  BY <1>2, <1>6, <1>10, <1>11, <1>12, <1>13, ArmMeets

LEMMA FunRowAgrees ==
  ASSUME UnifierInv, AgreeInv, UnifyFunRow,
         PairsStay(nextRow, subst, rowSubst, nextRow', subst', rowSubst')
  PROVE  AgreeInv'
<1> DEFINE u      == UnifyRow(rowSubst, nextRow, Goal.l, Goal.r)
           minted == 0 .. (nextRow - 1)
<1>1. SlotsOK /\ RowsInv /\ nextRow \in Nat
  BY DEF UnifierInv, MismatchInv, SlotsInv, RowsInv
<1>2. /\ stack # <<>> /\ ~Done(Top) /\ Goal.sort = "row"
      /\ u.next <= MaxRows /\ rowSubst' = u.rs /\ Answer(u.ok) /\ nextRow' = u.next
  BY DEF UnifyFunRow, AtRows
<1>3. Goal.l \in Row(minted) /\ Goal.r \in Row(minted)
  BY <1>1, <1>2, GoalKnown DEF RowsInv, KnownPair
<1>4. u.next = nextRow \/ u.next = nextRow + 1
  BY DEF UnifyRow, UnifyResolved, UnifyOpen, Agreed, Refused
<1>5. u.next # nextRow => nextRow \in RowId \ minted
  BY <1>1, <1>2, <1>4, MaxRowsAssumption DEF RowId
<1>6. u.ok \in BOOLEAN
  BY UnifyRowAnswers
<1>7. u.ok => ResolveRow(rowSubst', Goal.l) = ResolveRow(rowSubst', Goal.r)
  <2>1. RowsSound(RowId, minted, rowSubst) /\ nextRow \in Int
    BY <1>1 DEF RowsInv
  <2>2. UnifyRow(rowSubst, nextRow, Goal.l, Goal.r).next # nextRow => nextRow \in RowId \ minted
    BY <1>5
  <2> HIDE DEF minted
  <2>3. LET w == UnifyRow(rowSubst, nextRow, Goal.l, Goal.r)
        IN  w.ok => ResolveRow(w.rs, Goal.l) = ResolveRow(w.rs, Goal.r)
    BY <1>3, <2>1, <2>2, UnifyRowReads
  <2> QED
    BY <1>2, <2>3
<1> HIDE DEF u
<1>8. u.ok => PairMeets(subst', rowSubst', {}, Goal)
  BY <1>2, <1>7 DEF PairMeets
<1>9. Goal \in PairsOf(nextRow')
  BY <1>1, <1>2, GoalPair DEF PairsStay
<1> QED
  BY <1>1, <1>2, <1>6, <1>8, <1>9, AnswerAgrees

LEMMA NextAgrees ==
  ASSUME UnifierInv, UnifierInv', AgreeInv, [Next]_vars, UnifyStep => ~Uncovering
  PROVE  AgreeInv'
<1>1. PairsStay(nextRow, subst, rowSubst, nextRow', subst', rowSubst')
  BY StepStays
<1>2. SlotsOK
  BY DEF UnifierInv, MismatchInv, SlotsInv
<1>3. CASE UnifyStep
  BY <1>1, <1>3, UnifyStepAgrees
<1>4. CASE UnifyFunRow
  BY <1>1, <1>4, FunRowAgrees
<1>5. CASE Return
  BY <1>1, <1>2, <1>5, ReturnAgrees
<1>6. CASE \E x, y \in Operand : Unify(x, y)
  BY <1>6, BeginAgrees DEF Unify
<1>7. CASE Fresh \/ FreshRow \/ UNCHANGED vars
  <2>1. stack' = stack
    BY <1>7 DEF Fresh, FreshRow, vars
  <2> SUFFICES ASSUME NEW k \in 1 .. Len(stack), AllWell(stack, k)
               PROVE  Met(nextRow', subst', rowSubst', PendingFrom(stack, k),
                          TypePair(stack[k].a, stack[k].b))
    BY <2>1 DEF AgreeInv, Agreeing
  <2>2. Met(nextRow, subst, rowSubst, PendingFrom(stack, k), TypePair(stack[k].a, stack[k].b))
    BY DEF AgreeInv, Agreeing
  <2> QED
    BY <1>1, <2>2, MetStays
<1> QED
  BY <1>3, <1>4, <1>5, <1>6, <1>7 DEF Next, Step

\* A call of `unify` that answers true has made its two types one: none of the
\* pairs it took them apart into was forgotten, and no later binding undid one. So
\* it is until a bound variable is uncovered.
THEOREM AnsweredTrueIsOne == Spec => []UnifiedAreOne
<1>1. Init => UnifierInv /\ AgreeInv
  BY InitUnifier DEF Init, AgreeInv, Agreeing
<1>2. UnifierInv /\ (uncovered \/ AgreeInv) /\ [Next]_vars
        => UnifierInv' /\ (uncovered' \/ AgreeInv')
  BY NextUnifier, NextAgrees, OtherSteps
<1>3. UnifierInv /\ (uncovered \/ AgreeInv) => UnifiedAreOne
  <2> SUFFICES ASSUME UnifierInv, AgreeInv, stack # <<>>, Top.acc, Top.rest = <<>>
               PROVE  AreOne(Top.a, Top.b)
    BY DEF UnifiedAreOne
  <2> DEFINE n == Len(stack)
  <2>1. n \in 1 .. n /\ n .. n = {n} /\ Top = stack[n]
    BY DEF UnifierInv, MismatchInv, SlotsInv, SlotsOK, Top, Last
  <2>2. PendingFrom(stack, n) = {}
    <3>1. Those(Top.rest) = {}
      BY DEF Those
    <3> QED
      BY <2>1, <3>1 DEF PendingFrom
  <2>3. AllWell(stack, n)
    BY <2>1 DEF AllWell
  <2>4. Met(nextRow, subst, rowSubst, {}, TypePair(Top.a, Top.b))
    BY <2>1, <2>2, <2>3 DEF AgreeInv, Agreeing
  <2>5. PICK E \in SUBSET PairsOf(nextRow) :
          TypePair(Top.a, Top.b) \in E \cup {} /\ \A p \in E : PairMeets(subst, rowSubst, E \cup {}, p)
    BY <2>4 DEF Met
  <2>6. E \cup {} = E /\ E \in SUBSET PairsMinted
    BY DEF PairsMinted, PairsOf
  <2> QED
    BY <2>5, <2>6 DEF AreOne
<1> QED
  BY <1>1, <1>2, <1>3, PTL DEF Spec

\* Two types that are one stay one through every step but one that uncovers a bound
\* variable.
THEOREM OneStaysOne == Spec => OneForever
<1>1. UnifierInv /\ [Next]_vars => UnifierInv'
  BY NextUnifier
<1>2. UnifierInv /\ UnifierInv' /\ [Next]_vars
        => [Uncovering \/ \A x, y \in Term : AreOne(x, y) => AreOne(x, y)']_vars
  <2> SUFFICES ASSUME UnifierInv, UnifierInv', [Next]_vars, ~Uncovering,
                      NEW x \in Term, NEW y \in Term, AreOne(x, y)
               PROVE  AreOne(x, y)'
    OBVIOUS
  <2>1. PairsStay(nextRow, subst, rowSubst, nextRow', subst', rowSubst')
    BY StepStays
  <2>2. PICK E \in SUBSET PairsMinted :
          TypePair(x, y) \in E /\ \A p \in E : PairMeets(subst, rowSubst, E, p)
    BY DEF AreOne
  <2>3. PairsMinted = PairsOf(nextRow) /\ PairsMinted' = PairsOf(nextRow')
    BY DEF PairsMinted, PairsOf
  <2>4. E \in SUBSET PairsMinted'
    BY <2>1, <2>3, MorePairs DEF PairsStay
  <2>5. \A p \in E : PairMeets(subst', rowSubst', E, p)
    BY <2>1, <2>2, <2>3 DEF PairsStay
  <2> QED
    BY <2>2, <2>4, <2>5 DEF AreOne
<1> QED
  BY <1>1, <1>2, InitUnifier, PTL DEF Spec, OneForever
=============================================================================
