------------------------------ MODULE Unifier ------------------------------
(***************************************************************************)
(* Type unification as the checker does it (src/check.rs, `UnifyState`):   *)
(* the slot array `substitutions`, `resolve`, the occurs check, and        *)
(* `unify` with every arm of its match, the effect rows of arrows          *)
(* included.                                                               *)
(*                                                                         *)
(* `unify` is recursive and threads the state through its recursion.  Here *)
(* the recursion is a stack of frames.  A frame is a call whose arm needs  *)
(* further pairs to be unified: the pairs not begun yet, what the finished *)
(* ones answered together, and how the arm goes on after a failure.  One   *)
(* action is one arm, applied to the first pair of the topmost frame.      *)
(* Definitions marked "Wrong" are no part of the specification: they are   *)
(* mistakes in it that the properties detect.                              *)
(*                                                                         *)
(* A type is a node: a tag (the constructor of `Ty`), a number (a variable *)
(* or quantified id, an interned name, a width, an Integer range), its     *)
(* subtypes in order and, for an arrow, its row.  `Term` is the set of     *)
(* types in play, closed under what unification takes apart.               *)
(***************************************************************************)
EXTENDS Sequences, EffectRows

CONSTANTS
  Term,             \* the types in play
  Operand,          \* the types inference hands to `unify`
  Walked,           \* per type: the variables `occurs_in` meets in it
  Bare,             \* per type: what `strip_linear` leaves of it
  Mentions,         \* per type: all its variables
  MentionsRow,      \* per type: all its row variables
  ListName,         \* the interned names `List` and `LinkedList`
  LinkedListName,
  SessionState,     \* the interned names of the session states
  MaxVars,          \* bound: how many type variables are minted
  RowsPerCall,      \* bound: how many rows one call of `unify` may mint
  MaxCalls          \* bound: how deep calls of `unify` nest

VarId == 0 .. (MaxVars - 1)

Node(tag, num, args) == [tag |-> tag, num |-> num, args |-> args]
Var(i)     == Node("Var", i, <<>>)
TypeCon(n) == Node("TypeCon", n, <<>>)

Listish == {"List", "LinkedList"}
Named   == {"Sum", "Record", "Constructed"}
Prim    == {"Integer", "Real", "Text", "Boolean", "Char"}
Quantified == {"ForAll", "ForAllEff"}

\* What `occurs_in` walks into; a named type, a vector and a unit are not.
WalkedTag == Listish \cup {"Fun", "TypeApply", "Linear", "PropEq"}

OneArg == Listish \cup Quantified
            \cup {"Linear", "Unit", "Vector", "SizedVec", "VectorMask", "Effectful"}
TwoArg == {"Fun", "TypeApply", "PropEq"}

\* The named type a type application leaves when its last argument is peeled.
PeelHead(t) ==
  IF Len(t.args) = 1 THEN TypeCon(t.num)
  ELSE Node("Constructed", t.num, SubSeq(t.args, 1, Len(t.args) - 1))

\* What an application's own head meets when its last argument is peeled.
PeeledHead(t) ==
  CASE t.tag = "List"       -> TypeCon(ListName)
    [] t.tag = "LinkedList" -> TypeCon(LinkedListName)
    [] OTHER                -> PeelHead(t)

Last(s) == s[Len(s)]

(***************************************************************************)
(* `Walked` and `Bare` are given by their recursive equations, and `Term`  *)
(* by the closures unification relies on.                                  *)
(***************************************************************************)
ASSUME BoundAssumption == MaxVars \in Nat /\ RowsPerCall \in Nat /\ MaxCalls \in Nat

ASSUME TermAssumption ==
  /\ Operand \subseteq Term
  /\ \A i \in VarId : Var(i) \in Term
  /\ TypeCon(ListName) \in Term /\ TypeCon(LinkedListName) \in Term
  /\ \A t \in Term :
       /\ t.args \in Seq(Term)
       /\ t.tag = "Var" => t.num \in VarId /\ t = Var(t.num)
       /\ t.tag \in OneArg => Len(t.args) = 1
       /\ t.tag \in TwoArg => Len(t.args) = 2
       /\ t.tag = "Fun" => t.row \in Row(RowId)
       /\ t.tag \in Named /\ t.args # <<>> => PeelHead(t) \in Term

ASSUME WalkedAssumption ==
  /\ Walked \in [Term -> SUBSET VarId]
  /\ \A t \in Term :
       Walked[t] = IF t.tag = "Var" THEN {t.num}
                   ELSE IF t.tag \in WalkedTag
                   THEN UNION {Walked[t.args[k]] : k \in DOMAIN t.args}
                   ELSE {}

ASSUME BareAssumption ==
  /\ Bare \in [Term -> Term]
  /\ \A t \in Term :
       /\ Bare[t] = IF t.tag = "Linear" THEN Bare[t.args[1]] ELSE t
       /\ Bare[t].tag # "Linear"

ASSUME MentionsAssumption ==
  /\ Mentions \in [Term -> SUBSET VarId]
  /\ MentionsRow \in [Term -> SUBSET RowId]
  /\ \A t \in Term :
       /\ Mentions[t] = IF t.tag = "Var" THEN {t.num}
                        ELSE UNION {Mentions[t.args[k]] : k \in DOMAIN t.args}
       /\ MentionsRow[t] = (IF t.tag = "Fun" /\ IsOpen(t.row) THEN {t.row.id} ELSE {})
                             \cup UNION {MentionsRow[t.args[k]] : k \in DOMAIN t.args}
       /\ Mentions[Bare[t]] = Mentions[t] /\ MentionsRow[Bare[t]] = MentionsRow[t]

VARIABLES
  subst,        \* `substitutions`: what each variable is bound to
  nextId,       \* `next_id`
  stack,        \* the calls of `unify` in progress, innermost last
  propeqDepth,  \* `propeq_depth`: equalities being unified
  diags,        \* the codes reported since the outermost call began
  answer,       \* what the last outermost call answered

  \* What the code keeps no record of:
  uncovered,    \* `linear` was stripped off a bound variable
  unsaid        \* since it began, rows inside an equality were refused unreported

vars == <<subst, nextId, rowSubst, nextRow, stack, propeqDepth, diags, answer,
          uncovered, unsaid>>

-----------------------------------------------------------------------------
(***************************************************************************)
(* Reading the slots.                                                      *)
(***************************************************************************)

\* A slot holding itself is an unbound variable.  A slot not minted yet reads
\* the same way.
Unbound(s, i) == s[i] = Var(i)

\* The variable a slot passes a variable on to.
VarSucc(s) ==
  [i \in VarId |-> IF ~Unbound(s, i) /\ s[i].tag = "Var" THEN {s[i].num} ELSE {}]

\* The variables the occurs check goes on to from a slot.
WalkSucc(s) == [i \in VarId |-> IF Unbound(s, i) THEN {} ELSE Walked[s[i]]]

\* All the variables in a slot, which `deep_resolve` goes on to.
FullSucc(s) == [i \in VarId |-> IF Unbound(s, i) THEN {} ELSE Mentions[s[i]]]

\* Follow a variable to what it was bound to.
Resolve(s, t) ==
  IF t.tag # "Var" THEN t
  ELSE LET succ == VarSucc(s)
       IN  s[CHOOSE e \in Reach(succ, {t.num}) : succ[e] = {}]

\* Wrong: the variables in the type itself are looked at, not what they are
\* bound to.
OccursShallow(s, u, t) == u \in Walked[t]

\* Wrong: a variable is bound without a look.
OccursNever(s, u, t) == FALSE

\* The occurs check answers yes when the walk ends at u, and also when the walk
\* would not end: its budget of 1024 levels is spent refusing.  A bound u is
\* passed through like any other.
OccursIn(s, u, t) ==
  LET succ   == WalkSucc(s)
      walked == Reach(succ, Walked[t])
  IN  \/ u \in walked /\ Unbound(s, u)
      \/ \E v \in walked : v \in Reach(succ, succ[v])

-----------------------------------------------------------------------------
(***************************************************************************)
(* Frames.  "Top" is the caller's pair; "Fun" unifies all its pairs        *)
(* whatever they answer; the others stop at the first that fails.          *)
(***************************************************************************)
FrameKind == {"Top", "Seq", "Fun", "Mask", "PropEq"}

TypePair(x, y) == [sort |-> "type", l |-> x, r |-> y]
RowPair(x, y)  == [sort |-> "row", l |-> x, r |-> y]

TypePairs == [sort : {"type"}, l : Term, r : Term]
RowPairs  == [sort : {"row"}, l : Row(RowId), r : Row(RowId)]

Frame(kind, a, b, pairs) ==
  [kind |-> kind, a |-> a, b |-> b, rest |-> pairs, acc |-> TRUE]

Frames == [kind : FrameKind, a : Term, b : Term,
           rest : Seq(TypePairs \cup RowPairs), acc : BOOLEAN]

Top == Last(stack)

Done(f) == f.rest = <<>> \/ (~f.acc /\ f.kind # "Fun")

\* The pair at hand.
Goal == Head(Top.rest)

\* Wrong: the side is taken as it is written.
LeftUnresolved == Bare[Goal.l]

\* Both sides as the match sees them: resolved, then stripped of `linear`, and
\* not resolved again.
Left  == Bare[Resolve(subst, Goal.l)]
Right == Bare[Resolve(subst, Goal.r)]

\* What `linear` covers in a type may be a variable, and a bound one.
Uncovers(t) ==
  LET r == Resolve(subst, t)
  IN  r.tag = "Linear" /\ Bare[r].tag = "Var" /\ ~Unbound(subst, Bare[r].num)

AtTypes == stack # <<>> /\ ~Done(Top) /\ Goal.sort = "type"
AtRows  == stack # <<>> /\ ~Done(Top) /\ Goal.sort = "row"

Uncovering == AtTypes /\ (Uncovers(Goal.l) \/ Uncovers(Goal.r))

\* A stack whose innermost call goes on as f.
Continue(calls, f) == [calls EXCEPT ![Len(calls)] = f]

\* The pair is decided.
Answer(ok) ==
  stack' = Continue(stack, [Top EXCEPT !.rest = Tail(@), !.acc = @ /\ ok])

\* The pair needs others first.
Descend(kind, a, b, pairs) ==
  /\ Len(stack) < MaxCalls
  /\ stack' = Append(Continue(stack, [Top EXCEPT !.rest = Tail(@)]), Frame(kind, a, b, pairs))

Pairs(xs, ys) == [k \in 1 .. Len(xs) |-> TypePair(xs[k], ys[k])]

Report(codes) == diags' = diags \o codes

-----------------------------------------------------------------------------

(***************************************************************************)
(* `report_conflict`: whether two types that did not unify are the         *)
(* program's error (CDX2001) or only undecided.  Inside an equality every  *)
(* mismatch is the program's.                                              *)
(***************************************************************************)

\* A mask's lane, resolved; concrete when no variable in it is still open.
\* (Lanes are leaves: their heads decide whether two are the same.)
Lane(t) == Resolve(subst, t.args[1])
Concrete(t) == \A v \in Reach(FullSucc(subst), Mentions[t]) : ~Unbound(subst, v)

VectorConflict(a, b) ==
  \/ a.tag = "Vector" /\ b.tag = "Vector" /\ a.num >= 0 /\ b.num >= 0 /\ a.num # b.num
  \/ /\ a.tag = "VectorMask" /\ b.tag = "VectorMask"
     /\ \/ a.num # b.num
        \/ Concrete(Lane(a)) /\ Concrete(Lane(b)) /\ Lane(a) # Lane(b)
  \/ {a.tag, b.tag} = {"Vector", "SizedVec"}
  \/ a.tag = "Real" /\ b.tag = "Real" /\ a.num # b.num

IsSessionState(t) == t.tag \in {"Constructed", "TypeCon"} /\ t.num \in SessionState

Conflict(a, b) ==
  \/ VectorConflict(a, b)
  \/ a.tag = "Fun" /\ b.tag \in Prim
  \/ a.tag \in Prim /\ b.tag = "Fun"
  \/ IsSessionState(a) /\ IsSessionState(b) /\ a.num # b.num
  \/ a.tag \in Prim /\ b.tag \in Prim /\ a.tag # b.tag

\* Wrong: inside an equality a mismatch is judged as it is outside.
ReportedOutside(a, b) == Conflict(a, b)

Reported(a, b) == propeqDepth > 0 \/ Conflict(a, b)

ReportConflict(a, b) == Report(IF Reported(a, b) THEN <<2001>> ELSE <<>>)

-----------------------------------------------------------------------------
(***************************************************************************)
(* The arms of the match in `unify`.  Its arms are tried in order; the     *)
(* predicates below say which pairs the structural arms take, and Settled  *)
(* is what is left to the last one.                                        *)
(***************************************************************************)
\* The slot is written whether it was or not: the match took the variable for an
\* unbound one.
BindVar(i, t) == subst' = [subst EXCEPT ![i] = t]

Absorbed(a, b)    == a.tag = "Error" \/ b.tag = "Error"
OneVariable(a, b) == (a.tag = "Var" \/ b.tag = "Var") /\ ~Absorbed(a, b)

SameHead(tag, a, b) == a.tag = tag /\ b.tag = tag

\* One type constructor over one subtype, on both sides.
Elementwise(a, b) ==
  \/ a.tag \in Listish /\ b.tag \in Listish
  \/ SameHead("Unit", a, b) /\ a.num = b.num
  \/ SameHead("Effectful", a, b) /\ a.num = b.num
  \/ \E tag \in {"Vector", "SizedVec"} :
       SameHead(tag, a, b) /\ (a.num = b.num \/ a.num < 0 \/ b.num < 0)

\* A sum, a record and a constructed type are spellings of one named type, but
\* a sum and a record are never the same one.
SameName(a, b) ==
  /\ a.tag \in Named /\ b.tag \in Named /\ a.num = b.num
  /\ a.tag = b.tag \/ a.tag = "Constructed" \/ b.tag = "Constructed"

SameMask(a, b) == SameHead("VectorMask", a, b) /\ a.num = b.num

\* An application meeting a type with a last argument to peel.
Peels(a, b) ==
  a.tag = "TypeApply" /\ (b.tag \in Listish \/ (b.tag \in Named /\ b.args # <<>>))

BareName(a, b) ==
  a.tag = "TypeCon" /\ b.tag = "Constructed" /\ a.num = b.num /\ b.args = <<>>

Proofs(a, b) == {a.tag, b.tag} \in {{"Proof"}, {"Proof", "PropEq"}}

Transparent(a, b) == a.tag \in Quantified \/ b.tag \in Quantified

Settled(a, b) ==
  ~ \/ Absorbed(a, b) \/ OneVariable(a, b) \/ Elementwise(a, b) \/ SameName(a, b)
    \/ SameMask(a, b) \/ Peels(a, b) \/ Peels(b, a) \/ BareName(a, b) \/ BareName(b, a)
    \/ Proofs(a, b) \/ Transparent(a, b)
    \/ \E tag \in TwoArg : SameHead(tag, a, b)

keepRows == UNCHANGED <<rowSubst, nextRow>>
keepAll  == UNCHANGED <<nextId, propeqDepth, answer, unsaid>>

\* An error type has been reported already, and agrees with anything.
AbsorbError(a, b) ==
  /\ Absorbed(a, b)
  /\ Answer(TRUE)
  /\ UNCHANGED <<subst, diags>> /\ keepRows /\ keepAll

SameVariable(a, b) ==
  /\ SameHead("Var", a, b) /\ a = b
  /\ Answer(TRUE)
  /\ UNCHANGED <<subst, diags>> /\ keepRows /\ keepAll

\* The higher id binds to the lower, without an occurs check.
BindVariables(a, b) ==
  /\ SameHead("Var", a, b)
  /\ \/ a.num < b.num /\ BindVar(b.num, a)
     \/ a.num > b.num /\ BindVar(a.num, b)
  /\ Answer(TRUE)
  /\ UNCHANGED diags /\ keepRows /\ keepAll

\* A variable meets a type: bound to it, or refused if it occurs in it.
BindOrRefuse(v, t) ==
  IF OccursIn(subst, v.num, t)
  THEN Report(<<2010>>) /\ Answer(FALSE) /\ UNCHANGED subst
  ELSE BindVar(v.num, t) /\ Answer(TRUE) /\ UNCHANGED diags

BindVariable(a, b) ==
  /\ OneVariable(a, b) /\ ~SameHead("Var", a, b)
  /\ \/ a.tag = "Var" /\ BindOrRefuse(a, b)
     \/ b.tag = "Var" /\ BindOrRefuse(b, a)
  /\ keepRows /\ keepAll

\* The parameter, the row and the result are all unified, in that order, and
\* the answer is whether all of them agreed.
UnifyFun(a, b) ==
  /\ SameHead("Fun", a, b)
  /\ Descend("Fun", a, b, <<TypePair(a.args[1], b.args[1]),
                      RowPair(a.row, b.row),
                      TypePair(a.args[2], b.args[2])>>)
  /\ UNCHANGED <<subst, diags>> /\ keepRows /\ keepAll

UnifyFunRow ==
  /\ AtRows
  /\ LET u == UnifyRow(rowSubst, nextRow, Goal.l, Goal.r)
     IN  /\ u.next <= MaxRows
         /\ rowSubst' = u.rs
         /\ nextRow' = u.next
         /\ Answer(u.ok)
         /\ Report(IF u.reported THEN <<2090>> ELSE <<>>)
         /\ unsaid' = (unsaid \/ (propeqDepth > 0 /\ ~u.ok /\ ~u.reported))
  /\ UNCHANGED <<subst, uncovered, nextId, propeqDepth, answer>>

UnifyElement(a, b) ==
  /\ Elementwise(a, b)
  /\ Descend("Seq", a, b, Pairs(a.args, b.args))
  /\ UNCHANGED <<subst, diags>> /\ keepRows /\ keepAll

\* Wrong: the arguments are zipped, whatever their numbers.
UnifyNamedZipped(a, b) ==
  /\ SameName(a, b)
  /\ LET n == IF Len(a.args) < Len(b.args) THEN Len(a.args) ELSE Len(b.args)
     IN  Descend("Seq", a, b, Pairs(SubSeq(a.args, 1, n), b.args))
  /\ UNCHANGED <<subst, diags>> /\ keepRows /\ keepAll

\* Two arities are refused outright; else argument by argument, up to the
\* first that fails.
UnifyNamed(a, b) ==
  /\ SameName(a, b)
  /\ IF Len(a.args) = Len(b.args)
     THEN Descend("Seq", a, b, Pairs(a.args, b.args)) /\ UNCHANGED diags
     ELSE Answer(FALSE) /\ Report(<<2001>>)
  /\ UNCHANGED subst /\ keepRows /\ keepAll

\* A mask whose lanes disagree is reported as well as its lanes.
UnifyMask(a, b) ==
  /\ SameMask(a, b)
  /\ Descend("Mask", a, b, Pairs(a.args, b.args))
  /\ UNCHANGED <<subst, diags>> /\ keepRows /\ keepAll

UnifyApply(a, b) ==
  /\ SameHead("TypeApply", a, b)
  /\ Descend("Seq", a, b, Pairs(a.args, b.args))
  /\ UNCHANGED <<subst, diags>> /\ keepRows /\ keepAll

\* `f a` against `List Integer` is `f := List`, then `a := Integer`; against
\* `Map k v` it is `f := Map k`, then `a := v`.
PeelArgument(app, t) ==
  Descend("Seq", app, t,
          <<TypePair(app.args[1], PeeledHead(t)), TypePair(app.args[2], Last(t.args))>>)

PeelApply(a, b) ==
  /\ \/ Peels(a, b) /\ PeelArgument(a, b)
     \/ Peels(b, a) /\ PeelArgument(b, a)
  /\ UNCHANGED <<subst, diags>> /\ keepRows /\ keepAll

\* A bare name has two spellings, and a proof meets any equality.
MeetBareName(a, b) ==
  /\ (BareName(a, b) \/ BareName(b, a) \/ Proofs(a, b))
  /\ Answer(TRUE)
  /\ UNCHANGED <<subst, diags>> /\ keepRows /\ keepAll

\* Side by side, and inside every mismatch is reported.
UnifyPropEq(a, b) ==
  /\ SameHead("PropEq", a, b)
  /\ Descend("PropEq", a, b, Pairs(a.args, b.args))
  /\ propeqDepth' = propeqDepth + 1
  /\ UNCHANGED <<subst, diags, nextId, answer, unsaid>> /\ keepRows

\* A quantifier is transparent: its body is unified, uninstantiated.
SeeThrough(a, b) ==
  /\ Transparent(a, b) /\ ~Absorbed(a, b) /\ ~OneVariable(a, b)
  /\ Descend("Seq", a, b, <<IF a.tag \in Quantified THEN TypePair(a.args[1], b)
                                                  ELSE TypePair(a, b.args[1])>>)
  /\ UNCHANGED <<subst, diags>> /\ keepRows /\ keepAll

\* Everything else is equal or does not unify.
MeetOrConflict(a, b) ==
  /\ Settled(a, b)
  /\ Answer(a = b)
  /\ IF a = b THEN UNCHANGED diags ELSE ReportConflict(a, b)
  /\ UNCHANGED subst /\ keepRows /\ keepAll

Returning == stack # <<>> /\ Done(Top)

LeavePropEq ==
  propeqDepth' = IF Top.kind = "PropEq" THEN propeqDepth - 1 ELSE propeqDepth

\* A call has its answer, and hands it to the call it is part of.
Return ==
  /\ Returning
  /\ LET outer == SubSeq(stack, 1, Len(stack) - 1)
     IN  stack' = IF outer = <<>> THEN <<>>
                  ELSE Continue(outer, [Last(outer) EXCEPT !.acc = @ /\ Top.acc])
  /\ answer' = IF Len(stack) = 1 THEN Top.acc ELSE answer
  /\ LeavePropEq
  /\ IF Top.kind = "Mask" /\ ~Top.acc THEN ReportConflict(Top.a, Top.b) ELSE UNCHANGED diags
  /\ UNCHANGED <<subst, uncovered, nextId, unsaid>> /\ keepRows

Arm(a, b) ==
  \/ AbsorbError(a, b) \/ SameVariable(a, b) \/ BindVariables(a, b) \/ BindVariable(a, b)
  \/ UnifyFun(a, b) \/ UnifyElement(a, b) \/ UnifyNamed(a, b) \/ UnifyMask(a, b)
  \/ UnifyApply(a, b) \/ PeelApply(a, b) \/ MeetBareName(a, b) \/ UnifyPropEq(a, b)
  \/ SeeThrough(a, b) \/ MeetOrConflict(a, b)

UnifyStep ==
  /\ AtTypes
  /\ LET a == Left b == Right IN Arm(a, b)
  /\ uncovered' = (uncovered \/ Uncovering)

Step == UnifyStep \/ UnifyFunRow \/ Return

-----------------------------------------------------------------------------
(***************************************************************************)
(* What inference asks of the unifier, in whatever order the program being *)
(* checked leads to.                                                       *)
(***************************************************************************)
Idle == stack = <<>>

Fresh ==
  /\ Idle /\ nextId < MaxVars
  /\ nextId' = nextId + 1
  /\ UNCHANGED <<subst, rowSubst, nextRow, stack, propeqDepth, diags, answer, uncovered, unsaid>>

FreshRow ==
  /\ Idle /\ nextRow + RowsPerCall < MaxRows
  /\ nextRow' = nextRow + 1
  /\ UNCHANGED <<subst, nextId, rowSubst, stack, propeqDepth, diags, answer, uncovered, unsaid>>

\* A type inference can hold: its variables and rows were minted.
Minted(t) == Mentions[t] \subseteq 0 .. (nextId - 1) /\ MentionsRow[t] \subseteq 0 .. (nextRow - 1)

\* A call of `unify` on two types begins.
Begin(x, y) ==
  /\ Idle /\ nextRow + RowsPerCall <= MaxRows
  /\ stack' = <<Frame("Top", x, y, <<TypePair(x, y)>>)>>
  /\ diags' = <<>>
  /\ unsaid' = FALSE
  /\ UNCHANGED <<subst, propeqDepth, answer, uncovered>> /\ keepRows

Unify(x, y) == Minted(x) /\ Minted(y) /\ Begin(x, y) /\ UNCHANGED nextId

\* `empty-unification-state` is not empty: two variables exist from the start.
Init ==
  /\ subst = [i \in VarId |-> Var(i)]
  /\ nextId = 2
  /\ rowSubst = [i \in RowId |-> RowVar(i)]
  /\ nextRow = 0
  /\ stack = <<>>
  /\ propeqDepth = 0
  /\ diags = <<>>
  /\ answer = TRUE
  /\ uncovered = FALSE
  /\ unsaid = FALSE

Next ==
  \/ Fresh
  \/ FreshRow
  \/ \E x, y \in Operand : Unify(x, y)
  \/ Step

Spec == Init /\ [][Next]_vars

-----------------------------------------------------------------------------

\* The slots and the calls in progress: what resolving a type relies on.
SlotsOK ==
  /\ subst \in [VarId -> Term]
  /\ stack \in Seq(Frames)

TypeOK ==
  /\ SlotsOK
  /\ nextId \in Nat
  /\ rowSubst \in [RowId -> Row(RowId)]
  /\ nextRow \in 0 .. MaxRows
  /\ propeqDepth \in Nat
  /\ diags \in Seq({2001, 2010, 2090})
  /\ {answer, uncovered, unsaid} \subseteq BOOLEAN

(***************************************************************************)
(* `unify` resolves a type and then strips `linear` off it.  A variable    *)
(* that `linear` covered may be bound, and the arms take it for unbound:   *)
(* they bind it again, or bind another to it without a look at what it     *)
(* holds.  Until such a variable is met (`uncovered`) the slots keep       *)
(* everything below; afterwards they need not.                             *)
(***************************************************************************)

\* What the occurs check is for: along everything it walks, no variable leads
\* back to itself, so resolving a type and walking it again comes to an end.
NoWalkedCycle == uncovered \/ Acyclic(WalkSucc(subst))

\* No row leads back to itself either: resolving one comes to an end.
NoRowCycle == Acyclic(RowSucc(rowSubst))

\* The variable itself is what `linear` covers in a side of the pair at hand.
UnderLinear(i) ==
  AtTypes /\ \E t \in {Goal.l, Goal.r} : Uncovers(t) /\ Bare[Resolve(subst, t)] = Var(i)

\* A variable once bound keeps its binding: what an earlier call decided is
\* still so after every later one.  Nothing undoes it but a pair with the
\* variable itself under `linear`.
NeverRebound ==
  [][\A i \in VarId : Unbound(subst, i) \/ subst'[i] = subst[i] \/ UnderLinear(i)]_vars

\* The slots implement the abstract array: whatever calls are made, and however
\* far into the recursion, a slot is written once, and only with a type that
\* does not lead back to it.
Slots == INSTANCE BindOnce
  WITH Slot <- VarId, Content <- Term, Mentioned <- Walked,
       Blank <- [i \in VarId |-> Var(i)], store <- subst
BindsOnce == Slots!Init /\ [][Slots!Next \/ Uncovering]_subst

\* Two sides of an equality are terms already normalised: when they do not
\* unify, however deep inside them, the program is told so.  Only two rows with
\* one open tail and different labels do not unify with nothing said of them.
ProofMismatchReported ==
  \A k \in DOMAIN stack :
    stack[k].kind = "PropEq" /\ ~stack[k].acc => diags # <<>> \/ unsaid

(***************************************************************************)
(* Types that are one, read through slots s and row slots rs: two sides    *)
(* whose heads meet, and whose parts are pairs of E again.  E is taken as  *)
(* large as it needs to be, so the types are compared to any depth.  An    *)
(* error agrees with anything, and quantifiers are transparent.            *)
(***************************************************************************)
SameShape(a, b) ==
  /\ Elementwise(a, b) \/ SameName(a, b) \/ SameMask(a, b) \/ \E tag \in TwoArg : SameHead(tag, a, b)
  /\ Len(a.args) = Len(b.args)

PartsMeet(E, a, b) ==
  /\ \A k \in DOMAIN a.args : TypePair(a.args[k], b.args[k]) \in E
  /\ a.tag = "Fun" => RowPair(a.row, b.row) \in E

PeeledMeet(E, app, t) ==
  /\ Peels(app, t)
  /\ TypePair(app.args[1], PeeledHead(t)) \in E
  /\ TypePair(app.args[2], Last(t.args)) \in E

BodiesMeet(E, a, b) ==
  /\ ~OneVariable(a, b)
  /\ \/ a.tag \in Quantified /\ TypePair(a.args[1], b) \in E
     \/ b.tag \in Quantified /\ TypePair(a, b.args[1]) \in E

Meet(E, a, b) ==
  \/ a = b
  \/ Absorbed(a, b) \/ BareName(a, b) \/ BareName(b, a) \/ Proofs(a, b)
  \/ SameShape(a, b) /\ PartsMeet(E, a, b)
  \/ PeeledMeet(E, a, b) \/ PeeledMeet(E, b, a)
  \/ BodiesMeet(E, a, b)

\* A type as it reads now, through bound variables and `linear` by turns.  No
\* slot holds a `linear`, so there are no more than two turns.
Seen(s, t) == Bare[Resolve(s, Bare[Resolve(s, t)])]

PairMeets(s, rs, E, p) ==
  IF p.sort = "row" THEN ResolveRow(rs, p.l) = ResolveRow(rs, p.r)
  ELSE Meet(E, Seen(s, p.l), Seen(s, p.r))

\* Types, and rows already minted.
PairsMinted == TypePairs \cup {p \in RowPairs : {p.l, p.r} \subseteq Row(0 .. (nextRow - 1))}

AreOne(x, y) ==
  \E E \in SUBSET PairsMinted :
    TypePair(x, y) \in E /\ \A p \in E : PairMeets(subst, rowSubst, E, p)

\* A call of `unify` that is about to answer true, at any depth of the
\* recursion, has made one of its two types, to whatever depth they reach: no
\* pair was forgotten, and none was undone while others were unified.
UnifiedAreOne ==
  stack # <<>> /\ Top.acc /\ Top.rest = <<>> => AreOne(Top.a, Top.b) \/ uncovered

\* Types that are one stay one, whatever else is unified.
OneForever == [][Uncovering \/ \A x, y \in Term : AreOne(x, y) => AreOne(x, y)']_vars

\* Every call returns: no two types unify each other's parts without end.
CallsReturn == (stack # <<>>) ~> (stack = <<>> \/ uncovered)

=============================================================================
