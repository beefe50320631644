----------------------------- MODULE Inference -----------------------------
(***************************************************************************)
(* How the checker takes a chapter (src/check.rs, `check_chapter_full`):   *)
(* every definition is registered with what it declares; then, one after   *)
(* another, each is opened with a type of its own, its body is inferred,   *)
(* it is judged and tied back to its signature, and it is closed - its     *)
(* empty list literals settled and what it left open given a type.         *)
(*                                                                         *)
(* Types are Types'; what a program then does is Meaning's.  A chapter has *)
(* types, operations of effects, definitions - Meaning's, with a signature *)
(* - and the effects it grounds.  Names are distinct, and known to the     *)
(* chapter's own scope only.                                               *)
(***************************************************************************)
EXTENDS Types, Meaning

CONSTANTS
  Chapters,     \* the chapters checked
  BuiltinSigs   \* the builtins' names and types

-----------------------------------------------------------------------------
(***************************************************************************)
(* Inference: an expression's type, the effects of evaluating it, and the  *)
(* state after.  What the code lets pass without a look is noted: a type   *)
(* and the forms it must come to, and a row that must come to nothing.     *)
(***************************************************************************)
Typed(ty, row, st) == [ty |-> ty, row |-> row, st |-> st]

Overlooked(st, ty, forms, row) == [st EXCEPT !.unseen = Append(@, [ty |-> ty, forms |-> forms, row |-> row])]
MustBe(st, ty, forms)  == Overlooked(st, ty, forms, ClosedRow)
NotLooked(c, st)       == IF c THEN MustBe(st, NothingTy, {}) ELSE st
RowLost(st, row)       == Overlooked(st, NothingTy, {"Nothing"}, row)

\* The row so far, and then a part's.
With(row, t) ==
  LET Handed(j) == Typed(t.ty, j.row, j.st) IN Handed(JoinRows(t.st, row, t.row))

RECURSIVE Infer(_, _)

LitType(l) ==
  CASE l[1] = "int" -> IntegerTy
    [] l[1] = "text" -> TextTy
    [] l[1] = "bool" -> BooleanTy
    [] l[1] = "char" -> CharTy

NoSuchName(n) ==
  IF n = <<"Nothing">> THEN NothingAsValue ELSE IF n \in Capital THEN UnknownName ELSE UndefinedName

\* A name's type is instantiated and its closed arrows opened; an effectful
\* name is its value, and its row is the mention's.
InferName(n, st) ==
  LET inst == Instantiate(st, TypeOf(st, n))
      t == OpenSpine(inst.st, inst.ty)
  IN  IF ~InScope(st, n) THEN Typed(ErrorTy, ClosedRow, Report(st, NoSuchName(n)))
      ELSE IF t.ty.t = "Effectful" THEN Typed(t.ty.xs[1], t.ty.row, t.st)
      ELSE Typed(t.ty, ClosedRow, t.st)

\* The operators, once both operands are known.
Comparison(op, l, r, row, st) ==
  LET met == Meet(st, l, r)
      noted == IF op = <<"==">> THEN [met EXCEPT !.eqs = Append(@, l)] ELSE MustBe(met, l, {"Integer"})
      ordersText == op = <<"<">> /\ {Resolved(met, l).t, Resolved(met, r).t} \cap {"Text", "Char"} # {}
  IN  Typed(BooleanTy, row, ReportIf(ordersText, noted, TextOrdering))

Logical(l, r, row, st) == Typed(BooleanTy, row, Meet(Meet(st, l, BooleanTy), r, BooleanTy))

Arithmetic(l, r, row, st) ==
  LET met == Meet(st, l, r)
      notNumeric == {Resolved(met, l).t, Resolved(met, r).t} \cap {"Text", "Boolean", "Char"} # {}
  IN  Typed(Resolved(met, l), row, ReportIf(notNumeric, MustBe(met, l, {"Integer"}), NotNumeric))

\* `&`, by what the left operand is known to be.
Joining(l, r, row, st) ==
  LET left == Resolved(st, l)
  IN  CASE left = BooleanTy -> Logical(l, r, row, st)
        [] left = TextTy -> Typed(TextTy, row, Meet(st, r, TextTy))
        [] OTHER -> Typed(left, row, MustBe(Meet(st, l, r), l, {"List", "Text", "Boolean"}))

InferBinary(e, st) ==
  LET l == Infer(e.xs[1], st)
      r == Infer(e.xs[2], l.st)
      both == With(l.row, r)
  IN  CASE e.n \in {<<"==">>, <<"<">>} -> Comparison(e.n, l.ty, r.ty, both.row, both.st)
        [] e.n \in {<<"and">>, <<"or">>} -> Logical(l.ty, r.ty, both.row, both.st)
        [] e.n = <<"&">> -> Joining(l.ty, r.ty, both.row, both.st)
        [] OTHER -> Arithmetic(l.ty, r.ty, both.row, both.st)

\* Wrong: the arms need not agree.
InferIfApart(e, st) ==
  LET c == Infer(e.xs[1], st)
      a == Infer(e.xs[2], Meet(c.st, c.ty, BooleanTy))
      b == Infer(e.xs[3], a.st)
  IN  With(With(c.row, a).row, [b EXCEPT !.ty = a.ty])

\* The condition is a Boolean and the arms meet; the answer is the first's.
InferIf(e, st) ==
  LET c == Infer(e.xs[1], st)
      a == Infer(e.xs[2], Meet(c.st, c.ty, BooleanTy))
      b == Infer(e.xs[3], a.st)
      arms == With(c.row, Typed(a.ty, a.row, Meet(b.st, a.ty, b.ty)))
  IN  With(arms.row, Typed(a.ty, b.row, arms.st))

\* `widen_arg_to_param`: a function's effects are named as the parameter it is
\* given to names what covers them.
Lifted(ls, l) == IF Len(l) = 2 /\ <<l[1]>> \in ls THEN <<l[1]>> ELSE l

Widened(st, ft, at) ==
  LET f == StripForall(Resolved(st, ft))
      p == Resolved(st, f.xs[1])
      allowed == RowAtEnd(st, p.row).ls
      row == RowAtEnd(st, at.row)
  IN  IF at.t = "Fun" /\ f.t = "Fun" /\ p.t = "Fun" /\ allowed # {} /\ row.ls # {}
      THEN [at EXCEPT !.row = [row EXCEPT !.ls = {Lifted(allowed, l) : l \in row.ls}]]
      ELSE at

\* What is applied meets an arrow from the argument to a fresh result, with a
\* fresh row.
InferApply(e, st) ==
  LET f == Infer(e.xs[1], st)
      a == Infer(e.xs[2], f.st)
      ret == Variable(NextId(a.st))
      call == Row({}, NextRow(a.st))
      minted == FreshRow(Fresh(a.st))
      met == Meet(minted, f.ty, Arrow(Widened(minted, f.ty, a.ty), call, ret))
      halves == With(f.row, Typed(ret, a.row, met))
  IN  With(halves.row, Typed(ret, call, halves.st))

\* A `let`'s name is bound to what its value is known to be; an effectful value
\* is reported unless the chapter grounds its effects.
BindValue(n, v, acc) ==
  LET t == Infer(v, acc.st)
      effectful == ~t.st.exempt /\ RowAtEnd(t.st, t.row).ls # {}
      joined == With(acc.row, [t EXCEPT !.st = ReportIf(effectful, @, LetBindsEffectful)])
  IN  [joined EXCEPT !.st = Bind(@, n, Deep(@, t.ty))]

BindValues(e, acc) == FoldLeftDomain(LAMBDA a, i : BindValue(e.ps[i], e.xs[i], a), acc, e.ps)

InferLet(e, st) ==
  LET bound == BindValues(e, Typed(NothingTy, ClosedRow, st))
      body == With(bound.row, Infer(Last(e.xs), bound.st))
  IN  [body EXCEPT !.st = LeaveTo(@, Len(st.scope))]

\* A statement's `let`s stay for the statements after it, and so does what a
\* `<-` binds.
RECURSIVE InferStatement(_, _)
InferStatement(e, acc) ==
  IF e.t = "Let" THEN InferStatement(Last(e.xs), BindValues(e, acc)) ELSE With(acc.row, Infer(e, acc.st))

InferAct(e, st) ==
  LET BindStatement(n, t) == [t EXCEPT !.st = Bind(@, n, Deep(@, t.ty))]
      Take(acc, i) == IF e.ps[i] = NoName THEN InferStatement(e.xs[i], acc)
                      ELSE BindStatement(e.ps[i], With(acc.row, Infer(e.xs[i], acc.st)))
      done == FoldLeftDomain(Take, Typed(NothingTy, ClosedRow, st), e.xs)
  IN  [done EXCEPT !.ty = Deep(done.st, @), !.st = LeaveTo(@, Len(st.scope))]

InferUnary(e, st) ==
  LET x == Infer(e.xs[1], st)
      known == Deep(x.st, x.ty)
  IN  IF known.t \in {"Var", "Error"} THEN Typed(known, x.row, MustBe(x.st, known, {"Integer"}))
      ELSE Typed(IntegerTy, x.row, Meet(x.st, known, IntegerTy))

\* A lazy value is a function that has not been called yet.
InferLazy(e, st) ==
  LET x == Infer(e.xs[1], st)
      opened == OpenIfClosed(x.st, x.row)
  IN  Typed(Arrow(IntegerTy, opened.row, x.ty), ClosedRow, opened.st)

\* An empty list is a bare variable, and remembered; otherwise the elements meet
\* the first.
InferList(e, st) ==
  LET own == Variable(NextId(st))
      first == Infer(e.xs[1], st)
      Next_(acc, x) == LET t == Infer(x, acc.st)
                       IN  With(acc.row, Typed(acc.ty, t.row, Meet(t.st, t.ty, acc.ty)))
      all == FoldLeft(Next_, first, Tail(e.xs))
  IN  IF e.xs = <<>> THEN Typed(own, ClosedRow, [Fresh(st) EXCEPT !.lists = Append(@, own)])
      ELSE [all EXCEPT !.ty = ListOf(@)]

\* Names bound each to a fresh variable.
BindFresh(st, ps) == FoldLeft(LAMBDA s, p : Bind(Fresh(s), p, Variable(NextId(s))), st, ps)

\* A function's effects are on the arrow of its last parameter.
InferLambda(e, st) ==
  LET n == Len(e.ps)
      body == Infer(e.xs[1], BindFresh(st, e.ps))
      opened == OpenIfClosed(body.st, body.row)
      Over(i, ty) == Arrow(Variable(NextId(st) + i - 1), IF i = n THEN opened.row ELSE ClosedRow, ty)
  IN  Typed(FoldRight(Over, [i \in 1 .. n |-> i], body.ty), ClosedRow, LeaveTo(opened.st, Len(st.scope)))

-----------------------------------------------------------------------------
(***************************************************************************)
(* Matching.                                                               *)
(***************************************************************************)
IsLiteral(arm)  == Len(arm.xs) = 3
IsCatchAll(arm) == ~IsLiteral(arm) /\ arm.n = NoName
IsCtor(arm)     == ~IsLiteral(arm) /\ arm.n # NoName
Unguarded(arm)  == arm.xs[1] = Bool(TRUE)
ListCtor(n)     == n \in {<<"Nil">>, <<"Cons">>}

\* The names of a constructor's fields, from what its type takes; a field it
\* does not have is a fresh variable.
BindFields(st, ps, ctor) ==
  LET fields == Spine(ctor)
      One(s, i) == IF i \in DOMAIN fields THEN Bind(s, ps[i], fields[i])
                   ELSE Bind(Fresh(s), ps[i], Variable(NextId(s)))
  IN  FoldLeftDomain(One, st, ps)

BindListPattern(arm, elem, st) ==
  IF arm.n = <<"Nil">> THEN ReportIf(arm.ps # <<>>, st, ListPatternShape)
  ELSE IF Len(arm.ps) # 2 THEN Report(st, ListPatternShape)
  ELSE Bind(Bind(st, arm.ps[1], elem), arm.ps[2], ListOf(elem))

\* `bind_pattern`: what a constructor answers meets what is matched.
BindPattern(arm, ty, st) ==
  LET known == Deep(st, ty)
      inst == Instantiate(st, TypeOf(st, arm.n))
  IN  CASE IsLiteral(arm) -> st
        [] IsCatchAll(arm) -> FoldLeft(LAMBDA s, p : Bind(s, p, ty), st, arm.ps)
        [] IsCtor(arm) /\ known.t = "List" /\ ListCtor(arm.n) -> BindListPattern(arm, known.xs[1], st)
        [] IsCtor(arm) /\ ~(known.t = "List" /\ ListCtor(arm.n)) /\ InScope(st, arm.n) ->
             BindFields(Meet(inst.st, ResultOf(inst.ty), ty), arm.ps, inst.ty)
        [] OTHER -> BindFields(Report(st, UnknownPatternCtor), arm.ps, ErrorTy)

\* What the arms leave out of a decided type: nothing is looked at where some
\* arm takes everything, guarded or not.
Incomplete(arms, ty, st) ==
  LET named == {arms[i].n : i \in {j \in DOMAIN arms : IsCtor(arms[j])}}
      literals == {arms[i].xs[3] : i \in {j \in DOMAIN arms : IsLiteral(arms[j]) /\ Unguarded(arms[j])}}
  IN  CASE ty.t = "Sum" -> ~ToSet(st.tds.ctors[ty.n]) \subseteq named
        [] ty.t = "List" -> ~{<<"Nil">>, <<"Cons">>} \subseteq named
        [] ty.t \in {"Integer", "Text", "Char"} -> TRUE
        [] ty.t = "Boolean" -> ~{Bool(TRUE), Bool(FALSE)} \subseteq literals
        [] OTHER -> FALSE

JudgeArms(arms, scrut, st) ==
  LET known == Deep(st, scrut)
      all == {i \in DOMAIN arms : IsCatchAll(arms[i])}
      shadowed == \E i \in all : Unguarded(arms[i]) /\ i < Len(arms)
      noted == NotLooked(\/ \E i \in DOMAIN arms : ~Unguarded(arms[i])
                         \/ all = {} /\ known.t \in {"Var", "Constructed", "Error"}, st)
  IN  ReportIf(all = {} /\ Incomplete(arms, known, st), ReportIf(shadowed, noted, UnreachableArm), NonExhaustive)

\* Wrong: what is bound is not what is matched.
InferArmFree(arm, scrut, result, row, st) ==
  LET mark == Len(st.scope)
      g == With(row, Infer(arm.xs[1], BindFresh(st, arm.ps)))
      b == With(g.row, Infer(arm.xs[2], g.st))
  IN  Typed(result, b.row, LeaveTo(Meet(b.st, b.ty, result), mark))

\* A guard is inferred, and need not be a Boolean.
InferArm(arm, scrut, result, row, st) ==
  LET mark == Len(st.scope)
      g == With(row, Infer(arm.xs[1], BindPattern(arm, scrut, st)))
      b == With(g.row, Infer(arm.xs[2], g.st))
  IN  Typed(result, b.row, LeaveTo(Meet(b.st, b.ty, result), mark))

InferMatch(e, st) ==
  LET scrut == Infer(e.xs[1], st)
      arms == Tail(e.xs)
      guardedList == {i \in DOMAIN arms : /\ Deep(scrut.st, scrut.ty).t = "List"
                                          /\ IsCtor(arms[i]) /\ ListCtor(arms[i].n) /\ ~Unguarded(arms[i])}
      result == Variable(NextId(scrut.st))
      started == FoldLeft(LAMBDA s, arm : ReportIf(arm \in {arms[i] : i \in guardedList}, s, ListPatternShape),
                          Fresh(scrut.st), arms)
      done == FoldLeft(LAMBDA acc, arm : InferArm(arm, scrut.ty, result, acc.row, acc.st),
                       Typed(result, scrut.row, started), arms)
  IN  [done EXCEPT !.st = JudgeArms(arms, scrut.ty, @)]

-----------------------------------------------------------------------------
(***************************************************************************)
(* Records and handlers.                                                   *)
(***************************************************************************)
TheOne(places) == CHOOSE i \in places : TRUE

\* The values meet what the record's constructor takes, and every field is
\* there.
InferRecord(e, st) ==
  LET inst == IF InScope(st, e.n) THEN Instantiate(st, TypeOf(st, e.n)) ELSE Shaped(ErrorTy, st)
      wanted == Spine(inst.ty)
      result == ResultOf(inst.ty)
      name == IF result.t \in Declarable THEN result.n ELSE e.n
      isRecord == result.t = "Record" /\ name \in DOMAIN st.tds.fields
      Place(f) == FieldIndex(st.tds, name, f)
      Known(f) == Place(f) # {} /\ TheOne(Place(f)) \in DOMAIN wanted
      Judged(f, t) ==
        LET s == ReportIf(isRecord /\ Place(f) = {}, t.st, UnknownField)
        IN  IF Known(f) THEN Meet(s, t.ty, wanted[TheOne(Place(f))]) ELSE s
      Take(acc, i) == LET t == Infer(e.xs[i], acc.st)
                      IN  With(acc.row, [t EXCEPT !.st = Judged(e.ps[i], t)])
      values == FoldLeftDomain(Take, Typed(result, ClosedRow, inst.st), e.xs)
      LeftOut(s, d) == ReportIf(d.n \notin ToSet(e.ps), s, MissingField)
  IN  Typed(result, values.row,
            IF isRecord THEN FoldLeft(LeftOut, values.st, st.tds.fields[name]) ELSE values.st)

\* A field's declared type: of a record as it was declared, of a record that
\* takes arguments at these arguments.
FieldType(st, ty, f) ==
  LET i == TheOne(FieldIndex(st.tds, ty.n, f))
  IN  IF ty.t = "Record" THEN st.tds.fields[ty.n][i].ty ELSE InstantiateField(TypeOf(st, ty.n), i, ty.xs)

RecordLike(st, ty) ==
  \/ ty.t = "Record"
  \/ ty.t = "Constructed" /\ ty.n \in DOMAIN st.tds.types /\ st.tds.types[ty.n].t = "Record"

\* The receiver's effects are not handed up.
InferField(e, st) ==
  LET o == Infer(e.xs[1], st)
      known == Deep(o.st, o.ty)
      declaredOnly == known.t = "Record" /\ known.xs # <<>>
      lost == NotLooked(declaredOnly \/ ~RecordLike(o.st, known), RowLost(o.st, o.row))
  IN  IF ~RecordLike(o.st, known) THEN Typed(Variable(NextId(lost)), ClosedRow, Fresh(lost))
      ELSE IF FieldIndex(st.tds, known.n, e.n) = {} THEN Typed(ErrorTy, ClosedRow, Report(lost, UnknownField))
      ELSE Typed(FieldType(o.st, known, e.n), ClosedRow, lost)

\* The value meets the field if there is one; a store through a definition's
\* name is reported.
InferAssign(e, st) ==
  LET o == Infer(e.xs[1], st)
      v == Infer(e.xs[2], o.st)
      known == Deep(v.st, o.ty)
      has == known.t \in {"Record", "Constructed"} /\ FieldIndex(st.tds, known.n, e.n) # {}
      lost == NotLooked(~has \/ (known.t = "Record" /\ known.xs # <<>>), RowLost(RowLost(v.st, o.row), v.row))
      met == IF has THEN Meet(lost, v.ty, FieldType(lost, known, e.n)) ELSE lost
      seen == e.xs[1].t = "NameRef" => IsLocal(met, e.xs[1].n)
  IN  Typed(o.ty, ClosedRow, ReportIf(~seen, met, Unobservable))

\* `effect_covered_by`: a name covers what is under it.
Covered(declared, l) == l \in declared \/ (Len(l) = 2 /\ <<l[1]>> \in declared)

\* A handled effect leaves the body's row; an open row that names nothing
\* handled is told that it had it.
Unhandled(eff, t) ==
  LET r == RowAtEnd(t.st, t.row)
      rest == Row({}, NextRow(t.st))
      met == UnifyRows(FreshRow(t.st), t.row, Row({eff}, NextRow(t.st)))
  IN  IF \E l \in r.ls : Covered({eff}, l) THEN [t EXCEPT !.row = [r EXCEPT !.ls = {l \in @ : ~Covered({eff}, l)}]]
      ELSE IF r.id = NoId THEN t
      ELSE Typed(t.ty, rest, Counted(met))

\* A clause's parameters and its `resume` are fresh; it adds its effects.
InferHandle(e, st) ==
  LET body == Unhandled(e.n, Infer(e.xs[1], st))
      Take(acc, c) == LET t == Infer(c.xs[1], BindFresh(acc.st, c.ps))
                      IN  With(acc.row, Typed(acc.ty, t.row, LeaveTo(t.st, Len(acc.st.scope))))
  IN  FoldLeft(Take, body, Tail(e.xs))

Infer(e, st) ==
  CASE e.t = "Lit" -> Typed(LitType(e.n), ClosedRow, st)
    [] e.t = "NameRef" -> InferName(e.n, st)
    [] e.t = "Binary" -> InferBinary(e, st)
    [] e.t = "If" -> InferIf(e, st)
    [] e.t = "Apply" -> InferApply(e, st)
    [] e.t = "Act" -> InferAct(e, st)
    [] e.t = "Let" -> InferLet(e, st)
    [] e.t = "Unary" -> InferUnary(e, st)
    [] e.t = "Lazy" -> InferLazy(e, st)
    [] e.t = "List" -> InferList(e, st)
    [] e.t = "Lambda" -> InferLambda(e, st)
    [] e.t = "Match" -> InferMatch(e, st)
    [] e.t = "Record" -> InferRecord(e, st)
    [] e.t = "FieldAccess" -> InferField(e, st)
    [] e.t = "FieldAssign" -> InferAssign(e, st)
    [] e.t = "Handle" -> InferHandle(e, st)

-----------------------------------------------------------------------------
(***************************************************************************)
(* The definitions, one after another.                                     *)
(***************************************************************************)
VARIABLES
  chapter,  \* the chapter being checked
  phase,    \* what the checker is at
  at,       \* which definition; those before it are closed
  st,       \* the checker's state
  cur,      \* the definition being checked: what was minted before it, its own
            \* type, the signature's variables in it, the result wanted, where
            \* its parameters and its comparisons start
  body,     \* the type and the row of its body
  owns      \* the types of the definitions opened, their own

vars == <<chapter, phase, at, st, cur, body, owns>>

Def        == chapter.defs[at]
Registered(d) == TypeOf(st, d.name)

\* `settle_empty_lists`: what is not a list yet meets a list of something fresh.
SettleOne(s) ==
  LET literal == s.lists[s.settled + 1]
      taken == [s EXCEPT !.settled = @ + 1]
      met == Unify(Fresh(taken), ListOf(Variable(NextId(taken))), literal)
  IN  IF Resolved(s, literal).t \in {"List", "Error"} THEN taken
      ELSE ReportIf(~met.ok, met.st, TypeMismatch)

RECURSIVE Settled(_)
Settled(s) == IF s.settled = Len(s.lists) THEN s ELSE Settled(SettleOne(s))

\* A definition's parameters, along its own type; what is left of it.
BindParams(s, own, ps) ==
  LET One(acc, p) == IF acc.ty.t = "Fun" THEN Shaped(acc.ty.xs[2], Bind(acc.st, p, acc.ty.xs[1]))
                     ELSE Shaped(ErrorTy, Bind(Fresh(acc.st), p, Variable(NextId(acc.st))))
  IN  FoldLeft(One, Shaped(own, s), ps)

Init ==
  /\ chapter \in Chapters
  /\ phase = "registering" /\ at = 0
  /\ st = NewChecker(TypeDefs(chapter.types))
  /\ cur = <<>> /\ body = <<>> /\ owns = <<>>

Register ==
  /\ phase = "registering" /\ phase' = "between"
  /\ LET builtins == {b.n : b \in ToSet(BuiltinSigs)}
         r == RegisterDefs(st, chapter, st.tds, builtins)
         scope == BuiltinSigs \o r.names
     IN  st' = [r.st EXCEPT !.scope = scope, !.globals = Len(scope)]
  /\ UNCHANGED <<chapter, at, cur, body, owns>>

\* The declared type is instantiated for the definition itself; a definition
\* that declares nothing is built a shape, tied to what it was registered as.
OpenDefinition ==
  /\ phase = "between" /\ at < Len(chapter.defs)
  /\ phase' = "open" /\ at' = at + 1
  /\ LET d == chapter.defs[at']
         s == Settled(st)
         shape == UndeclaredShape(s, Len(d.params))
         own == IF d.sig = NoSig THEN [shape EXCEPT !.st = Meet(@, Registered(d), shape.ty)]
                ELSE Instantiate(s, Registered(d))
         left == BindParams(own.st, own.ty, d.params)
     IN  /\ st' = left.st
         /\ owns' = Append(owns, own.ty)
         /\ cur' = [start |-> NextId(s), own |-> own.ty, mark |-> Len(s.scope), eqs |-> Len(s.eqs),
                    declared |-> IF d.sig = NoSig THEN {} ELSE NextId(s) .. (NextId(own.st) - 1),
                    want |-> IF left.ty.t = "Effectful" THEN left.ty.xs[1] ELSE left.ty]
  /\ UNCHANGED <<chapter, body>>

InferBody ==
  /\ phase = "open" /\ phase' = "inferred"
  /\ LET t == Infer(Def.body, [st EXCEPT !.exempt = chapter.grounds # {}])
     IN  /\ body' = [ty |-> t.ty, row |-> t.row]
         /\ st' = [Meet(t.st, t.ty, cur.want) EXCEPT !.exempt = FALSE]
  /\ UNCHANGED <<chapter, at, cur, owns>>

\* `declared_performing_row`: what a type grants a body under n parameters.
RECURSIVE Granted(_, _)
Granted(t, n) ==
  CASE t.t \in Forall -> Granted(t.xs[1], n)
    [] t.t = "Fun" -> IF n <= 1 THEN t.row ELSE Granted(t.xs[2], n - 1)
    [] t.t = "Effectful" -> t.row
    [] OTHER -> ClosedRow

Allowed(s, own, d) == RowAtEnd(s, Granted(own, Len(d.params))).ls \cup chapter.grounds

JudgeNamed(s) ==
  ReportIf(\E l \in RowAtEnd(s, body.row).ls : ~Covered(Allowed(s, cur.own, Def), l), s, EffectUndeclared)

RECURSIVE TailsOf(_)
TailsOf(t) == {i \in {t.row.id} : i # NoId} \cup UNION {TailsOf(t.xs[k]) : k \in DOMAIN t.xs}

\* Every effect performed is declared or grounded.  Only the effects that have a
\* name are looked at, and not those of a function the definition was given.
JudgeEffects(s) ==
  LET End(i) == RowAtEnd(s, Row({}, i)).id
      performs == RowAtEnd(s, body.row).id
      granted == RowAtEnd(s, Granted(cur.own, Len(Def.params))).id
      unnamed == performs # granted /\ Def.sig # NoSig /\ performs \in {End(i) : i \in TailsOf(cur.own)}
  IN  NotLooked(unnamed, JudgeNamed(s))

\* Nothing the signature leaves to the caller is compared, or decided.
JudgeComparisons(s) ==
  FoldLeft(LAMBDA a, ty : ReportIf(VarsOf(Deep(a, ty)) \cap cur.declared # {}, a, EqOnVariable),
           s, SubSeq(s.eqs, cur.eqs + 1, Len(s.eqs)))

Fixed(s) == {v \in cur.declared : Resolved(s, Variable(v)) # Variable(v)}

\* What is still open is not looked at again.
JudgeRigidity(s) ==
  FoldSet(LAMBDA v, a : IF v \in Fixed(s) THEN Report(a, BodyFixesVar) ELSE MustBe(a, Variable(v), {"Var"}),
          s, cur.declared)

\* A signature is tied to what its definition came to; a definition without one
\* learns its effects.
TieBack(s) ==
  IF Def.sig # NoSig
  THEN IF Registered(Def).t \in Forall THEN Meet(s, cur.own, StripForall(Registered(Def))) ELSE s
  ELSE Counted(UnifyRows(s, LastRow(cur.own), body.row))

TieDefinition ==
  /\ phase = "inferred" /\ phase' = "tied"
  /\ st' = TieBack(JudgeRigidity(JudgeComparisons(JudgeEffects(st))))
  /\ UNCHANGED <<chapter, at, cur, body, owns>>

Defaulted(s, v, generics) ==
  IF v \notin generics /\ Resolved(s, Variable(v)) = Variable(v) THEN Meet(s, Variable(v), IntegerTy) ELSE s

\* Wrong: the first variable minted is skipped.
DefaultsFromSecond(s, start, own) ==
  LET settled == Settled(s)
      generics == VarsOf(Deep(settled, own))
  IN  FoldLeft(LAMBDA a, v : Defaulted(a, v, generics), settled,
               [k \in 1 .. (NextId(settled) - start - 1) |-> start + k])

\* `default_ambiguous_vars`: after the literals, what the definition minted and
\* its own type does not hold is an Integer.
Defaults(s, start, own) ==
  LET settled == Settled(s)
      generics == VarsOf(Deep(settled, own))
  IN  FoldLeft(LAMBDA a, v : Defaulted(a, v, generics), settled,
               [k \in 1 .. (NextId(settled) - start) |-> start + k - 1])

CloseDefinition ==
  /\ phase = "tied" /\ phase' = "between"
  /\ st' = LeaveTo(Defaults(st, cur.start, cur.own), cur.mark)
  /\ UNCHANGED <<chapter, at, cur, body, owns>>

\* A name the resolver refuses drops what the checker went on to find.
EndChecking ==
  /\ phase = "between" /\ at = Len(chapter.defs) /\ phase' = "done"
  /\ LET s == Settled(st)
         halts == SelectSeq(s.diags, LAMBDA code : code = UndefinedName)
     IN  st' = IF halts = <<>> THEN s ELSE [s EXCEPT !.diags = halts]
  /\ UNCHANGED <<chapter, at, cur, body, owns>>

Next == Register \/ OpenDefinition \/ InferBody \/ TieDefinition \/ CloseDefinition \/ EndChecking

Spec == Init /\ [][Next]_vars

-----------------------------------------------------------------------------
(***************************************************************************)
(* What being accepted promises.                                           *)
(***************************************************************************)

\* An empty literal that was settled is a list for good, or was reported; and
\* when a definition is closed, every variable it minted was decided, or is one
\* its own type leaves to whoever refers to it.
NothingLeftOpen ==
  /\ \A k \in 1 .. st.settled :
       Resolved(st, st.lists[k]).t \in {"List", "Error"} \/ TypeMismatch \in ToSet(st.diags)
  /\ phase = "between" /\ at > 0 =>
       \A v \in cur.start .. (NextId(st) - 1) :
         Resolved(st, Variable(v)) = Variable(v) => v \in VarsOf(Deep(st, cur.own))

\* Everything let pass came to what it must be.
Vindicated ==
  \A k \in DOMAIN st.unseen :
    LET u == st.unseen[k]
    IN  Resolved(st, u.ty).t \in u.forms /\ RowAtEnd(st, u.row).ls = {}

\* What the signatures leave to their callers is still as many types, and the
\* effects still without a name, when the last definition is closed.
SignaturesOpen ==
  \A d \in {x \in ToSet(chapter.defs) : x.sig # NoSig} :
    LET ty == StripForall(Registered(d))
    IN  /\ \A v, w \in VarsOf(ty) : v # w => Resolved(st, Variable(v)) # Resolved(st, Variable(w))
        /\ \A i \in TailsOf(ty) : RowAtEnd(st, Row({}, i)).ls = {}

\* No lazy value, handler or block that ends in `<-`, and no type named as a
\* value.
PlainlyRun(e) ==
  \A x \in ToSet(Under(e)) :
    /\ x.t \notin {"Lazy", "Handle"}
    /\ x.t = "Act" => Last(x.ps) = NoName
    /\ x.t = "NameRef" => x.n \notin DOMAIN st.tds.types

Accepted ==
  /\ phase = "done" /\ st.diags = <<>> /\ st.gaps = 0
  /\ Vindicated /\ SignaturesOpen
  /\ \A d \in ToSet(chapter.defs) : PlainlyRun(d.body)

\* To run, a constructor is a definition that makes its value.
CtorDef(m) ==
  LET ps == [i \in DOMAIN m.xs |-> <<"field", i>>]
  IN  [name |-> m.n, params |-> ps, bounded |-> FALSE,
       body |-> Node("Construct", m.n, <<>>, [i \in DOMAIN ps |-> Ref(ps[i])])]

Program ==
  FlattenSeq([i \in DOMAIN chapter.types |->
                IF chapter.types[i].record THEN <<>> ELSE [k \in DOMAIN chapter.types[i].ms |-> CtorDef(chapter.types[i].ms[k])]])
  \o chapter.defs

Values   == {k \in DOMAIN chapter.defs : chapter.defs[k].params = <<>>}
Run(k)   == Eval(chapter.defs[k].body, <<>>, Program, NoStore)

RECURSIVE HasType(_, _, _)
HasType(v, t, s) ==
  LET ty == Deep(st, StripForall(t))
      All(vs, At(_)) == \A i \in DOMAIN vs : HasType(vs[i], At(i), s)
  IN  CASE ty.t = "Var" -> TRUE
        [] ty.t = "Integer" -> Is(v, "int")
        [] ty.t = "Text" -> Is(v, "text")
        [] ty.t = "Boolean" -> Is(v, "bool")
        [] ty.t = "Char" -> Is(v, "char")
        [] ty.t = "Nothing" -> v = Unit
        [] ty.t = "Effectful" -> HasType(v, ty.xs[1], s)
        [] ty.t = "Fun" -> v.t = "Fun"
        [] ty.t = "List" -> Is(v, "list") /\ All(s.lists[Of(v)], LAMBDA i : ty.xs[1])
        [] v.t = "Made" -> /\ v.n \in ToSet(st.tds.ctors[ty.n])
                           /\ All(v.args, LAMBDA i : InstantiateField(TypeOf(st, v.n), i, ty.xs))
        [] v.t = "Record" -> v.n = ty.n /\ All(s.lists[v.at], LAMBDA i : InstantiateField(TypeOf(st, v.n), i, ty.xs))
        [] OTHER -> FALSE

\* A chapter the checker accepts runs: every value it defines can be computed,
\* and is of the type the checker gave it.
CheckedRunsWell ==
  Accepted => \A k \in Values : ~Fails(Run(k)) /\ HasType(Run(k).v, owns[k], Run(k).s)

\* And performs nothing it does not declare: a value that prints is declared, or
\* grounded, to print.
EffectsCovered ==
  Accepted =>
    \A k \in Values :
      Run(k).s.said # <<>> => Covered(Allowed(st, owns[k], chapter.defs[k]), <<"Console", "Write">>)

=============================================================================
