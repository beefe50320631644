------------------------------- MODULE Types -------------------------------
(***************************************************************************)
(* Types as the checker builds, binds and instantiates them (src/check.rs):*)
(* the type and row slots, unification, quantified signatures, declared    *)
(* types and what registering a chapter's names binds them to.             *)
(*                                                                         *)
(* This is the checker of whole chapters, on values of a few forms; the    *)
(* recursion of `unify` under every order of calls, with all its forms, is *)
(* Unifier, and the row functions for any slots are EffectRows.  Left out  *)
(* are units, vectors, reals, linear wrappers, proofs, linked lists and    *)
(* integer ranges, the scopes of effects, and what is recorded per         *)
(* expression for lowering.                                                *)
(*                                                                         *)
(* A checker state is a record, and an operator that changes one answers   *)
(* it in `st`.  Definitions marked "Wrong" are mistakes that the           *)
(* properties detect.                                                      *)
(***************************************************************************)
EXTENDS Syntax, Folds, FiniteSets

CONSTANT Capital  \* the names with a capital initial; any other in a type is a parameter

NoId == -1

\* A row: its labels, the name its tail was written with, and the tail's id.
Row(ls, i) == [ls |-> ls, tail |-> NoName, id |-> i]
ClosedRow  == Row({}, NoId)

\* A type has a form, a name, an id and its parts; an arrow and an effectful
\* type have a row.
Form(t, n, i, xs) == [t |-> t, n |-> n, id |-> i, row |-> ClosedRow, xs |-> xs]
Plain(t)          == Form(t, NoName, NoId, <<>>)
Variable(i)       == Form("Var", NoName, i, <<>>)
ListOf(x)         == Form("List", NoName, NoId, <<x>>)
Data(t, n, xs)    == Form(t, n, NoId, xs)  \* "Sum", "Record", "Constructed", and "TypeCon" of none
Arrow(p, row, r)  == [Form("Fun", NoName, NoId, <<p, r>>) EXCEPT !.row = row]
Performing(ls, x) == [Form("Effectful", NoName, NoId, <<x>>) EXCEPT !.row.ls = ls]
Quantified(row, i, x) == Form(IF row THEN "ForAllEff" ELSE "ForAll", NoName, i, <<x>>)

IntegerTy == Plain("Integer")
TextTy    == Plain("Text")
BooleanTy == Plain("Boolean")
CharTy    == Plain("Char")
NothingTy == Plain("Nothing")
ErrorTy   == Plain("Error")

Primitive  == {"Integer", "Text", "Boolean", "Char"}
Declarable == {"Sum", "Record", "Constructed"}
Forall     == {"ForAll", "ForAllEff"}

\* The codes of the checker's reports (Cdx).
TypeMismatch       == 2001
UnknownName        == 2002
NotNumeric         == 2003
UnknownField       == 2005
MissingField       == 2006
InfiniteType       == 2010
EffectUndeclared   == 2031
LetBindsEffectful  == 2033
Unobservable       == 2068
NonExhaustive      == 2070
UnknownPatternCtor == 2072
NothingAsValue     == 2086
BodyFixesVar       == 2087
ListPatternShape   == 2088
TextOrdering       == 2089
RowMismatch        == 2090
UnreachableArm     == 2096
EqOnVariable       == 2100
UndefinedName      == 3002

-----------------------------------------------------------------------------
(***************************************************************************)
(* The state: the declared types, the slots of type variables and of row variables (a variable *)
(* is unbound while its slot holds itself), the reports, the unifications  *)
(* that failed in silence, the empty literals and how many are settled,    *)
(* the compared types, and the names in scope with, below `globals`, those *)
(* of the chapter.  `unseen` is not the code's: what it let pass without a *)
(* look, for the properties' preconditions.                                *)
(***************************************************************************)
NewChecker(tds) ==
              [tds |-> tds, sub |-> <<Variable(0), Variable(1)>>, rows |-> <<>>, diags |-> <<>>, gaps |-> 0,
               lists |-> <<>>, settled |-> 0, eqs |-> <<>>, exempt |-> FALSE,
               scope |-> <<>>, globals |-> 0, unseen |-> <<>>]

NextId(st)  == Len(st.sub)
NextRow(st) == Len(st.rows)

Fresh(st)    == [st EXCEPT !.sub = Append(@, Variable(NextId(st)))]
FreshRow(st) == [st EXCEPT !.rows = Append(@, Row({}, NextRow(st)))]

Report(st, code)   == [st EXCEPT !.diags = Append(@, code)]
ReportIf(c, st, code) == IF c THEN Report(st, code) ELSE st

Bind(st, n, ty)  == [st EXCEPT !.scope = Append(@, [n |-> n, ty |-> ty])]
LeaveTo(st, mark) == [st EXCEPT !.scope = SubSeq(@, 1, mark)]
Places(st, n)    == {i \in DOMAIN st.scope : st.scope[i].n = n}
InScope(st, n)   == Places(st, n) # {}
Latest(st, n)    == CHOOSE i \in Places(st, n) : \A j \in Places(st, n) : j <= i
TypeOf(st, n)    == st.scope[Latest(st, n)].ty
IsLocal(st, n)   == InScope(st, n) /\ Latest(st, n) > st.globals

\* A type under the variables it is bound to.
RECURSIVE Resolved(_, _)
Resolved(st, t) ==
  IF t.t # "Var" \/ st.sub[t.id + 1] = t THEN t ELSE Resolved(st, st.sub[t.id + 1])

\* And its parts with it; what is under a quantifier is left.
RECURSIVE Deep(_, _)
Deep(st, t) ==
  LET r == Resolved(st, t)
  IN  IF r.t \in Forall THEN r ELSE [r EXCEPT !.xs = [i \in DOMAIN r.xs |-> Deep(st, r.xs[i])]]

\* A row with the labels picked up on the way to the end of its tail.
RECURSIVE RowAtEnd(_, _)
RowFrom(st, r, slot) ==
  IF slot = Row({}, r.id) THEN r
  ELSE IF slot.id = r.id THEN [slot EXCEPT !.ls = @ \cup r.ls]
  ELSE RowAtEnd(st, [slot EXCEPT !.ls = @ \cup r.ls])

RowAtEnd(st, r) == IF r.id = NoId THEN r ELSE RowFrom(st, r, st.rows[r.id + 1])

BindRow(st, i, r) == [st EXCEPT !.rows[i + 1] = r]

\* The ambient effects of two parts of an expression.
Both(row, st) == [row |-> row, st |-> st]
JoinEnds(st, a, b) ==
  IF a.ls = {} /\ a.id = NoId THEN Both(b, st)
  ELSE IF (b.ls = {} /\ b.id = NoId) \/ a = b THEN Both(a, st)
  ELSE IF b.id = NoId \/ a.id = b.id THEN Both([a EXCEPT !.ls = @ \cup b.ls], st)
  ELSE Both([b EXCEPT !.ls = @ \cup a.ls], IF a.id = NoId THEN st ELSE BindRow(st, a.id, Row({}, b.id)))

JoinRows(st, r1, r2) == JoinEnds(st, RowAtEnd(st, r1), RowAtEnd(st, r2))

\* Wrong: an open row is taken as closed, with a tail of its own.
OpenAlways(st, row) == Both(Row({}, NextRow(st)), FreshRow(st))

\* A lambda's row is opened if its body's is closed.
OpenEnd(st, r) == IF r.id # NoId THEN Both(r, st) ELSE Both(Row(r.ls, NextRow(st)), FreshRow(st))

OpenIfClosed(st, row) == OpenEnd(st, RowAtEnd(st, row))

-----------------------------------------------------------------------------
(***************************************************************************)
(* Unification.                                                            *)
(***************************************************************************)
Answer(ok, st) == [ok |-> ok, st |-> st]
Yes(st) == Answer(TRUE, st)
No(st)  == Answer(FALSE, st)

BindVar(st, i, t) == [st EXCEPT !.sub[i + 1] = t]

\* `occurs_in`: arrows and lists are walked, and no named type's arguments.
RECURSIVE Occurs(_, _, _)
Occurs(st, i, t) ==
  LET r == Resolved(st, t)
  IN  r = Variable(i) \/ (r.t \in {"Fun", "List"} /\ \E k \in DOMAIN r.xs : Occurs(st, i, r.xs[k]))

BindTo(st, i, t) ==
  IF Occurs(st, i, t) THEN No(Report(st, InfiniteType)) ELSE Yes(BindVar(st, i, t))

\* The pairs that are reported: two primitives, and a primitive and a function.
Conflict(st, a, b) ==
  ReportIf(/\ {a.t, b.t} \subseteq Primitive \cup {"Fun"}
           /\ {a.t, b.t} \cap Primitive # {}
           /\ a.t # b.t, st, TypeMismatch)

UnifyEnds(st, a, b, only1, only2) ==
  CASE a = b -> Yes(st)
    [] a # b /\ a.id = NoId /\ b.id = NoId ->
         IF only1 \cup only2 = {} THEN Yes(st) ELSE No(Report(st, RowMismatch))
    [] a.id # NoId /\ b.id = NoId ->
         IF only1 = {} THEN Yes(BindRow(st, a.id, Row(only2, NoId))) ELSE No(Report(st, RowMismatch))
    [] a.id = NoId /\ b.id # NoId ->
         IF only2 = {} THEN Yes(BindRow(st, b.id, Row(only1, NoId))) ELSE No(Report(st, RowMismatch))
    [] a # b /\ a.id # NoId /\ b.id # NoId ->
         IF a.id = b.id THEN Answer(only1 \cup only2 = {}, st)
         ELSE Yes(BindRow(BindRow(FreshRow(st), a.id, Row(only2, NextRow(st))), b.id, Row(only1, NextRow(st))))

UnifyRows(st, r1, r2) ==
  LET Ends(a, b) == UnifyEnds(st, a, b, a.ls \ b.ls, b.ls \ a.ls)
  IN  Ends(RowAtEnd(st, r1), RowAtEnd(st, r2))

\* The three spellings of a declared type, as far as they are one.
SameData(a, b) == {a.t, b.t} \subseteq Declarable /\ {a.t, b.t} # {"Sum", "Record"}

RECURSIVE Unify(_, _, _), UnifyInTurn(_, _, _)

\* Arguments in turn, up to the first that fails.
UnifyInTurn(st, as, bs) ==
  LET Rest(first) == IF first.ok THEN UnifyInTurn(first.st, Tail(as), Tail(bs)) ELSE first
  IN  IF as = <<>> THEN Yes(st) ELSE Rest(Unify(st, Head(as), Head(bs)))

UnifyData(st, a, b) ==
  IF a.n # b.n THEN No(Conflict(st, a, b))
  ELSE IF Len(a.xs) # Len(b.xs) THEN No(Report(st, TypeMismatch))
  ELSE UnifyInTurn(st, a.xs, b.xs)

UnifyArrows(st, a, b) ==
  LET Also(u, v) == Answer(u.ok /\ v.ok, v.st)
      Row_(u) == Also(u, UnifyRows(u.st, a.row, b.row))
      Result_(u) == Also(u, Unify(u.st, a.xs[2], b.xs[2]))
  IN  Result_(Row_(Unify(st, a.xs[1], b.xs[1])))

UnifyVars(st, a, b) ==
  CASE a = b -> Yes(st)
    [] a.id < b.id -> Yes(BindVar(st, b.id, a))
    [] a.id > b.id -> Yes(BindVar(st, a.id, b))

Unified(st, a, b) ==
  CASE "Error" \in {a.t, b.t} -> Yes(st)
    [] {a.t, b.t} = {"Var"} -> UnifyVars(st, a, b)
    [] a.t = "Var" /\ b.t \notin {"Var", "Error"} -> BindTo(st, a.id, b)
    [] b.t = "Var" /\ a.t \notin {"Var", "Error"} -> BindTo(st, b.id, a)
    [] {a.t, b.t} = {"Fun"} -> UnifyArrows(st, a, b)
    [] {a.t, b.t} = {"List"} -> Unify(st, a.xs[1], b.xs[1])
    [] SameData(a, b) -> UnifyData(st, a, b)
    [] {a.t, b.t} = {"Effectful"} ->
         IF a.row # b.row THEN No(Conflict(st, a, b)) ELSE Unify(st, a.xs[1], b.xs[1])
    [] {a.t, b.t} = {"TypeCon", "Constructed"} ->
         IF a.n = b.n /\ a.xs = b.xs THEN Yes(st) ELSE No(Conflict(st, a, b))
    [] a.t \in Forall /\ b.t \notin {"Var", "Error"} -> Unify(st, a.xs[1], b)
    [] b.t \in Forall /\ a.t \notin {"Var", "Error"} \cup Forall -> Unify(st, a, b.xs[1])
    [] OTHER -> IF a = b THEN Yes(st) ELSE No(Conflict(st, a, b))

Unify(st, t, u) == Unified(st, Resolved(st, t), Resolved(st, u))

\* A refusal is counted (`unify_gaps`) and checking goes on.
Counted(u) == IF u.ok THEN u.st ELSE [u.st EXCEPT !.gaps = @ + 1]

Meet(st, a, b) == Counted(Unify(st, a, b))

-----------------------------------------------------------------------------
(***************************************************************************)
(* Quantified signatures.                                                  *)
(***************************************************************************)
RECURSIVE SubstType(_, _, _), SubstRow(_, _, _)

\* A bound type variable replaced, but under a quantifier that binds it again.
SubstType(t, i, u) ==
  IF t = Variable(i) THEN u
  ELSE IF t.t = "ForAll" /\ t.id = i THEN t
  ELSE [t EXCEPT !.xs = [k \in DOMAIN t.xs |-> SubstType(t.xs[k], i, u)]]

\* A bound row variable replaced: not in a named type's arguments, and not
\* under another row quantifier.
SubstRow(t, i, j) ==
  IF t.t \notin {"Fun", "List", "Effectful", "ForAll"} THEN t
  ELSE [t EXCEPT !.xs = [k \in DOMAIN t.xs |-> SubstRow(t.xs[k], i, j)],
                 !.row.id = IF t.t = "Fun" /\ @ = i THEN j ELSE @]

Shaped(ty, st) == [ty |-> ty, st |-> st]

RECURSIVE Instantiate(_, _), OpenSpine(_, _)

Instantiate(st, t) ==
  CASE t.t = "ForAll" -> Instantiate(Fresh(st), SubstType(t.xs[1], t.id, Variable(NextId(st))))
    [] t.t = "ForAllEff" -> Instantiate(FreshRow(st), SubstRow(t.xs[1], t.id, NextRow(st)))
    [] OTHER -> Shaped(t, st)

\* `open_spine_rows`: a fresh tail for each closed arrow of the result chain,
\* the result's first.
OpenSpine(st, t) ==
  IF t.t # "Fun" THEN Shaped(t, st)
  ELSE LET r == OpenSpine(st, t.xs[2])
           opened == [t EXCEPT !.xs[2] = r.ty]
       IN  IF t.row.id # NoId \/ t.row.tail # NoName THEN Shaped(opened, r.st)
           ELSE Shaped([opened EXCEPT !.row.id = NextRow(r.st)], FreshRow(r.st))

RECURSIVE StripForall(_), ResultOf(_), Spine(_), LastRow(_), VarsOf(_)
StripForall(t) == IF t.t \in Forall THEN StripForall(t.xs[1]) ELSE t
\* What a constructor answers.
ResultOf(t) == IF t.t = "Fun" THEN ResultOf(t.xs[2]) ELSE IF t.t \in Forall THEN ResultOf(t.xs[1]) ELSE t
Spine(t)    == IF t.t = "Fun" THEN <<t.xs[1]>> \o Spine(t.xs[2]) ELSE <<>>
LastRow(t)  == IF t.t # "Fun" THEN ClosedRow ELSE IF t.xs[2].t = "Fun" THEN LastRow(t.xs[2]) ELSE t.row
VarsOf(t)   == IF t.t = "Var" THEN {t.id} ELSE UNION {VarsOf(t.xs[k]) : k \in DOMAIN t.xs}

\* `parameterize`: the type's free names become variables, one per name, and
\* its named tails row variables, bound by a quantifier each, the first found
\* outermost.  A walk keeps the state and the parameters found.
Walk(st, found) == [st |-> st, found |-> found]

ParamOf(w, n, row) ==
  IF \E p \in ToSet(w.found) : p.n = n /\ p.row = row THEN w
  ELSE Walk(IF row THEN FreshRow(w.st) ELSE Fresh(w.st),
            Append(w.found, [n |-> n, row |-> row, id |-> IF row THEN NextRow(w.st) ELSE NextId(w.st)]))
IdOf(w, n, row) == (CHOOSE p \in ToSet(w.found) : p.n = n /\ p.row = row).id

RECURSIVE ParamWalk(_, _)
ParamWalk(t, w) ==
  LET isParam == t.t \in {"TypeCon", "Constructed"} /\ t.xs = <<>> /\ t.n \notin Capital
      hasTail == t.t = "Fun" /\ t.row.tail # NoName /\ t.row.id = NoId
      AfterFirst(a, i) == IF i = 1 /\ hasTail THEN ParamOf(a, t.row.tail, TRUE) ELSE a
      Part(a, i) == LET p == ParamWalk(t.xs[i], a.w)
                    IN  [xs |-> Append(a.xs, p.ty), w |-> AfterFirst(p.w, i)]
      parts == FoldLeftDomain(Part, [xs |-> <<>>, w |-> w], t.xs)
      named == ParamOf(w, t.n, FALSE)
  IN  IF t.t \in Forall THEN [ty |-> t, w |-> w]
      ELSE IF isParam THEN [ty |-> Variable(IdOf(named, t.n, FALSE)), w |-> named]
      ELSE [ty |-> [t EXCEPT !.xs = parts.xs,
                             !.row.id = IF hasTail THEN IdOf(parts.w, t.row.tail, TRUE) ELSE @],
            w |-> parts.w]

Parameterize(st, t) ==
  LET p == ParamWalk(t, Walk(st, <<>>))
  IN  Shaped(FoldRight(LAMBDA q, ty : Quantified(q.row, q.id, ty), p.w.found, p.ty), p.w.st)

-----------------------------------------------------------------------------
(***************************************************************************)
(* Declared types.  A type expression is a Node: a name, an arrow, an      *)
(* effect annotation (its names in ps, its tail in n) or an application of *)
(* a name.  A chapter's type has a name, parameters and members: the       *)
(* constructors of a variant with the types of their fields, or the fields *)
(* of a record.                                                            *)
(***************************************************************************)
Named(n)         == Node("Named", n, <<>>, <<>>)
To(a, b)         == Node("Arrow", NoName, <<>>, <<a, b>>)
Effect(es, n, b) == Node("Effect", n, es, <<b>>)
App(n, xs)       == Node("App", n, <<>>, xs)

Member(n, xs)          == [n |-> n, xs |-> xs]
Variant(n, ps, ms)     == [n |-> n, ps |-> ps, record |-> FALSE, ms |-> ms]
RecordType(n, ps, ms)  == [n |-> n, ps |-> ps, record |-> TRUE, ms |-> ms]

BuiltinType(n) ==
  CASE n = <<"Integer">> -> IntegerTy
    [] n = <<"Text">>    -> TextTy
    [] n = <<"Boolean">> -> BooleanTy
    [] n = <<"Char">>    -> CharTy
    [] n = <<"Nothing">> -> NothingTy

BuiltinTypes == {<<"Integer">>, <<"Text">>, <<"Boolean">>, <<"Char">>, <<"Nothing">>}

\* `resolve_declared`: `types` is what the chapter's type names are.  An effect
\* annotation on an arrow's result is the arrow's row; elsewhere it loses its
\* tail.
RECURSIVE Declared(_, _)
Declared(types, e) ==
  LET Part(i) == Declared(types, e.xs[i])
  IN  CASE e.t = "Named" -> IF e.n \in BuiltinTypes THEN BuiltinType(e.n)
                            ELSE IF e.n \in DOMAIN types THEN types[e.n] ELSE Data("TypeCon", e.n, <<>>)
        [] e.t = "Arrow" ->
             IF e.xs[2].t # "Effect" THEN Arrow(Part(1), ClosedRow, Part(2))
             ELSE Arrow(Part(1), [Row(ToSet(e.xs[2].ps), NoId) EXCEPT !.tail = e.xs[2].n],
                        Declared(types, e.xs[2].xs[1]))
        [] e.t = "Effect" -> Performing(ToSet(e.ps), Part(1))
        [] e.t = "App" ->
             IF e.n # <<"List">> THEN Data("Constructed", e.n, [i \in DOMAIN e.xs |-> Part(i)])
             ELSE ListOf(IF Len(e.xs) = 1 THEN Part(1) ELSE ErrorTy)

\* TypeDefs::new: first what every type name is, its parameters as constructed
\* types, then the types of the records' fields and the variants' constructors.
TypeDefs(types) ==
  LET Kind(d) == IF d.record THEN "Record" ELSE "Sum"
      names == {d.n : d \in ToSet(types)}
      TypeNamed(n) == CHOOSE d \in ToSet(types) : d.n = n
      byName == [n \in names |->
                   Data(Kind(TypeNamed(n)), n, [i \in DOMAIN TypeNamed(n).ps |-> Data("Constructed", TypeNamed(n).ps[i], <<>>)])]
      records == {n \in names : TypeNamed(n).record}
  IN  [types |-> byName,
       fields |-> [n \in records |->
                     [i \in DOMAIN TypeNamed(n).ms |-> [n |-> TypeNamed(n).ms[i].n, ty |-> Declared(byName, TypeNamed(n).ms[i].xs[1])]]],
       ctors |-> [n \in names \ records |-> [i \in DOMAIN TypeNamed(n).ms |-> TypeNamed(n).ms[i].n]]]

FieldIndex(tds, n, f) == IF n \in DOMAIN tds.fields THEN {i \in DOMAIN tds.fields[n] : tds.fields[n][i].n = f} ELSE {}

\* `instantiate_field`: a field of a record constructor, at given arguments.
InstantiateField(ctor, i, args) ==
  LET bare == StripForall(ctor)
      own == ResultOf(bare).xs
      At(ty, k) == IF own[k].t = "Var" THEN SubstType(ty, own[k].id, args[k]) ELSE ty
  IN  FoldLeftDomain(LAMBDA ty, k : IF k \in DOMAIN args THEN At(ty, k) ELSE ty, Spine(bare)[i], own)

-----------------------------------------------------------------------------
(***************************************************************************)
(* Registration: the names of the chapter, bound to what they were         *)
(* declared as before any body is looked at.                               *)
(***************************************************************************)
Curried(types, fields, result) ==
  FoldRight(LAMBDA f, ty : Arrow(Declared(types, f), ClosedRow, ty), fields, result)

\* One more name, parameterized.
RegisterAs(r, n, ty) ==
  LET p == Parameterize(r.st, ty) IN [names |-> Append(r.names, [n |-> n, ty |-> p.ty]), st |-> p.st]

\* A record is its own constructor; a variant's name is bound to the variant,
\* and its constructors answer that, or the constructed type if it has
\* parameters.
RegisterCtors(r, d, tds) ==
  LET args == [i \in DOMAIN d.ps |-> Data("TypeCon", d.ps[i], <<>>)]
      fields == FlattenSeq([i \in DOMAIN d.ms |-> d.ms[i].xs])
      result == Data(IF d.ps = <<>> THEN "Sum" ELSE "Constructed", d.n, args)
      named == [r EXCEPT !.names = Append(@, [n |-> d.n, ty |-> Data("Sum", d.n, args)])]
  IN  IF d.record THEN RegisterAs(r, d.n, Curried(tds.types, fields, Data("Record", d.n, args)))
      ELSE FoldLeft(LAMBDA a, m : RegisterAs(a, m.n, Curried(tds.types, m.xs, result)), named, d.ms)

\* An effect's operation is a name like any other, unless it is bound already.
RegisterOp(r, op, tds, builtins) ==
  IF op.n \in {b.n : b \in ToSet(r.names)} \cup builtins THEN r
  ELSE RegisterAs(r, op.n, Declared(tds.types, op.ty))

NoSig == Node("NoSig", NoName, <<>>, <<>>)

\* A definition that declares nothing is registered with a bare variable.
RegisterDef(r, d, tds) ==
  IF d.sig = NoSig
  THEN [names |-> Append(r.names, [n |-> d.name, ty |-> Variable(NextId(r.st))]), st |-> Fresh(r.st)]
  ELSE RegisterAs(r, d.name, Declared(tds.types, d.sig))

RegisterDefs(st, ch, tds, builtins) ==
  LET ctors == FoldLeft(LAMBDA r, d : RegisterCtors(r, d, tds), [names |-> <<>>, st |-> st], ch.types)
      ops == FoldLeft(LAMBDA r, op : RegisterOp(r, op, tds, builtins), ctors, ch.ops)
  IN  FoldLeft(LAMBDA r, d : RegisterDef(r, d, tds), ops, ch.defs)

\* The shape a definition that declares nothing is checked against: a result,
\* and an arrow per parameter, of which the innermost is open.
UndeclaredShape(st, pcount) ==
  LET result == Shaped(Variable(NextId(st)), Fresh(st))
      Over(a, i) == Shaped(Arrow(Variable(NextId(a.st)), IF i = 1 THEN Row({}, NextRow(st)) ELSE ClosedRow, a.ty),
                           Fresh(a.st))
  IN  IF pcount = 0 THEN result
      ELSE FoldLeft(Over, [result EXCEPT !.st = FreshRow(@)], [i \in 1 .. pcount |-> i])
=============================================================================
