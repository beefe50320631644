------------------------------ MODULE Lowering ------------------------------
(***************************************************************************)
(* From the checked tree to the IR tree (src/lowering.rs), as far as names *)
(* and shape go: what is nested in what, and what every binder and reader  *)
(* is called.  Types, which decide how a node is annotated, are left out;  *)
(* the calls that a type chooses are in `Dispatch`.                        *)
(*                                                                         *)
(* A definition is a record [name, params, body, bounded, origin]; in a    *)
(* clause the last name bound is what resumes.                             *)
(***************************************************************************)
EXTENDS Syntax, TLC

CONSTANTS
  BuiltinNames,  \* builtin_names: what is a name before any chapter is read
  MaxSuffix      \* how far binder-fresh counts at most (a bound)

\* What a scope that is not unwound at its end is marked with.
Open == <<"open">>

-----------------------------------------------------------------------------
(***************************************************************************)
(* The shape.                                                              *)
(***************************************************************************)
Map(F(_), s) == [i \in DOMAIN s |-> F(s[i])]

\* `let a = .. , b = .. in ..`: one let each; `kind` is Open for a statement's.
RECURSIVE Nested(_, _, _, _)
Nested(kind, ps, vs, body) ==
  IF ps = <<>> THEN body
  ELSE Node("Let", kind, <<Head(ps)>>, <<Head(vs), Nested(kind, Tail(ps), Tail(vs), body)>>)

RECURSIVE Shape(_), Statements(_, _), StatementLet(_, _, _)

\* act_let: a statement's let takes in the statements after it.
StatementLet(e, ps, es) ==
  LET body == Last(e.xs)
      rest == Statements(ps, es)
  IN  Nested(Open, e.ps, Map(Shape, Front(e.xs)),
        IF body.t = "Let" THEN StatementLet(body, ps, es)
        ELSE IF rest.xs = <<>> THEN Shape(body)
        ELSE Node("Act", Open, <<NoName>> \o rest.ps, <<Shape(body)>> \o rest.xs))

\* act_stmts.
Statements(ps, es) ==
  IF es = <<>> THEN [ps |-> <<>>, xs |-> <<>>]
  ELSE IF Head(ps) = NoName /\ Head(es).t = "Let"
       THEN [ps |-> <<NoName>>, xs |-> <<StatementLet(Head(es), Tail(ps), Tail(es))>>]
       ELSE LET rest == Statements(Tail(ps), Tail(es))
            IN  [ps |-> <<Head(ps)>> \o rest.ps, xs |-> <<Shape(Head(es))>> \o rest.xs]

Block(kind, e) == LET s == Statements(e.ps, e.xs) IN Node("Act", kind, s.ps, s.xs)

\* A lambda in a lambda is one; a proof is erased; the regions of a `try` are
\* blocks that lower_expr does not unwind.
Shape(e) ==
  CASE e.t = "Let" -> Nested(NoName, e.ps, Map(Shape, Front(e.xs)), Shape(Last(e.xs)))
    [] e.t = "Lambda" -> LET body == Shape(e.xs[1])
                         IN  IF body.t = "Lambda" THEN Lambda(e.ps \o body.ps, body.xs[1]) ELSE Lambda(e.ps, body)
    [] e.t = "Act" -> Block(NoName, e)
    [] e.t = "Try" -> Node("Try", NoName, <<>>, Map(LAMBDA r : Block(Open, r), e.xs))
    [] e.t = "Induction" -> Lit(<<"int", 0>>)
    [] OTHER -> [e EXCEPT !.xs = Map(Shape, @)]

\* absorb-outer-lambdas: a definition whose body is a lambda takes its parameters.
ShapeDef(d) ==
  LET body == Shape(d.body)
  IN  IF body.t = "Lambda" THEN [d EXCEPT !.params = @ \o body.ps, !.body = body.xs[1]]
      ELSE [d EXCEPT !.body = body]

\* wrap_clause_body: a clause with parameters is a lambda over them too.
RECURSIVE Wrapped(_)
Wrapped(e) ==
  LET xs == Map(Wrapped, e.xs)
  IN  IF e.t = "Clause" /\ Len(e.ps) > 1 THEN [e EXCEPT !.xs = <<Lambda(Front(e.ps), xs[1])>>]
      ELSE [e EXCEPT !.xs = xs]

-----------------------------------------------------------------------------
(***************************************************************************)
(* The names.  A scope is two stacks: the names emitted so far (overlay),  *)
(* and what each source name was emitted as (binders).                     *)
(***************************************************************************)
BinderFree(n, sc, base) == n \notin ToSet(sc.overlay) \cup base

\* binder-fresh: the name itself, or the first of name_1, name_2, ... not taken.
Emitted(n, sc, base) ==
  IF BinderFree(n, sc, base) THEN n
  ELSE LET Taken(k) == ~BinderFree(Append(n, ToString(k)), sc, base)
       IN  Append(n, ToString(CHOOSE k \in 1 .. MaxSuffix : ~Taken(k) /\ \A j \in 1 .. (k - 1) : Taken(j)))

BindLocal(n, sc, base) ==
  IF n = NoName THEN sc
  ELSE [overlay |-> Append(sc.overlay, Emitted(n, sc, base)),
        binders |-> Append(sc.binders, <<n, Emitted(n, sc, base)>>)]

\* What a binder was emitted as, just after BindLocal.
Spelled(n, sc) == IF n = NoName THEN NoName ELSE Last(sc.overlay)

\* Wrong: the first binder of the name is taken for every reader of it.
BoundOutermost(n, sc) ==
  LET at == {i \in DOMAIN sc.binders : sc.binders[i][1] = n}
  IN  IF at = {} THEN n ELSE sc.binders[CHOOSE i \in at : \A j \in at : j >= i][2]

\* bound_name: the innermost binder of the name.
BoundName(n, sc) ==
  LET at == {i \in DOMAIN sc.binders : sc.binders[i][1] = n}
  IN  IF at = {} THEN n ELSE sc.binders[CHOOSE i \in at : \A j \in at : j <= i][2]

\* What is bound ahead of the i-th part: every name of a lambda or an arm ahead
\* of the first, the names of a let or a block one by one as their values are
\* done.  The names of a clause are not bound at all.
Opens(e, i) ==
  CASE e.t \in {"Lambda", "Arm"} -> IF i = 1 THEN e.ps ELSE <<>>
    [] e.t \in {"Let", "Act"}    -> IF i > 1 /\ i - 1 \in DOMAIN e.ps THEN <<e.ps[i - 1]>> ELSE <<>>
    [] OTHER -> <<>>

RECURSIVE BindAll(_, _, _)
BindAll(ns, sc, base) ==
  IF ns = <<>> THEN [ps |-> <<>>, sc |-> sc]
  ELSE LET first == BindLocal(Head(ns), sc, base)
           rest == BindAll(Tail(ns), first, base)
       IN  [ps |-> <<Spelled(Head(ns), first)>> \o rest.ps, sc |-> rest.sc]

\* Mark and release: what unwinds the scope at its end.
Unwinds(e) == e.t \in {"Let", "Lambda", "Arm", "Act"} /\ e.n # Open

\* Lower::expr, a tree and the scope as it is left.
RECURSIVE Lower(_, _, _), Parts(_, _, _, _)
Parts(e, i, sc, base) ==
  LET bound == BindAll(Opens(e, i), sc, base)
  IN  IF i > Len(e.xs) THEN [ps |-> bound.ps, xs |-> <<>>, sc |-> bound.sc]
      ELSE LET part == Lower(e.xs[i], bound.sc, base)
               rest == Parts(e, i + 1, part.sc, base)
           IN  [ps |-> bound.ps \o rest.ps, xs |-> <<part.e>> \o rest.xs, sc |-> rest.sc]

Lower(e, sc, base) ==
  IF e.t = "NameRef" THEN [e |-> Ref(BoundName(e.n, sc)), sc |-> sc]
  ELSE LET parts == Parts(e, 1, sc, base)
           ps == IF e.t = "Clause" THEN e.ps ELSE parts.ps
       IN  [e |-> Node(e.t, e.n, ps, parts.xs), sc |-> IF Unwinds(e) THEN sc ELSE parts.sc]

\* lower_def: a definition's own parameters are put in scope as they are.
LowerDef(d, base) ==
  LET s == ShapeDef(d)
  IN  [s EXCEPT !.body = Wrapped(Lower(s.body, [overlay |-> s.params, binders |-> <<>>], base).e)]

\* Lower::new: the builtins and every definition are taken.
LowerAll(defs) ==
  LET base == BuiltinNames \cup {d.name : d \in ToSet(defs)}
  IN  Map(LAMBDA d : LowerDef(d, base), defs)

\* restrict_base: written a chapter at a time, only the chapter's own are.
LowerEach(defs) ==
  LET Base(d) == BuiltinNames \cup {x.name : x \in {y \in ToSet(defs) : y.origin = d.origin}}
  IN  Map(LAMBDA d : LowerDef(d, Base(d)), defs)

-----------------------------------------------------------------------------
(***************************************************************************)
(* What a tree means of its names: every binder by its depth.              *)
(***************************************************************************)
\* What a node of the IR binds for its i-th part, in order.
IrBinds(e, i) ==
  CASE e.t \in {"Lambda", "Arm", "Clause"} -> e.ps
    [] e.t \in {"Let", "Act"} -> SubSeq(e.ps, 1, i - 1)
    [] OTHER -> <<>>

Depths(ps, env, depth) ==
  FoldLeftDomain(LAMBDA f, i : IF ps[i] = NoName THEN f ELSE (ps[i] :> <<"at", depth + i>>) @@ f, env, ps)

RECURSIVE ByDepth(_, _, _)
ByDepth(e, env, depth) ==
  IF e.t = "NameRef" THEN Ref(IF e.n \in DOMAIN env THEN env[e.n] ELSE e.n)
  ELSE Node(e.t, e.n, <<Len(e.ps)>>,
            [i \in DOMAIN e.xs |-> ByDepth(e.xs[i], Depths(IrBinds(e, i), env, depth), depth + Len(e.ps))])

DefByDepth(d) == ByDepth(d.body, Depths(d.params, <<>>, 0), Len(d.params))
=============================================================================
