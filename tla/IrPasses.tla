------------------------------- MODULE IrPasses -------------------------------
(***************************************************************************)
(* The passes over the IR tree (src/ir_passes.rs): constants folded, small *)
(* definitions substituted at their calls, definitions called once         *)
(* substituted there, and what the roots do not reach dropped; and lambdas *)
(* lifted.  Types, which are substituted alongside, are left out.          *)
(***************************************************************************)
EXTENDS Lowering, Meaning

CONSTANTS
  LeafFuel,   \* how many nodes a leaf body has at most (12)
  MaxLambdas  \* how far the numbers of lifted lambdas count (a bound)

Literal(e) == e.t = "Lit"
Integral(e) == Literal(e) /\ Is(e, "int")

-----------------------------------------------------------------------------
(***************************************************************************)
(* Constant folding.                                                       *)
(***************************************************************************)
\* Wrong: a chapter's own text-length is taken for the builtin.
NamesAny(g, n, defined) == g = Ref(n)

\* A builtin's name, and not one the chapter defines.
NamesBuiltin(g, n, defined) == g = Ref(n) /\ n \notin defined

\* fold_apply.
FoldApply(e, defined) ==
  LET f == e.xs[1]
      a == e.xs[2]
      Calls(g, n) == NamesBuiltin(g, n, defined)
  IN  CASE Calls(f, <<"text-length">>) /\ Literal(a) /\ Is(a, "text") -> Num(Len(Of(a)))
        [] Calls(f, <<"char-code">>) /\ Literal(a) /\ Is(a, "char") -> Num(Of(a))
        [] f.t = "Apply" /\ Calls(f.xs[1], <<"char-code-at">>) /\ Integral(a)
             /\ Literal(f.xs[2]) /\ Is(f.xs[2], "text") /\ Of(a) + 1 \in DOMAIN Of(f.xs[2]) ->
             Num(Of(f.xs[2])[Of(a) + 1])
        [] OTHER -> e

RECURSIVE FoldExpr(_, _)
FoldExpr(e, defined) ==
  LET folded == [e EXCEPT !.xs = Map(LAMBDA x : FoldExpr(x, defined), @)]
  IN  CASE e.t = "Unary" /\ Integral(folded.xs[1]) -> Num(-Of(folded.xs[1]))
        [] e.t = "Apply" -> FoldApply(folded, defined)
        [] OTHER -> folded

FoldConstants(defs) ==
  LET defined == {d.name : d \in ToSet(defs)}
  IN  Map(LAMBDA d : [d EXCEPT !.body = FoldExpr(@, defined)], defs)

-----------------------------------------------------------------------------
(***************************************************************************)
(* Candidates and call sites.                                              *)
(***************************************************************************)
RECURSIVE ApplyRoot(_), ApplyArgs(_)
ApplyRoot(e) == CASE e.t = "Apply" -> ApplyRoot(e.xs[1]) [] e.t = "NameRef" -> e.n [] OTHER -> NoName
ApplyArgs(e) == IF e.t = "Apply" THEN Append(ApplyArgs(e.xs[1]), e.xs[2]) ELSE <<>>

ArgsSimple(args) == \A i \in DOMAIN args : args[i].t = "NameRef" \/ Integral(args[i])

\* The parameter a name stands for; a name used twice means the first.
Place(n, ps) == CHOOSE i \in DOMAIN ps : ps[i] = n /\ \A j \in DOMAIN ps : ps[j] = n => i <= j

\* subst_leaf, subst_once: the bodies they are given bind nothing.
RECURSIVE Subst(_, _, _)
Subst(e, ps, args) ==
  IF e.t = "NameRef" THEN (IF e.n \in ToSet(ps) THEN args[Place(e.n, ps)] ELSE e)
  ELSE [e EXCEPT !.xs = Map(LAMBDA x : Subst(x, ps, args), @)]

Inlinable(d) == d.name # <<"deck-record">> /\ ~d.bounded

\* leaf_body_ok: what is left of the fuel, or a negative number.
RECURSIVE LeafBodyOk(_, _, _)
LeafBodyOk(e, ps, fuel) ==
  CASE fuel <= 0 -> -1
    [] fuel > 0 /\ (Integral(e) \/ (e.t = "NameRef" /\ e.n \in ToSet(ps))) -> fuel - 1
    [] fuel > 0 /\ e.t = "Binary" /\ e.n \in {<<"+">>, <<"-">>, <<"*">>, <<"/">>} ->
         LET left == LeafBodyOk(e.xs[1], ps, fuel - 1)
         IN  IF left < 0 THEN -1 ELSE LeafBodyOk(e.xs[2], ps, left)
    [] OTHER -> -1

LeafDefs(defs) ==
  SelectSeq(defs, LAMBDA d : Inlinable(d) /\ Len(d.params) \in 1 .. 3
                             /\ LeafBodyOk(d.body, d.params, LeafFuel) >= 0)

\* fold_rem_expr: X - (X / Y) * Y, either way round, is the remainder.
OperandSame(a, b) == a = b /\ (a.t = "NameRef" \/ Integral(a))

RemDivMatches(x, d, y) == d.t = "Binary" /\ d.n = <<"/">> /\ OperandSame(d.xs[1], x) /\ OperandSame(d.xs[2], y)

RECURSIVE FoldRem(_)
FoldRem(e) ==
  IF e.t # "Binary" THEN e
  ELSE LET l == FoldRem(e.xs[1])
           r == FoldRem(e.xs[2])
           product == e.n = <<"-">> /\ r.t = "Binary" /\ r.n = <<"*">>
       IN  CASE product /\ RemDivMatches(l, r.xs[1], r.xs[2]) -> Binary(<<"rem">>, l, r.xs[2])
             [] product /\ ~RemDivMatches(l, r.xs[1], r.xs[2]) /\ RemDivMatches(l, r.xs[2], r.xs[1]) ->
                  Binary(<<"rem">>, l, r.xs[1])
             [] OTHER -> Binary(e.n, l, r)

\* once_binder_free: the allow-list, but for a field's store, which has no form
\* here.
RECURSIVE OnceBinderFree(_)
OnceBinderFree(e) ==
  /\ e.t \in {"Lit", "NameRef", "Unary", "Field", "Binary", "Apply", "If", "List", "Record"}
  /\ \A i \in DOMAIN e.xs : OnceBinderFree(e.xs[i])

OnceFreeEscapes(e, ps, bound) == (Mentioned(e) \ ToSet(ps)) \cap bound # {}

\* count_refs: over every body, whatever binds the name there.
CountRefs(n, defs) ==
  FoldLeft(LAMBDA k, d : k + Len(SelectSeq(Under(d.body), LAMBDA x : x = Ref(n))), 0, defs)

OnceDefs(defs) ==
  SelectSeq(defs, LAMBDA d : Inlinable(d) /\ Len(d.params) \in 1 .. 4 /\ OnceBinderFree(d.body)
                             /\ CountRefs(d.name, defs) = 1)

-----------------------------------------------------------------------------
(***************************************************************************)
(* A call to a forwarder that calls back (src/roc_forwarders.rs).          *)
(***************************************************************************)
Duplicable(e) == e.t \in {"NameRef", "Lit"}

\* The definition an f with one call for its body calls, or none.
ForwardsTo(f, defs) ==
  LET to == ApplyRoot(f.body)
      args == ApplyArgs(f.body)
      callee == SelectSeq(defs, LAMBDA d : d.name = to /\ d.name # f.name)
  IN  IF callee = <<>> \/ f.params = <<>> \/ args = <<>> \/ f.bounded THEN NoName
      ELSE IF Len(args) # Len(callee[1].params) \/ ~OnceBinderFree(f.body) THEN NoName
      ELSE to

\* The call as its body, with what is not a name or a literal bound first; or
\* the call itself where a binding would capture a name.
CallBackSite(e, c, args, bound) ==
  LET kept == {i \in DOMAIN args : ~Duplicable(args[i])}
      names == {c.params[i] : i \in kept}
      place == [i \in DOMAIN args |-> IF i \in kept THEN Ref(c.params[i]) ELSE args[i]]
      lets == SetToSortSeq(kept, <)
  IN  IF names \cap bound # {} \/ (\E i \in DOMAIN args : Mentioned(args[i]) \cap names # {}) THEN e
      ELSE FoldRight(LAMBDA i, body : Let(<<c.params[i]>>, <<args[i]>>, body), lets, Subst(c.body, c.params, place))

-----------------------------------------------------------------------------
(***************************************************************************)
(* The walk.  `pass` says which rule the sites follow.                     *)
(***************************************************************************)
Site(pass, e, cands, bound) ==
  LET root == ApplyRoot(e)
      named == SelectSeq(cands, LAMBDA d : d.name = root)
      c == named[1]
      args == ApplyArgs(e)
  IN  IF root \in bound \/ named = <<>> THEN e
      ELSE IF Len(args) # Len(c.params) THEN e
      ELSE CASE pass = "leaf" /\ ArgsSimple(args) -> FoldRem(Subst(c.body, c.params, args))
             [] pass = "once" /\ ArgsSimple(args) /\ ~OnceFreeEscapes(c.body, c.params, bound) ->
                  Subst(c.body, c.params, args)
             [] pass = "back" /\ ~OnceFreeEscapes(c.body, c.params, bound) -> CallBackSite(e, c, args, bound)
             [] OTHER -> e

RECURSIVE RewriteExpr(_, _, _, _)
RewriteExpr(pass, e, cands, bound) ==
  LET parts == [i \in DOMAIN e.xs |-> RewriteExpr(pass, e.xs[i], cands, bound \cup ToSet(IrBinds(e, i)))]
      walked == [e EXCEPT !.xs = parts]
  IN  IF e.t = "Apply" THEN Site(pass, walked, cands, bound) ELSE walked

RewriteDef(pass, d, cands) == [d EXCEPT !.body = RewriteExpr(pass, @, cands, ToSet(d.params))]

InlineLeafCalls(defs) ==
  LET cands == LeafDefs(defs) IN Map(LAMBDA d : RewriteDef("leaf", d, cands), defs)

InlineSingleCaller(defs) ==
  LET cands == OnceDefs(defs) IN Map(LAMBDA d : RewriteDef("once", d, cands), defs)

CallBackDirectly(defs) ==
  Map(LAMBDA g : RewriteDef("back", g, SelectSeq(defs, LAMBDA f : ForwardsTo(f, defs) = g.name)), defs)

\* ir-prune-unreachable-roots.
RECURSIVE Reached(_, _)
Reached(ns, defs) ==
  LET grown == ns \cup UNION {Mentioned(d.body) : d \in {x \in ToSet(defs) : x.name \in ns}}
  IN  IF grown = ns THEN ns ELSE Reached(grown, defs)

PruneUnreachableRoots(defs, roots) == SelectSeq(defs, LAMBDA d : d.name \in Reached(roots, defs))

-----------------------------------------------------------------------------
(***************************************************************************)
(* Lambdas become definitions (src/lambda_lifting.rs): what a lambda reads *)
(* of the names around it are the leading parameters of a definition of    *)
(* its own, and where it stood that definition is given them.              *)
(*                                                                         *)
(* The walk threads what has been lifted and the next number to try.       *)
(***************************************************************************)
LamName(k) == <<"__lam_", ToString(k)>>

\* Wrong: the chapter's own names are not reserved.
NextNumber(lift) == lift.next

\* LamNames::gen: the first number from here on that no definition has.
FirstFree(lift) ==
  CHOOSE k \in lift.next .. MaxLambdas :
    LamName(k) \notin lift.reserved /\ \A j \in lift.next .. (k - 1) : LamName(j) \in lift.reserved

\* free_vars: what an expression reads that it does not bind itself.
RECURSIVE Free(_)
Free(e) ==
  IF e.t = "NameRef" THEN {e.n}
  ELSE UNION {Free(e.xs[i]) \ ToSet(IrBinds(e, i)) : i \in DOMAIN e.xs}

\* In one fixed order of names; build_lifted_params sorts them by their text.
Captures(ps, body, enclosing) == SetToSeq((Free(body) \ ToSet(ps)) \cap enclosing)

\* The body of an arm is lifted ahead of its guard.
InTurn(e) == IF e.t = "Arm" THEN <<2, 1>> ELSE [i \in DOMAIN e.xs |-> i]

RECURSIVE LiftExpr(_, _, _), LiftParts(_, _, _, _)

LiftParts(e, turns, enclosing, lift) ==
  IF turns = <<>> THEN [e |-> e, lift |-> lift]
  ELSE LET i == Head(turns)
           part == LiftExpr(e.xs[i], enclosing \cup (ToSet(IrBinds(e, i)) \ {NoName}), lift)
       IN  LiftParts([e EXCEPT !.xs[i] = part.e], Tail(turns), enclosing, part.lift)

\* lift_one: the body first, then the name, then the definition.
LiftExpr(e, enclosing, lift) ==
  LET done == LiftParts(e, InTurn(e), enclosing, lift)
      body == done.e.xs[1]
      captured == Captures(e.ps, body, enclosing)
      k == FirstFree(done.lift)
  IN  IF e.t # "Lambda" THEN done
      ELSE [e |-> FoldLeft(LAMBDA f, n : Apply(f, Ref(n)), Ref(LamName(k)), captured),
            lift |-> [done.lift EXCEPT !.next = k + 1,
                        !.defs = Append(@, [name |-> LamName(k), params |-> captured \o e.ps, body |-> body,
                                            bounded |-> FALSE, origin |-> done.lift.origin])]]

RECURSIVE LiftDefs(_, _)
LiftDefs(defs, lift) ==
  IF defs = <<>> THEN lift.defs
  ELSE LET d == Head(defs)
           done == LiftExpr(d.body, ToSet(d.params), [lift EXCEPT !.origin = d.origin])
           rest == LiftDefs(Tail(defs), done.lift)
       IN  <<[d EXCEPT !.body = done.e]>> \o rest

LiftLambdas(defs) == LiftDefs(defs, [defs |-> <<>>, next |-> 0, origin |-> "",
                                    reserved |-> {d.name : d \in ToSet(defs)}])
=============================================================================
