------------------------------- MODULE Syntax -------------------------------
(***************************************************************************)
(* The walks over expressions that care about names.                       *)
(***************************************************************************)
EXTENDS Forms

\* What a sequence of binders binds, up to and without its i-th.
Before(ps, i) == {ps[j] : j \in 1 .. (i - 1)} \ {NoName}

\* The names of a chain of `let`s.
RECURSIVE Chain(_)
Chain(e) == IF e.t = "Let" THEN ToSet(e.ps) \cup Chain(Last(e.xs)) ELSE {}

\* What an expression binds for its i-th part (scope.rs, expr and act_stmts): a `let`
\* that is a statement stays in scope for the statements after it, and
\* `induction on n` binds n for the arms.
ResolverBinds(e, i) ==
  CASE e.t = "Act"  -> Before(e.ps, i) \cup UNION {Chain(e.xs[j]) : j \in 1 .. (i - 1)}
    [] e.t = "Let"  -> Before(e.ps, i)
    [] e.t = "Induction" -> IF i > 1 /\ e.xs[1].t = "NameRef" THEN {e.xs[1].n} ELSE {}
    [] e.t \in {"Lambda", "Arm", "Clause"} -> ToSet(e.ps)
    [] OTHER -> {}

\* Expr::walk: an expression and everything under it, in the order of writing.
RECURSIVE Under(_)
Under(e) == <<e>> \o FlattenSeq([i \in DOMAIN e.xs |-> Under(e.xs[i])])

\* Every name an expression mentions.
Mentioned(e) == {x.n : x \in {y \in ToSet(Under(e)) : y.t = "NameRef"}}
=============================================================================
