------------------------------ MODULE Normalizer ------------------------------
(***************************************************************************)
(* The terms of a claim and how they are normalized (src/proof_norm.rs):   *)
(* definitions are unfolded, matches on known constructors reduced,        *)
(* arithmetic on literals and the list primitives folded, on a fuel.  The  *)
(* value of a term, by which normalization is judged, comes last.          *)
(*                                                                         *)
(* A name is a sequence, so that a binder renamed apart is that binder's   *)
(* name with the fuel at its end.  The head of an application is a name.   *)
(*                                                                         *)
(* Definitions marked "Wrong" are mistakes that the properties detect.     *)
(***************************************************************************)
EXTENDS Integers, Sequences, FiniteSets, SequencesExt, FiniteSetsExt, Functions

CONSTANTS
  Defs,  \* the definitions terms may mention: [name -> [params, body]]
  Fuel,  \* FUEL: how often a term is unfolded (100_000)
  Limit  \* integers are in -Limit .. Limit - 1 (2^63)

ASSUME NormalizerAssumption == Fuel \in Nat \ {0} /\ Limit \in Nat \ {0}

-----------------------------------------------------------------------------
(***************************************************************************)
(* Terms: what they are (k), a name or the names they bind (n), and their  *)
(* parts (xs).                                                             *)
(***************************************************************************)
Of(n, xs) == [k |-> "of", n |-> n, xs |-> xs]
Name(n)   == Of(n, <<>>)
Num(i)    == Name(<<"#", i>>)
Truth(b) == [k |-> "lit", n |-> <<b>>, xs |-> <<>>]
Cond(c, t, e) == [k |-> "if", n |-> <<>>, xs |-> <<c, t, e>>]
Let(names, values, body) == [k |-> "let", n |-> names, xs |-> Append(values, body)]

\* A match: its patterns, and its scrutinee before the bodies of its arms.
Match(sc, pats, bodies) == [k |-> "match", n |-> pats, xs |-> <<sc>> \o bodies]

PVar(n)        == [k |-> "var", n |-> n, xs |-> <<>>]
PCtor(n, subs) == [k |-> "ctor", n |-> n, xs |-> subs]

IsNum(e) == e.k = "of" /\ e.xs = <<>> /\ e.n[1] = "#"
IsNil(e) == e = Name(<<"Nil">>)
IsChain(e) == e.k = "of" /\ e.n = <<"Cons">> /\ Len(e.xs) = 2
Chain(h, t) == Of(<<"Cons">>, <<h, t>>)
Nil == Name(<<"Nil">>)

RECURSIVE PatVars(_)
PatVars(p) == IF p.k = "var" THEN {p.n} ELSE UNION {PatVars(p.xs[i]) : i \in DOMAIN p.xs}

\* What is bound in a part of a term.
Binds(e, i) ==
  CASE e.k = "match" /\ i > 1         -> PatVars(e.n[i - 1])
    [] e.k = "let" /\ i = Len(e.xs)   -> ToSet(e.n)
    [] OTHER                          -> {}

\* subst_expr, with remove_shadowed.
RECURSIVE Subst(_, _)
Subst(sub, e) ==
  LET parts == [i \in DOMAIN e.xs |-> Subst(Restrict(sub, DOMAIN sub \ Binds(e, i)), e.xs[i])]
  IN  IF e.k = "of" /\ e.n \in DOMAIN sub
      THEN LET to == sub[e.n] IN IF parts = <<>> THEN to ELSE [to EXCEPT !.xs = @ \o parts]
      ELSE [e EXCEPT !.xs = parts]

\* is_aterm_normal.
RECURSIVE IsNormal(_)
IsNormal(e) == e.k = "of" /\ \A i \in DOMAIN e.xs : IsNormal(e.xs[i])

\* aexpr_names.
RECURSIVE TermNames(_)
TermNames(e) == IF e.k = "of" THEN {e.n} \cup UNION {TermNames(e.xs[i]) : i \in DOMAIN e.xs} ELSE {}

RECURSIVE PatRenamed(_, _, _)
PatRenamed(p, names, fuel) ==
  [p EXCEPT !.n = IF p.k = "var" /\ p.n \in names THEN Append(p.n, fuel) ELSE p.n,
            !.xs = [i \in DOMAIN p.xs |-> PatRenamed(p.xs[i], names, fuel)]]

\* Wrong: an arm keeps its names.
NotRenamed(e, names, fuel) == e

\* rename_binders_for: an arm that binds a name of the arguments is renamed apart.
RECURSIVE Renamed(_, _, _)
Renamed(e, names, fuel) ==
  IF e.k \notin {"of", "if", "match"} THEN e
  ELSE [e EXCEPT
    !.n = IF e.k = "match" THEN [i \in DOMAIN e.n |-> PatRenamed(e.n[i], names, fuel)] ELSE e.n,
    !.xs = [i \in DOMAIN e.xs |->
              Subst([n \in Binds(e, i) \cap names |-> Name(Append(n, fuel))], Renamed(e.xs[i], names, fuel))]]

-----------------------------------------------------------------------------
(***************************************************************************)
(* normalize_aterm.                                                        *)
(***************************************************************************)
Arithmetic == {<<"+">>, <<"-">>, <<"*">>, <<"/">>}

\* The list primitives and how many arguments they fold with.
ListPrims ==
  [n \in {<<"list-length">>, <<"list-push">>, <<"list-at">>, <<"list-set-at">>, <<"list-insert-at">>, <<"&">>} |->
     CASE n = <<"list-length">> -> 1 [] n \in {<<"list-set-at">>, <<"list-insert-at">>} -> 3 [] OTHER -> 2]

\* Division rounds towards zero.
Exact(op, x, y) ==
  CASE op = <<"+">> -> x + y
    [] op = <<"-">> -> x - y
    [] op = <<"*">> -> x * y
    [] OTHER -> LET Abs(v) == IF v < 0 THEN -v ELSE v
                    q == Abs(x) \div Abs(y)
                IN  IF (x < 0) = (y < 0) THEN q ELSE -q

\* arith_fold_value.
Folded(op, x, y) == ((Exact(op, x, y) + Limit) % (2 * Limit)) - Limit

Unfoldable(n, count) == n \in DOMAIN Defs /\ Len(Defs[n].params) = count

\* What a step leads to: a term to go on with, under a head that is kept.
Done(e)    == [over |-> TRUE,  head |-> <<>>,  next |-> e]
Go(e)      == [over |-> FALSE, head |-> <<>>,  next |-> e]
Under(h, e) == [over |-> FALSE, head |-> <<h>>, next |-> e]

\* normalize_arith, its arguments normal.
ArithStep(e) ==
  Done(IF IsNum(e.xs[1]) /\ IsNum(e.xs[2]) /\ ~(e.n = <<"/">> /\ e.xs[2] = Num(0))
       THEN Num(Folded(e.n, e.xs[1].n[2], e.xs[2].n[2])) ELSE e)

\* normalize_list_prim, its arguments normal.
ListStep(e) ==
  LET n     == e.n[1]
      a     == e.xs[1]
      x     == Last(e.xs)
      index == IF Len(e.xs) > 1 /\ IsNum(e.xs[2]) THEN e.xs[2].n[2] ELSE -1
      OnTail(more) == Of(e.n, <<a.xs[2]>> \o more)
  IN  CASE n = "list-length" /\ IsNil(a)  -> Done(Num(0))
        [] n = "list-length" /\ IsChain(a) -> Go(Of(<<"+">>, <<Num(1), OnTail(<<>>)>>))
        [] n = "list-push" /\ IsNil(a)    -> Done(Chain(x, Nil))
        [] n = "&" /\ IsNil(a)            -> Done(x)
        [] n \in {"list-push", "&"} /\ IsChain(a) -> Under(a.xs[1], OnTail(<<x>>))
        [] n = "list-at" /\ IsChain(a) /\ index = 0 -> Done(a.xs[1])
        [] n = "list-at" /\ IsChain(a) /\ index > 0 -> Go(OnTail(<<Num(index - 1)>>))
        [] n = "list-set-at" /\ IsChain(a) /\ index = 0 -> Done(Chain(x, a.xs[2]))
        [] n = "list-insert-at" /\ (IsNil(a) \/ IsChain(a)) /\ index = 0 -> Done(Chain(x, a))
        [] n \in {"list-set-at", "list-insert-at"} /\ IsChain(a) /\ index > 0 ->
             Under(a.xs[1], OnTail(<<Num(index - 1), x>>))
        [] OTHER -> Done(e)

\* A definition with its arguments in it.
Unfolded(e, fuel) ==
  LET d    == Defs[e.n]
      body == Renamed(d.body, UNION {TermNames(e.xs[i]) : i \in DOMAIN e.xs}, fuel)
  IN  Subst([p \in ToSet(d.params) |-> e.xs[CHOOSE i \in DOMAIN d.params : d.params[i] = p]], body)

\* ctorpat_to_subst.
Matched(p, xs) ==
  [n \in {p.xs[i].n : i \in {j \in DOMAIN p.xs : p.xs[j].k = "var"}} |->
     xs[CHOOSE i \in DOMAIN p.xs : p.xs[i] = PVar(n)]]

\* normalize_match: the first arm for the constructor the scrutinee is.
MatchStep(e) ==
  LET sc   == e.xs[1]
      fits == {i \in DOMAIN e.n : sc.k = "of" /\ e.n[i].k = "ctor" /\ e.n[i].n = sc.n /\ Len(e.n[i].xs) = Len(sc.xs)}
  IN  IF fits = {} THEN Done(e) ELSE Go(Subst(Matched(e.n[Min(fits)], sc.xs), e.xs[Min(fits) + 1]))

\* The bindings of a let go into its body all at once.
LetStep(e) ==
  Go(Subst([n \in ToSet(e.n) |-> e.xs[CHOOSE i \in DOMAIN e.n : e.n[i] = n]], Last(e.xs)))

Primitive(n) == n \in Arithmetic \cup DOMAIN ListPrims
Unfolds(e)   == e.k = "of" /\ ~Primitive(e.n) /\ Unfoldable(e.n, Len(e.xs))

\* The parts that are normalized before the step is chosen.
Strict(e, unfold) ==
  CASE e.k = "of" /\ ~(unfold /\ Unfolds(e)) -> DOMAIN e.xs
    [] e.k \in {"match", "if"} -> {1}
    [] OTHER -> {}

Step(e, fuel, unfold) ==
  CASE unfold /\ Unfolds(e) -> Go(Unfolded(e, fuel))
    [] e.k = "of" /\ e.n \in Arithmetic /\ Len(e.xs) = 2 -> ArithStep(e)
    [] e.k = "of" /\ e.n \in DOMAIN ListPrims /\ Len(e.xs) = ListPrims[e.n] -> ListStep(e)
    [] e.k = "match" -> MatchStep(e)
    [] e.k = "if" /\ e.xs[1].k = "lit" -> Go(e.xs[IF e.xs[1] = Truth("True") THEN 2 ELSE 3])
    [] e.k = "let"   -> LetStep(e)
    [] OTHER         -> Done(e)

\* What a step led to; an application unfolded to what gets stuck is rebuilt.
Settled(e, head, nf, rebuilt) ==
  CASE Unfolds(e) /\ e.xs # <<>> /\ ~IsNormal(nf) -> rebuilt
    [] head # <<>> -> Chain(head[1], nf)
    [] OTHER -> nf

\* normalize_aterm, and normalize_app where an application is not unfolded.
RECURSIVE Normal(_, _, _)
RECURSIVE After(_, _, _)
After(e, step, fuel) ==
  IF step.over THEN step.next
  ELSE Settled(e, step.head, Normal(step.next, fuel - 1, TRUE), Normal(e, fuel, FALSE))

Normal(e, fuel, unfold) ==
  IF fuel = 0 THEN e
  ELSE LET Part(i) == IF i \in Strict(e, unfold) THEN Normal(e.xs[i], fuel, TRUE) ELSE e.xs[i]
       IN  After(e, Step([e EXCEPT !.xs = [i \in DOMAIN e.xs |-> Part(i)]], fuel, unfold), fuel)

\* normalize_codextype: a term that gets stuck is answered unchanged.
NormalSide(e) == LET nf == Normal(e, Fuel, TRUE) IN IF IsNormal(nf) THEN nf ELSE e

-----------------------------------------------------------------------------
(***************************************************************************)
(* The value of a term where its variables have values.                    *)
(***************************************************************************)
Trap == Name(<<"trap">>)

RECURSIVE Elements(_)
Elements(v) == IF IsChain(v) THEN <<v.xs[1]>> \o Elements(v.xs[2]) ELSE <<>>

AsList(s) == FoldRight(Chain, s, Nil)

ListValue(n, xs) ==
  LET s == Elements(xs[1])
      i == IF Len(xs) > 1 /\ IsNum(xs[2]) THEN xs[2].n[2] + 1 ELSE 0
  IN  CASE n = <<"list-length">> -> Num(Len(s))
        [] n = <<"list-push">>   -> AsList(Append(s, xs[2]))
        [] n = <<"&">>           -> AsList(s \o Elements(xs[2]))
        [] n = <<"list-at">>     -> IF i \in DOMAIN s THEN s[i] ELSE Trap
        [] n = <<"list-set-at">> -> IF i \in DOMAIN s THEN AsList(ReplaceAt(s, i, xs[3])) ELSE Trap
        [] OTHER                 -> IF i \in 1 .. Len(s) + 1 THEN AsList(InsertAt(s, i, xs[3])) ELSE Trap

ArithValue(n, xs) ==
  IF n = <<"/">> /\ xs[2] = Num(0) THEN Trap
  ELSE LET v == Exact(n, xs[1].n[2], xs[2].n[2]) IN IF v \in -Limit .. Limit - 1 THEN Num(v) ELSE Trap

RECURSIVE Fits(_, _)
Fits(p, v) ==
  \/ p.k # "ctor"
  \/ p.n = v.n /\ Len(p.xs) = Len(v.xs) /\ \A i \in DOMAIN p.xs : Fits(p.xs[i], v.xs[i])

RECURSIVE Caught(_, _)
Caught(p, v) ==
  IF p.k = "var" THEN (p.n :> v)
  ELSE FoldLeft(LAMBDA f, i : f @@ Caught(p.xs[i], v.xs[i]), <<>>, [i \in DOMAIN p.xs |-> i])

\* The parts that are evaluated first, and what there is to evaluate then: a
\* term where more variables have values, or nothing more.
First(e, env) ==
  CASE e.k = "of" /\ e.n \notin DOMAIN env -> DOMAIN e.xs
    [] e.k \in {"match", "if", "let"}      -> {1}
    [] OTHER                               -> {}

Rest(e, env, vs) ==
  CASE e.k = "if"  -> <<e.xs[IF vs[1] = Truth("True") THEN 2 ELSE 3], env>>
    [] e.k = "let" -> <<IF Len(e.n) = 1 THEN e.xs[2] ELSE [e EXCEPT !.n = Tail(@), !.xs = Tail(@)], (e.n[1] :> vs[1]) @@ env>>
    [] e.k = "match" ->
         LET fits == {i \in DOMAIN e.n : Fits(e.n[i], vs[1])}
         IN  IF fits = {} THEN <<Trap, <<>>>> ELSE <<e.xs[Min(fits) + 1], Caught(e.n[Min(fits)], vs[1]) @@ env>>
    [] Unfolds(e) /\ e.n \notin DOMAIN env ->
         <<Defs[e.n].body, [p \in ToSet(Defs[e.n].params) |-> vs[CHOOSE i \in DOMAIN vs : Defs[e.n].params[i] = p]]>>
    [] OTHER -> <<>>

Simple(e, env, vs) ==
  CASE e.k = "lit"           -> e
    [] e.n \in DOMAIN env    -> env[e.n]
    [] e.n \in Arithmetic    -> ArithValue(e.n, vs)
    [] e.n \in DOMAIN ListPrims -> ListValue(e.n, vs)
    [] OTHER                 -> Of(e.n, vs)

RECURSIVE Value(_, _)
RECURSIVE Onward(_, _, _)
Onward(e, env, vs) ==
  LET rest == Rest(e, env, vs) IN IF rest = <<>> THEN Simple(e, env, vs) ELSE Value(rest[1], rest[2])

Value(e, env) ==
  LET vs == [i \in First(e, env) |-> Value(e.xs[i], env)]
  IN  IF Trap \in Range(vs) THEN Trap ELSE Onward(e, env, vs)
=============================================================================
