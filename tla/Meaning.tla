------------------------------- MODULE Meaning -------------------------------
(***************************************************************************)
(* What a program means, as simply as it can be said: names are looked up, *)
(* arguments are evaluated from left to right and given one at a time, a   *)
(* definition without parameters is evaluated at every mention, and a      *)
(* bounded definition checks what it is given and what it answers.         *)
(*                                                                         *)
(* Definitions are records [name, params, body, bounded, ..], ds a         *)
(* sequence of them; env is what the local names are.                      *)
(***************************************************************************)
EXTENDS Syntax, TLC

CONSTANT Band  \* the integers a bounded definition accepts and answers

-----------------------------------------------------------------------------
(***************************************************************************)
(* The values of a running program and what the operators and builtins do  *)
(* with them (src/interp.rs): integers, booleans, texts, characters, lists *)
(* that names share, records that names share (kept with the lists), what  *)
(* constructors make, and functions given some of their arguments.         *)
(*                                                                         *)
(* A store s holds what has been printed, one byte of flat memory, the     *)
(* lists by address, and which of them are marked as held by the cache of  *)
(* nullary definitions; a result is a value and the store after it.        *)
(***************************************************************************)
Num(k)   == Lit(<<"int", k>>)
Bool(b)  == Lit(<<"bool", b>>)
Text(cs) == Lit(<<"text", cs>>)
Char(c)  == Lit(<<"char", c>>)
ListAt(a) == Lit(<<"list", a>>)
Unit     == Lit(<<"unit">>)
Trap     == Lit(<<"trap">>)
NoArm    == Lit(<<"trap", "no arm">>)

Is(v, sort) == v.t = "Lit" /\ v.n[1] = sort
Of(v) == v.n[2]

\* A closure, or a definition or builtin by name, and the arguments it has.
Fun(n, ps, body, env) == [t |-> "Fun", n |-> n, ps |-> ps, body |-> body, env |-> env, args |-> <<>>]

\* What a constructor makes, and a record, whose fields are at an address.
Made(n, vs)         == [t |-> "Made", n |-> n, args |-> vs]
RecordAt(n, ps, a)  == [t |-> "Record", n |-> n, ps |-> ps, at |-> a]

Result(v, s) == [v |-> v, s |-> s]
Fails(r) == Is(r.v, "trap")

NoStore == [said |-> <<>>, byte |-> 0, lists |-> <<>>, marked |-> {}]

-----------------------------------------------------------------------------
\* What an observer sees of a value: its lists as they are now, and of a
\* function only that it is one.
RECURSIVE Seen(_, _)
Seen(v, s) ==
  CASE v.t = "Fun" -> <<"function">>
    [] v.t = "Made" -> <<"made", v.n, [i \in DOMAIN v.args |-> Seen(v.args[i], s)]>>
    [] v.t = "Record" -> <<"record", v.n, [i \in DOMAIN v.ps |-> Seen(s.lists[v.at][i], s)]>>
    [] Is(v, "list") -> <<"list", [i \in DOMAIN s.lists[Of(v)] |-> Seen(s.lists[Of(v)][i], s)]>>
    [] OTHER -> v.n

\* Division towards zero.
Quot(x, y) ==
  LET Abs(k) == IF k < 0 THEN -k ELSE k
      q == Abs(x) \div Abs(y)
  IN  IF (x < 0) = (y < 0) THEN q ELSE -q

Arith(op, x, y) ==
  CASE op = <<"+">> -> Num(x + y)
    [] op = <<"-">> -> Num(x - y)
    [] op = <<"*">> -> Num(x * y)
    [] op = <<"/">> -> IF y = 0 THEN Trap ELSE Num(Quot(x, y))
    [] op = <<"rem">> -> IF y = 0 THEN Trap ELSE Num(x - Quot(x, y) * y)
    [] op = <<"<">> -> Bool(x < y)
    [] OTHER -> Trap

\* Records and lists are the same if what they hold is; a list is the same as
\* itself, whatever it holds.
RECURSIVE Same(_, _, _)
Same(a, b, s) ==
  LET Parts(v) == CASE v.t = "Made" -> v.args
                    [] v.t = "Record" -> s.lists[v.at]
                    [] OTHER -> s.lists[Of(v)]
      Pairwise == /\ Len(Parts(a)) = Len(Parts(b))
                  /\ \A i \in DOMAIN Parts(a) : Same(Parts(a)[i], Parts(b)[i], s)
  IN  CASE a.t # b.t \/ a.t = "Fun" -> FALSE
        [] a.t = "Lit" -> Is(b, a.n[1]) /\ (a.n = b.n \/ (Is(a, "list") /\ Pairwise))
        [] OTHER -> a.n = b.n /\ (a.t = "Record" => a.ps = b.ps) /\ Pairwise

\* `&` joins two texts, or a text and what is shown of anything else, which is
\* one symbol here.  The operations on the bits of two integers are left out.
Operated(op, a, b, s) ==
  LET Bools == Is(a, "bool") /\ Is(b, "bool")
      Shown(v) == IF Is(v, "text") THEN Of(v) ELSE <<0>>
  IN  CASE op = <<"==">> -> Bool(Same(a, b, s))
        [] op \in {<<"and">>, <<"&">>} /\ Bools -> Bool(Of(a) /\ Of(b))
        [] op = <<"or">> /\ Bools -> Bool(Of(a) \/ Of(b))
        [] op = <<"&">> /\ (Is(a, "text") \/ Is(b, "text")) -> Text(Shown(a) \o Shown(b))
        [] Is(a, "int") /\ Is(b, "int") -> Arith(op, Of(a), Of(b))
        [] OTHER -> Trap

\* Interp::list: a list is new every time it is made.
NewList(vs, s) == Result(ListAt(Len(s.lists) + 1), [s EXCEPT !.lists = Append(@, vs)])

\* Two lists are joined in a new one.
Operation(op, a, b, s) ==
  IF op = <<"&">> /\ Is(a, "list") /\ Is(b, "list") THEN NewList(s.lists[Of(a)] \o s.lists[Of(b)], s)
  ELSE Result(Operated(op, a, b, s), s)

\* Interp::cow: the list, or a fresh copy where the cache holds it.
Cow(a, s) == IF a \in s.marked THEN NewList(s.lists[a], s) ELSE Result(ListAt(a), s)

Push(a, v, s) ==
  LET own == Cow(a, s) IN Result(own.v, [own.s EXCEPT !.lists[Of(own.v)] = Append(@, v)])

\* How many arguments a builtin takes.
Builtins ==
  (<<"say">> :> 1) @@ (<<"peek-byte">> :> 1) @@ (<<"poke-byte">> :> 1) @@ (<<"list-length">> :> 1) @@
  (<<"list-at">> :> 2) @@ (<<"list-push">> :> 2) @@ (<<"list-set-at">> :> 3) @@
  (<<"text-length">> :> 1) @@ (<<"char-code">> :> 1) @@ (<<"char-code-at">> :> 2)

\* Interp::builtin.  Flat memory has one byte, whatever the address.
Builtin(n, vs, s) ==
  LET v == vs[1]
      items == s.lists[Of(v)]
  IN  CASE n = <<"say">> -> Result(Unit, [s EXCEPT !.said = Append(@, Seen(v, s))])
        [] n = <<"peek-byte">> -> Result(Num(s.byte), s)
        [] n = <<"poke-byte">> /\ Is(v, "int") -> Result(Unit, [s EXCEPT !.byte = Of(v)])
        [] n = <<"list-length">> /\ Is(v, "list") -> Result(Num(Len(items)), s)
        [] n = <<"list-at">> /\ Is(v, "list") /\ Of(vs[2]) + 1 \in DOMAIN items ->
             Result(items[Of(vs[2]) + 1], s)
        [] n = <<"list-push">> /\ Is(v, "list") -> Push(Of(v), vs[2], s)
        [] n = <<"list-set-at">> /\ Is(v, "list") /\ Of(vs[2]) + 1 \in DOMAIN items ->
             Result(v, [s EXCEPT !.lists[Of(v)][Of(vs[2]) + 1] = vs[3]])
        [] n = <<"text-length">> /\ Is(v, "text") -> Result(Num(Len(Of(v))), s)
        [] n = <<"char-code">> /\ Is(v, "char") -> Result(Num(Of(v)), s)
        [] n = <<"char-code-at">> /\ Is(v, "text") /\ Of(vs[2]) + 1 \in DOMAIN Of(v) ->
             Result(Num(Of(v)[Of(vs[2]) + 1]), s)
        [] OTHER -> Result(Trap, s)

Outcome(r) == [answer |-> Seen(r.v, r.s), said |-> r.s.said]

-----------------------------------------------------------------------------
DefOf(n, ds) == CHOOSE d \in ToSet(ds) : d.name = n
Defined(ds)  == {d.name : d \in ToSet(ds)}

\* A later parameter of the same name hides an earlier one.
Bound(ps, vs, env) == FoldLeftDomain(LAMBDA f, i : (ps[i] :> vs[i]) @@ f, env, ps)

InBand(v) == Is(v, "int") /\ Of(v) \in Band

RECURSIVE Eval(_, _, _, _), Each(_, _, _, _), Arms(_, _, _, _, _), Stmts(_, _, _, _, _), Called(_, _, _)

\* The values in order, up to the first that fails.
Each(es, env, ds, s) ==
  IF es = <<>> THEN [vs |-> <<>>, s |-> s, ok |-> TRUE]
  ELSE LET first == Eval(Head(es), env, ds, s)
           rest == Each(Tail(es), env, ds, first.s)
       IN  IF Fails(first) THEN [vs |-> <<>>, s |-> first.s, ok |-> FALSE]
           ELSE [rest EXCEPT !.vs = <<first.v>> \o @]

Called(f, ds, s) ==
  LET bounded == f.n \in Defined(ds) /\ DefOf(f.n, ds).bounded
      r == Eval(f.body, Bound(f.ps, f.args, f.env), ds, s)
  IN  IF f.n \in DOMAIN Builtins \ Defined(ds) THEN Builtin(f.n, f.args, s)
      ELSE IF ~bounded THEN r
      ELSE IF (\E i \in DOMAIN f.args : ~InBand(f.args[i])) THEN Result(Trap, s)
      ELSE IF InBand(r.v) THEN r ELSE Result(Trap, r.s)

Mention(n, env, ds, s) ==
  CASE n \in DOMAIN env -> Result(env[n], s)
    [] n \notin DOMAIN env /\ n \in Defined(ds) ->
         LET d == DefOf(n, ds)
         IN  IF d.params = <<>> THEN Eval(d.body, <<>>, ds, s)
             ELSE Result(Fun(n, d.params, d.body, <<>>), s)
    [] n \notin DOMAIN env \cup Defined(ds) /\ n \in DOMAIN Builtins ->
         Result(Fun(n, [i \in 1 .. Builtins[n] |-> NoName], Unit, <<>>), s)
    [] OTHER -> Result(Trap, s)

\* Interp::matches_pat: what an arm's pattern binds its names to, if it matches.
\* The rest of a list is a list of its own here (ListViews has what it is).
Matched(arm, v, s) ==
  LET Hit(vs, s1) == [ok |-> TRUE, vs |-> vs, s |-> s1]
      Miss == [ok |-> FALSE, vs |-> <<>>, s |-> s]
      When(c, vs) == IF c THEN Hit(vs, s) ELSE Miss
      items == s.lists[Of(v)]
      rest == NewList(Tail(items), s)
  IN  CASE Len(arm.xs) = 3 -> When(Same(v, arm.xs[3], s), <<>>)
        [] Len(arm.xs) = 2 /\ arm.n = NoName -> Hit([i \in DOMAIN arm.ps |-> v], s)
        [] Is(v, "list") /\ arm.n = <<"Nil">> -> When(items = <<>>, <<>>)
        [] Is(v, "list") /\ arm.n = <<"Cons">> -> IF items = <<>> THEN Miss ELSE Hit(<<Head(items), rest.v>>, rest.s)
        [] v.t = "Made" -> When(v.n = arm.n /\ Len(v.args) = Len(arm.ps), v.args)
        [] v.t = "Record" -> When(v.n = arm.n /\ Len(v.ps) = Len(arm.ps), s.lists[v.at])
        [] OTHER -> Miss

\* The arms in order; an arm's guard may send the value on.
Arms(v, arms, env, ds, s) ==
  IF arms = <<>> THEN Result(NoArm, s)
  ELSE LET arm == Head(arms)
           m == Matched(arm, v, s)
           inside == Bound(arm.ps, m.vs, env)
           guard == Eval(arm.xs[1], inside, ds, m.s)
       IN  IF ~m.ok THEN Arms(v, Tail(arms), env, ds, s)
           ELSE IF Fails(guard) THEN guard
           ELSE IF guard.v = Bool(FALSE) THEN Arms(v, Tail(arms), env, ds, guard.s)
           ELSE Eval(arm.xs[2], inside, ds, guard.s)

\* A field of a record, by its place; a store to one it does not have, which the
\* interpreter adds to the record, is a failure here.
FieldPlace(p, v) == CHOOSE i \in DOMAIN v.ps : v.ps[i] = p

\* What Eval does with an expression whose parts are all evaluated first.
Built(e, vs, ds, s) ==
  LET v == Head(vs)
      given == [v EXCEPT !.args = Append(@, vs[2])]
      fields == NewList(vs, s)
      has == v.t = "Record" /\ e.n \in ToSet(v.ps)
  IN  CASE e.t = "List" -> fields
        [] e.t = "Record" -> Result(RecordAt(e.n, e.ps, Of(fields.v)), fields.s)
        [] e.t = "Construct" -> Result(Made(e.n, vs), s)
        [] e.t = "FieldAccess" /\ has -> Result(s.lists[v.at][FieldPlace(e.n, v)], s)
        [] e.t = "FieldAssign" /\ has -> Result(v, [s EXCEPT !.lists[v.at][FieldPlace(e.n, v)] = vs[2]])
        [] e.t = "Unary" -> Result(Operated(<<"-">>, Num(0), v, s), s)
        [] e.t = "Binary" -> Operation(e.n, v, vs[2], s)
        [] e.t = "Apply" /\ v.t = "Fun" ->
             IF Len(given.args) < Len(v.ps) THEN Result(given, s) ELSE Called(given, ds, s)
        [] OTHER -> Result(Trap, s)

\* The operators that need not look at their right operand.
Decides(op, v) == (op \in {<<"and">>, <<"&">>} /\ v = Bool(FALSE)) \/ (op = <<"or">> /\ v = Bool(TRUE))

\* A block: what a statement's `let` binds is bound for the statements after it.
Stmts(ps, es, env, ds, s) ==
  LET stmt == Head(es)
      r == Eval(stmt, env, ds, s)
  IN  IF ps[1] = NoName /\ stmt.t = "Let" /\ Len(es) > 1
      THEN Eval([stmt EXCEPT !.xs = Append(Front(@), Act(ps, <<Last(@)>> \o Tail(es)))], env, ds, s)
      ELSE IF Fails(r) \/ (Len(es) = 1 /\ ps[1] = NoName) THEN r
      ELSE IF Len(es) = 1 THEN Result(Unit, r.s)
      ELSE Stmts(Tail(ps), Tail(es), IF ps[1] = NoName THEN env ELSE (ps[1] :> r.v) @@ env, ds, r.s)

Eval(e, env, ds, s) ==
  CASE e.t = "Lit" -> Result(e, s)
    [] e.t = "Induction" -> Result(Unit, s)
    [] e.t = "NameRef" -> Mention(e.n, env, ds, s)
    [] e.t = "Lambda" -> Result(Fun(<<"lambda">>, e.ps, e.xs[1], env), s)
    [] e.t = "Act" -> Stmts(e.ps, e.xs, env, ds, s)
    [] e.t = "If" ->
         LET c == Eval(e.xs[1], env, ds, s)
         IN  CASE c.v = Bool(TRUE) -> Eval(e.xs[2], env, ds, c.s)
               [] c.v = Bool(FALSE) -> Eval(e.xs[3], env, ds, c.s)
               [] OTHER -> Result(Trap, c.s)
    [] e.t = "Let" ->
         LET first == Eval(Head(e.xs), env, ds, s)
             rest == [e EXCEPT !.ps = Tail(@), !.xs = Tail(@)]
         IN  IF e.ps = <<>> \/ Fails(first) THEN first
             ELSE Eval(rest, (Head(e.ps) :> first.v) @@ env, ds, first.s)
    [] e.t = "Match" ->
         LET v == Eval(e.xs[1], env, ds, s)
         IN  IF Fails(v) THEN v ELSE Arms(v.v, Tail(e.xs), env, ds, v.s)
    [] e.t = "Lazy" -> Eval(e.xs[1], env, ds, s)
    [] e.t \in {"Apply", "Binary", "Unary", "List", "Record", "Construct", "FieldAccess", "FieldAssign"} ->
         LET each == Each(e.xs, env, ds, s)
             first == Eval(e.xs[1], env, ds, s)
         IN  IF e.t = "Binary" /\ e.n \in {<<"and">>, <<"or">>, <<"&">>} /\ Decides(e.n, first.v) THEN first
             ELSE IF each.ok THEN Built(e, each.vs, ds, each.s) ELSE Result(Trap, each.s)
    [] OTHER -> Result(Trap, s)

\* What running a program comes to.
MeaningOf(ds) == Outcome(Eval(Ref(<<"opening">>), <<>>, ds, NoStore))
=============================================================================
