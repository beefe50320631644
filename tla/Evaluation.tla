----------------------------- MODULE Evaluation -----------------------------
(***************************************************************************)
(* Running a small program over lists the way interp.rs does - arguments   *)
(* from left to right, tail calls in place of the caller - with either     *)
(* kind of list: Codex's, which names share and `list-set-at` writes in    *)
(* place, or Roc's, which is a value `list-set-at` makes another of.       *)
(*                                                                         *)
(* A program is a function from names to definitions [params, body]; an    *)
(* expression is a record told apart by "kind", a Name carrying whether    *)
(* its type is a list.  A machine m holds the program, the kind of lists,  *)
(* the heap, how many calls are waiting (depth), the most that ever were   *)
(* (deepest), and whether the program failed (stuck).                      *)
(***************************************************************************)
EXTENDS Integers, Sequences, TLC

\* Bound: a constructor holds one field.
CONSTANT Constructors

Num(n) == [sort |-> "int", n |-> n]
Holding(vals) == [sort |-> "record", items |-> vals]
Global(name) == [sort |-> "global", name |-> name, applied |-> <<>>]

Builtins == ("list-set-at" :> 3) @@ ("list-at" :> 2)

Start(defs, shared) ==
  [defs |-> defs, shared |-> shared, heap |-> <<>>, depth |-> 0, deepest |-> 0, stuck |-> FALSE]

Result(val, m) == [val |-> val, m |-> m]
Stuck(m) == Result(Num(0), [m EXCEPT !.stuck = TRUE])

ArityOf(f, m) ==
  CASE f.sort = "lambda" -> Len(f.params)
    [] f.sort = "global" /\ f.name \in DOMAIN Builtins -> Builtins[f.name]
    [] f.sort = "global" /\ f.name \in Constructors -> 1
    [] f.sort = "global" /\ f.name \in DOMAIN m.defs -> Len(m.defs[f.name].params)
    [] OTHER -> 0

\* A list literal is a new list every time it is evaluated.
MakeList(vals, m) ==
  IF m.shared
  THEN Result([sort |-> "list", at |-> Len(m.heap) + 1], [m EXCEPT !.heap = Append(@, vals)])
  ELSE Result([sort |-> "cells", items |-> vals], m)

IsList(v) == v.sort \in {"list", "cells"}
Cells(v, m) == IF v.sort = "list" THEN m.heap[v.at] ELSE v.items

Builtin(name, vals, m) ==
  LET list == vals[1]
      index == vals[2].n + 1
  IN  IF ~IsList(list) \/ vals[2].sort # "int" THEN Stuck(m)
      ELSE IF index \notin DOMAIN Cells(list, m) THEN Stuck(m)
      ELSE CASE name = "list-at" -> Result(Cells(list, m)[index], m)
             [] name = "list-set-at" /\ list.sort = "list" ->
                  Result(list, [m EXCEPT !.heap[list.at][index] = vals[3]])
             [] OTHER -> Result([list EXCEPT !.items[index] = vals[3]], m)

Bound(env, names, vals) ==
  [n \in {names[k] : k \in DOMAIN names} |-> vals[CHOOSE k \in DOMAIN names : names[k] = n]] @@ env

NamesOf(params) == [k \in DOMAIN params |-> params[k].name]

Waiting(m) ==
  [m EXCEPT !.depth = @ + 1, !.deepest = IF m.depth + 1 > @ THEN m.depth + 1 ELSE @]

RECURSIVE Eval(_, _, _, _), EvalEach(_, _, _), Spine(_, _, _, _, _), EvalArms(_, _, _, _, _),
          EvalStmts(_, _, _, _)

EvalEach(es, env, m) ==
  IF es = <<>> THEN [vals |-> <<>>, m |-> m]
  ELSE LET first == Eval(Head(es), env, FALSE, m)
           others == EvalEach(Tail(es), env, first.m)
       IN  [vals |-> <<first.val>> \o others.vals, m |-> others.m]

\* A saturated call: a builtin, a constructor or a body in its own scope.
Enter(f, vals, m) ==
  CASE f.sort = "lambda" -> Eval(f.body, Bound(f.env, NamesOf(f.params), vals), TRUE, m)
    [] f.sort = "global" /\ f.name \in DOMAIN Builtins -> Builtin(f.name, vals, m)
    [] f.sort = "global" /\ f.name \in Constructors -> Result(Holding(vals), m)
    [] OTHER -> Eval(m.defs[f.name].body, Bound(<<>>, NamesOf(m.defs[f.name].params), vals), TRUE, m)

\* As many arguments as the function takes are evaluated and it is called; the
\* last call of a body in tail position takes the place of its caller.
Spine(f, args, env, tail, m) ==
  IF args = <<>> THEN Result(f, m)
  ELSE IF f.sort \notin {"lambda", "global"} THEN Stuck(m)
  ELSE LET missing == ArityOf(f, m) - Len(f.applied)
           take == IF missing < Len(args) THEN missing ELSE Len(args)
           given == EvalEach(SubSeq(args, 1, take), env, m)
           others == SubSeq(args, take + 1, Len(args))
           vals == f.applied \o given.vals
       IN  IF missing <= 0 \/ given.m.stuck THEN Stuck(given.m)
           ELSE IF take < missing THEN Result([f EXCEPT !.applied = vals], given.m)
           ELSE IF tail /\ others = <<>> THEN Enter(f, vals, given.m)
           ELSE LET called == Enter(f, vals, Waiting(given.m))
                IN  Spine(called.val, others, env, tail, [called.m EXCEPT !.depth = m.depth])

\* The arms in order: a pattern is a number to meet or anything, and binds the
\* value to its names; the guard may still send it on.
EvalArms(v, arms, env, tail, m) ==
  IF arms = <<>> THEN Stuck(m)
  ELSE LET arm == Head(arms)
           inside == Bound(env, arm.names, [k \in DOMAIN arm.names |-> v])
           guard == Eval(arm.guard, inside, FALSE, m)
       IN  IF ~arm.any /\ arm.number # v.n THEN EvalArms(v, Tail(arms), env, tail, m)
           ELSE IF guard.val = Num(0) THEN EvalArms(v, Tail(arms), env, tail, guard.m)
           ELSE Eval(arm.body, inside, tail, guard.m)

EvalStmts(stmts, env, tail, m) ==
  IF stmts = <<>> THEN Result(Num(0), m)
  ELSE LET stmt == Head(stmts)
           last == Len(stmts) = 1
           done == Eval(stmt.value, env, tail /\ last /\ stmt.name = "", m)
       IN  IF last /\ stmt.name = "" THEN done
           ELSE EvalStmts(Tail(stmts), IF stmt.name = "" THEN env ELSE (stmt.name :> done.val) @@ env,
                          tail, done.m)

\* A name: what is bound to it, or a definition - whose body is evaluated at
\* every mention when it has no parameters - or a builtin.
Mention(name, env, m) ==
  CASE name \in DOMAIN env -> Result(env[name], m)
    [] name \notin DOMAIN env /\ name \in DOMAIN m.defs /\ m.defs[name].params = <<>> ->
         LET r == Eval(m.defs[name].body, <<>>, FALSE, Waiting(m))
         IN  Result(r.val, [r.m EXCEPT !.depth = m.depth])
    [] name \notin DOMAIN env /\ name \in DOMAIN m.defs /\ m.defs[name].params # <<>> ->
         Result(Global(name), m)
    [] name \in DOMAIN Builtins \cup Constructors -> Result(Global(name), m)
    [] OTHER -> Stuck(m)

Element(v, k, m) == IF v.sort = "record" THEN Result(v.items[k], m) ELSE Stuck(m)

EvalBinary(e, env, m) ==
  LET left == Eval(e.left, env, FALSE, m)
      right == Eval(e.right, env, FALSE, left.m)
  IN  CASE left.val.sort # "int" -> Stuck(left.m)
        [] left.val = Num(0) /\ e.shortcut -> Result(Num(0), left.m)
        [] right.val.sort # "int" -> Stuck(right.m)
        [] OTHER -> Result(IF e.shortcut THEN right.val ELSE Num(left.val.n + right.val.n), right.m)

Eval(e, env, tail, m) ==
  IF m.stuck THEN Result(Num(0), m) ELSE
  CASE e.kind = "Lit" -> Result(Num(e.n), m)
    [] e.kind = "Name" -> Mention(e.name, env, m)
    [] e.kind = "Binary" -> EvalBinary(e, env, m)
    [] e.kind = "Let" -> LET v == Eval(e.value, env, FALSE, m)
                         IN  Eval(e.body, (e.name :> v.val) @@ env, tail, v.m)
    [] e.kind = "If" -> LET c == Eval(e.cond, env, FALSE, m)
                        IN  IF c.val.sort # "int" THEN Stuck(c.m)
                            ELSE Eval(IF c.val.n # 0 THEN e.yes ELSE e.no, env, tail, c.m)
    [] e.kind = "Match" -> LET v == Eval(e.scrut, env, FALSE, m)
                           IN  IF v.val.sort # "int" THEN Stuck(v.m)
                               ELSE EvalArms(v.val, e.arms, env, tail, v.m)
    [] e.kind = "Lambda" -> Result([sort |-> "lambda", params |-> e.params, body |-> e.body,
                                    env |-> env, applied |-> <<>>], m)
    [] e.kind = "List" -> LET r == EvalEach(e.items, env, m) IN MakeList(r.vals, r.m)
    [] e.kind \in {"Record", "Pack"} -> LET r == EvalEach(e.items, env, m)
                                        IN  Result(Holding(r.vals), r.m)
    [] e.kind \in {"Field", "At"} -> LET r == Eval(e.of, env, FALSE, m)
                                     IN  Element(r.val, e.at, r.m)
    [] e.kind = "Apply" -> LET f == Eval(e.head, env, FALSE, m)
                           IN  Spine(f.val, e.args, env, tail, f.m)
    [] e.kind = "Act" -> EvalStmts(e.stmts, env, tail, m)
    [] OTHER -> Stuck(m)

\* What an answer shows: the lists in it by their elements.
RECURSIVE Shown(_, _)
Shown(v, m) ==
  CASE IsList(v) -> [sort |-> "list", items |-> [k \in DOMAIN Cells(v, m) |-> Shown(Cells(v, m)[k], m)]]
    [] v.sort = "record" -> [v EXCEPT !.items = [k \in DOMAIN v.items |-> Shown(v.items[k], m)]]
    [] OTHER -> v

Answer(r) ==
  [answer |-> IF r.m.stuck THEN [sort |-> "none"] ELSE Shown(r.val, r.m),
   stuck |-> r.m.stuck, deepest |-> r.m.deepest]
Run(defs, shared, name, args) ==
  Answer(Spine(Global(name), [k \in DOMAIN args |-> [kind |-> "Lit", n |-> args[k]]],
               <<>>, TRUE, Start(defs, shared)))
=============================================================================
