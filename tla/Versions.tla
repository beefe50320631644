------------------------------ MODULE Versions ------------------------------
(***************************************************************************)
(* list_versions.rs: the rewriting that makes every write to a list a new  *)
(* version of it, over the expressions of module Evaluation.               *)
(*                                                                         *)
(* The walk threads one state s: the versions in scope (Env: cur, root,    *)
(* bound, stored), the lets to be put ahead of the expression at hand      *)
(* (pre), and what the whole definition shares: the writers w, the count   *)
(* of names minted (fresh), why it is refused ("" if it is not), whether a *)
(* list was written after it was stored (stale), and whether every leaf so *)
(* far answered the list asked about (agrees).  The reserved constructor   *)
(* and its elements are the kinds "Pack" and "At".                         *)
(***************************************************************************)
EXTENDS Evaluation, FiniteSets, SequencesExt

None == ""      \* no root, no reason

Name(n, list) == [kind |-> "Name", name |-> n, list |-> list]
Pack(items) == [kind |-> "Pack", items |-> items]
Element1(t, k) == [kind |-> "At", of |-> Name(t, FALSE), at |-> k]
Call(head, args) == [kind |-> "Apply", head |-> head, args |-> args]

Out(x, s) == [x |-> x, s |-> s]
Refuse(why, s) == IF s.why = None THEN [s EXCEPT !.why = why] ELSE s

\* The expressions directly inside one.
Parts(e) ==
  CASE e.kind = "Apply" -> <<e.head>> \o e.args
    [] e.kind = "Binary" -> <<e.left, e.right>>
    [] e.kind = "Let" -> <<e.value, e.body>>
    [] e.kind = "If" -> <<e.cond, e.yes, e.no>>
    [] e.kind = "Match" -> <<e.scrut>> \o [k \in DOMAIN e.arms |-> e.arms[k].guard]
                                      \o [k \in DOMAIN e.arms |-> e.arms[k].body]
    [] e.kind = "Lambda" -> <<e.body>>
    [] e.kind \in {"List", "Record", "Pack"} -> e.items
    [] e.kind \in {"Field", "At", "Guarded"} -> <<e.of>>
    [] e.kind = "Act" -> [k \in DOMAIN e.stmts |-> e.stmts[k].value]
    [] OTHER -> <<>>

RECURSIVE Within(_)
Within(e) == {e} \cup UNION {Within(Parts(e)[k]) : k \in DOMAIN Parts(e)}
NamesIn(e) == {x.name : x \in {y \in Within(e) : y.kind = "Name"}}

Writes(e) == e.kind = "Apply" /\ e.head = Name("list-set-at", FALSE) /\ Len(e.args) = 3
FieldWrite(e) == Writes(e) /\ e.args[1].kind = "Field"
DroppedFieldWrite(e) == FieldWrite(e.value) /\ e.name \notin NamesIn(e.body)

----------------------------------------------------------------------------
(* Roots and versions.                                                     *)

ParamsEnv(d, w) ==
  [cur |-> <<>>, root |-> <<>>, bound |-> {d.params[k].name : k \in DOMAIN d.params}, stored |-> {},
   pre |-> <<>>, w |-> w, fresh |-> 0, why |-> None, stale |-> FALSE, agrees |-> TRUE]

Root(n, s) == IF n \in DOMAIN s.root THEN s.root[n] ELSE n
Current(r, cur) == IF r \in DOMAIN cur THEN cur[r] ELSE r
Version(r, s) == Name(Current(r, s.cur), TRUE)

\* Wrong: what the list was stored in is not looked at.
AdvanceStored(r, v, s) == [s EXCEPT !.cur = (r :> v) @@ @, !.root = (v :> r) @@ @]

Advance(r, v, s) ==
  [s EXCEPT !.cur = (r :> v) @@ @, !.root = (v :> r) @@ @, !.stale = @ \/ r \in s.stored]

\* A name nothing in the definition or its chapter has, bound ahead of the
\* expression.  (No name of a program here ends in -v and a number, so the
\* names that are taken are never met.)
Hoist(base, list, value, s) ==
  LET v == base \o "-v" \o ToString(s.fresh + 1)
  IN  [name |-> v, s |-> [s EXCEPT !.fresh = @ + 1,
                                   !.pre = Append(@, [name |-> v, list |-> list, value |-> value])]]

\* Which list an expression is, if it is one known here.
RECURSIVE AliasRoot(_, _)
AliasRoot(a, s) ==
  LET shared(es) == IF es # <<>> /\ \A k \in DOMAIN es : AliasRoot(es[k], s) = AliasRoot(es[1], s)
                    THEN AliasRoot(es[1], s) ELSE None
  IN CASE a.kind = "Name" -> IF Root(a.name, s) \in s.bound /\ a.list THEN Root(a.name, s) ELSE None
       [] a.kind = "Let" -> AliasRoot(a.body, s)
       [] a.kind = "If" -> shared(<<a.yes, a.no>>)
       [] a.kind = "Match" -> shared([k \in DOMAIN a.arms |-> a.arms[k].body])
       [] Writes(a) -> AliasRoot(a.args[1], s)
       [] a.kind = "Apply" /\ a.head.kind = "Name" /\ a.head.name \in DOMAIN s.w ->
            LET writer == s.w[a.head.name]
            IN  IF writer.returnsList /\ Len(a.args) = writer.arity
                THEN AliasRoot(a.args[writer.written[1]], s) ELSE None
       [] OTHER -> None

\* A let: another name for a list known here is its current one.
Bind(n, list, v, s) ==
  LET inside == [s EXCEPT !.bound = @ \cup {n}]
      r == AliasRoot(v, inside)
  IN  IF list /\ r \notin {None, n}
      THEN [inside EXCEPT !.root = (n :> r) @@ @, !.cur = (r :> n) @@ @]
      ELSE inside

Rename(e, s) ==
  IF Root(e.name, s) \in DOMAIN s.cur THEN [e EXCEPT !.name = s.cur[Root(e.name, s)]] ELSE e

\* Wrong: a list is passed as it was when its own turn came.
ReferencesInTurn(xs, s) == xs

\* A list passed by name is the version after all the arguments.
ReferencesLast(xs, s) ==
  [k \in DOMAIN xs |-> IF xs[k].kind = "Name" THEN Rename(xs[k], s) ELSE xs[k]]

Store(xs, s) ==
  LET last == ReferencesLast(xs, s)
      held == {k \in DOMAIN last : last[k].kind = "Name" /\ last[k].list}
  IN  [xs |-> last, s |-> [s EXCEPT !.stored = @ \cup {Root(last[k].name, s) : k \in held}]]

\* The lets put ahead of x; one that only names x's value is x.
RECURSIVE Lets(_, _)
Lets(pre, x) ==
  IF pre = <<>> THEN x
  ELSE Lets(Front(pre), [kind |-> "Let", name |-> Last(pre).name, list |-> Last(pre).list,
                         value |-> Last(pre).value, body |-> x])

Wrap(pre, x) ==
  IF pre # <<>> /\ x.kind = "Name" /\ x.name = Last(pre).name
  THEN Lets(Front(pre), Last(pre).value) ELSE Lets(pre, x)

\* Into a branch or a statement, and out of it again: the versions and the lets
\* are its own.
Inside(s) == [s EXCEPT !.pre = <<>>]
Leaving(s, inner) == [s EXCEPT !.fresh = inner.fresh, !.why = inner.why, !.stale = inner.stale,
                               !.agrees = inner.agrees]

\* The lists a tuple t answered after its first element are the versions now.
RECURSIVE TakeBack(_, _, _, _)
TakeBack(t, roots, k, s) ==
  IF k > Len(roots) THEN s
  ELSE IF roots[k] = None THEN TakeBack(t, roots, k + 1, s)
  ELSE LET v == Hoist(roots[k], TRUE, Element1(t, k + 1), s)
       IN  TakeBack(t, roots, k + 1, Advance(roots[k], v.name, v.s))

----------------------------------------------------------------------------
(* The walk.                                                               *)

\* Wrong: the first arm speaks for all.
DifferFirst(arms, s) ==
  {r \in DOMAIN arms[1].s.cur \cap s.bound : Current(r, arms[1].s.cur) # Current(r, s.cur)}

\* The lists the arms left at different versions, or all moved on.
Differ(arms, s) ==
  {r \in UNION {DOMAIN arms[k].s.cur : k \in DOMAIN arms} \cap s.bound :
     \E k \in DOMAIN arms : Current(r, arms[k].s.cur) # Current(r, s.cur)}

\* Arms that leave a list at different versions answer them beside their value.
JoinArm(arm, roots) ==
  Wrap(arm.s.pre, IF roots = <<>> THEN arm.x
                  ELSE Pack(<<arm.x>> \o [k \in DOMAIN roots |-> Version(roots[k], arm.s)]))

FinishJoin(branch, roots, s) ==
  IF roots = <<>> THEN Out(branch, s)
  ELSE LET t == Hoist("copyout", FALSE, branch, s)
       IN  Out(Element1(t.name, 1), TakeBack(t.name, roots, 1, t.s))

\* A saturated call to a writer is bound, and what it wrote is the version now.
FinishCall(head, xs, roots, s) ==
  LET writer == s.w[head.name]
      c == Hoist(head.name, writer.returnsList, Call(head, xs), s)
      written == [k \in DOMAIN writer.written |-> roots[writer.written[k]]]
  IN  IF ~writer.returnsList THEN Out(Element1(c.name, 1), TakeBack(c.name, written, 1, c.s))
      ELSE Out(Name(c.name, TRUE), IF written[1] = None THEN c.s ELSE Advance(written[1], c.name, c.s))

\* Where the walk is: inside an expression, where arms are joined, or where the
\* definition answers, where every leaf is treated with the versions there.
Inner == [leaf |-> "none"]
Answering(roots, list, leaf) == [roots |-> roots, list |-> list, leaf |-> leaf]

RECURSIVE Walk(_, _, _), ExprEach(_, _), Arms(_, _), Statements(_, _, _)
Expr(e, s) == Walk(e, Inner, s)
TailOf(e, roots, list, leaf, s) == Walk(e, Answering(roots, list, leaf), s)

ExprEach(es, s) ==
  IF es = <<>> THEN [xs |-> <<>>, s |-> s]
  ELSE LET first == Expr(Head(es), s)
           others == ExprEach(Tail(es), first.s)
       IN  [xs |-> <<first.x>> \o others.xs, s |-> others.s]

\* A guard may write nothing.
PureGuard(g, s) ==
  LET r == Expr(g, Inside(s))
  IN  Out(r.x, IF r.s.pre # <<>> \/ r.s.cur # s.cur THEN Refuse("guard", r.s) ELSE r.s)

\* The arms of a when, each from the versions before it: what each came to, its
\* guard, and the shared state after them all.
Arms(arms, s) ==
  IF arms = <<>> THEN [done |-> <<>>, s |-> s]
  ELSE LET arm == Head(arms)
           env == [Inside(s) EXCEPT !.bound = @ \cup {arm.names[k] : k \in DOMAIN arm.names}]
           guard == PureGuard(arm.guard, env)
           body == Expr(arm.body, Leaving(env, guard.s))
           others == Arms(Tail(arms), Leaving(s, body.s))
       IN  [done |-> <<[x |-> body.x, s |-> body.s, guard |-> guard.x]>> \o others.done, s |-> others.s]

ExprIf(e, s) ==
  LET c == Expr(e.cond, s)
      yes == Expr(e.yes, Inside(c.s))
      no == Expr(e.no, Inside(Leaving(c.s, yes.s)))
      roots == SetToSeq(Differ(<<yes, no>>, c.s))
  IN  FinishJoin([e EXCEPT !.cond = c.x, !.yes = JoinArm(yes, roots), !.no = JoinArm(no, roots)],
                 roots, Leaving(c.s, no.s))

ExprMatch(e, s) ==
  LET v == Expr(e.scrut, s)
      arms == Arms(e.arms, v.s)
      roots == SetToSeq(Differ(arms.done, v.s))
      bodies == [k \in DOMAIN e.arms |-> [e.arms[k] EXCEPT !.guard = arms.done[k].guard,
                                                           !.body = JoinArm(arms.done[k], roots)]]
  IN  FinishJoin([e EXCEPT !.scrut = v.x, !.arms = bodies], roots, arms.s)

\* The value of a let, hoisted; what is left is its body.
ExprBinding(e, s) ==
  LET v == Expr(e.value, IF DroppedFieldWrite(e) THEN Refuse("field", s) ELSE s)
  IN  [Bind(e.name, e.list, v.x, v.s) EXCEPT !.pre = Append(@, [name |-> e.name, list |-> e.list, value |-> v.x])]

ExprLambda(e, s) ==
  LET b == Expr(e.body, [Inside(s) EXCEPT !.bound = @ \cup {e.params[k].name : k \in DOMAIN e.params}])
      moved == \E r \in DOMAIN b.s.cur : b.s.cur[r] # Current(r, s.cur)
      left == Leaving(s, b.s)
  IN  Out([e EXCEPT !.body = Wrap(b.s.pre, b.x)], IF moved THEN Refuse("lambda", left) ELSE left)

\* A statement's writes stay inside it, so no later statement may read them.
Statements(stmts, k, s) ==
  IF k > Len(stmts) THEN [done |-> <<>>, s |-> s]
  ELSE LET stmt == stmts[k]
           v == Expr(stmt.value, Inside(IF stmt.name = None /\ FieldWrite(stmt.value)
                                        THEN Refuse("field", s) ELSE s))
           later == UNION {NamesIn(stmts[j].value) : j \in k + 1 .. Len(stmts)}
           read == \E n \in later : Root(n, s) \in DOMAIN v.s.cur
           left == Leaving(s, v.s)
           others == Statements(stmts, k + 1, IF v.s.cur # s.cur /\ read THEN Refuse("act", left) ELSE left)
       IN  [done |-> <<[stmt EXCEPT !.value = Wrap(v.s.pre, v.x)]>> \o others.done, s |-> others.s]

\* The argument a call writes is told from the arguments as they stand; then
\* the call is made on what they came to.
ExprCall(e, s) ==
  LET f == e.head.name
      roots == [k \in DOMAIN e.args |-> AliasRoot(e.args[k], s)]
      args == ExprEach(e.args, s)
      xs == ReferencesLast(args.xs, args.s)
  IN CASE Writes(e) /\ roots[1] # None ->
            LET v == Hoist(roots[1], TRUE, Call(e.head, xs), args.s)
            IN  Out(Name(v.name, TRUE), Advance(roots[1], v.name, v.s))
       [] f \in Constructors ->
            LET kept == Store(args.xs, args.s) IN Out(Call(e.head, kept.xs), kept.s)
       [] f \in DOMAIN s.w /\ Len(xs) < s.w[f].arity -> Out(e, Refuse("value", args.s))
       [] f \in DOMAIN s.w /\ Len(xs) >= s.w[f].arity ->
            LET n == s.w[f].arity
                c == FinishCall(e.head, SubSeq(xs, 1, n), roots, args.s)
            IN  IF Len(xs) = n THEN c ELSE Out(Call(c.x, SubSeq(xs, n + 1, Len(xs))), c.s)
       [] OTHER -> Out(Call(e.head, xs), args.s)

ExprIn(e, s) ==
  CASE e.kind = "Lit" -> Out(e, s)
    [] e.kind = "Name" -> Out(Rename(e, s), s)
    [] e.kind = "Binary" -> LET r == ExprEach(<<e.left, e.right>>, s)
                            IN  Out([e EXCEPT !.left = r.xs[1], !.right = r.xs[2]], r.s)
    [] e.kind = "Field" -> LET r == Expr(e.of, s) IN Out([e EXCEPT !.of = r.x], r.s)
    [] e.kind \in {"List", "Record"} ->
         LET r == ExprEach(e.items, s)
             kept == Store(r.xs, r.s)
         IN  Out([e EXCEPT !.items = kept.xs], kept.s)
    [] e.kind = "Let" -> Expr(e.body, ExprBinding(e, s))
    [] e.kind = "If" -> ExprIf(e, s)
    [] e.kind = "Match" -> ExprMatch(e, s)
    [] e.kind = "Lambda" -> ExprLambda(e, s)
    [] e.kind = "Act" -> LET r == Statements(e.stmts, 1, s) IN Out([e EXCEPT !.stmts = r.done], r.s)
    [] e.kind = "Guarded" ->
         Out(e, IF NamesIn(e) \cap ({"list-set-at"} \cup DOMAIN s.w) # {} THEN Refuse("guarded", s) ELSE s)
    [] e.kind = "Apply" /\ e.head.kind = "Name" -> ExprCall(e, s)
    [] e.kind = "Apply" /\ e.head.kind # "Name" ->
         LET r == ExprEach(<<e.head>> \o e.args, s) IN Out(Call(r.xs[1], Tail(r.xs)), r.s)

----------------------------------------------------------------------------
(* A body in tail position: every leaf is treated with the versions there. *)

\* What becomes of a leaf: "check" asks whether it is the one list written,
\* "keep" leaves it, "pack" answers the lists written beside it.
Leaf(x, roots, leaf, s) ==
  CASE leaf = "check" -> Out(x, [s EXCEPT !.agrees = @ /\ x.kind = "Name" /\ x.name = Version(roots[1], s).name])
    [] leaf = "keep" -> Out(x, s)
    [] leaf = "pack" -> Out(Pack(<<x>> \o [k \in DOMAIN roots |-> Version(roots[k], s)]), s)

\* Wrong: no call is ever the answer as it is.
TailCallNever(e, roots, list, s) == [kept |-> FALSE, s |-> s]

\* A call to a writer of the same kind on the same lists is the answer as it is.
TailCall(e, roots, list, s) ==
  LET writer == s.w[e.head.name]
      args == ExprEach(e.args, s)
      xs == ReferencesLast(args.xs, args.s)
      candidate == /\ e.kind = "Apply" /\ e.head.kind = "Name" /\ e.head.name \in DOMAIN s.w
                   /\ Len(e.args) = writer.arity /\ Len(writer.written) = Len(roots)
                   /\ writer.returnsList = list
      linesUp == \A k \in DOMAIN roots : LET x == xs[writer.written[k]]
                                         IN  x.kind = "Name" /\ Root(x.name, args.s) = roots[k]
  IN  IF ~candidate THEN [kept |-> FALSE, s |-> s]
      ELSE IF ~linesUp THEN [kept |-> FALSE, s |-> Leaving(s, args.s)]
      ELSE [kept |-> TRUE, x |-> Call(e.head, xs), s |-> args.s]

RECURSIVE TailArms(_, _, _, _, _)

TailArms(arms, roots, list, leaf, s) ==
  IF arms = <<>> THEN [done |-> <<>>, s |-> s]
  ELSE LET arm == Head(arms)
           env == [Inside(s) EXCEPT !.bound = @ \cup {arm.names[k] : k \in DOMAIN arm.names}]
           guard == PureGuard(arm.guard, env)
           body == TailOf(arm.body, roots, list, leaf, Leaving(env, guard.s))
           others == TailArms(Tail(arms), roots, list, leaf, Leaving(s, body.s))
       IN  [done |-> <<[arm EXCEPT !.guard = guard.x, !.body = body.x]>> \o others.done, s |-> others.s]

TailIn(e, roots, list, leaf, s) ==
  CASE e.kind = "Let" -> TailOf(e.body, roots, list, leaf, ExprBinding(e, s))
    [] e.kind = "If" ->
         LET c == Expr(e.cond, s)
             yes == TailOf(e.yes, roots, list, leaf, Inside(c.s))
             no == TailOf(e.no, roots, list, leaf, Inside(Leaving(c.s, yes.s)))
         IN  Out(Wrap(c.s.pre, [e EXCEPT !.cond = c.x, !.yes = yes.x, !.no = no.x]), Leaving(c.s, no.s))
    [] e.kind = "Match" ->
         LET v == Expr(e.scrut, s)
             arms == TailArms(e.arms, roots, list, leaf, v.s)
         IN  Out(Wrap(v.s.pre, [e EXCEPT !.scrut = v.x, !.arms = arms.done]), arms.s)
    [] OTHER ->
         LET call == TailCall(e, roots, list, s)
             x == Expr(e, call.s)
             done == Leaf(x.x, roots, leaf, x.s)
         IN  IF call.kept THEN Out(Wrap(call.s.pre, call.x), call.s)
             ELSE Out(Wrap(done.s.pre, done.x), done.s)

Walk(e, place, s) ==
  IF place.leaf = "none" THEN ExprIn(e, s) ELSE TailIn(e, place.roots, place.list, place.leaf, s)

----------------------------------------------------------------------------
(* Definitions.                                                            *)

Touches(d, w) == NamesIn(d.body) \cap ({"list-set-at"} \cup DOMAIN w) # {}

\* Every leaf answers the version of parameter p, or is a tail call that does.
Agreed(walked) == walked.s.agrees /\ walked.s.why = None
AnswersList(d, p, w) == Agreed(TailOf(d.body, <<p>>, TRUE, "check", ParamsEnv(d, w)))

ListParams(d) == {k \in DOMAIN d.params : d.params[k].list}
Positions(d) == [k \in DOMAIN d.params |-> k]

Writer(d, written, w) ==
  [arity |-> Len(d.params), written |-> written,
   returnsList |-> Len(written) = 1 /\ AnswersList(d, d.params[written[1]].name, w)]

\* Wrong: the first list written is taken for all of them.
WrittenFirst(d, s) == SelectSeq(Positions(d), LAMBDA k : k = 1 /\ d.params[k].name \in DOMAIN s.cur)

\* The parameters whose lists have moved on after the whole body.
Written(d, s) == SelectSeq(Positions(d), LAMBDA k : k \in ListParams(d) /\ d.params[k].name \in DOMAIN s.cur)

\* Which parameters a definition writes, and whether it answers the one it does;
\* writes is whether it is a writer at all.
Classified(d, w, s) ==
  LET written == Written(d, s)
  IN  [writes |-> s.why = None /\ written # <<>>, as |-> Writer(d, written, w)]
Classify(d, w) == Classified(d, w, Expr(d.body, ParamsEnv(d, w)).s)

\* A definition rewritten under the writers w, and why not if it is not.
Block(walked) == Out(Wrap(walked.s.pre, walked.x), walked.s)
Rewritten(walked) ==
  [body |-> walked.x,
   why |-> IF walked.s.why # None THEN walked.s.why ELSE IF walked.s.stale THEN "stored" ELSE None]
RewriteUnder(d, name, w) ==
  LET start == ParamsEnv(d, w)
      roots == [k \in DOMAIN w[name].written |-> d.params[w[name].written[k]].name]
  IN  Rewritten(IF name \notin DOMAIN w THEN Block(Expr(d.body, start))
                ELSE TailOf(d.body, roots, w[name].returnsList,
                            IF w[name].returnsList THEN "keep" ELSE "pack", start))
=============================================================================
