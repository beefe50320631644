----------------------------- MODULE Judgements -----------------------------
(***************************************************************************)
(* What a definition may promise: its cost, `bounded <class>`              *)
(* (src/cost.rs) and `punctual` (src/punctual.rs), and the scopes its      *)
(* signature grants effects over (src/effect_scope.rs).  The sets of       *)
(* definitions that break a class are found from their bodies and closed   *)
(* under mentions in rounds; an accepted chapter is then run, and the runs *)
(* are what the promises are held against.                                 *)
(*                                                                         *)
(* The walks over a body are constants, each given by its recursive        *)
(* equation: one call of the walk is the definition whose name ends in     *)
(* "By", and the assumptions below say that the walk is that call.         *)
(*                                                                         *)
(* A scope is a sequence, empty for none: the characters of a path, a host *)
(* and perhaps a port, or a channel.  An effect is its one or two parts.   *)
(*                                                                         *)
(* Definitions marked "Wrong" are mistakes that the properties detect.     *)
(***************************************************************************)
EXTENDS Forms, FiniteSets

CONSTANTS
  Expr,         \* the expressions in play, with everything under them
  Local,        \* the names that are local somewhere
  Chapters,     \* the chapters judged, in families: sequences of definitions
  AllocClass,   \* builtin_alloc: builtins, and how each allocates
  BudgetArg,    \* the argument that names the bound of a "budgetedBy" builtin
  RtSafe,       \* is_rt_safe_builtin
  RtUnsafe,     \* is_rt_unsafe_name
  Logic,        \* the binary operators that make nothing
  NoClass,      \* the class of a definition that declares none
  ScopedOp,     \* scoped_op_effect: the operations on a resource, and the effect of each
  Channel       \* console_channel_op: those fixed to a channel

CONSTANTS
  Nodes(_),               \* Expr::walk: an expression and everything under it
  Binds(_, _),            \* what an expression binds for its i-th part
  Head1(_),               \* apply_head
  Args(_),                \* apply_args, in source order
  RhsAllocates(_),        \* rhs_allocates
  Grows(_, _, _),         \* expr_grows: in the definition of a name, with parameters
  Allocates(_, _, _),     \* expr_allocates: what allocates already, the names defined
  Overbudget(_, _, _, _), \* expr_overbudget: what is over already, strictly, the names defined
  Reaches(_, _, _, _),    \* reaches: along some calls, from some, past others, to one
  AppliesLocalBuiltin(_, _), \* applied-local-builtin, where some names are local
  Acts(_, _)              \* what evaluating does, where some names are local

VARIABLES
  chapter,      \* the definitions
  phase,        \* "reading", "closing", "refused", "judged" or "running"
  sets,         \* growing, allocating, over and overfixed, as far as closed
  round,        \* the rounds gone
  stack,        \* the definitions running, innermost last
  done,         \* how the run has allocated
  touched       \* the resources the run has touched, each with its effect

vars == <<chapter, phase, sets, round, stack, done, touched>>

NamesOf(c)  == {c[i].name : i \in DOMAIN c}
DefOf(c, n) == c[CHOOSE i \in DOMAIN c : c[i].name = n]
Names    == NamesOf(chapter)
Named(n) == DefOf(chapter, n)
Class(n) == IF n \in DOMAIN AllocClass THEN AllocClass[n] ELSE "unknown"

\* Every name an expression mentions.
Mentioned(e) == {x.n : x \in {y \in Nodes(e) : y.t = "NameRef"}}

\* The names that are local somewhere in a definition.
LocalsOf(d) ==
  ToSet(d.params) \cup UNION {UNION {Binds(e, i) : i \in DOMAIN e.xs} : e \in Nodes(d.body)}

-----------------------------------------------------------------------------
(***************************************************************************)
(* Reading a body.                                                         *)
(***************************************************************************)
HeadBy(e) == IF e.t = "Apply" THEN Head1(e.xs[1]) ELSE e

ArgsBy(e) == IF e.t = "Apply" THEN Append(Args(e.xs[1]), e.xs[2]) ELSE <<>>

Appends(e) == e.t = "Binary" /\ e.n[1] = "&"

\* RULE 2 and RULE 3: what an operand adds to a copy.
OperandGrows(e) ==
  CASE e.t = "List" -> e.xs # <<>>
    [] e.t = "Lit"  -> e.n # NoName
    [] OTHER        -> TRUE

RhsAllocatesBy(e) ==
  CASE e.t \in {"Lit", "NameRef"} -> FALSE
    [] e.t = "Field"              -> RhsAllocates(e.xs[1])
    [] OTHER                      -> TRUE

\* RULE 1: an argument is the parameter in its place, appended to.
ArgIsSelfAppend(arg, param) ==
  /\ Appends(arg) /\ arg.xs[1] = Ref(param)
  /\ OperandGrows(arg.xs[2])
  /\ arg.n[2] = "Text" => RhsAllocates(arg.xs[2])

CallGrows(args, params) ==
  \E i \in DOMAIN args \cap DOMAIN params : ArgIsSelfAppend(args[i], params[i])

\* any_child: every part but the clauses of a handler.
Children(e) == IF e.t = "Handle" THEN {1} ELSE DOMAIN e.xs

\* cost-expr-grows.
GrowsBy(e, me, params) ==
  \/ e.t = "Apply" /\ Head1(e) = Ref(me) /\ CallGrows(Args(e), params)
  \/ \E i \in Children(e) : Grows(e.xs[i], me, params)

\* The forms that allocate as their parts do; every other one allocates.
SeenThrough == {"Binary", "Unary", "If", "Let", "Match", "Arm", "Field"}

\* `&` on booleans is logic; `++` always copies.  `::` builds a list and is not
\* counted.
BinopAllocates(e) == e.t = "Binary" /\ (e.n[1] = "++" \/ (Appends(e) /\ e.n[2] # "Boolean"))

HeadAllocates(head, allocating, names) ==
  \/ head.t # "NameRef"
  \/ head.n \in allocating
  \/ head.n \notin names /\ head.n \notin RtSafe /\ Class(head.n) # "none"

\* cost-expr-allocates.
AllocatesBy(e, allocating, names) ==
  CASE e.t = "Lit"     -> FALSE
    [] e.t = "NameRef" -> e.n \in RtUnsafe \cup allocating
    [] e.t = "Apply"   -> \/ HeadAllocates(Head1(e), allocating, names)
                          \/ \E i \in DOMAIN e.xs : Allocates(e.xs[i], allocating, names)
    [] e.t \in SeenThrough -> \/ BinopAllocates(e)
                              \/ \E i \in DOMAIN e.xs : Allocates(e.xs[i], allocating, names)
    [] OTHER -> TRUE

\* Wrong: an argument that is there counts as a bound, whatever it is.
LiteralArgAny(args, n) == n \in DOMAIN args

LiteralArg(args, n) == n \in DOMAIN args /\ args[n].t = "Lit"

HeadOverbudget(head, args, over, strict, names) ==
  \/ head.t # "NameRef"
  \/ head.n \in over
  \/ /\ head.n \notin names
     /\ CASE Class(head.n) \in {"none", "fixed"} -> FALSE
          [] Class(head.n) = "budgeted"          -> strict
          [] Class(head.n) = "budgetedBy"        -> ~LiteralArg(args, BudgetArg[head.n])
          [] OTHER                               -> head.n \notin RtSafe

\* cost-expr-overbudget.
OverbudgetBy(e, over, strict, names) ==
  CASE e.t = "Lit"     -> FALSE
    [] e.t = "NameRef" -> e.n \in RtUnsafe \cup over
    [] e.t = "Apply"   -> \/ HeadOverbudget(Head1(e), Args(e), over, strict, names)
                          \/ \E i \in DOMAIN Args(e) : Overbudget(Args(e)[i], over, strict, names)
    [] e.t \in SeenThrough -> \/ BinopAllocates(e)
                              \/ \E i \in DOMAIN e.xs : Overbudget(e.xs[i], over, strict, names)
    [] OTHER -> TRUE

-----------------------------------------------------------------------------
(***************************************************************************)
(* The rounds.                                                             *)
(***************************************************************************)
DefsWhere(Test(_)) == {d.name : d \in {d \in ToSet(chapter) : Test(d)}}

Seeds ==
  [growing   |-> DefsWhere(LAMBDA d : Grows(d.body, d.name, d.params)),
   alloc     |-> DefsWhere(LAMBDA d : Allocates(d.body, {}, Names)),
   over      |-> DefsWhere(LAMBDA d : Overbudget(d.body, {}, FALSE, Names)),
   overfixed |-> DefsWhere(LAMBDA d : Overbudget(d.body, {}, TRUE, Names))]

Empty == [growing |-> {}, alloc |-> {}, over |-> {}, overfixed |-> {}]

\* mentions_any: the definition itself apart.
MentionsAny(d, known) == (Mentioned(d.body) \ {d.name}) \cap known # {}

\* A round reads the set as the round before left it: `close` the mentions,
\* over_set the bodies.
Grown(s) ==
  [growing   |-> s.growing \cup DefsWhere(LAMBDA d : MentionsAny(d, s.growing)),
   alloc     |-> s.alloc \cup DefsWhere(LAMBDA d : MentionsAny(d, s.alloc)),
   over      |-> s.over \cup DefsWhere(LAMBDA d : Overbudget(d.body, s.over, FALSE, Names)),
   overfixed |-> s.overfixed \cup DefsWhere(LAMBDA d : Overbudget(d.body, s.overfixed, TRUE, Names))]

\* Wrong: one round short of the definitions.
RoundsShort == Len(chapter) - 2

Rounds == Len(chapter)

Seed ==
  /\ phase = "reading"
  /\ sets' = Seeds
  /\ phase' = "closing"
  /\ UNCHANGED <<chapter, round, stack, done, touched>>

Round ==
  /\ phase = "closing" /\ round < Rounds /\ Grown(sets) # sets
  /\ sets' = Grown(sets)
  /\ round' = round + 1
  /\ UNCHANGED <<chapter, phase, stack, done, touched>>

Closed == phase = "closing" /\ (round = Rounds \/ Grown(sets) = sets)

-----------------------------------------------------------------------------
(***************************************************************************)
(* The scopes of granted effects.                                          *)
(***************************************************************************)
CoveredBy(declared, eff) == declared = eff \/ declared = SubSeq(eff, 1, 1)

\* Wrong: a path grant admits whatever begins like it.
PathPrefix(grant, res) == IsPrefix(grant, res)

\* A path grant admits itself and what lies beneath it at a separator.
PathAdmits(grant, res) ==
  /\ IsPrefix(grant, res)
  /\ grant = res \/ Last(grant) = "/" \/ res[Len(grant) + 1] = "/"

\* The hosts agree, and the ports where both name one.
AuthorityAdmits(grant, res) ==
  /\ res # <<>> /\ res[1] = grant[1]
  /\ Len(grant) = 1 \/ Len(res) = 1 \/ res = grant

ScopeAdmits(eff, grant, res) ==
  CASE eff[1] = "Network" -> AuthorityAdmits(grant, res)
    [] eff[1] = "Console" -> res = grant
    [] OTHER              -> PathAdmits(grant, res)

\* A literal's resource: a URL of a scheme, a host and perhaps a port is its
\* authority, with the scheme's port where it leaves it out.
OpResource(eff, text) ==
  IF eff[1] # "Network" THEN text
  ELSE IF Len(text) = 3 THEN Tail(text)
  ELSE <<text[2], IF text[1] = "https" THEN "443" ELSE "80">>

HasGrant(grants, eff) == \E l \in grants : CoveredBy(l.eff, eff)

ScopePermits(grants, eff, res) ==
  \E l \in grants : CoveredBy(l.eff, eff) /\ (l.scope = <<>> \/ ScopeAdmits(eff, l.scope, res))

\* Wrong: a callee without a scope is taken to stay in its caller's.
CalleeOutsideScoped(grants, n) ==
  n \in Names /\ \E l \in Named(n).grants :
                   l.scope # <<>> /\ HasGrant(grants, l.eff) /\ ~ScopePermits(grants, l.eff, l.scope)

\* lint_callee_scopes: the scopes of a callee lie within the grants.
CalleeOutside(grants, n) ==
  n \in Names /\ \E l \in Named(n).grants : HasGrant(grants, l.eff) /\ ~ScopePermits(grants, l.eff, l.scope)

\* lint_scoped_op, lint_fixed_resource.
OpOutside(grants, n, arg) ==
  LET eff == ScopedOp[n]
  IN  /\ HasGrant(grants, eff)
      /\ IF n \in DOMAIN Channel THEN ~ScopePermits(grants, eff, Channel[n])
         ELSE arg.t # "Lit" \/ ~ScopePermits(grants, eff, OpResource(eff, arg.n))

\* lint_effect_scope, at every application whose callee is a name (CDX4002).
OutOfScope(d) ==
  /\ \E l \in d.grants : l.scope # <<>>
  /\ \E x \in Nodes(d.body) :
        /\ x.t = "Apply" /\ x.xs[1].t = "NameRef"
        /\ IF x.xs[1].n \in DOMAIN ScopedOp THEN OpOutside(d.grants, x.xs[1].n, x.xs[2])
           ELSE CalleeOutside(d.grants, x.xs[1].n)

-----------------------------------------------------------------------------
(***************************************************************************)
(* The verdicts.                                                           *)
(***************************************************************************)
\* check_bounded_decls: a definition of a class is in the class's set.
Exceeded(class, n) ==
  CASE class = "none"     -> n \in sets.alloc
    [] class = "fixed"    -> n \in sets.overfixed
    [] class = "budgeted" -> n \in sets.over
    [] class = "linear"   -> n \in sets.growing
    [] OTHER              -> FALSE

PunctualOf(c) == {c[i].name : i \in {j \in DOMAIN c : c[j].punctual}}
Punctual      == PunctualOf(chapter)

\* check-rt-no-lambda.
HoldsLambda(e) == \E x \in Nodes(e) : x.t = "Lambda"

\* check-rt-no-alloc.
RtAllocates(e) ==
  \E x \in Nodes(e) :
     \/ x.t = "NameRef" /\ x.n \in RtUnsafe
     \/ x.t \in {"Record", "List"}
     \/ x.t = "Binary" /\ (x.n[1] = "++" \/ (Appends(x) /\ x.n[2] \notin {"Boolean", "Error"}))

\* check-rt-calls: a call names its callee, and the callee is punctual or one
\* of a few builtins.
CallsUnsafe(e) ==
  \E x \in Nodes(e) :
     /\ x.t = "Apply"
     /\ \/ x.xs[1].t \notin {"NameRef", "Apply"}
        \/ x.xs[1].t = "NameRef" /\ x.xs[1].n \notin Punctual \cup RtSafe

\* The calls among punctual definitions: those each of them mentions, itself apart.
CallsOf(c) == [n \in PunctualOf(c) |-> (Mentioned(DefOf(c, n).body) \ {n}) \cap PunctualOf(c)]

\* One of the definitions left to look at; those it calls are left unless it was
\* visited.
ReachesBy(calls, todo, visited, target) ==
  /\ todo # {}
  /\ LET cur  == CHOOSE n \in todo : TRUE
         next == IF cur \in visited THEN {} ELSE calls[cur]
     IN  cur = target \/ Reaches(calls, (todo \ {cur}) \cup next, visited \cup {cur}, target)

\* Wrong: only a call straight back is looked for.
CyclicTwo(calls, n) == \E m \in calls[n] : n \in calls[m]

\* check-rt-cycles.
Cyclic(calls, n) == Reaches(calls, calls[n], {}, n)

Unpunctual(d) ==
  \/ HoldsLambda(d.body) \/ RtAllocates(d.body) \/ CallsUnsafe(d.body)
  \/ d.name \in Mentioned(d.body)
  \/ d.grants # {}
  \/ Cyclic(CallsOf(chapter), d.name)

\* applied-local-builtin (CDX3011): a local is applied that is a builtin too.
AppliesLocalBuiltinBy(e, locals) ==
  \/ /\ e.t = "Apply" /\ e.xs[1].t = "NameRef"
     /\ e.xs[1].n \in locals \cap DOMAIN AllocClass
  \/ \E i \in DOMAIN e.xs : AppliesLocalBuiltin(e.xs[i], locals \cup Binds(e, i))

Refused ==
  \E d \in ToSet(chapter) :
     \/ Exceeded(d.bounded, d.name)
     \/ d.punctual /\ Unpunctual(d)
     \/ OutOfScope(d)
     \/ AppliesLocalBuiltin(d.body, ToSet(d.params))

Judge ==
  /\ Closed
  /\ phase' = IF Refused THEN "refused" ELSE "judged"
  /\ UNCHANGED <<chapter, sets, round, stack, done, touched>>

-----------------------------------------------------------------------------
(***************************************************************************)
(* Runs of an accepted chapter, from a definition that promises something. *)
(* What a body does is taken in any order and as often as it likes: a      *)
(* promise holds of every branch.                                          *)
(***************************************************************************)
\* What evaluating an expression does, before it is known what the names stand
\* for: it mentions a name that is not local, applies one to arguments, puts an
\* item before a list (`::`), or allocates otherwise.  A function that came as a
\* value may do anything when it is applied.
Mention(n)           == [act |-> "mention", n |-> n]
Application(n, args) == [act |-> "apply", n |-> n, args |-> args]
Fresh                == [act |-> "fresh"]
Consing              == [act |-> "cons"]

OfOperator(op) == IF op \in Logic THEN {} ELSE IF op[1] = "::" THEN {Consing} ELSE {Fresh}

ActsBy(e, locals) ==
  LET OfParts == UNION {Acts(e.xs[i], locals \cup Binds(e, i)) : i \in DOMAIN e.xs}
  IN  CASE e.t = "NameRef" -> (IF e.n \in locals THEN {} ELSE {Mention(e.n)})
        [] e.t = "Apply" ->
             (IF Head1(e).t # "NameRef" THEN {Fresh} \cup Acts(Head1(e), locals)
              ELSE IF Head1(e).n \in locals THEN {Fresh}
              ELSE {Application(Head1(e).n, Args(e))})
             \cup UNION {Acts(Args(e)[i], locals) : i \in DOMAIN Args(e)}
        [] e.t \in {"List", "Record", "Lambda"} -> {Fresh} \cup OfParts
        [] e.t = "Binary" -> OfOperator(e.n) \cup OfParts
        [] OTHER -> OfParts

\* What comes of it: an allocation of some class, a call, or a resource touched.
Alloc(class) == [kind |-> class]
CallTo(n)    == [kind |-> "call", n |-> n]

\* A computed resource may be any.
Anywhere == <<>>

TouchBy(n, args) ==
  [kind |-> "touch", eff |-> ScopedOp[n],
   res  |-> IF n \in DOMAIN Channel THEN Channel[n]
            ELSE IF args # <<>> /\ args[1].t = "Lit" THEN OpResource(ScopedOp[n], args[1].n)
            ELSE Anywhere]

\* What applying a builtin does.
Uses(n, args) ==
  CASE n \in DOMAIN ScopedOp -> {TouchBy(n, args)}
    [] n \notin DOMAIN ScopedOp /\ Class(n) = "none" -> {}
    [] n \notin DOMAIN ScopedOp /\ Class(n) \in {"fixed", "budgeted"} -> {Alloc(Class(n))}
    [] n \notin DOMAIN ScopedOp /\ Class(n) = "budgetedBy" ->
         {Alloc(IF BudgetArg[n] \in DOMAIN args /\ args[BudgetArg[n]].t = "Lit" THEN "fixed" ELSE "input")}
    [] OTHER -> {Alloc("input")}

\* A mention runs a definition without parameters.
Outcomes(a) ==
  CASE a.act = "fresh"   -> {Alloc("input")}
    [] a.act = "cons"    -> {Alloc("cons")}
    [] a.act = "apply"   -> IF a.n \in Names THEN {CallTo(a.n)} ELSE Uses(a.n, a.args)
    [] a.act = "mention" ->
         IF a.n \in Names THEN (IF Named(a.n).params = <<>> THEN {CallTo(a.n)} ELSE {})
         ELSE IF a.n \in DOMAIN ScopedOp THEN {TouchBy(a.n, <<>>)} ELSE {}

DoesOf(n) == UNION {Outcomes(a) : a \in Acts(Named(n).body, ToSet(Named(n).params))}

Promises(d) == d.punctual \/ d.bounded # NoClass \/ \E l \in d.grants : l.scope # <<>>

Start ==
  /\ phase = "judged"
  /\ \E d \in ToSet(chapter) : Promises(d) /\ stack' = <<d.name>>
  /\ phase' = "running"
  /\ UNCHANGED <<chapter, sets, round, done, touched>>

Running == phase = "running" /\ stack # <<>>

\* A call.  A chain of calls longer than the chapter has repeated one.
Call ==
  /\ Running /\ Len(stack) <= Len(chapter)
  /\ \E a \in DoesOf(Last(stack)) : a.kind = "call" /\ stack' = Append(stack, a.n)
  /\ UNCHANGED <<chapter, phase, sets, round, done, touched>>

Allocate ==
  /\ Running
  /\ \E a \in DoesOf(Last(stack)) : a.kind \notin {"call", "touch"} /\ done' = done \cup {a.kind}
  /\ UNCHANGED <<chapter, phase, sets, round, stack, touched>>

Touch ==
  /\ Running
  /\ \E a \in DoesOf(Last(stack)) :
        a.kind = "touch" /\ touched' = touched \cup {[eff |-> a.eff, res |-> a.res]}
  /\ UNCHANGED <<chapter, phase, sets, round, stack, done>>

Return ==
  /\ Running
  /\ stack' = Front(stack)
  /\ UNCHANGED <<chapter, phase, sets, round, done, touched>>

Init ==
  /\ \E family \in Chapters : chapter \in family
  /\ phase = "reading" /\ sets = Empty /\ round = 0
  /\ stack = <<>> /\ done = {} /\ touched = {}

Next == Seed \/ Round \/ Judge \/ Start \/ Call \/ Allocate \/ Touch \/ Return

Spec == Init /\ [][Next]_vars

-----------------------------------------------------------------------------
(***************************************************************************)
(* What the constants are.                                                 *)
(***************************************************************************)
\* An expression is no part of itself.
ASSUME ExprAssumption ==
  \A e \in Expr :
    /\ e.xs \in Seq(Expr)
    /\ Nodes(e) = {e} \cup UNION {Nodes(e.xs[i]) : i \in DOMAIN e.xs}
    /\ IsFiniteSet(Nodes(e))
    /\ \A i \in DOMAIN e.xs : e \notin Nodes(e.xs[i])
    /\ e.t \in {"Lit", "NameRef"} => e.xs = <<>>
    /\ e.t = "Apply" => Len(e.xs) = 2 /\ \A i \in DOMAIN e.xs : Binds(e, i) = {}

Scope == Seq(STRING)
Grant == [eff : Seq(STRING) \ {<<>>}, scope : Scope]

\* No name is defined twice (name_rules.rs, duplicates).
ASSUME ChaptersAssumption ==
  \A family \in Chapters : \A c \in family :
    /\ DOMAIN c = 1 .. Len(c) /\ Len(c) \in Nat
    /\ \A i, j \in DOMAIN c : c[i].name = c[j].name => i = j
    /\ \A i \in DOMAIN c :
          /\ c[i].body \in Expr
          /\ LocalsOf(c[i]) \subseteq Local
          /\ c[i].grants \in SUBSET Grant

\* The safe builtins allocate nothing (BUILTIN_ALLOC, builtins.rs), and of the
\* binary operators only `++`, `&` and `::` make anything (interp.rs, binary).
ASSUME BuiltinsAssumption ==
  /\ \A n \in RtSafe \cap DOMAIN AllocClass : AllocClass[n] = "none"
  /\ RtSafe \cap DOMAIN ScopedOp = {}
  /\ \A e \in Expr : e.t = "Binary" =>
        e.n \in Logic \/ e.n[1] \in {"++", "::"} \/ (Appends(e) /\ e.n[2] \notin {"Boolean", "Error"})

\* An operation performs one effect; those on the network are given a URL, and
\* the port of a scheme is a word like any other.
ASSUME EffectsAssumption ==
  /\ {"443", "80"} \subseteq STRING
  /\ \A n \in DOMAIN ScopedOp : ScopedOp[n] \in Seq(STRING) /\ Len(ScopedOp[n]) = 2
  /\ \A n \in DOMAIN Channel \cap DOMAIN ScopedOp : Channel[n] \in Scope /\ ScopedOp[n][1] = "Console"
  /\ \A e \in Expr :
        e.t = "Apply" /\ e.xs[1].t = "NameRef" /\ e.xs[1].n \in DOMAIN ScopedOp /\ e.xs[2].t = "Lit" =>
          /\ e.xs[2].n \in Scope
          /\ ScopedOp[e.xs[1].n][1] = "Network" => Len(e.xs[2].n) \in {2, 3}

\* The walks are their recursive equations.
ASSUME SpineAssumption ==
  \A e \in Expr : Head1(e) = HeadBy(e) /\ Args(e) = ArgsBy(e) /\ (RhsAllocates(e) <=> RhsAllocatesBy(e))

ASSUME GrowsAssumption ==
  \A family \in Chapters : \A c \in family : \A i \in DOMAIN c : \A e \in Nodes(c[i].body) :
    Grows(e, c[i].name, c[i].params) <=> GrowsBy(e, c[i].name, c[i].params)

ASSUME CostAssumption ==
  \A names \in UNION {{NamesOf(c) : c \in family} : family \in Chapters} : \A e \in Expr : \A known \in SUBSET names :
    /\ Allocates(e, known, names) <=> AllocatesBy(e, known, names)
    /\ \A strict \in BOOLEAN : Overbudget(e, known, strict, names) <=> OverbudgetBy(e, known, strict, names)

ASSUME ReachesAssumption ==
  \A calls \in UNION {{CallsOf(c) : c \in family} : family \in Chapters} :
  \A todo, visited \in SUBSET DOMAIN calls : \A target \in DOMAIN calls :
    Reaches(calls, todo, visited, target) <=> ReachesBy(calls, todo, visited, target)

ASSUME LocalsAssumption ==
  \A e \in Expr : \A locals \in SUBSET Local :
    /\ AppliesLocalBuiltin(e, locals) <=> AppliesLocalBuiltinBy(e, locals)
    /\ Acts(e, locals) = ActsBy(e, locals)

-----------------------------------------------------------------------------
(***************************************************************************)
(* What the judgements promise.                                            *)
(***************************************************************************)
TypeOK ==
  /\ phase \in {"reading", "closing", "judged", "refused", "running"}
  /\ \A k \in DOMAIN Empty : sets[k] \subseteq Names
  /\ round \in 0 .. Len(chapter)
  /\ ToSet(stack) \subseteq Names

\* The definitions that mentions lead from to one of a set: what the set is
\* contained in however far the mentions go.
LeadingTo(seed) ==
  LET Shut(T) == seed \subseteq T /\ \A d \in ToSet(chapter) : MentionsAny(d, T) => d.name \in T
  IN  {n \in Names : \A T \in SUBSET Names : Shut(T) => n \in T}

\* The rounds end with every definition that reaches one of the seeds, and no
\* other (cost.rs, close: "One pass per definition is enough").
RoundsReachAll == Closed => \A k \in DOMAIN Seeds : sets[k] = LeadingTo(Seeds[k])

\* No local has the name of a definition: the judgements read a name without
\* asking what is bound.
Unshadowed == \A d \in ToSet(chapter) : LocalsOf(d) \cap Names = {}

\* What is named like a safe builtin is one, or a definition: a few of the names
\* counted safe are no builtins (cost.rs:29), and a local that has one is taken
\* for a builtin.
SafeIsBuiltin ==
  \A d \in ToSet(chapter) : Mentioned(d.body) \cap RtSafe \subseteq Names \cup DOMAIN AllocClass

\* What was allocated otherwise than by `::`, which neither judgement counts
\* (cost.rs, binop_allocates; punctual.rs, no_alloc).
Counted == done \ {"cons"}

CostKept(d) ==
  /\ d.bounded = "none" => Counted = {}
  /\ d.bounded = "fixed" => Counted \subseteq {"fixed"}
  /\ d.bounded = "budgeted" => Counted \subseteq {"fixed", "budgeted"}

\* What a definition performs it declares (settled by the rows of the checker).
EffectsDeclared ==
  \A d \in ToSet(chapter) : \A n \in Mentioned(d.body) :
     /\ n \in DOMAIN ScopedOp => HasGrant(d.grants, ScopedOp[n])
     /\ n \in Names => \A l \in Named(n).grants : HasGrant(d.grants, l.eff)

\* Whatever performs is applied where it is mentioned, and by its name: the lint
\* looks at nothing else.
Performer(e) ==
  e.t = "NameRef" /\ (e.n \in DOMAIN ScopedOp \/ (e.n \in Names /\ Named(e.n).grants # {}))

PerformersApplied ==
  \A d \in ToSet(chapter) :
     /\ ~Performer(d.body)
     /\ \A e \in Nodes(d.body) : \A i \in DOMAIN e.xs : Performer(e.xs[i]) => e.t = "Apply" /\ i = 1

\* No definition has the name of an operation: the lint would take it for one.
OperationsKept == Names \cap DOMAIN ScopedOp = {}

\* A definition others call names the ports of its scopes: one that leaves the
\* port open is taken for a host, and passes for any port of the caller's.
PortsNamed ==
  \A d, c \in ToSet(chapter) :
     d # c /\ d.name \in Mentioned(c.body) => \A l \in d.grants : l.eff[1] = "Network" => Len(l.scope) # 1

\* What a resource lies in: the directories on its way, a port's host.
Within(eff, res) ==
  CASE eff[1] = "Network" -> {SubSeq(res, 1, i) : i \in DOMAIN res}
    [] eff[1] = "Console" -> {res}
    [] OTHER -> {SubSeq(res, 1, i) : i \in {i \in DOMAIN res : i = Len(res) \/ "/" \in {res[i], res[i + 1]}}}

\* A grant covers the effect, and the resource lies in it.
ScopesKept(d) ==
  \A t \in touched : \E l \in d.grants :
     CoveredBy(l.eff, t.eff) /\ (l.scope = <<>> \/ l.scope \in Within(t.eff, t.res))

\* Apart from the lists that `::` builds, a run of an accepted chapter allocates
\* no more than the definition it starts from declares (cost.rs,
\* check_bounded_decls); and it touches nothing outside the scopes that
\* definition's signature grants (effect_scope.rs), whatever it calls.
PromisesKept ==
  phase = "running" /\ stack # <<>> /\ Unshadowed /\ SafeIsBuiltin =>
    LET d == Named(stack[1])
    IN  /\ CostKept(d)
        /\ EffectsDeclared /\ PerformersApplied /\ OperationsKept /\ PortsNamed => ScopesKept(d)

\* A punctual definition mentions no definition that is not: what it calls is
\* looked at, what it mentions without calling is not.
MentionsPunctual ==
  \A d \in ToSet(chapter) : d.punctual => Mentioned(d.body) \cap Names \subseteq Punctual

\* A run from a punctual definition calls no deeper than there are punctual
\* definitions, so it ends, and allocates nothing but lists with `::`
\* (punctual.rs).
PunctualRunsEnd ==
  phase = "running" /\ stack # <<>> /\ Unshadowed /\ SafeIsBuiltin /\ MentionsPunctual =>
    (Named(stack[1]).punctual => Counted = {} /\ Len(stack) <= Cardinality(Punctual))

=============================================================================
