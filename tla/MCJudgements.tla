---------------------------- MODULE MCJudgements ----------------------------
(***************************************************************************)
(* Chapters for `Judgements`: three definitions with bodies that allocate, *)
(* call, mention and recurse in every way the judgements tell apart; and   *)
(* chains of four that take as many rounds as there are definitions; and   *)
(* definitions that grant effects over scopes and call each other.         *)
(***************************************************************************)
EXTENDS Judgements

Walks == INSTANCE Syntax

f == <<"f">>
g == <<"g">>
h == <<"h">>
k == <<"k">>
x == <<"x">>
abs == <<"abs">>
show == <<"show">>
sub == <<"substring">>
join == <<"join">>
box == <<"box">>
push == <<"list-push">>
at   == <<"text-at">>    \* counted safe, and no builtin

MCAllocClass == [n \in {abs, show, sub, join, box, push} |->
  CASE n = abs -> "none" [] n = box -> "fixed" [] n = show -> "budgeted" [] n = sub -> "budgetedBy" [] OTHER -> "input"]
MCBudgetArg == [n \in {sub} |-> 2]
MCRtSafe    == {abs, at}
MCRtUnsafe  == {push}
MCNoClass   == "no class"
Plus        == <<"+", "Integer">>
MCLogic     == {Plus, <<"&", "Boolean">>}

One == Lit(<<"1">>)
X   == Ref(x)
Copy(type, e) == Binary(<<"&", type>>, X, e)
Before(e, list) == Binary(<<"::", "List">>, e, list)

\* What f may do.
Bodies ==
  {X, Apply(Ref(g), X), Apply(Ref(h), Apply(Ref(g), X)), Ref(h),
   Apply(Ref(f), X), Apply(Ref(f), Copy("Text", Apply(Ref(g), X))), Apply(Ref(f), Copy("Text", One)),
   Apply(Ref(f), Copy("List", List(<<X>>))), Apply(Ref(f), Copy("List", List(<<>>))),
   Apply(Ref(f), Copy("List", X)), Apply(Ref(f), Copy("Text", Field(X))), Apply(Ref(g), Copy("Text", X)),
   Apply(Ref(abs), X), Apply(Ref(show), X), Apply(Ref(box), X), Apply(Ref(push), X), Ref(push),
   Apply(Apply(Ref(sub), X), One), Apply(Apply(Ref(sub), One), X), Apply(Ref(sub), X),
   Apply(X, One), Apply(If(X, Ref(g), Ref(h)), One), Apply(Ref(g), Ref(h)), Apply(Ref(abs), Ref(g)),
   Lambda(<<x>>, X), Lambda(<<abs>>, Apply(Ref(abs), One)), Lambda(<<g>>, Apply(Ref(g), One)), List(<<X>>),
   Record(<<"R">>, <<X>>), Copy("Text", One), Binary(<<"++", "Text">>, X, X),
   Before(One, Apply(Ref(g), X)), Apply(Ref(f), Before(One, X)),
   Let(<<g>>, <<Ref(h)>>, Apply(Ref(g), X)), Let(<<k>>, <<Apply(Ref(g), One)>>, Ref(k)),
   Let(<<at>>, <<Ref(h)>>, Apply(Ref(at), One)), Negate(Apply(Ref(show), X)),
   If(X, One, Apply(Ref(f), X)), Match(X, <<Arm(<<k>>, One, Apply(Ref(h), Ref(k)))>>),
   Act(<<NoName>>, <<Apply(Ref(g), X)>>), Binary(Plus, Apply(Ref(g), X), One),
   Handle(Apply(Ref(g), X), <<Clause(<<k>>, One)>>)}

\* What g may do, and h.
Callees == {X, Apply(Ref(h), X), Apply(Ref(f), X), Apply(Ref(show), X), Apply(Ref(box), X), Apply(X, One), Ref(h), Before(One, X),
            Apply(Ref(g), Copy("Text", Apply(Ref(h), X)))}
Bottoms == {Apply(Ref(abs), One), Apply(Ref(f), One), Apply(Ref(join), One)}

D(name, params, body, bounded, punctual) ==
  [name |-> name, params |-> params, body |-> body, bounded |-> bounded, punctual |-> punctual, grants |-> {}]

Promised == {"none", "fixed", "budgeted", "linear"}

\* h has a parameter or is a constant.
Bounded(a) ==
  {<<D(f, <<x>>, a, c, FALSE), D(g, <<x>>, b, MCNoClass, FALSE), D(h, p, e, MCNoClass, FALSE)>> :
     b \in Callees, e \in Bottoms, p \in {<<>>, <<x>>}, c \in Promised}

Timed(a) ==
  {<<D(f, <<x>>, a, MCNoClass, TRUE), D(g, <<x>>, b, MCNoClass, q), D(h, p, e, MCNoClass, r)>> :
     b \in Callees, e \in Bottoms, p \in {<<>>, <<x>>}, q \in BOOLEAN, r \in BOOLEAN}

\* Chains, in every order of definition.
Link(n) ==
  CASE n = f -> Apply(Ref(g), X) [] n = g -> Apply(Ref(h), X) [] n = h -> Apply(Ref(k), X)
    [] n = k -> If(X, Apply(Ref(k), Copy("Text", Apply(Ref(show), X))), X)

Chained(order) == [i \in 1 .. 4 |-> D(order[i], <<x>>, Link(order[i]), "growing", FALSE)]

Orders == {o \in [1 .. 4 -> {f, g, h, k}] : \A i, j \in 1 .. 4 : o[i] = o[j] => i = j}

-----------------------------------------------------------------------------
\* Operations of each kind of resource.
readFile  == <<"read-file">>
writeFile == <<"write-file">>
fetch     == <<"fetch">>
printLine == <<"print-line">>
printErr  == <<"print-error">>

Files   == <<"FileSystem">>
Reading == <<"FileSystem", "Read">>
Writing == <<"FileSystem", "Write">>
Fetching == <<"Network", "Read">>
Printing == <<"Console", "Write">>

MCScopedOp == [n \in {readFile, writeFile, fetch, printLine, printErr} |->
  CASE n = readFile -> Reading [] n = writeFile -> Writing [] n = fetch -> Fetching [] OTHER -> Printing]
MCChannel == [n \in {printLine, printErr} |-> IF n = printLine THEN <<"stdout">> ELSE <<"stderr">>]

Over(eff, scope) == [eff |-> eff, scope |-> scope]

A    == <<"a">>
AS   == <<"a", "/">>
AB   == <<"a", "b">>
ASB  == <<"a", "/", "b">>
Host(port) == <<"host", port>>

\* What a signature may grant, a family of effects at a time.
FileGrants ==
  {{Over(Reading, A)}, {Over(Reading, AS)}, {Over(Files, A)}, {Over(Reading, <<>>)}, {Over(Reading, ASB)},
   {Over(Reading, AB), Over(Writing, ASB)}, {Over(Reading, A), Over(Writing, AB)}}
NetGrants     == {{Over(Fetching, <<"host">>)}, {Over(Fetching, Host("443"))}, {Over(Fetching, Host("80"))}, {Over(Fetching, <<>>)}}
ConsoleGrants == {{Over(Printing, <<"stdout">>)}, {Over(<<"Console">>, <<"stderr">>)}, {Over(Printing, <<>>)},
                  {Over(Printing, <<"stdout">>), Over(Reading, AS)}}

\* What a definition may do with its operation, and how it may call another.
Performs(op, texts) == {Apply(Ref(op), Lit(p)) : p \in texts} \cup {Apply(Ref(op), X)}
Calls(n) == {Apply(Ref(n), X), Ref(n), Let(<<k>>, <<Ref(n)>>, Apply(Ref(k), One))}

FileBodies == Performs(readFile, {A, AB, ASB}) \cup Performs(writeFile, {ASB})
NetBodies  == Performs(fetch, {<<"https", "host">>, <<"http", "host">>, <<"https", "host", "80">>, <<"https", "other">>})
ConsoleBodies == {Apply(Ref(printLine), X), Apply(Ref(printErr), X), Ref(printErr), Apply(Ref(readFile), Lit(ASB))}

DS(name, params, body, grants) == [D(name, params, body, MCNoClass, FALSE) EXCEPT !.grants = grants]

Scoped(grants, bodies, ownGrants, own) ==
  {<<DS(f, <<x>>, a, p), DS(g, q, b, r), DS(h, <<x>>, own, ownGrants)>> :
     a \in Calls(g), b \in bodies \cup {Apply(Ref(h), X), Ref(h)}, p \in grants, r \in grants, q \in {<<>>, <<x>>}}

Alone(grants, bodies) == {<<DS(f, <<x>>, a, p)>> : a \in bodies, p \in grants}

InScope ==
  {Scoped(FileGrants, FileBodies, {Over(Reading, ASB)}, Apply(Ref(readFile), Lit(ASB))),
   Scoped(NetGrants, NetBodies, {Over(Fetching, Host("443"))}, Apply(Ref(fetch), Lit(<<"https", "host">>))),
   Scoped(ConsoleGrants, ConsoleBodies, {Over(Printing, <<"stdout">>)}, Apply(Ref(printLine), X)),
   Alone(FileGrants, FileBodies), Alone(NetGrants, NetBodies), Alone(ConsoleGrants, ConsoleBodies)}

AllBodies ==
  Bodies \cup Callees \cup Bottoms \cup {Link(n) : n \in {f, g, h, k}}
  \cup FileBodies \cup NetBodies \cup ConsoleBodies \cup Calls(g) \cup Calls(h)
  \cup {Apply(Ref(fetch), Lit(<<"https", "host">>))}

MCChapters ==
  {Bounded(a) : a \in Bodies} \cup {Timed(a) : a \in Bodies} \cup {{Chained(o) : o \in Orders}} \cup InScope

-----------------------------------------------------------------------------
\* The walks, each written out with its recursion: the assumptions compare them
\* with the equations.
MCNodes(e)   == ToSet(Walks!Under(e))
MCBinds(e, i) == Walks!ResolverBinds(e, i)

MCExpr == UNION {MCNodes(e) : e \in AllBodies}

MCLocal == {x, k, g, abs, at}

RECURSIVE MCHead1(_)
MCHead1(e) == IF e.t = "Apply" THEN MCHead1(e.xs[1]) ELSE e

RECURSIVE MCArgs(_)
MCArgs(e) == IF e.t = "Apply" THEN Append(MCArgs(e.xs[1]), e.xs[2]) ELSE <<>>

RECURSIVE MCRhsAllocates(_)
MCRhsAllocates(e) ==
  CASE e.t \in {"Lit", "NameRef"} -> FALSE
    [] e.t = "Field"              -> MCRhsAllocates(e.xs[1])
    [] OTHER                      -> TRUE

RECURSIVE MCGrows(_, _, _)
MCGrows(e, me, params) ==
  \/ e.t = "Apply" /\ Head1(e) = Ref(me) /\ CallGrows(Args(e), params)
  \/ \E i \in Children(e) : MCGrows(e.xs[i], me, params)

RECURSIVE MCAllocates(_, _, _)
MCAllocates(e, allocating, names) ==
  CASE e.t = "Lit"     -> FALSE
    [] e.t = "NameRef" -> e.n \in RtUnsafe \cup allocating
    [] e.t = "Apply"   -> \/ HeadAllocates(Head1(e), allocating, names)
                          \/ \E i \in DOMAIN e.xs : MCAllocates(e.xs[i], allocating, names)
    [] e.t \in SeenThrough -> \/ BinopAllocates(e)
                              \/ \E i \in DOMAIN e.xs : MCAllocates(e.xs[i], allocating, names)
    [] OTHER -> TRUE

RECURSIVE MCOverbudget(_, _, _, _)
MCOverbudget(e, over, strict, names) ==
  CASE e.t = "Lit"     -> FALSE
    [] e.t = "NameRef" -> e.n \in RtUnsafe \cup over
    [] e.t = "Apply"   -> \/ HeadOverbudget(Head1(e), Args(e), over, strict, names)
                          \/ \E i \in DOMAIN Args(e) : MCOverbudget(Args(e)[i], over, strict, names)
    [] e.t \in SeenThrough -> \/ BinopAllocates(e)
                              \/ \E i \in DOMAIN e.xs : MCOverbudget(e.xs[i], over, strict, names)
    [] OTHER -> TRUE

RECURSIVE MCReaches(_, _, _, _)
MCReaches(calls, todo, visited, target) ==
  /\ todo # {}
  /\ LET cur  == CHOOSE n \in todo : TRUE
         next == IF cur \in visited THEN {} ELSE calls[cur]
     IN  cur = target \/ MCReaches(calls, (todo \ {cur}) \cup next, visited \cup {cur}, target)

RECURSIVE MCAppliesLocalBuiltin(_, _)
MCAppliesLocalBuiltin(e, locals) ==
  \/ /\ e.t = "Apply" /\ e.xs[1].t = "NameRef"
     /\ e.xs[1].n \in locals \cap DOMAIN AllocClass
  \/ \E i \in DOMAIN e.xs : MCAppliesLocalBuiltin(e.xs[i], locals \cup Binds(e, i))

RECURSIVE MCActs(_, _)
MCActs(e, locals) ==
  LET OfParts == UNION {MCActs(e.xs[i], locals \cup Binds(e, i)) : i \in DOMAIN e.xs}
  IN  CASE e.t = "NameRef" -> (IF e.n \in locals THEN {} ELSE {Mention(e.n)})
        [] e.t = "Apply" ->
             (IF Head1(e).t # "NameRef" THEN {Fresh} \cup MCActs(Head1(e), locals)
              ELSE IF Head1(e).n \in locals THEN {Fresh}
              ELSE {Application(Head1(e).n, Args(e))})
             \cup UNION {MCActs(Args(e)[i], locals) : i \in DOMAIN Args(e)}
        [] e.t \in {"List", "Record", "Lambda"} -> {Fresh} \cup OfParts
        [] e.t = "Binary" -> OfOperator(e.n) \cup OfParts
        [] OTHER -> OfParts

=============================================================================
