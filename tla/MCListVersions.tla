--------------------------- MODULE MCListVersions ---------------------------
(* Chapters of a main and one function, or two, over lists of two numbers. *)
EXTENDS ListVersions

Lit(n) == [kind |-> "Lit", n |-> n]
L(n) == Name(n, TRUE)
V(n) == Name(n, FALSE)
Set(xs, i, x) == Call(V("list-set-at"), <<xs, Lit(i), x>>)
At(xs, i) == Call(V("list-at"), <<xs, Lit(i)>>)
If(c, a, b) == [kind |-> "If", cond |-> c, yes |-> a, no |-> b]
Plus(a, b) == [kind |-> "Binary", left |-> a, right |-> b, shortcut |-> FALSE]
And(a, b) == [kind |-> "Binary", left |-> a, right |-> b, shortcut |-> TRUE]
LetL(n, x, e) == [kind |-> "Let", name |-> n, list |-> TRUE, value |-> x, body |-> e]
LetV(n, x, e) == [kind |-> "Let", name |-> n, list |-> FALSE, value |-> x, body |-> e]
ListOf(es) == [kind |-> "List", items |-> es]
Rec(es) == [kind |-> "Record", items |-> es]
Field(e) == [kind |-> "Field", of |-> e, at |-> 1]
Fn(e) == [kind |-> "Lambda", params |-> <<[name |-> "u", list |-> FALSE]>>, body |-> e]
Arm(any, k, g, e) == [names |-> <<"p">>, any |-> any, number |-> k, guard |-> g, body |-> e]
When(x, arms) == [kind |-> "Match", scrut |-> x, arms |-> arms]
Act(ss) == [kind |-> "Act", stmts |-> ss]
Do(e) == [name |-> "", value |-> e]
Get(n, e) == [name |-> n, value |-> e]
Param(n, list) == [name |-> n, list |-> list]
Def(params, list, body) == [params |-> params, list |-> list, body |-> body]

xs == L("xs")
ys == L("ys")
i == V("i")
n == V("n")
minus == Plus(i, Lit(-1))
F(a, b) == Call(V("f"), <<a, b>>)

\* Bodies of f, which is given a list xs and a number i, and answers a list or a
\* number.
ListBodies ==
  { xs, Set(xs, 0, i), LetL("a", Set(xs, 0, i), L("a")), If(i, Set(xs, 0, i), xs),
    If(i, F(Set(xs, 0, i), minus), xs), If(i, LetL("a", Set(xs, 0, i), F(xs, minus)), xs),
    LetL("a", ListOf(<<i, i>>), LetL("b", Set(xs, 0, i), L("a"))),
    If(i, ListOf(<<i, i>>), Set(xs, 1, Lit(2))),
    LetL("a", If(i, F(xs, minus), xs), Set(L("a"), 1, i)),
    When(i, <<Arm(FALSE, 1, Lit(1), Set(xs, 0, V("p"))), Arm(TRUE, 0, Lit(1), xs)>>),
    When(i, <<Arm(FALSE, 1, Set(xs, 0, i), xs), Arm(TRUE, 0, Lit(1), xs)>>),
    Field(Rec(<<xs, LetL("a", Set(xs, 0, i), i)>>)),
    [kind |-> "Guarded", of |-> Set(xs, 0, i)] }

NumberBodies ==
  { At(xs, 0), LetL("a", Set(xs, 0, i), i),
    If(i, LetL("a", Set(xs, 0, i), Lit(7)), At(xs, 0)), If(i, LetL("a", Set(xs, 0, i), F(xs, minus)), At(xs, 1)),
    If(i, LetV("a", F(xs, minus), LetL("b", Set(xs, 1, i), V("a"))), Lit(3)),
    If(i, Plus(F(xs, minus), At(Set(xs, 1, i), 0)), Lit(3)),
    LetL("a", xs, LetL("b", Set(L("a"), 0, i), At(xs, 0))),
    LetL("a", If(i, Set(xs, 0, Lit(1)), xs), LetL("b", Set(L("a"), 1, Lit(5)), At(xs, 1))),
    LetL("a", If(i, xs, xs), LetL("b", Set(L("a"), 1, Lit(5)), At(xs, 1))),
    And(i, At(Set(xs, 0, Lit(4)), 0)),
    Act(<<Do(LetL("a", Set(xs, 0, i), Lit(0))), Do(Lit(2))>>),
    LetV("r", Rec(<<xs>>), LetL("a", Set(xs, 0, i), At(Field(V("r")), 0))),
    LetV("g", Fn(At(xs, 0)), LetL("a", Set(xs, 0, i), Call(V("g"), <<Lit(0)>>))),
    LetV("g", Fn(At(Set(xs, 0, V("u")), 0)), Call(V("g"), <<i>>)) }

\* What main does with a list xs, a number n and f, whatever f answers, ...
Uses ==
  { LetV("c", F(xs, n), Plus(At(xs, 0), At(xs, 1))),
    LetL("c", xs, LetV("d", F(L("c"), n), xs)),
    LetV("c", If(n, F(xs, n), F(xs, n)), xs),
    LetV("c", If(n, LetV("d", F(xs, n), Lit(1)), Lit(2)), xs),
    LetV("c", Rec(<<xs>>), LetV("d", F(xs, n), At(xs, 0))),
    LetV("d", F(xs, n), Call(V("Keep"), <<xs>>)), LetV("c", Call(V("Keep"), <<xs>>), LetV("d", F(xs, n), xs)),
    LetV("c", Rec(<<xs>>), LetV("d", F(xs, n), At(Field(V("c")), 0))),
    LetV("g", Call(V("f"), <<xs>>), LetV("d", Call(V("g"), <<n>>), At(xs, 0))),
    LetV("g", V("f"), LetV("d", Call(V("g"), <<xs, n>>), At(xs, 0))),
    Act(<<Get("d", F(xs, n)), Do(At(xs, 0))>>),
    LetV("e", Act(<<Get("d", F(xs, n)), Do(Lit(1))>>), At(xs, 0)) }
\* ... a list, ...
ListUses ==
  { LetL("c", F(xs, n), LetL("d", Set(L("c"), 1, Lit(6)), xs)),
    Plus(At(F(xs, n), 0), At(xs, 0)), ListOf(<<At(xs, 0), F(xs, n), xs>>),
    LetL("c", F(F(xs, n), n), xs), ListOf(<<F(xs, n), F(xs, Lit(1))>>) }
\* ... or a number.
NumberUses ==
  { Plus(At(xs, 0), F(xs, n)), Plus(F(xs, n), At(xs, 0)), Set(xs, 1, F(xs, n)),
    ListOf(<<At(xs, 0), F(xs, n), xs>>), If(F(xs, n), xs, Set(xs, 1, Lit(9))) }

Number(k) == Param(k, FALSE)
List(k) == Param(k, TRUE)

Main(u) == Def(<<Number("n")>>, FALSE, LetL("xs", ListOf(<<Lit(0), Lit(0)>>), u))
Chapter(u, list, b) == ("main" :> Main(u)) @@ ("f" :> Def(<<List("xs"), Number("i")>>, list, b))

\* A second function g, between main and f, or around them: f calls g in turn.
G(a, b) == Call(V("g"), <<a, b>>)
Between(u, list, b, c) ==
  Chapter(u, list, c) @@ ("g" :> Def(<<List("xs"), Number("i")>>, list, b))

OuterUses == { LetV("c", G(xs, n), Plus(At(xs, 0), At(xs, 1))), LetV("c", If(n, G(xs, n), G(xs, Lit(1))), xs) }
Outers == { F(xs, i), LetV("a", F(xs, i), V("a")), LetV("a", F(xs, i), F(xs, Lit(0))), If(i, F(xs, minus), F(xs, i)) }
Inners == { Set(xs, 0, i), If(i, G(xs, minus), Set(xs, 1, Lit(3))), If(i, G(Set(xs, 0, i), minus), xs),
            LetL("a", Set(xs, 0, i), L("a")) }
NumberInners == { LetL("a", Set(xs, 0, i), i), If(i, G(xs, minus), At(Set(xs, 1, Lit(3)), 0)),
                  If(i, LetL("a", Set(xs, 0, i), G(xs, minus)), Lit(4)) }

\* A function of two lists.
Two(u, b) == ("main" :> Main(LetL("ys", ListOf(<<Lit(0), Lit(0)>>), u)))
               @@ ("h" :> Def(<<List("xs"), List("ys"), Number("i")>>, FALSE, b))
H(a, b, c) == Call(V("h"), <<a, b, c>>)
Both == Plus(At(xs, 0), Plus(At(xs, 0), At(ys, 0)))
TwoUses == { LetV("c", H(xs, ys, n), Both), LetV("c", H(ys, xs, n), Both), LetV("c", H(xs, xs, n), Both),
             LetV("c", If(n, H(xs, ys, n), H(ys, xs, Lit(2))), Both) }
TwoBodies == { LetL("a", Set(ys, 0, i), At(xs, 0)), LetL("a", Set(xs, 0, i), LetL("b", Set(ys, 0, Lit(9)), i)),
               If(i, LetL("a", Set(xs, 0, i), H(xs, ys, minus)), LetL("a", Set(ys, 0, Lit(9)), Lit(1))),
               If(i, LetL("a", Set(xs, 0, Lit(3)), H(ys, xs, minus)), LetL("b", Set(ys, 1, Lit(2)), Lit(1))) }

\* An arm that stores the list, and what is written after it.
Storing == { LetV("c", If(n, Rec(<<xs>>), Rec(<<ListOf(<<n, n>>)>>)), LetL("d", Set(xs, 0, n), At(Field(V("c")), 0))),
             LetV("c", Rec(<<xs>>), LetL("d", Set(Field(V("c")), 0, n), xs)) }

\* One applied to too few arguments: the rounds come round again.
Partial ==
  ("main" :> Main(LetL("c", Call(V("f"), <<xs>>), xs)))
    @@ ("f" :> Def(<<List("xs")>>, TRUE, LetV("h", Call(V("g"), <<Lit(0)>>), Set(xs, 0, Lit(1)))))
    @@ ("g" :> Def(<<Number("i"), List("xs")>>, TRUE, Call(V("f"), <<xs>>)))

MCChapters ==
  {Chapter(u, TRUE, b) : u \in Uses \cup ListUses, b \in ListBodies}
    \cup {Chapter(u, FALSE, b) : u \in Uses \cup NumberUses, b \in NumberBodies}
    \cup {Between(u, TRUE, b, c) : u \in OuterUses, b \in Outers, c \in Inners}
    \cup {Between(u, FALSE, b, c) : u \in OuterUses, b \in Outers, c \in NumberInners}
    \cup {Two(u, b) : u \in TwoUses, b \in TwoBodies}
    \cup {Chapter(u, TRUE, Set(xs, 0, i)) : u \in Storing}
    \cup {Partial}

=============================================================================
