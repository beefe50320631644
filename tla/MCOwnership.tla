---------------------------- MODULE MCOwnership ----------------------------
(***************************************************************************)
(* Bodies for Ownership, built from few shapes nested two and three deep.  *)
(***************************************************************************)
EXTENDS Ownership

MCNames == {"v", "h"}

MCSigs == ("eat" :> [linear |-> <<TRUE>>, gives |-> "plain"])
       @@ ("peek" :> [linear |-> <<FALSE>>, gives |-> "plain"])
       @@ ("two" :> [linear |-> <<TRUE, TRUE>>, gives |-> "plain"])
       @@ ("acquire" :> [linear |-> <<FALSE>>, gives |-> "linear"])
       @@ ("thread" :> [linear |-> <<FALSE>>, gives |-> "mutable"])
       @@ ("cell" :> [linear |-> <<>>, gives |-> "mutable"])

N(n) == [kind |-> "Name", name |-> n]
Lit == [kind |-> "Lit"]
Call(f, args) == [kind |-> "Apply", head |-> N(f), args |-> args]
If(c, a, b) == [kind |-> "If", cond |-> c, yes |-> a, no |-> b]
Plus(a, b) == [kind |-> "Binary", left |-> a, right |-> b, shortcut |-> FALSE]
And(a, b) == [kind |-> "Binary", left |-> a, right |-> b, shortcut |-> TRUE]
Let(n, x, e) == [kind |-> "Let", binds |-> <<[name |-> n, value |-> x]>>, body |-> e]
Fn(ps, e) == [kind |-> "Lambda", shadows |-> ps, body |-> e]
Arm(ps, g, e) == [shadows |-> ps, guard |-> g, body |-> e]
When(x, arms) == [kind |-> "Match", scrut |-> x, arms |-> arms]
ListOf(es) == [kind |-> "List", items |-> es]
Rec(es) == [kind |-> "Record", items |-> es]
Of(k, e) == [kind |-> k, of |-> e]
Set(e, x) == [kind |-> "Assign", of |-> e, value |-> x]
Do(e) == [name |-> "", value |-> e]
Get(n, e) == [name |-> n, value |-> e]
Act(ss) == [kind |-> "Act", stmts |-> ss]
Try(ss, f, g) == [kind |-> "Try", stmts |-> ss, fallback |-> f, failure |-> g]
Handle(e, cl) == [kind |-> "Handle", of |-> e, clauses |-> <<cl>>]

v == N("v")
h == N("h")

Simple == {Lit, v, h, Call("eat", <<v>>), Call("eat", <<h>>), Call("peek", <<v>>),
           Call("two", <<v, h>>), Call("thread", <<v>>), Call("thread", <<h>>),
           Of("Field", v), Of("Field", h), Call("h", <<Lit>>)}

Few == {Lit, v, Call("eat", <<v>>), Call("eat", <<h>>), Call("thread", <<h>>), Call("h", <<Lit>>)}

Bound == Few \cup {Fn({}, Call("eat", <<v>>)), Fn({}, v), Fn({"v"}, v), Call("two", <<v>>),
                   ListOf(<<v>>), Rec(<<Lit, v>>), ListOf(<<Fn({}, v)>>), Call("acquire", <<Lit>>),
                   Call("thread", <<Lit>>), N("cell"), Rec(<<ListOf(<<v>>), Call("eat", <<v>>)>>),
                   Fn({}, Plus(v, v)), Rec(<<Fn({}, v)>>)}

Joins(es) == {If(c, a, b) : c \in {Lit, Call("eat", <<v>>)}, a \in es, b \in es}
               \cup {Plus(a, b) : a \in es, b \in es}
               \cup {And(a, b) : a \in es, b \in es}

Blocks(es) == {Act(<<Do(a), Do(b)>>) : a \in es, b \in es}
                \cup {Act(<<Get("h", a), Do(b)>>) : a \in es, b \in es}

Whens(es) == {When(Lit, <<Arm({}, g, a), Arm(ps, Lit, b)>>) :
                g \in {Lit, Of("Unary", Lit), Call("eat", <<v>>)}, a \in es, b \in es,
                ps \in {{}, {"v"}, {"h"}}}

Lets(xs, es) == {Let(n, x, e) : n \in {"h", "v"}, x \in xs, e \in es}

Odd == {Call("peek", <<Fn({}, Call("eat", <<v>>))>>), Act(<<>>), When(v, <<>>),
        Fn({}, v), Act(<<Get("h", Call("acquire", <<Lit>>))>>),
        Try(<<Do(v)>>, <<Do(v)>>, <<>>), Of("Timeout", v), Of("Lazy", v),
        Handle(v, [shadows |-> {"h"}, body |-> v]),
        [kind |-> "Apply", head |-> Fn({}, Call("eat", <<v>>)), args |-> <<Lit>>]}
         \cup {Set(a, b) : a \in {v, h}, b \in {Lit, v}}

MCBodies ==
  Simple \cup Bound \cup Odd \cup Joins(Simple) \cup Blocks(Few) \cup Whens(Few)
    \cup Lets(Bound, Simple \cup Joins(Few) \cup Blocks(Few) \cup Whens({v, h, Call("eat", <<h>>)}))
    \cup Lets({v, Fn({}, Call("eat", <<v>>)), Call("acquire", <<Lit>>)},
              Lets({h, v, Rec(<<h>>), Call("two", <<h>>)}, Few))
    \cup Blocks(Lets({v, Call("acquire", <<Lit>>)}, {Lit, h, Call("eat", <<h>>)})
                  \cup {Call("eat", <<h>>), Call("eat", <<v>>)})
    \cup {If(Lit, a, b) : a \in Lets({v, Rec(<<v>>)}, Few), b \in Few}

\* Bodies in which a let is a statement that others follow: the parameter, or
\* an owner made there, is used in the let and once more after it.
LetStatements ==
  {Act(<<Do(Let("h", x, Call("eat", <<h>>))), Do(s)>>) :
     x \in {v, Call("acquire", <<Lit>>)}, s \in {Lit, Call("eat", <<h>>)}}

=============================================================================
