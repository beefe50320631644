------------------------------- MODULE MCPasses -------------------------------
(***************************************************************************)
(* Chapters for `Passes`: helpers small enough to substitute, called under *)
(* every kind of binder and with names that collide; forwarders; lambdas   *)
(* that capture; blocks; and a builtin's name defined by the chapter.      *)
(***************************************************************************)
EXTENDS Passes

MCBuiltins == DOMAIN Builtins
MCBand == 0 .. 5

opening == <<"opening">>
f == <<"f">>
g == <<"g">>
h == <<"h">>
k == <<"k">>
w == <<"w">>
x == <<"x">>
y == <<"y">>
z == <<"z">>

Def(name, params, body)     == [name |-> name, params |-> params, body |-> body, bounded |-> FALSE, origin |-> "A"]
Checked(name, params, body) == [Def(name, params, body) EXCEPT !.bounded = TRUE]

Call1(n, a)    == Apply(Ref(n), a)
Call2(n, a, b) == Apply(Call1(n, a), b)
Call3(n, a, b, c) == Apply(Call2(n, a, b), c)
Plus(a, b)  == Binary(<<"+">>, a, b)
Minus(a, b) == Binary(<<"-">>, a, b)
Times(a, b) == Binary(<<"*">>, a, b)
Over(a, b)  == Binary(<<"/">>, a, b)
IsZero(a)   == Binary(<<"==">>, a, Num(0))
Let1(n, v, body) == Let(<<n>>, <<v>>, body)
Say(e) == Call1(<<"say">>, e)
Always == Bool(TRUE)

-----------------------------------------------------------------------------
(* A call of f in a place where x and y mean something. *)
Around(e) ==
  {e, Let1(x, Num(3), e), Let1(y, Num(2), Let1(x, Num(7), e)), Let1(f, Lambda(<<z>>, Num(9)), e),
   Apply(Lambda(<<x>>, e), Num(5)), Match(Num(4), <<Arm(<<x>>, IsZero(Ref(x)), Num(1)), Arm(<<x>>, Always, e)>>),
   Match(Num(4), <<Arm(<<x>>, IsZero(e), Num(1)), Arm(<<>>, Always, Num(8))>>),
   Act(<<x, NoName, NoName>>, <<Num(3), Say(e), e>>),
   Act(<<NoName, NoName>>, <<Let1(x, Num(2), Let1(x, Plus(Ref(x), Num(1)), Say(Ref(x)))), Plus(Ref(x), e)>>),
   Let(<<x, x>>, <<Num(1), Plus(Ref(x), Num(1))>>, e),
   Let1(g, Num(6), Plus(Ref(g), e)), Let1(z, Lambda(<<y>>, Plus(e, Ref(y))), Apply(Ref(z), Num(1)))}

Arguments == {Num(2), Negate(Num(1)), Ref(x), Ref(y), Ref(k), Plus(Num(1), Num(1)),
              Apply(Ref(<<"text-length">>), Text(<<7, 8>>))}

Bodies1 ==
  {Ref(x), Plus(Ref(x), Ref(x)), Minus(Ref(x), Times(Over(Ref(x), Num(2)), Num(2))),
   Minus(Ref(x), Times(Over(Ref(x), Num(2)), Num(3))),
   Over(Num(6), Ref(x)), If(IsZero(Ref(x)), Num(1), Ref(x)), Act(<<NoName, NoName>>, <<Say(Ref(x)), Ref(x)>>),
   Call1(g, Plus(Ref(x), Num(1))), Let1(y, Ref(x), Plus(Ref(y), Ref(k))), Lambda(<<y>>, Plus(Ref(x), Ref(y))),
   Plus(Plus(Plus(Plus(Plus(Plus(Ref(x), Num(1)), Num(1)), Num(1)), Num(1)), Num(1)), Num(1)),
   Negate(Ref(x))}

G == Def(g, <<y>>, If(IsZero(Ref(y)), Num(0), Times(Ref(y), Ref(k))))

Helpers ==
  {<<Def(opening, <<>>, around), d, G, Def(k, <<>>, Num(4))>> :
     around \in UNION {Around(Call1(f, a)) : a \in Arguments \ {Ref(x), Ref(y)}}
                \cup UNION {Around(Let1(y, Num(1), Call1(f, Let1(x, Num(3), Call1(f, a))))) : a \in {Ref(x), Ref(y), Negate(Ref(x))}}
                \cup UNION {Around(Let(<<x, y>>, <<Num(5), Num(3)>>, Call1(f, a))) : a \in {Ref(x), Ref(y)}},
     d \in {Def(f, <<x>>, body) : body \in Bodies1} \cup {Checked(f, <<x>>, Plus(Ref(x), Ref(x)))}}

\* Two parameters, and arguments that are each other's names.
Bodies2 == {Minus(Ref(x), Times(Over(Ref(x), Ref(y)), Ref(y))), Minus(Ref(x), Times(Ref(y), Over(Ref(x), Ref(y)))),
            Minus(Ref(x), Times(Over(Ref(x), Ref(y)), Ref(x))), Ref(y),
            If(IsZero(Ref(x)), Ref(y), Ref(x)), Call1(g, Minus(Ref(x), Ref(y))), Call1(Ref(x).n, Ref(y))}

Swapped ==
  {<<Def(opening, <<>>, Let(<<x, y>>, <<a, Num(2)>>, Plus(call, more))), Def(f, <<x, y>>, body), G,
     Def(k, <<>>, Num(4))>> :
     a \in {Num(7), Ref(g)}, call \in {Call2(f, Ref(y), Ref(x)), Call2(f, Ref(x), Ref(y)), Call2(f, Ref(x), Num(3))},
     more \in {Num(0), Call1(g, Num(1)), Apply(Let1(z, Apply(Ref(f), Ref(x)), Ref(z)), Num(1))}, body \in Bodies2}

\* A definition and its forwarder, which may be written in another chapter.
Arguments1 == {Times(Num(2), Num(2)), Num(5), Act(<<NoName, NoName>>, <<Say(Num(7)), Num(1)>>)}

ForwardingAs(n1, n2) ==
  {<<Def(opening, <<>>, Act(<<NoName, NoName>>, <<Say(Call2(f, Num(2), Num(1))), Call3(g, Num(1), Num(1), Num(1))>>)),
     Def(f, <<n1, n2>>, If(IsZero(Ref(n1)), Ref(n2), within)),
     [Def(g, <<w, x, y>>, Call2(f, Minus(Ref(x), Num(1)), fst)) EXCEPT !.origin = home, !.bounded = check]>> :
     within \in UNION {{Call3(g, a, b, Ref(n2)), Let1(x, Ref(n1), Call3(g, a, Ref(x), Ref(n2))),
                        Let1(g, Lambda(<<w, x, y>>, Ref(y)), Call3(g, a, b, Ref(n2)))} :
                         a \in Arguments1 \cup {Plus(Ref(n1), Num(1))}, b \in {Ref(n1), Plus(Ref(n2), Num(-1))}},
     fst \in {Plus(Ref(y), Num(1)), Ref(w), Ref(y)}, home \in {"A", "B"}, check \in BOOLEAN}

Ends(p) == p[2].body.xs[3].t = "Apply" => p[2].body.xs[3].xs[1].xs[2] # Plus(Ref(p[2].params[2]), Num(-1))

Forwarding == {p \in UNION {ForwardingAs(n1, n2) : n1 \in {x, z}, n2 \in {y, w}} : Ends(p)}

-----------------------------------------------------------------------------
(* Lambdas that capture, in every kind of place. *)
Captured == {Lambda(<<z>>, Plus(Ref(x), Ref(z))), Lambda(<<x>>, Plus(Ref(x), Ref(y))),
             Lambda(<<z>>, Apply(Lambda(<<w>>, Plus(Ref(w), Plus(Ref(x), Ref(z)))), Ref(y))),
             Lambda(<<z>>, Apply(Lambda(<<x>>, Plus(Ref(x), Ref(y))), Plus(Ref(x), Ref(z)))),
             Lambda(<<y, z>>, Minus(Ref(y), Ref(x))), Lambda(<<z>>, Let1(x, Plus(Ref(x), Num(1)), Times(Ref(x), Ref(z)))),
             Lambda(<<z>>, Act(<<x, NoName>>, <<Plus(Ref(y), Ref(z)), Plus(Ref(x), Ref(y))>>)),
             Lambda(<<z>>, Match(Ref(x), <<Arm(<<y>>, IsZero(Ref(y)), Ref(z)), Arm(<<w>>, Always, Plus(Ref(w), Ref(y)))>>)),
             Lambda(<<z>>, Call1(f, Plus(Ref(k), Ref(z))))}

Takes(e) == IF Len(e.ps) = 2 THEN Apply(e, Num(8)) ELSE e

Lambdas ==
  {<<Def(opening, <<>>, place), Def(f, <<x>>, Let1(h, Takes(inner), If(IsZero(Ref(x)), Num(0), Apply(Ref(h), Ref(y))))),
     Def(y, <<>>, Num(2)), Def(lam, <<x>>, Ref(x)), Def(k, <<>>, Call1(lam, Num(3)))>> :
     lam \in {<<"__lam_", "0">>, <<"__lam_", "1">>, h}, inner \in Captured \ {Lambda(<<z>>, Call1(f, Plus(Ref(k), Ref(z))))},
     place \in UNION {{Let(<<x, y>>, <<Num(5), Num(3)>>, Apply(Takes(e), Ref(y))),
                       Apply(Lambda(<<x, y>>, Plus(Apply(Takes(e), Ref(x)), Call1(f, Ref(y)))), Num(2)),
                       Match(Num(6), <<Arm(<<x>>, IsZero(Apply(Takes(e), Ref(x))), Num(1)), Arm(<<y>>, Always, Apply(Lambda(<<x>>, Apply(Takes(e), Ref(y))), Num(4)))>>),
                       Act(<<x, NoName, y, NoName>>, <<Num(5), Say(Ref(x)), Plus(Ref(x), Num(1)), Plus(Apply(Takes(e), Ref(y)), Num(1))>>)} : e \in Captured}}

-----------------------------------------------------------------------------
(* Blocks and handlers, of which only the names matter, and calls that the    *)
(* compiler works out, of builtins or of the chapter's definitions.           *)
Clauses == {Clause(<<z, w>>, Apply(Ref(w), Plus(Ref(z), Ref(x)))), Clause(<<w>>, Ref(x)),
            Clause(<<y, z, w>>, Let1(x, Ref(x), Plus(Ref(x), Ref(y))))}

Region(ps, es) == Act(ps, es)

Regions ==
  {Try(Region(<<a, NoName>>, <<Num(1), Ref(a)>>), Region(<<NoName>>, <<Ref(x)>>), Region(<<b, NoName>>, <<Num(2), Plus(Ref(b), Ref(x))>>)) :
     a \in {y, z}, b \in {w, f}}

Structures ==
  {<<Def(opening, <<>>, Apply(Lambda(<<x>>, e), Num(2))), Def(f, <<x>>, Lambda(<<y>>, Ref(y))), Def(y, <<>>, Num(2))>> :
     e \in Regions \cup {Handle(b, cs) : b \in {Ref(x), Let1(y, Num(3), Ref(y))},
                                         cs \in [1 .. 2 -> Clauses]}
           \cup {Let1(y, Num(3), Let1(z, Induction(Ref(x), <<Arm(<<>>, Always, Ref(y))>>), Ref(y))), List(<<Ref(x), Let1(x, Num(2), Ref(x))>>),
                 Record(<<"R">>, <<Ref(x), Ref(y)>>), Field(Let1(f, Num(2), Ref(f)))}}

OwnBuiltins ==
  {<<Def(opening, <<>>, Plus(a, b))>> \o own :
     a \in {Apply(Ref(<<"text-length">>), Text(<<7, 8>>)), Apply(Ref(<<"char-code">>), Char(13))},
     b \in {Call2(<<"char-code-at">>, Text(<<7, 8>>), i) : i \in {Num(0), Num(1), Num(2), Negate(Num(1))}},
     own \in {<<>>, <<Def(<<"text-length">>, <<x>>, Num(40))>>, <<Def(<<"char-code">>, <<x>>, Num(41))>>,
              <<Def(<<"char-code-at">>, <<x, y>>, Num(42))>>}}

-----------------------------------------------------------------------------
(* Loops, kept answers that are lists, and calls of more or fewer arguments   *)
(* than a function takes.                                                     *)
Loop(down) == Def(f, <<x, y>>, down)
Next1 == Call2(f, Minus(Ref(x), Num(1)), Plus(Ref(y), Ref(x)))

Loops ==
  {<<Def(opening, <<>>, open), Loop(down)>> :
     open \in {Call2(f, Num(9), Num(0)), Let1(x, Num(9), Plus(Num(1), Ref(x))), Let1(x, Num(9), Call2(f, Ref(x), Num(1)))},
     down \in {If(IsZero(Ref(x)), Ref(y), Next1),
               Let1(z, Plus(Ref(x), Num(-1)), If(IsZero(Ref(x)), Ref(y), Call2(f, Ref(z), Ref(z)))),
               Match(Ref(x), <<Arm(<<z>>, IsZero(Ref(z)), Ref(y)), Arm(<<>>, Always, Next1)>>),
               Act(<<z, NoName>>, <<Minus(Ref(x), Num(1)), If(IsZero(Ref(x)), Ref(y), Call2(f, Ref(z), Ref(y)))>>),
               Act(<<NoName, NoName>>, <<Let1(z, Minus(Ref(x), Num(1)), Num(0)), If(IsZero(Ref(x)), Ref(y), Call2(f, Ref(z), Ref(y)))>>)}}

Pushing(l, v) == Call2(<<"list-push">>, l, v)
Size(l)    == Call1(<<"list-length">>, l)
Item(l, i)   == Call2(<<"list-at">>, l, Num(i))
Storing(l, i, v) == Call3(<<"list-set-at">>, l, Num(i), v)
Peek == Call1(<<"peek-byte">>, Num(0))
Poke(v) == Call1(<<"poke-byte">>, v)

Writes1 == {Pushing(Ref(k), Num(3)), Pushing(Item(Ref(k), 0), Num(3)), Pushing(Ref(h), Num(3)), Storing(Ref(k), 0, Num(5)), Poke(Num(6)),
            Let1(x, Pushing(Ref(k), Num(1)), Pushing(Ref(x), Num(2))), Pushing(Pushing(Ref(k), Num(1)), Num(2))}

Kept ==
  {<<Def(opening, <<>>, Act(<<NoName, x, NoName, NoName, NoName>>, <<Say(Ref(seen)), w1, w2, Say(Ref(x)), Ref(seen)>>)),
     Def(k, <<>>, list), Def(h, <<>>, alias)>> :
     w1 \in Writes1, w2 \in {Pushing(Ref(k), Num(3)), Poke(Num(6))}, seen \in {k, h},
     list \in {List(<<>>), List(<<Num(1)>>), List(<<List(<<>>)>>), List(<<Peek>>), Peek, Act(<<NoName, NoName>>, <<Say(Num(1)), List(<<Num(1)>>)>>)},
     alias \in {Ref(k), List(<<Ref(k)>>), Plus(Peek, Num(1)), Let1(z, Ref(k), Ref(z))}}

Spines ==
  {<<Def(opening, <<>>, open), Def(f, <<x>>, Act(<<NoName, NoName>>, <<Say(Ref(x)), body>>)), Def(g, <<x, y>>, Minus(Ref(x), Ref(y)))>> :
     open \in {Call2(f, Num(1), Act(<<NoName, NoName>>, <<Say(Num(7)), Num(2)>>)), Call3(f, Num(1), Num(2), Num(3)),
               Let1(z, Call1(g, Num(8)), Plus(Apply(Ref(z), Num(1)), Apply(Ref(z), Num(2)))),
               Let1(z, Call1(f, Num(8)), Plus(Apply(Ref(z), Num(1)), Apply(Ref(z), Num(2)))),
               Call2(f, Call1(f, Num(4)), Num(2))},
     body \in {Ref(g), Lambda(<<x>>, Ref(x)), Lambda(<<x, x>>, Ref(x)), Lambda(<<y, x>>, Lambda(<<y>>, Minus(Ref(y), Ref(x)))),
               Call1(g, Ref(x)), Ref(x), Let1(x, Lambda(<<y>>, Plus(Ref(y), Ref(y))), Ref(x))}}

\* Arguments that print, named or written out.
Telling ==
  {<<Def(opening, <<>>, Call1(f, a)), Def(f, <<x>>, body), Def(k, <<>>, Act(<<NoName, NoName>>, <<Say(Num(7)), Num(4)>>))>> :
     a \in {Ref(k), Plus(Ref(k), Num(1)), Let1(y, Ref(k), Ref(y))},
     body \in {Plus(Ref(x), Ref(x)), Num(3), Plus(Num(1), Ref(x)), Act(<<NoName, NoName>>, <<Say(Num(5)), Ref(x)>>)}}

\* Right operands that may not be run: they divide by what the left one compares
\* with zero, look into a list the left one measures, or print.
Shorts ==
  {<<Def(opening, <<>>, Act(<<x, NoName, NoName>>, <<List(items), Say(Call1(f, a)), whole>>)),
     Def(f, <<x>>, If(Binary(op, IsZero(Ref(x)), right), Num(1), Num(2))), Def(h, <<y>>, Act(<<NoName, NoName>>, <<Say(Ref(y)), IsZero(Ref(y))>>)),
     Def(k, <<>>, Call1(h, Num(1)))>> :
     a \in {Num(0), Num(2)}, op \in {<<"and">>, <<"or">>, <<"&">>},
     right \in {IsZero(Over(Num(6), Ref(x))), Call1(h, Ref(x)), Let1(z, Call1(h, Num(0)), Binary(<<"or">>, Ref(z), Ref(k))), Ref(k)},
     items \in {<<>>, <<Num(4)>>},
     whole \in {Binary(<<"and">>, Binary(<<"<">>, Num(0), Size(Ref(x))), Binary(<<"==">>, Item(Ref(x), 0), Num(4))),
                Binary(<<"or">>, IsZero(Size(Ref(x))), Binary(<<"and">>, Ref(k), Call1(h, Item(Ref(x), 0))))}}

MCPrograms == Telling \cup Shorts \cup Helpers \cup Swapped \cup Forwarding \cup Lambdas \cup Structures \cup OwnBuiltins \cup Loops \cup Kept \cup Spines
=============================================================================
