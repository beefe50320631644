---------------------------- MODULE MCInference ----------------------------
(***************************************************************************)
(* Chapters whose `opening` is an expression over a few values, operators, *)
(* constructors, records and helpers, under four signatures; and chapters  *)
(* of several definitions, in the orders that matter.                      *)
(***************************************************************************)
EXTENDS Inference

Int0   == Named(<<"Integer">>)
Text0  == Named(<<"Text">>)
None0  == Named(<<"Nothing">>)
Bool0  == Named(<<"Boolean">>)
A      == Named(<<"a">>)
Writes == <<"Console", "Write">>
Prints(t) == Effect(<<Writes>>, NoName, t)
Maybe0(t) == App(<<"Maybe">>, <<t>>)
Cell0(t)  == App(<<"Cell">>, <<t>>)

MCCapital == {<<"Colour">>, <<"Red">>, <<"Green">>, <<"Maybe">>, <<"Just">>, <<"None">>, <<"Point">>, <<"Cell">>,
              <<"Nothing">>}
MCBand    == 0 .. 9

MCBuiltinSigs ==
  LET v == Variable(0)
      Of_(ty) == Quantified(FALSE, 0, ty)
  IN  << [n |-> <<"say">>, ty |-> Arrow(TextTy, Row({Writes}, NoId), NothingTy)],
         [n |-> <<"text-length">>, ty |-> Arrow(TextTy, ClosedRow, IntegerTy)],
         [n |-> <<"list-length">>, ty |-> Of_(Arrow(ListOf(v), ClosedRow, IntegerTy))] >>

Types0 ==
  << Variant(<<"Colour">>, <<>>, <<Member(<<"Red">>, <<>>), Member(<<"Green">>, <<>>)>>),
     Variant(<<"Maybe">>, <<<<"a">>>>, <<Member(<<"None">>, <<>>), Member(<<"Just">>, <<A>>)>>),
     RecordType(<<"Point">>, <<>>, <<Member(<<"x">>, <<Int0>>), Member(<<"y">>, <<Text0>>)>>),
     RecordType(<<"Cell">>, <<<<"a">>>>, <<Member(<<"v">>, <<A>>)>>) >>

D(n, ps, sig, b) == [name |-> n, params |-> ps, body |-> b, bounded |-> FALSE, sig |-> sig]

I(k) == Num(k)
T    == Text(<<1>>)
R(s) == Ref(<<s>>)
Call(f, x)    == Apply(f, x)
Call2(f, x, y) == Apply(Apply(f, x), y)
Op(s, l, r)   == Binary(<<s>>, l, r)
Get(f, r)     == Node("FieldAccess", <<f>>, <<>>, <<r>>)
Put(f, r, v)  == Node("FieldAssign", <<f>>, <<>>, <<r, v>>)
Point(x, y)   == Node("Record", <<"Point">>, <<<<"x">>, <<"y">>>>, <<x, y>>)
Cell(x)       == Node("Record", <<"Cell">>, <<<<"v">>>>, <<x>>)
Delay(e)      == Node("Lazy", NoName, <<>>, <<e>>)
Fn(p, b)      == Lambda(<<<<p>>>>, b)
Do(es)        == Act([i \in DOMAIN es |-> NoName], es)
On(n, ps, g, b) == Node("Arm", n, ps, <<g, b>>)
Else(b)       == On(NoName, <<>>, Bool(TRUE), b)
Case(l, b)    == Node("Arm", NoName, <<>>, <<Bool(TRUE), b, l>>)
When(n, ps, b) == On(<<n>>, ps, Bool(TRUE), b)

\* Helpers; a chapter has those its opening mentions.
Helpers ==
  << D(<<"ident">>, <<<<"x">>>>, To(A, A), R("x")),
     D(<<"show-it">>, <<<<"t">>>>, To(Text0, Effect(<<<<"Console">>>>, NoName, None0)), Call(R("say"), R("t"))),
     D(<<"emit">>, <<>>, Prints(None0), Call(R("say"), T)),
     D(<<"twice">>, <<<<"f">>, <<"t">>>>,
       To(To(Text0, Effect(<<>>, <<"e">>, None0)), To(Text0, Effect(<<>>, <<"e">>, None0))),
       Do(<<Call(R("f"), R("t")), Call(R("f"), R("t"))>>)),
     D(<<"loud">>, <<<<"f">>>>, To(To(Text0, Effect(<<<<"Console">>>>, NoName, None0)), Effect(<<<<"Console">>>>, NoName, None0)),
       Call(R("f"), T)),
     D(<<"inc">>, <<<<"n">>>>, NoSig, Op("+", R("n"), I(1))),
     D(<<"log">>, <<<<"n">>>>, NoSig, Do(<<Call(R("say"), T), R("n")>>)),
     D(<<"pick">>, <<<<"m">>, <<"d">>>>, To(Maybe0(A), To(A, A)),
       Match(R("m"), <<When("Just", <<<<"x">>>>, R("x")), When("None", <<>>, R("d"))>>)),
     D(<<"open">>, <<<<"c">>>>, To(Cell0(A), A), Get("v", R("c"))),
     D(<<"blank">>, <<>>, App(<<"List">>, <<A>>), List(<<>>)) >>

Chapter(defs, grounds) == [types |-> Types0, ops |-> <<>>, defs |-> defs, grounds |-> grounds]

OpeningOf(sig, b) ==
  Append(SelectSeq(Helpers, LAMBDA d : d.name \in Mentioned(b)), D(<<"opening">>, <<>>, sig, b))

Sigs == {NoSig, Int0, Prints(None0), Prints(Int0), App(<<"List">>, <<Int0>>)}

Atoms     == {I(1), T, Bool(TRUE), R("Red"), Call(R("Just"), I(1)), R("None"), List(<<>>), List(<<I(1)>>),
              Point(I(1), T), Cell(T), R("say"), R("emit"), R("blank"), R("absent"), R("Colour")}
Functions0 == {R("ident"), R("inc"), R("log"), R("say"), R("show-it"), R("loud"), R("list-length"), R("Just"), R("open"),
              Fn("x", R("x")), Fn("x", Op("+", R("x"), I(1))), Fn("x", Call(R("say"), R("x"))), Call(R("pick"), R("None"))}

Applied  == {Call(f, x) : f \in Functions0, x \in Atoms \cup {R("show-it"), R("ident"), Fn("t", Call(R("say"), R("t")))}}
Joined   == {Op(s, x, y) : s \in {"+", "==", "<", "&", "and"}, x, y \in {I(1), T, Bool(FALSE), List(<<>>), R("Red"), R("emit")}}
Chosen   == {If(c, x, y) : c \in {Bool(TRUE), Bool(FALSE), T}, x, y \in {I(1), T, R("None"), List(<<>>), List(<<T>>), R("say"), R("show-it"), R("emit")}}
Matching ==
  {Match(s, arms) :
     s \in {I(1), T, Bool(TRUE), R("Red"), Call(R("Just"), I(1)), R("None"), List(<<I(1)>>), Point(I(1), T)},
     arms \in {<<When("Red", <<>>, I(1)), When("Green", <<>>, I(2))>>,
               <<When("Just", <<<<"x">>>>, R("x")), When("None", <<>>, T)>>,
               <<When("Just", <<<<"x">>>>, R("x")), Else(I(0))>>,
               <<When("Green", <<>>, I(2))>>,
               <<When("Cons", <<<<"h">>, <<"r">>>>, R("h")), When("Nil", <<>>, I(0))>>,
               <<Case(I(0), T), Else(Call(R("say"), T))>>,
               <<Case(Bool(TRUE), I(1)), Case(Bool(FALSE), T)>>,
               <<Else(I(1)), Else(I(2))>>,
               <<On(<<"Just">>, <<<<"x">>>>, Op("==", R("x"), I(2)), I(1)), When("None", <<>>, I(2))>>,
               <<When("Point", <<<<"x">>, <<"y">>>>, R("y"))>>,
               <<When("Blue", <<<<"x">>>>, I(1)), Else(I(1))>>}}
Lists0   == {List(<<x, y>>) : x, y \in {I(1), T, R("None"), Call(R("Just"), T), List(<<>>), R("say"), R("show-it"), R("emit")}}
Fields   == {Get(f, r) : f \in {"x", "v"}, r \in {Point(I(1), T), Cell(T), Cell(I(1)), R("Red"), Call(R("ident"), Cell(T))}}
Sorts    == {Point(x, y) : x, y \in {I(1), T, R("emit"), R("None")}}
Stores   == {Let(<<<<"p">>>>, <<r>>, Put(f, R("p"), v)) : f \in {"x", "v"}, r \in {Point(I(1), T), Cell(T)}, v \in {I(1), T, R("emit")}}
            \cup {Put("x", R("emit"), I(1))}
Running  == {Call2(R("twice"), f, x) : f \in {R("say"), R("show-it"), Fn("t", Call(R("say"), R("t"))), R("inc"), Fn("t", R("t"))}, x \in {T, I(1)}}
Blocks   == {Do(<<x, y>>) : x, y \in {I(1), Call(R("say"), T), R("emit"), Let(<<<<"k">>>>, <<I(1)>>, R("k"))}}
            \cup {Let(<<<<"k">>>>, <<x>>, y) : x \in {I(1), R("emit"), R("say"), Fn("t", R("t")), List(<<>>)},
                                               y \in {R("k"), Call(R("k"), T), Op("+", R("k"), I(1))}}
            \cup {Act(<<<<"k">>, NoName>>, <<x, y>>) : x \in {R("emit"), Cell(I(1))}, y \in {R("k"), Get("v", R("k"))}}
            \cup {Negate(x) : x \in {I(1), T, Call(R("ident"), I(1))}}
            \cup {Delay(R("emit"))}
            \cup {Node("Handle", <<"Console">>, <<>>, <<b, Clause(<<<<"t">>, <<"resume">>>>, Call(R("resume"), R("t")))>>) :
                    b \in {R("emit"), I(1), Call(R("ident"), T)}}
\* Functions that perform, out of branches, lists, records, constructors and
\* other functions; and applications of what applications answer.
Speakers == {R("say"), R("show-it"), Fn("t", Call(R("say"), R("t"))), Fn("t", Do(<<R("emit"), Call(R("say"), R("t"))>>))}
Carried  == UNION {{Call(If(Bool(TRUE), f, g), T), Call(Get("v", Cell(f)), T),
                    Call(Call2(R("pick"), Call(R("Just"), f), g), T),
                    Call(R("loud"), Call2(R("pick"), R("None"), f)),
                    Match(List(<<f, g>>), <<When("Cons", <<<<"h">>, <<"r">>>>, Call(R("h"), T)), Else(R("emit"))>>),
                    Match(Call(R("Just"), f), <<When("Just", <<<<"h">>>>, Call(R("h"), T)), When("None", <<>>, R("emit"))>>),
                    Let(<<<<"k">>>>, <<Fn("u", Call(f, R("u")))>>, Call(R("k"), T)),
                    Call2(Lambda(<<<<"h">>, <<"u">>>>, Call(R("h"), R("u"))), f, T),
                    Call2(R("twice"), Call(R("ident"), f), T)} : f, g \in Speakers}
Nested   == {Call(f, Call(g, x)) : f, g \in {R("ident"), R("inc"), R("log"), R("Just"), R("list-length"), R("text-length"), R("open"), Fn("x", R("x"))},
                                   x \in {I(1), T, List(<<>>), Cell(I(1))}}

Openings == Applied \cup Joined \cup Chosen \cup Matching \cup Lists0 \cup Fields \cup Sorts \cup Carried \cup Nested \cup Stores \cup Running \cup Blocks

\* Several definitions: what a later one decides of an earlier one, what a body
\* decides of its own signature, and grounds.
Orders ==
  { << D(<<"keep">>, <<<<"x">>>>, To(A, A), Call(R("later"), R("x"))),
       D(<<"later">>, <<<<"n">>>>, NoSig, Op("+", R("n"), I(1))),
       D(<<"opening">>, <<>>, Text0, Call(R("keep"), T)) >>,
    << D(<<"later">>, <<<<"n">>>>, NoSig, Op("+", R("n"), I(1))),
       D(<<"keep">>, <<<<"x">>>>, To(A, A), Call(R("later"), R("x"))),
       D(<<"opening">>, <<>>, Int0, Call(R("keep"), I(1))) >>,
    << D(<<"same">>, <<<<"x">>, <<"y">>>>, To(A, To(A, Bool0)), Op("==", R("x"), R("y"))),
       D(<<"opening">>, <<>>, Bool0, Call2(R("same"), I(1), I(1))) >>,
    << D(<<"fix">>, <<<<"x">>>>, To(A, A), I(1)), D(<<"opening">>, <<>>, Text0, Call(R("fix"), T)) >>,
    << D(<<"calm">>, <<<<"f">>, <<"t">>>>, To(To(Text0, Effect(<<>>, <<"e">>, None0)), To(Text0, None0)), Call(R("f"), R("t"))),
       D(<<"opening">>, <<>>, None0, Call2(R("calm"), R("say"), T)) >>,
    << D(<<"items">>, <<>>, NoSig, List(<<>>)),
       D(<<"first">>, <<>>, NoSig, Op("&", R("items"), List(<<T>>))),
       D(<<"opening">>, <<>>, NoSig, Op("&", R("items"), List(<<I(1)>>))) >>,
    << D(<<"opening">>, <<>>, NoSig, Op("+", R("count"), I(1))), D(<<"count">>, <<>>, NoSig, List(<<>>)) >>,
    << D(<<"opening">>, <<>>, Int0, Call(R("self"), R("self"))),
       D(<<"self">>, <<<<"f">>>>, NoSig, Call(R("f"), R("f"))) >>,
    << D(<<"opening">>, <<>>, Int0, Call(R("unit"), I(1))),
       D(<<"unit">>, <<<<"n">>>>, NoSig, Do(<<Call(R("say"), T), R("n")>>)) >> }

MCChapters ==
  {Chapter(OpeningOf(sig, b), {}) : sig \in Sigs, b \in Openings}
  \cup {Chapter(OpeningOf(None0, b), {<<"Console">>}) : b \in Running \cup Blocks}
  \cup {Chapter(ds, {}) : ds \in Orders}
  \cup {[Chapter(OpeningOf(NoSig, Call(R("send"), x)), {}) EXCEPT
           !.ops = <<[n |-> <<"send">>, ty |-> To(A, Prints(None0))], [n |-> <<"say">>, ty |-> A]>>] : x \in {I(1), T}}
=============================================================================
