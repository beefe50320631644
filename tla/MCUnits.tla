------------------------------- MODULE MCUnits ------------------------------
(***************************************************************************)
(* Programs for `Units`: chapters that cite each other in every way, with  *)
(* cycles and chapters the program brings along; the ways a cite can fail; *)
(* and chapters that define one name, with bodies that mention it.         *)
(***************************************************************************)
EXTENDS Units, TLC

MCNoQuire    == ""
MCNoHeader   == "none"
MCNoCheckout == "nowhere"

Names == {"", "none", "Foreword", "foreword", "Parsmi", "Ghost", "ListUtils", "Tuple", "Main", "Own",
          "A", "B", "Text Utils", "TextUtils", "text utils", "ambiguous"}

Lowered == "foreword" :> "Foreword" @@ "text utils" :> "Text Utils"
Joined  == Lowered @@ "TextUtils" :> "Text Utils"

MCFold    == Lowered @@ [n \in Names |-> n]
MCCiteKey == Joined @@ [n \in Names |-> n]
MCSlugify == Lowered @@ [n \in Names |-> n]

f == <<"f">>
g == <<"g">>
x == <<"x">>
MCCapitals == {<<"Just">>}
MCBuiltins == {<<"abs">>}

C(quire, name)       == [quire |-> quire, name |-> name, selected |-> {}]
Cf(quire, name)      == [quire |-> quire, name |-> name, selected |-> {f}]
D(name, params, body) == [name |-> name, params |-> params, forall |-> {}, body |-> body]
One == Lit(<<"1">>)

File(header, cites, defs) == [header |-> header, cites |-> cites, defs |-> defs, cr |-> FALSE]
Chapter(h, cites, defs)   == [header |-> h, cites |-> cites, defs |-> defs]

Table == <<<<"Foreword", "core">>, <<"Parsmi", "parsmi">>>>

\* A program in a checkout with the files given.
Project(chapters, files) ==
  [chapters |-> chapters, files |-> files, cr |-> FALSE, tree |-> "checkout", named |-> MCNoCheckout,
   table |-> [c \in {"checkout"} |-> Table], local |-> <<>>, dirs |-> {"core", "parsmi"}]

Library == <<"core", "ListUtils">> :> File("ListUtils", <<>>, <<>>)
        @@ <<"core", "Tuple">>     :> File("Tuple", <<C("Foreword", "ListUtils")>>, <<>>)

-----------------------------------------------------------------------------
(* Chapters that cite each other. *)
CiteLists == {<<>>, <<C("Foreword", "A")>>, <<C("Foreword", "B")>>, <<C("Parsmi", "A")>>,
              <<C("Foreword", "A"), C("Foreword", "B")>>, <<C("Foreword", "B"), C("Parsmi", "A")>>,
              <<C("Foreword", "Main")>>, <<C("Foreword", "A"), C("Parsmi", "A")>>}

BackLists == {<<>>, <<C("Foreword", "A")>>, <<C("Foreword", "B"), C("Parsmi", "A")>>}

Brought == {<<>>, <<Chapter(Header("Parsmi", "A"), <<>>, <<>>)>>,
            <<Chapter(Header("", "A"), <<C("Foreword", "B")>>, <<>>)>>,
            <<Chapter(Header("Parsmi", "A"), <<>>, <<>>), Chapter(Header("Own", "A"), <<>>, <<>>)>>}

ParsmiA == {<<>>, <<"parsmi", "A">> :> File("A", <<C("Foreword", "A")>>, <<>>)}

Graphs ==
  {Project(b \o <<Chapter(Header("", "Main"), m, <<>>)>>,
           (IF p = <<>> THEN Library ELSE p @@ Library)
             @@ <<"core", "A">> :> File("A", ca, <<>>) @@ <<"core", "B">> :> File("B", cb, <<>>)) :
     b \in Brought, m \in CiteLists, ca \in CiteLists, cb \in BackLists, p \in ParsmiA}

-----------------------------------------------------------------------------
(* Registries and names. *)
Simple(cites) == Project(<<Chapter(Header("", "Main"), cites, <<>>)>>,
                         Library @@ <<"core", "A">> :> File("A", <<>>, <<>>)
                           @@ <<"core", "TextUtils">> :> File("Text Utils", <<C("Foreword", "Text Utils")>>, <<>>))

CiteA == Simple(<<C("Foreword", "A")>>)

Whole == Project(<<Chapter(Header("Foreword", "ListUtils"), <<>>, <<>>),
                   Chapter(Header("", "Tuple"), <<>>, <<>>),
                   Chapter(Header("", "Main"), <<C("Foreword", "ListUtils")>>, <<>>)>>, Library)

\* A chapter that is there in one case, and cited in another.
Spaced(cites) == Project(<<Chapter(Header("", "Main"), cites, <<>>)>>,
                         Library @@ <<"core", "A">> :> File("A", <<C("Foreword", "text utils")>>, <<>>)
                           @@ <<"core", "Text Utils">> :> File("Text Utils", <<>>, <<>>))

Oddities ==
  {Whole, [Whole EXCEPT !.tree = MCNoCheckout],
   [CiteA EXCEPT !.tree = MCNoCheckout],
   [CiteA EXCEPT !.tree = MCNoCheckout, !.named = "checkout"],
   [CiteA EXCEPT !.named = "other"],
   [CiteA EXCEPT !.table = [c \in {"checkout"} |-> <<>>]],
   [CiteA EXCEPT !.cr = TRUE],
   [CiteA EXCEPT !.files[<<"core", "A">>].cr = TRUE],
   [CiteA EXCEPT !.dirs = {"parsmi"}],
   [CiteA EXCEPT !.local = <<<<"foreword", "core">>>>],
   [CiteA EXCEPT !.local = <<<<"foreword", "empty">>, <<"Own", "parsmi">>>>],
   Simple(<<C("foreword", "A")>>), Simple(<<C("Ghost", "A")>>), Simple(<<C("Foreword", "B")>>),
   Simple(<<C("Foreword", "TextUtils"), C("Foreword", "Text Utils")>>),
   Simple(<<C("Foreword", "text utils")>>), Simple(<<C("Foreword", "Text Utils")>>),
   Spaced(<<C("Foreword", "text utils"), C("Foreword", "Text Utils")>>),
   Spaced(<<C("Foreword", "A"), C("Foreword", "Text Utils")>>)}

\* Files that declare another chapter than the one they are named for, or none.
Misnamed ==
  {[CiteA EXCEPT !.files[<<"core", "A">>].header = h] : h \in {"B", "ListUtils", MCNoHeader}}
    \cup {Project(<<Chapter(Header("", "Main"), <<C("Foreword", "A"), C("Foreword", "Own")>>, <<>>)>>,
                  Library @@ <<"core", "A">> :> File("B", <<C("Foreword", "Ghost")>>, <<>>)
                    @@ <<"core", "Ghost">> :> File("Ghost", <<C("Foreword", "A")>>, <<>>)
                    @@ <<"core", "Own">> :> File("A", <<>>, <<>>))}

-----------------------------------------------------------------------------
(* Two chapters that define f, and one that mentions it. *)
F == Ref(f)
NoGuard == Ref(<<"Just">>)
Bodies ==
  {F, Apply(F, F), Apply(Ref(<<"Just">>), Ref(x)), Lambda(<<f>>, F), Lambda(<<g>>, Apply(F, Ref(g))),
   Let(<<f>>, <<F>>, F), Let(<<g, f>>, <<F, Ref(g)>>, F), Let(<<f, g>>, <<One, F>>, Ref(g)),
   Match(F, <<Arm(<<f>>, F, F), Arm(<<>>, NoGuard, F)>>),
   Act(<<f, NoName>>, <<F, F>>), Act(<<NoName, g>>, <<Apply(F, One), F>>),
   Handle(F, <<Clause(<<g, f>>, F), Clause(<<g>>, F)>>),
   Try(Act(<<f, NoName>>, <<One, F>>), Act(<<NoName>>, <<F>>), Act(<<NoName>>, <<Ref(g)>>)),
   Record(<<"R">>, <<F, One>>), List(<<F, Lambda(<<f>>, F)>>), If(F, F, Ref(g)),
   Apply(Ref(<<"abs">>), F), Lambda(<<<<"abs">>>>, Apply(Ref(<<"abs">>), F)), Binary(<<"+">>, F, Ref(<<"unknown">>)),
   Induction(Ref(x), <<Arm(<<f>>, NoGuard, F), Arm(<<>>, NoGuard, Ref(x))>>)}

Statements ==
  {Act(<<NoName, NoName>>, <<Let(<<f>>, <<One>>, F), F>>)}

Heads == {<<>>, <<C("Foreword", "A")>>, <<Cf("Foreword", "A")>>, <<Cf("Foreword", "B")>>,
          <<Cf("Foreword", "A"), Cf("Parsmi", "B")>>}

\* Definitions of the two library chapters; a chapter of several definitions is
\* found by its quire only.
Defined == {<<D(f, <<>>, One)>>, <<D(f, <<x>>, Ref(x)), D(g, <<f>>, F)>>, <<D(g, <<>>, F)>>}

Scopings(heads, bodies, params, mine) ==
  {Project(<<Chapter(Header("", "Main"), h \o <<C("Foreword", "A"), C("Foreword", "B")>>,
                     own \o <<D(Opening, p, b)>>)>>,
           Library @@ <<"core", "A">> :> File("A", <<>>, da) @@ <<"core", "B">> :> File("B", <<Cf("Foreword", "A")>>, db)) :
     h \in heads, b \in bodies, p \in params, own \in mine, da \in Defined, db \in Defined}

\* The same program with every chapter in its own text.
Bundled(p) ==
  [p EXCEPT !.chapters =
     <<Chapter(Header("", "ListUtils"), <<>>, <<>>), Chapter(Header("", "Tuple"), <<>>, <<>>),
       Chapter(Header("Foreword", "A"), <<>>, p.files[<<"core", "A">>].defs),
       Chapter(Header("Foreword", "B"), <<Cf("Foreword", "A")>>, p.files[<<"core", "B">>].defs)>> \o @]

Mine == {<<>>, <<D(f, <<>>, One)>>}

MCProjects ==
  Graphs \cup Oddities \cup Misnamed
    \cup Scopings(Heads, {F, Lambda(<<f>>, F)}, {<<>>}, Mine)
    \cup {Bundled(p) : p \in Scopings(Heads, Bodies, {<<>>, <<x>>, <<f>>}, Mine)}

=============================================================================
