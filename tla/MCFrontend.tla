------------------------------ MODULE MCFrontend ------------------------------
(***************************************************************************)
(* Texts to read: what a reference grammar writes, by precedence levels    *)
(* and with its line breaks, and bodies with something left in them.       *)
(***************************************************************************)
EXTENDS Frontend

-----------------------------------------------------------------------------
(***************************************************************************)
(* Writing.  A leaf is a token; NL(c) begins a line at column c, and Glue  *)
(* keeps the next token at the one before it.                              *)
(***************************************************************************)
NL(c) == [k |-> "Newline", w |-> "", xs |-> <<>>, col |-> c]
Glue == [k |-> "Glue", w |-> "", xs |-> <<>>]

T(w) ==
  Leaf(CASE w \in DOMAIN Keywords -> Keywords[w] [] w \in TypeNames -> "TypeIdentifier" [] w \in Names -> "Identifier"
         [] w \in Digits -> "IntegerLiteral" [] w = "_" -> "Underscore" [] OTHER -> Operators[w], w)
L(k) == Leaf(k, "")

Long == [k \in {LongOperators[s] : s \in DOMAIN LongOperators} |-> CHOOSE s \in DOMAIN LongOperators : LongOperators[s] = k]

Spelled(l) == IF l.k \in DOMAIN Long THEN Long[l.k] ELSE <<l.w>>

Blanks(n) == <<>> \o [i \in 1 .. n |-> " "]

RECURSIVE Flat(_)
Flat(n) == IF n.xs = <<>> THEN (IF n.w = "" /\ n.k \notin (DOMAIN Long) \cup {"Newline", "Glue"} THEN <<>> ELSE <<n>>)
           ELSE FlattenSeq(<<>> \o [i \in DOMAIN n.xs |-> Flat(n.xs[i])])

\* Nothing stands around a bracket or a comma when the text is written tightly.
Brackets == {"(", ")", "[", "]", "{", "}", ","}
Apart(last, l, tight) == last.k \notin {"Newline", "Glue"} /\ l.k # "Glue" /\ ~(tight /\ {last.w, l.w} \cap Brackets # {})

RECURSIVE Written(_, _, _, _)
Written(ls, last, tight, done) ==
  IF ls = <<>> THEN done \o <<"\n">>
  ELSE LET l == Head(ls)
           space == IF Apart(last, l, tight) THEN <<" ">> ELSE <<>>
       IN  Written(Tail(ls), l, tight,
                   done \o (CASE l.k = "Newline" -> <<"\n">> \o Blanks(l.col - 1) [] l.k = "Glue" -> <<>> [] OTHER -> space \o Spelled(l)))

\* The tree without its layout.
RECURSIVE Bare(_)
Bare(n) ==
  LET kept == SelectSeq(n.xs, LAMBDA x : x.k \notin {"Newline", "Glue"})
  IN  Node(n.k, <<>> \o [i \in DOMAIN kept |-> IF (kept[i].xs = <<>> /\ kept[i].w # "") \/ kept[i].k \in DOMAIN Long THEN kept[i] ELSE Bare(kept[i])])

-----------------------------------------------------------------------------
(***************************************************************************)
(* Expressions.  What is open goes on as far as it can, so it stands last  *)
(* or in brackets.                                                         *)
(***************************************************************************)
Name(w) == Node("Name", <<T(w)>>)
Lit(w) == Node("Lit", <<T(w)>>)
Paren(e) == Node("Paren", <<T("("), e, T(")")>>)
App(f, e) == Node("App", <<f, e>>)
Field(e, w) == Node("FieldAccess", <<e, T("."), T(w)>>)
Bin(l, op, r) == Node("Bin", <<l, op, r>>)
BinBroken(l, op, r) == Node("Bin", <<l, NL(5), op, r>>)
Neg(e) == Node("Unary", <<T("-"), e>>)
Not(e) == Node("Unary", <<T("not"), e>>)

A == Name("a")
B == Name("b")
One == Lit("1")

\* Operands that bind tighter than any operator, and what is an argument.
Arguments ==
  {A, One, Paren(A), Field(A, "end"), Node("Tuple", <<T("("), A, T(","), NL(6), One, T(")")>>),
   Node("ListLit", <<T("["), NL(6), A, NL(6), T(","), B, NL(5), T("]")>>), Node("ListLit", <<T("["), T("]")>>),
   Node("RecordLit", <<T("T"), T("{"), Node("RecordField", <<T("x"), T("="), A>>), T(","), NL(6),
                       Node("RecordField", <<T("end"), T("="), One>>), T("}")>>),
   Paren(Node("App", <<A, NL(7), B>>))}

Tight ==
  Arguments
    \cup {App(A, e) : e \in Arguments} \cup {App(App(A, B), One)}
    \cup {App(A, Node("Unary", <<T("-"), Glue, One>>)), Neg(A), Neg(Neg(A)), Neg(App(A, B)),
          Node("Selector", <<T("."), T("x")>>),
          Node("Revised", <<A, T("revised"), T("{"), Node("RecordField", <<T("x"), T("="), A>>), T("}")>>)}

\* Operators from the loosest to the tightest; the fifth level is what `not` takes.
BinOps == << L("PipeForward"), T("or"), T("xor"), T("&"), L("DoubleEquals"), L("ColonColon"), T("+"), T("*"), T("^") >>
Rightmost == {6, 9}

\* Trees of two operators, of levels that may stand there without parentheses.
Left2 == {Bin(Bin(A, BinOps[m], B), BinOps[n], One) : <<m, n>> \in {x \in (1 .. 9) \X (1 .. 9) : x[1] > x[2] \/ (x[1] = x[2] /\ x[1] \notin Rightmost)}}
Right2 == {Bin(A, BinOps[n], Bin(B, BinOps[m], One)) : <<m, n>> \in {x \in (1 .. 9) \X (1 .. 9) : x[1] > x[2] \/ (x[1] = x[2] /\ x[1] \in Rightmost)}}
Negated == {Bin(Not(A), BinOps[n], B) : n \in 1 .. 4} \cup {Not(Bin(A, BinOps[n], B)) : n \in 5 .. 9} \cup {Bin(Neg(A), BinOps[n], B) : n \in 1 .. 9}

Closed1 ==
  Tight \cup {Bin(e, T("+"), B) : e \in Tight} \cup {Bin(B, T("*"), e) : e \in Tight}
    \cup Left2 \cup Right2 \cup Negated \cup {BinBroken(A, T("+"), B), Bin(A, T("-"), B), Not(Not(A))}

\* What is open, around expressions x, y and z.
Pat(w) == Node("VarPat", <<T(w)>>)
Ctor0 == Node("CtorPat", <<T("T")>>)
Wild == Node("WildPat", <<T("otherwise")>>)
Ctor2 == Node("CtorPat", <<T("T"), T("("), Pat("x"), T(")"), T("("), Node("LitPat", <<T("1")>>), T(")")>>)

Arm(pats, e) == Node("MatchArm", <<T("is")>> \o pats \o <<L("Arrow"), e>>)
Bind(w, e) == Node("LetBinding", <<T(w), T("="), e>>)

IfOf(x, y, z) == Node("IfExpr", <<T("if"), x, T("then"), y, T("else"), z>>)
IfLines(x, y, z) == Node("IfExpr", <<T("if"), x, NL(5), T("then"), y, NL(5), T("else"), NL(6), z>>)
LetOf(x, y) == Node("LetExpr", <<T("let"), Bind("x", x), T("in"), y>>)
LetLines(x, y, z) == Node("LetExpr", <<T("let"), Bind("x", x), NL(8), Bind("y", y), NL(5), T("in"), NL(5), z>>)
LetPair(x, y) ==
  Node("LetExpr", <<T("let"), Node("LetBinding", <<Node("TuplePat", <<T("("), Pat("x"), T(","), Pat("y"), T(")")>>), T("="), x>>), T("in"), y>>)
LambdaOf(x) == Node("Lambda", <<T("\\"), T("x"), T("_"), L("Arrow"), x>>)
ForOf(x, y) == Node("ForExpr", <<T("for"), T("x"), T("in"), x, L("Arrow"), y>>)
MatchOf(c, x, y, z) == Node("MatchExpr", <<T("when"), x, NL(c), Arm(<<Ctor2>>, y), NL(c), Arm(<<Wild>>, z)>>)
MatchLine(x, y, z) == Node("MatchExpr", <<T("when"), x, NL(5), Arm(<<Ctor0, T("|"), Pat("x")>>, y), Arm(<<Wild>>, z)>>)
Guarded(x, y) ==
  Node("MatchExpr", <<T("when"), A, NL(5), Node("MatchArm", <<T("is"), Pat("x"), Node("Guard", <<T("when"), x>>), L("Arrow"), NL(7), y>>)>>)
ActOf(x, y) ==
  Node("ActBlock", <<T("act"), NL(6), Node("ActBind", <<T("x"), L("LeftArrow"), x>>), NL(6), Node("ActStmt", <<y>>), NL(5), T("end")>>)
ActStore(x, y) ==
  Node("ActBlock", <<T("act"), NL(6), Node("ActStmt", <<Node("FieldAssign", <<A, T("."), T("x"), T("="), x>>)>>), NL(6), Node("ActStmt", <<y>>),
                     NL(5), T("end")>>)
HandleOf(x, y) ==
  Node("HandleExpr", <<T("with"), T("T"), x, NL(6),
    Node("HandleClause", <<T("b"), Node("ParamGroup", <<T("("), T("x"), T(")")>>), T("="), y>>)>>)
TryOf(x, y) ==
  Node("TryExpr", <<T("trying"), T("2"), T("times"), NL(6), Node("TryBody", <<Node("ActStmt", <<x>>), NL(5)>>),
    T("falling"), T("back"), T("to"), NL(6), Node("TryFallback", <<Node("ActStmt", <<y>>), NL(5)>>),
    T("on"), T("failure"), NL(6), Node("TryFailure", <<Node("ActStmt", <<One>>), NL(5), T("end")>>)>>)
LazyOf(x) == Node("LazyExpr", <<T("lazy"), x>>)

\* What may stand where: after `lazy` a line break is already taken when an
\* argument is looked for, a minus continues the line before it, and in
\* parentheses a line break ends nothing.
BreakEnds(S) == S \ {LazyOf(A)}
Begins(S)    == S \ {Neg(A)}
OnOneLine(S) == S \ {LetLines(A, B, One), ActOf(A, B)}

\* Each open form with each expression of a set in each of its places.
Forms(S) ==
  {IfOf(e, A, B) : e \in S} \cup {IfOf(A, e, B) : e \in S} \cup {IfLines(A, B, e) : e \in S}
    \cup {LetOf(e, A) : e \in S} \cup {LetLines(e, A, B) : e \in BreakEnds(S)} \cup {LetLines(A, e, B) : e \in S} \cup {LetPair(A, e) : e \in S}
    \cup {LambdaOf(e) : e \in S} \cup {ForOf(A, e) : e \in S} \cup {ForOf(e, A) : e \in S}
    \cup {MatchOf(5, e, A, B) : e \in S} \cup {MatchOf(5, A, e, B) : e \in S} \cup {MatchOf(5, A, B, e) : e \in S}
    \cup {Guarded(A, e) : e \in S}
    \cup {ActOf(e, A) : e \in BreakEnds(S)} \cup {ActOf(A, e) : e \in Begins(S)} \cup {ActStore(e, A) : e \in BreakEnds(S)}
    \cup {HandleOf(A, e) : e \in S} \cup {TryOf(e, A) : e \in BreakEnds(S)} \cup {TryOf(A, e) : e \in BreakEnds(S)}
    \cup {LazyOf(e) : e \in S} \cup {Paren(e) : e \in OnOneLine(S)}

Few == {A, App(A, B), Bin(A, T("+"), B), Neg(A), Not(A)}

\* Forms in forms, an inner match further right than the one it is in.
Inner ==
  {IfOf(A, B, One), LetOf(A, B), LetLines(A, B, One), LambdaOf(A), ForOf(A, B), MatchOf(9, A, B, One), ActOf(A, B), LazyOf(A)}

Exprs ==
  Closed1 \cup Forms(Few) \cup Forms(Inner)
    \cup {Bin(A, T("+"), e) : e \in Inner} \cup {App(A, ActOf(A, B)), MatchLine(A, B, One), Guarded(Bin(A, L("DoubleEquals"), B), One)}

-----------------------------------------------------------------------------
(***************************************************************************)
(* Types and items.                                                        *)
(***************************************************************************)
Named(w) == Node("NamedType", <<T(w)>>)
TA == Named("T")
Fun(a, b) == Node("FunType", <<a, L("Arrow"), b>>)
Args(a, b) == Node("FunType", <<a, T(","), b>>)

Types ==
  {TA, Fun(TA, TA), Args(TA, Fun(Named("x"), TA)), Args(TA, Args(TA, Fun(TA, TA))),
   Node("FunType", <<TA, L("Arrow"), NL(6), TA>>), Node("FunType", <<TA, T(","), NL(6), Fun(TA, TA)>>),
   Node("AppType", <<TA, Named("x"), Named("1")>>), Node("AppType", <<TA, Node("ParenType", <<T("("), Fun(TA, TA), T(")")>>)>>),
   Fun(Node("TupleType", <<T("("), TA, T(","), Named("x"), T(")")>>), TA),
   Fun(Node("ParenType", <<T("("), Args(TA, Fun(TA, TA)), T(")")>>), TA),
   Fun(TA, Node("EffectType", <<T("["), T("T"), T("]"), TA>>)),
   Node("BoundedIntType", <<TA, T("between"), T("0"), T("and"), T("1"), T("clamping")>>),
   Node("BoundedIntType", <<Named("Integer"), T("wrapping")>>),
   Node("LinearType", <<T("linear"), TA>>), Fun(Node("LinearType", <<Node("AppType", <<T("linear"), TA, Named("x")>>)>>), TA),
   Node("ForAllType", <<T("forall"), T("("), T("x"), T(":"), TA, T(")"), T(","), Fun(TA, TA)>>),
   Node("PropEqType", <<TA, L("TripleEquals"), TA>>), Node("ConstrainedType", <<Node("AppType", <<TA, Named("x")>>), L("FatArrow"), Fun(TA, TA)>>),
   Node("ArithType", <<Named("x"), T("+"), Node("ArithType", <<Named("y"), T("*"), Named("1")>>)>>),
   Node("ArithType", <<Node("ArithType", <<Named("x"), T("*"), Named("y")>>), T("+"), Named("1")>>),
   Node("ArithType", <<Node("ArithType", <<Named("x"), T("+"), Named("y")>>), T("&"), Named("1")>>)}

Params1 == <<Node("ParamGroup", <<T("("), T("x"), T(")")>>)>>

Definition(markers, type, params, e, c) ==
  Node("Def", markers \o <<Node("TypeAnnotation", <<T("f"), T(":"), Node("TypeExpr", <<type>>)>>), NL(3),
              Node("DefEquation", <<T("f")>> \o params), T("="), NL(c), e>>)
Direct(e) == Node("Def", <<Node("TypeAnnotation", <<T("f"), T(":"), Node("TypeExpr", <<TA>>)>>), Node("DefEquation", <<>>), T("="), e>>)
Unannotated(e) == Node("Def", <<Node("DefEquation", <<T("f")>> \o Params1), T("="), e>>)

Plain == Definition(<<>>, TA, Params1, A, 5)

Defs ==
  {Definition(<<>>, TA, Params1, e, 4) : e \in Exprs}
    \cup {Definition(<<>>, t, <<>>, A, 5) : t \in Types}
    \cup {Definition(m, TA, Params1, A, 5) : m \in {<<Node("Punctual", <<T("punctual"), T("1")>>)>>, <<Node("Bounded", <<T("bounded"), T("T")>>)>>,
                                                     <<Node("Claim", <<T("claim")>>)>>}}
    \cup {Direct(A), Unannotated(Bin(A, T("+"), B)),
          Unannotated(Node("SeqExpr", <<Node("FieldAssign", <<A, T("."), T("x"), T("="), One>>), NL(5), B>>))}

RecordField1(w) == Node("RecordFieldDef", <<T(w), T(":"), TA>>)
CtorDef(w, fields) == Node("VariantCtor", <<T(w)>> \o fields)
CField(t) == Node("CtorField", <<T("("), t, T(")")>>)

TypeDefs ==
  {Node("TypeDef", <<T("T"), T("=")>> \o b) :
     b \in {<<Node("RecordBody", <<T("record"), T("{"), NL(5), RecordField1("x"), T(","), NL(5), RecordField1("end"), NL(3), T("}")>>)>>,
            <<NL(5), Node("VariantBody", <<T("|"), CtorDef("T", <<CField(TA)>>), NL(5), T("|"), CtorDef("Integer", <<>>)>>)>>,
            <<Node("VariantBody", <<CtorDef("T", <<>>), T("|"), CtorDef("T", <<CField(TA), CField(Fun(TA, TA))>>)>>), NL(5),
              Node("Deriving", <<T("deriving"), T("T"), T(","), T("T")>>)>>,
            <<Node("UnitBody", <<T("unit"), TA>>)>>,
            <<Node("UnitFamilyBody", <<T("unit"), T("family"), T("T"), NL(5), Node("UnitFamilyMember", <<T("T"), T("="), T("1")>>)>>)>>}}
    \cup {Node("TypeDef", <<T("mutable"), T("T"), Node("TypeParams", <<T("x"), T("("), T("y"), T(")")>>), T("="),
                            Node("RecordBody", <<T("record"), T("{"), T("}")>>)>>)}

Op1 == Node("EffectOp", <<T("b"), T(":"), Fun(TA, TA)>>)
Declarations ==
  {Node("EffectDef", <<T("effect"), T("T"), T("where"), NL(5), Op1, NL(5), Op1>>),
   Node("ClassDef", <<T("class"), Node("Superclass", <<T("T"), T("x"), L("FatArrow")>>), T("T"), T("where"), NL(5), Op1>>)}
Instance1 ==
  Node("InstanceDef", <<T("instance"), T("T"), T("("), T("T"), T("x"), T(")"), T("where"), NL(5),
                        Node("InstanceMethod", <<T("b")>> \o Params1 \o <<T("="), A>>)>>)
LineItems ==
  {Node("Cites", <<T("cites"), T("T")>>), Node("Grounds", <<T("grounds"), T("T")>>), Node("Quotes", <<T("quotes"), T("x")>>),
   Node("Trusting", <<T("trusting"), T("x")>>), Node("Conversion", <<T("1"), T("T"), T("="), T("2"), T("T")>>)}

\* What may follow an item without being taken into it.
Followers == {Plain, Unannotated(A)} \cup LineItems \cup TypeDefs \cup Declarations
AfterOps == LineItems \cup TypeDefs \cup Declarations

Header == Node("ChapterHeader", <<T("Chapter"), T(":"), T("T")>>)

Documents ==
  {<<d>> : d \in Defs} \cup {<<d, e>> : d \in {Plain, Unannotated(MatchOf(5, A, B, One))} \cup TypeDefs \cup LineItems, e \in Followers}
    \cup {<<d, e>> : d \in Declarations \cup {Instance1}, e \in AfterOps}
    \cup {<<Plain, d, Plain>> : d \in TypeDefs \cup LineItems}

\* Items one after the other, with a line of prose between them or without.
Prosaic == <<NL(1), NL(2), T("a"), T("let"), NL(1)>>

RECURSIVE Join(_, _)
Join(items, between) == IF items = <<>> THEN <<>> ELSE between \o <<NL(3)>> \o Flat(Head(items)) \o Join(Tail(items), between)

Bared(items) == <<>> \o [i \in DOMAIN items |-> Bare(items[i])]

WholeText(items, between, tight) == Written(Flat(Header) \o Join(items, between), Glue, tight, <<>>)

-----------------------------------------------------------------------------
(***************************************************************************)
(* Texts that are no documents.                                            *)
(***************************************************************************)
\* What may be left after an expression that has ended, and after that.
Stray == {T(")"), T("]"), T("then"), T("1"), T("T"), T("is"), T("="), T("a")}
More == Stray \cup {T("+"), T("("), T("let"), T("act"), T("."), T("{")}

Rest == {<<NL(5), x, NL(5), y>> : x \in Stray, y \in More} \cup {<<NL(5), x, y, NL(6), z>> : x \in Stray, y \in More, z \in {T("a"), T(")")}}

Broken(rest, next) == Written(Flat(Header) \o <<NL(3)>> \o Flat(Plain) \o rest \o <<NL(3)>> \o Flat(next), Glue, FALSE, <<>>)

\* Any symbols, after a definition has begun.
Symbols == {"a", "T", "1", "(", ")", "[", "{", "}", ",", ".", "=", "-", ">", "let", "act", "when", "is", "\"", "\\", "'", "\n", " "}
Noise == {<<x, y, z>> : x \in Symbols, y \in Symbols, z \in Symbols}
NoisyText(n) == <<"\n", " ", " ", "a", "=">> \o n

Known(whole, items) == [whole |-> whole, items |-> items]

MCTexts ==
  {[text |-> WholeText(items, between, tight), written |-> Known(TRUE, <<Bare(Header)>> \o Bared(items))] :
     items \in Documents, between \in {<<>>, Prosaic}, tight \in BOOLEAN}
    \cup {[text |-> Broken(rest, next), written |-> Known(FALSE, <<Bare(Header), Bare(Plain), Bare(next)>>)] : rest \in Rest, next \in {Plain, Unannotated(A)}}
    \cup {[text |-> NoisyText(n), written |-> Known(FALSE, <<>>)] : n \in Noise}
=============================================================================
