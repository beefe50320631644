------------------------------ MODULE ItemGrammar ------------------------------
(***************************************************************************)
(* Types (src/types.rs), type definitions (src/typedef.rs), effects,       *)
(* classes and instances (src/decl.rs), and definitions (src/parser.rs).   *)
(***************************************************************************)
EXTENDS ExprGrammar, FiniteSetsExt

\* What a type's rules name, as Step does for expressions.
RECURSIVE ItemStep(_, _)
RECURSIVE ItemDo(_, _)
ItemDo(p, steps) == IF steps = <<>> THEN p ELSE ItemDo(ItemStep(p, Head(steps)), Tail(steps))

TypeArgStarts == {"TypeIdentifier", "Identifier", "LeftParen", "IntegerLiteral"}

-----------------------------------------------------------------------------
(***************************************************************************)
(* Types.                                                                  *)
(***************************************************************************)
Type(p) == [ItemStep([p EXCEPT !.type = @ + 1], <<"inner", TRUE>>) EXCEPT !.type = @ - 1]

ForAll(p, cp) ==
  LET q == Bump(p)
      r == IF Word(q, 0, "all") THEN Bump(q) ELSE q
      bound == ItemDo(r, <<<<"bump">>, <<"take", {"Identifier", "TypeIdentifier"}>>, <<"take", {"Colon"}>>, <<"type">>,
                           <<"expect", {"RightParen"}, 0>>>>)
  IN  Wrap(ItemDo(IF Kind(r, 0) = "LeftParen" THEN bound ELSE r, <<<<"take", {"Comma"}>>, <<"type">>>>), cp, "ForAllType")

TypeHead(p, cp) ==
  CASE Kind(p, 0) = "ForAllKeyword" \/ (Kind(p, 0) = "Identifier" /\ Word(p, 0, "for") /\ Word(p, 1, "all")) -> ForAll(p, cp)
    [] Kind(p, 0) = "LinearKeyword" ->
         ItemStep(Wrap(ItemDo(p, <<<<"bump">>, <<"atom">>, <<"args", cp>>>>), cp, "LinearType"), <<"bound", cp>>)
    [] Kind(p, 0) = "MutableKeyword" -> ItemDo(p, <<<<"bump">>, <<"atom">>, <<"args", cp>>, <<"bound", cp>>>>)
    [] OTHER -> ItemDo(p, <<<<"atom">>, <<"args", cp>>, <<"bound", cp>>>>)

\* type_args: `Integer wrapping` is a type by itself.
MoreArgs(p) == IF Kind(p, 0) \in TypeArgStarts THEN ItemDo(p, <<<<"atom">>, <<"more args">>>>) ELSE p

TypeArgs(p, cp) ==
  IF PrevTaken(p).k = "TypeIdentifier" /\ PrevTaken(p).w = "Integer" /\ Kind(p, 0) = "Identifier" /\ Word(p, 0, "wrapping")
  THEN Wrap(Bump(p), cp, "BoundedIntType")
  ELSE IF Kind(p, 0) \in TypeArgStarts THEN Wrap(MoreArgs(p), cp, "AppType") ELSE p

\* paren_is_tuple and field_has_bare_comma: from the i-th token on, a comma and
\* no arrow before the parenthesis closes.
RECURSIVE BareComma(_, _, _)
BareComma(i, depth, comma) ==
  LET k == TokenAt(i).k
  IN  IF k \in {"none", "EndOfFile"} \/ (k = "RightParen" /\ depth = 0) THEN comma
      ELSE IF k = "Arrow" /\ depth = 0 THEN FALSE
      ELSE BareComma(i + 1, depth + (IF k \in {"LeftParen", "LeftBracket"} THEN 1 ELSE IF k \in {"RightParen", "RightBracket"} THEN -1 ELSE 0),
                     comma \/ (k = "Comma" /\ depth = 0))

\* What is in parentheses; in a tuple a comma is between its types.
ParenTypes(p, tuple) ==
  LET q == ItemStep(p, <<"inner", ~tuple>>)
  IN  IF Kind(q, 0) = "Comma" THEN ItemDo(q, <<<<"bump">>, <<"lines">>, <<"paren types", tuple>>>>) ELSE q

TypeAtom(p) ==
  LET cp == Checkpoint(p)
      q == Bump(p)
      tuple == BareComma(q.at + 1, 0, FALSE)
      signed == Kind(p, 1) \in {"IntegerLiteral", "NumberLiteral"} /\ Sig(p, 1).from = Sig(p, 0).from + 1
  IN  CASE Kind(p, 0) = "LeftParen" ->
             Wrap(Expect(IF Kind(q, 0) = "RightParen" THEN q ELSE ParenTypes(q, tuple), {"RightParen"}, 0), cp,
                  IF tuple THEN "TupleType" ELSE "ParenType")
        [] Kind(p, 0) = "LeftBracket" ->
             Wrap(ItemDo(q, <<<<"until bracket">>, <<"expect", {"RightBracket"}, 0>>, <<"type">>>>), cp, "EffectType")
        [] Kind(p, 0) = "Minus" /\ signed -> Wrap(Bump(q), cp, "NamedType")
        [] Kind(p, 0) = "none" -> p
        [] OTHER -> Wrap(q, cp, "NamedType")

BoundInt(p) ==
  Expect(IF Kind(p, 0) = "Minus" THEN Bump(p) ELSE p, {"IntegerLiteral", "NumberLiteral", "TrueKeyword", "FalseKeyword"}, 0)

\* bound_or_arith: bounds, or arithmetic by rising precedence.
Bound(p, cp) ==
  LET q == BoundInt(Expect(BoundInt(Bump(p)), {"AndKeyword"}, 0))
      r == IF Kind(q, 0) = "Identifier" /\ Sig(q, 0).w \in {"wrapping", "clamping", "error"} THEN Bump(q) ELSE q
  IN  IF Kind(p, 0) = "BetweenKeyword" THEN Wrap(r, cp, "BoundedIntType") ELSE ItemStep(p, <<"tail", cp, 3>>)

TypeLevels == <<{"Star", "Slash"}, {"Plus", "Minus"}, {"Ampersand"}>>

\* mul_tail, add_tail and append_tail.
TypeTail(p, cp, level) == ItemStep(IF level = 1 THEN p ELSE ItemStep(p, <<"tail", cp, level - 1>>), <<"operators", cp, level>>)

TypeOperators(p, cp, level) ==
  LET q == Bump(p)
      r == ItemDo(q, <<<<"atom">>, <<"args", Checkpoint(q)>>>>)
      s == IF level = 1 THEN r ELSE ItemStep(r, <<"tail", Checkpoint(q), level - 1>>)
  IN  IF Kind(p, 0) \in TypeLevels[level] THEN ItemStep(Wrap(s, cp, "ArithType"), <<"operators", cp, level>>) ELSE p

\* type_first_indent: the column of the line that the signature began on; lines
\* that end in a comma or an arrow go on.
RECURSIVE FirstIndent(_, _, _)
FirstIndent(line, end, col) ==
  LET earlier == {i \in 1 .. end : Real(toks[i]) /\ toks[i].line < line}
      first == Max(earlier \cup {0})
      here == {i \in first + 1 .. end : Real(toks[i])}
      start == IF here = {} THEN col ELSE toks[Min(here)].col
  IN  IF TokenAt(first).k \in {"Comma", "Arrow"} THEN FirstIndent(toks[first].line, first, col) ELSE start

TypeFirstIndent(p) == FirstIndent(Sig(p, 0).line, p.at, Sig(p, 0).col)

\* past_break, type_param_after and breaks_without_continuing.
RECURSIVE PastBreak(_, _)
PastBreak(p, n) == IF Kind(p, n) = "Newline" THEN PastBreak(p, n + 1) ELSE n

TypeParamAfter(p) ==
  LET n == PastBreak(p, 1)
  IN  \/ Kind(p, n) \in {"TypeIdentifier", "LeftBracket", "LeftParen"}
      \/ Kind(p, n) = "Identifier" /\ Kind(p, n + 1) # "Colon"

BreaksOff(p) ==
  LET n == PastBreak(p, 1)
  IN  n > 1 /\ (Kind(p, n) \in {"none", "EndOfFile"} \/ Sig(p, n).col <= TypeFirstIndent(p))

\* parse_type_continue.
TypeContinue(p, cp, comma) ==
  LET q == SkipNewlines(Bump(p))
      r == ItemStep(q, <<"type">>)
      chained == Checkpoint(q) < Len(r.kids) /\ r.kids[Checkpoint(q) + 1].k = "FunType"
      listed == Kind(p, 0) = "Comma" /\ comma /\ TypeParamAfter(p)
  IN  CASE Kind(p, 0) = "Arrow" \/ listed ->
             IF BreaksOff(p) THEN Bump(Err(p, 1081))
             ELSE Wrap(IF Kind(p, 0) = "Arrow" /\ chained THEN Err(r, 1072) ELSE r, cp, "FunType")
        [] Kind(p, 0) = "TripleEquals" -> Wrap(ItemStep(Bump(p), <<"type">>), cp, "PropEqType")
        [] Kind(p, 0) = "FatArrow" -> Wrap(ItemStep(Bump(p), <<"type">>), cp, "ConstrainedType")
        [] OTHER -> p

-----------------------------------------------------------------------------
(***************************************************************************)
(* Where items begin.                                                      *)
(***************************************************************************)
TopLevelCol == 3

ItemStarts ==
  {"Identifier", "TypeIdentifier", "ClaimKeyword", "ProofKeyword", "MutableKeyword", "EffectKeyword", "ClassKeyword",
   "InstanceKeyword", "UnitKeyword", "CitesKeyword", "QuotesKeyword", "TrustingKeyword", "GroundsKeyword",
   "PunctualKeyword", "BoundedKeyword"}

StartsConversion(p) == Kind(p, 0) = "IntegerLiteral" /\ Kind(p, 1) = "TypeIdentifier" /\ Kind(p, 2) = "Equals"

Ended(p) == Kind(p, 0) \in {"none", "EndOfFile"}

\* in_prose_block, and eat_prose_block by lines.
InProse(p) == TokenAt(Behind(p.at, {"Newline", "Spaces"})).k = "SkippedProse"

ProseContinues(p) ==
  LET t == TokenAt(Ahead(p.at + 1, {"Spaces", "Newline"}))
  IN  t.k = "SkippedProse" \/ (t.k \notin {"none", "EndOfFile"} /\ t.col > TopLevelCol)

RECURSIVE ProseLines(_)
ProseLines(p) ==
  LET q == EatToEndOfLine(p)
      r == Bump(q)
  IN  IF Kind(q, 0) # "Newline" THEN q ELSE IF ProseContinues(r) THEN ProseLines(r) ELSE r

EatProseBlock(p) == Wrap(ProseLines(p), Checkpoint(p), "ProseBlock")

\* Wrong: the next item is looked for at any column.
ItemAnywhere(p, col) == Kind(p, 0) \in ItemStarts

ItemAt(p, col) == Sig(p, 0).col <= col /\ Kind(p, 0) \in ItemStarts

\* eat_item_body.
RECURSIVE UpToItem(_, _)
UpToItem(p, col) == IF Ended(p) \/ ItemAt(p, col) THEN p ELSE UpToItem(Bump(p), col)

EatItemBody(p, col) == UpToItem(Bump(p), col)

-----------------------------------------------------------------------------
(***************************************************************************)
(* Type definitions.                                                       *)
(***************************************************************************)
ParenParam(p, n) ==
  Kind(p, n) = "LeftParen" /\ Kind(p, n + 1) \in {"Identifier", "TypeIdentifier"} /\ Kind(p, n + 2) = "RightParen"

RECURSIVE TypeParamsFrom(_)
TypeParamsFrom(p) ==
  IF ParenParam(p, 0) THEN TypeParamsFrom(Bump(Bump(Bump(p))))
  ELSE IF Kind(p, 0) = "Identifier" THEN TypeParamsFrom(Bump(p)) ELSE p

TypeParams(p) == LET q == TypeParamsFrom(p) IN IF q.at = p.at THEN p ELSE Wrap(q, Checkpoint(p), "TypeParams")

RECURSIVE PipeOnLine(_, _)
PipeOnLine(p, n) ==
  IF Kind(p, n) \in {"Newline", "EndOfFile", "none"} THEN FALSE ELSE Kind(p, n) = "Pipe" \/ PipeOnLine(p, n + 1)

RECURSIVE RecordFields(_)
RecordFields(p) ==
  LET q == SkipNewlines(Wrap(Type(Expect(Bump(p), {"Colon"}, 0)), Checkpoint(p), "RecordFieldDef"))
  IN  IF Kind(p, 0) = "RightBrace" THEN Bump(p)
      ELSE IF Kind(p, 0) \notin FieldNames THEN p
      ELSE RecordFields(IF Kind(q, 0) = "Comma" THEN SkipNewlines(Bump(q)) ELSE q)

RecordBody(p) == Wrap(RecordFields(SkipNewlines(Expect(Bump(p), {"LeftBrace"}, 0))), Checkpoint(p), "RecordBody")

RECURSIVE CtorFields(_)
CtorFields(p) ==
  LET q == Bump(p)
      r == IF BareComma(q.at + 1, 0, FALSE) THEN Err(q, 1076) ELSE q
  IN  IF Kind(p, 0) = "LeftParen" THEN CtorFields(Wrap(Expect(Type(r), {"RightParen"}, 0), Checkpoint(p), "CtorField")) ELSE p

\* What a return annotation takes: up to the next constructor or a line that is
\* not right of the type's name.
RECURSIVE SkipAnnotation(_, _, _)
SkipAnnotation(p, line, col) ==
  LET t == Sig(p, 0)
  IN  IF t.k \in {"Pipe", "EndOfFile", "none"} \/ (t.k # "Newline" /\ t.line > line /\ t.col <= col) THEN p
      ELSE SkipAnnotation(Bump(p), line, col)

RECURSIVE Annotations(_, _)
Annotations(p, col) ==
  LET q == SkipAnnotation(Err(Bump(p), 1080), Sig(p, 0).line, col)
  IN  IF Kind(p, 0) = "Colon" THEN Annotations(SkipNewlines(CtorFields(Wrap(q, Checkpoint(p), "Error"))), col) ELSE p

Ctor(p, col) == Wrap(Annotations(SkipNewlines(CtorFields(Bump(p))), col), Checkpoint(p), "VariantCtor")

RECURSIVE Ctors(_, _)
Ctors(p, col) == IF Kind(p, 0) = "Pipe" THEN Ctors(Ctor(SkipNewlines(Bump(p)), col), col) ELSE p

VariantBody(p, col) ==
  Wrap(Ctors(IF Kind(p, 0) = "TypeIdentifier" THEN Ctor(p, col) ELSE p, col), Checkpoint(p), "VariantBody")

RECURSIVE UnitMembers(_)
UnitMembers(p) ==
  IF Kind(p, 0) = "TypeIdentifier" /\ Kind(p, 1) = "Equals" /\ Kind(p, 2) = "IntegerLiteral"
  THEN UnitMembers(SkipNewlines(Wrap(Bump(Bump(Bump(p))), Checkpoint(p), "UnitFamilyMember"))) ELSE p

UnitBody(p) ==
  LET q == Bump(p)
  IN  IF Word(q, 0, "family")
      THEN Wrap(UnitMembers(SkipNewlines(Expect(Bump(q), {"TypeIdentifier"}, 0))), Checkpoint(p), "UnitFamilyBody")
      ELSE Wrap(Type(q), Checkpoint(p), "UnitBody")

RECURSIVE Derived(_)
Derived(p) ==
  LET q == Bump(p)
  IN  IF Kind(p, 0) # "TypeIdentifier" THEN p ELSE IF Kind(q, 0) = "Comma" THEN Derived(SkipNewlines(Bump(q))) ELSE q

Deriving(p) ==
  LET q == SkipNewlines(p)
  IN  IF Kind(q, 0) = "Identifier" /\ Word(q, 0, "deriving")
      THEN Wrap(Derived(SkipNewlines(Bump(q))), Checkpoint(q), "Deriving") ELSE q

TypeBody(p, col) ==
  CASE Kind(p, 0) = "RecordKeyword" -> RecordBody(p)
    [] Kind(p, 0) = "UnitKeyword" -> UnitBody(p)
    [] Kind(p, 0) = "Pipe" \/ (Kind(p, 0) = "TypeIdentifier" /\ PipeOnLine(p, 1)) -> VariantBody(p, col)
    [] OTHER -> p

\* typedef::trailer: what is left up to the next item, line by line.
AtNextItem(p, col) == Ended(p) \/ ItemAt(p, col) \/ (Sig(p, 0).col <= col /\ StartsConversion(p))

RECURSIVE UpToNext(_, _)
UpToNext(p, col) == IF AtNextItem(p, col) \/ InProse(p) THEN p ELSE UpToNext(Bump(p), col)

RECURSIVE Trailer(_, _)
Trailer(p, col) ==
  LET q == SkipNewlines(EatToEndOfLine(p))
  IN  IF AtNextItem(p, col) THEN p
      ELSE IF Kind(p, 0) = "Newline" THEN Trailer(Bump(p), col)
      ELSE IF InProse(p) THEN Trailer(EatProseBlock(p), col)
      ELSE IF AtNextItem(q, col) \/ InProse(q) THEN Trailer(Wrap(Lose(q, "resynced line"), Checkpoint(p), "Loose"), col)
      ELSE Trailer(Wrap(Lose(UpToNext(q, col), "unread type definition"), Checkpoint(p), "Error"), col)

ParseTypeDef(p) ==
  LET col == Sig(p, 0).col
      q == IF Kind(p, 0) = "MutableKeyword" THEN Bump(p) ELSE p
      r == TypeParams(Bump(q))
      s == IF Kind(r, 0) = "Equals" THEN Deriving(TypeBody(SkipNewlines(Bump(r)), Sig(q, 0).col)) ELSE Err(r, 0)
  IN  Wrap(Trailer(s, col), Checkpoint(p), "TypeDef")

\* looks_like_type_def.
RECURSIVE PastParams(_, _)
PastParams(p, n) ==
  IF Kind(p, n) = "Identifier" THEN PastParams(p, n + 1) ELSE IF ParenParam(p, n) THEN PastParams(p, n + 3) ELSE n

LooksLikeTypeDef(p) ==
  LET start == IF Kind(p, 0) = "TypeIdentifier" THEN 0 ELSE 1
      n == PastParams(p, start + 1)
      m == PastBreak(p, n + 1)
  IN  /\ Kind(p, 0) \in {"MutableKeyword", "EffectKeyword", "ClassKeyword", "InstanceKeyword", "UnitKeyword", "TypeIdentifier"}
      /\ Kind(p, start) = "TypeIdentifier" /\ Kind(p, n) = "Equals"
      /\ \/ Kind(p, m) \in {"UnitKeyword", "RecordKeyword", "Pipe"}
         \/ Kind(p, m) = "TypeIdentifier" /\ PipeOnLine(p, m + 1)

-----------------------------------------------------------------------------
(***************************************************************************)
(* Effects, classes and instances.                                         *)
(***************************************************************************)
RECURSIVE Ops(_)
Ops(p) ==
  IF Kind(p, 0) = "Identifier" /\ Kind(p, 1) = "Colon"
  THEN Ops(SkipNewlines(Wrap(Type(Bump(Bump(p))), Checkpoint(p), "EffectOp"))) ELSE p

Where(p) == IF Kind(p, 0) = "WhereKeyword" THEN SkipNewlines(Bump(p)) ELSE p

ParseEffectDef(p) == Wrap(Ops(Where(Bump(Bump(p)))), Checkpoint(p), "EffectDef")

ParseClassDef(p) ==
  LET q == Bump(p)
      r == Bump(q)
      super == Kind(r, 0) = "Identifier" /\ Kind(r, 1) = "FatArrow"
  IN  Wrap(Ops(Where(IF super THEN Bump(Wrap(Bump(Bump(r)), Checkpoint(q), "Superclass")) ELSE r)), Checkpoint(p), "ClassDef")

\* An instance's type, with its parentheses.
RECURSIVE Balanced(_, _)
Balanced(p, depth) ==
  LET next == depth + (CASE Kind(p, 0) = "LeftParen" -> 1 [] Kind(p, 0) = "RightParen" -> -1 [] OTHER -> 0)
  IN  IF Ended(p) THEN p ELSE IF next = 0 THEN Bump(p) ELSE Balanced(Bump(p), next)

RECURSIVE Methods(_)
Methods(p) ==
  LET q == ItemStep(Bump(p), <<"params">>)
  IN  IF Kind(p, 0) # "Identifier" THEN p
      ELSE IF Kind(q, 0) # "Equals" THEN Wrap(q, Checkpoint(p), "Error")
      ELSE Methods(SkipNewlines(Wrap(ItemDo(q, <<<<"bump">>, <<"lines">>, <<"expr">>>>), Checkpoint(p), "InstanceMethod")))

ParseInstanceDef(p) ==
  LET q == Bump(Bump(p))
  IN  Wrap(Methods(Where(IF Kind(q, 0) = "LeftParen" THEN Balanced(q, 0) ELSE Bump(q))), Checkpoint(p), "InstanceDef")

-----------------------------------------------------------------------------
(***************************************************************************)
(* Definitions.                                                            *)
(***************************************************************************)
\* `body`: what is left of it after its expression is not read.
LineStartCol(p) ==
  Min({toks[i].col : i \in {j \in 1 .. p.at : Real(toks[j]) /\ toks[j].line = PrevSig(p).line}})

LeftInBody(p, from, to, col) ==
  LET t == Sig(p, 0)
      read == SelectSeq(SubSeq(toks, from + 1, to), Real)
      fellOff == t.k \in {"LeftParen", "LeftBracket"} \cup (Literals \ {"TrueKeyword", "FalseKeyword"}) /\ t.col > LineStartCol(p)
      q == IF fellOff THEN Err(p, 1070) ELSE p
      r == IF t.k = "ErrorToken" THEN q ELSE Err(q, IF Len(read) = 1 /\ read[1].w = "do" THEN 1075 ELSE 1078)
      s == SkipNewlines(EatToEndOfLine(r))
  IN  IF Ended(s) \/ ItemAt(s, col) \/ StartsConversion(s)
      THEN Wrap(Lose(s, "resynced line"), Checkpoint(p), "Loose")
      ELSE Wrap(Lose(EatItemBody(s, col), "unparsed body"), Checkpoint(p), "UnparsedBody")

DefinitionBody(p, col) ==
  LET q == SkipNewlines(p)
      b == ItemStep(q, <<"def body", col>>)
      r == IF Kind(b, 0) = "QedKeyword" THEN SkipNewlines(Wrap(Bump(b), Checkpoint(b), "Qed")) ELSE b
  IN  IF Ended(r) \/ Sig(r, 0).col <= col THEN r
      ELSE IF InProse(r) THEN EatProseBlock(r)
      ELSE LeftInBody(r, q.at, b.at, col)

\* The markers before a definition.
Marked(p) ==
  LET c == IF Kind(p, 0) = "ClaimKeyword" /\ Kind(p, 1) \in {"Identifier", "TypeIdentifier"} /\ Kind(p, 2) = "Colon"
           THEN Wrap(Bump(p), Checkpoint(p), "Claim") ELSE p
      class(q) == IF Kind(q, 0) \in {"Identifier", "TypeIdentifier"} \/ IsKeyword(Kind(q, 0)) THEN Bump(q) ELSE q
      b == IF Kind(c, 0) = "BoundedKeyword" THEN Wrap(class(Bump(c)), Checkpoint(c), "Bounded") ELSE c
      budget(q) == IF Kind(q, 0) = "IntegerLiteral" THEN Bump(q) ELSE q
  IN  IF Kind(b, 0) = "PunctualKeyword" THEN Wrap(budget(Bump(b)), Checkpoint(b), "Punctual") ELSE b

RECURSIVE UnreadType(_)
UnreadType(p) == IF Kind(p, 0) \in {"Newline", "EndOfFile", "Equals", "none"} THEN p ELSE UnreadType(Bump(p))

Annotated(p) ==
  LET q == Bump(Bump(p))
      t == Type(q)
      r == IF Kind(t, 0) \in {"Equals", "Newline", "EndOfFile", "none"} THEN t
           ELSE Wrap(UnreadType(Lose(t, "unread type")), Checkpoint(t), "Error")
  IN  Wrap(Wrap(r, Checkpoint(q), "TypeExpr"), Checkpoint(p), "TypeAnnotation")

RECURSIVE DefParams(_)
DefParams(p) ==
  LET q == Bump(p)
      r == IF Kind(q, 0) \in Binders THEN Bump(q) ELSE IF IsKeyword(Kind(q, 0)) THEN Bump(Err(q, 1060)) ELSE q
  IN  IF Kind(p, 0) = "LeftParen" THEN DefParams(Wrap(Expect(r, {"RightParen"}, 0), Checkpoint(p), "ParamGroup")) ELSE p

\* The equation at p: its name, its parameters and its body.
Equation(p) ==
  LET col == Sig(p, 0).col
      q == Wrap(DefParams(Bump(IF Kind(p, 0) = "ProofKeyword" THEN Bump(p) ELSE p)), Checkpoint(p), "DefEquation")
      r == IF Kind(q, 0) = "Equals" THEN DefinitionBody(Bump(q), col) ELSE EatItemBody(Err(q, 1000), col)
  IN  [r EXCEPT !.defEnd = PrevSig(r).line]

ParseDef(p) ==
  LET m == Marked(p)
      a == IF Kind(m, 1) = "Colon" THEN Annotated(m) ELSE m
      q == SkipNewlines(a)
      direct == Kind(m, 1) = "Colon" /\ Kind(a, 0) = "Equals"
  IN  Wrap(IF direct THEN DefinitionBody(Bump(Wrap(a, Checkpoint(a), "DefEquation")), Sig(p, 0).col)
           ELSE IF Kind(q, 0) \in ItemStarts THEN Equation(q) ELSE q,
           Checkpoint(p), "Def")

-----------------------------------------------------------------------------
ItemStep(p, s) ==
  CASE Head(s) = "take"        -> IF Kind(p, 0) \in s[2] THEN Bump(p) ELSE p
    [] Head(s) = "type"        -> Type(p)
    [] Head(s) = "inner"       -> TypeContinue(TypeHead(p, Checkpoint(p)), Checkpoint(p), s[2])
    [] Head(s) = "atom"        -> TypeAtom(p)
    [] Head(s) = "args"        -> TypeArgs(p, s[2])
    [] Head(s) = "more args"   -> MoreArgs(p)
    [] Head(s) = "paren types" -> ParenTypes(p, s[2])
    [] Head(s) = "bound"       -> Bound(p, s[2])
    [] Head(s) = "tail"        -> TypeTail(p, s[2], s[3])
    [] Head(s) = "operators"   -> TypeOperators(p, s[2], s[3])
    [] Head(s) = "EffectDef"   -> ParseEffectDef(p)
    [] Head(s) = "ClassDef"    -> ParseClassDef(p)
    [] Head(s) = "InstanceDef" -> ParseInstanceDef(p)
    [] Head(s) = "TypeDef"     -> ParseTypeDef(p)
    [] Head(s) = "Def"         -> ParseDef(p)
    [] OTHER                   -> Step(p, s)
=============================================================================
