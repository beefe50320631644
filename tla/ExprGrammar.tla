------------------------------ MODULE ExprGrammar ------------------------------
(***************************************************************************)
(* Expressions, blocks and patterns (src/expr.rs, src/block.rs and         *)
(* src/pattern.rs).  A rule of the grammar is named by a tuple, and Step   *)
(* is the parser after what such a tuple names; Do takes several in turn.  *)
(***************************************************************************)
EXTENDS TokenStream

RECURSIVE Step(_, _)
RECURSIVE Do(_, _)
Do(p, steps) == IF steps = <<>> THEN p ELSE Do(Step(p, Head(steps)), Tail(steps))

Arrows   == {"Arrow", "FatArrow"}
Literals == {"IntegerLiteral", "NumberLiteral", "TextLiteral", "CharLiteral", "TrueKeyword", "FalseKeyword"}
Binders  == {"Identifier", "Underscore"}

\* expr::precedence, in rising order; what is no operator has -1.
Levels ==
  << {"PipeForward"}, {"Pipe", "OrKeyword"}, {"XorKeyword"}, {"Ampersand", "AndKeyword"},
     {"DoubleEquals", "NotEquals", "LessThan", "GreaterThan", "LessOrEqual", "GreaterOrEqual", "TripleEquals", "Tilde", "TildeZero"},
     {"ColonColon"}, {"Plus", "Minus"}, {"Star", "Slash"}, {"Caret"} >>

Precedence(k) == IF \E n \in 1 .. 9 : k \in Levels[n] THEN CHOOSE n \in 1 .. 9 : k \in Levels[n] ELSE -1

RightAssoc(k) == k \in {"ColonColon", "Caret", "Arrow"}

ComparisonLevel == 5

ArgumentStarts ==
  {"Identifier", "TypeIdentifier", "LeftParen", "LeftBracket", "ActKeyword", "WithKeyword", "LazyKeyword"} \cup Literals

Compound == {"MatchExpr", "IfExpr", "LetExpr", "ActBlock", "FieldAssign", "Lambda", "ForExpr"}

FieldNames ==
  {"Identifier", "ActKeyword", "EndKeyword", "QedKeyword", "EffectKeyword", "WhereKeyword", "WithKeyword", "LinearKeyword",
   "ClaimKeyword", "ProofKeyword", "RecordKeyword", "ClassKeyword", "InstanceKeyword"}

\* pattern::is_reserved_keyword.
Reserved(k) ==
  IsKeyword(k) /\ k \notin {"AndKeyword", "OrKeyword", "XorKeyword", "NotKeyword", "QuotesKeyword", "TrustingKeyword",
                            "BoundedKeyword", "TryingKeyword", "WithTimeoutKeyword"}

-----------------------------------------------------------------------------
(***************************************************************************)
(* Steps every rule is made of.                                            *)
(***************************************************************************)
Expect(p, kinds, code) == IF Kind(p, 0) \in kinds THEN Bump(p) ELSE Err(p, code)

Inside(p)  == [p EXCEPT !.paren = @ + 1]
Outside(p) == [p EXCEPT !.paren = @ - 1]

\* Expressions with commas between them.
Elements(p) ==
  LET q == Do(p, <<<<"expr">>, <<"lines">>>>)
  IN  IF Kind(q, 0) = "Comma" THEN Do(q, <<<<"bump">>, <<"lines">>, <<"elements">>>>) ELSE q

\* A parenthesis or a bracket and what is in it.
Bracketed(p, close, code) ==
  LET q == SkipNewlines(Inside(Bump(p)))
  IN  Expect(Outside(IF Kind(q, 0) = close THEN q ELSE Step(q, <<"elements">>)), {close}, code)

HasComma(p, cp) == \E n \in cp + 1 .. Len(p.kids) : p.kids[n].k = "Comma"

UntilBracket(p) == IF Kind(p, 0) \in {"RightBracket", "EndOfFile", "none"} THEN p ELSE Do(p, <<<<"bump">>, <<"until bracket">>>>)

\* Parameters of a clause or of a method, each a name in parentheses.
Params(p) ==
  IF Kind(p, 0) # "LeftParen" THEN p
  ELSE LET q == Bump(p)
           r == IF Kind(q, 0) = "RightParen" THEN q ELSE Bump(q)
       IN  Step(Wrap(Expect(r, {"RightParen"}, 0), Checkpoint(p), "ParamGroup"), <<"params">>)

-----------------------------------------------------------------------------
(***************************************************************************)
(* Operators, applications and what follows a point.                       *)
(***************************************************************************)
\* parse_binary: operators of a precedence, up to a column (0 for none).
Binary(p, prec, col) == Do(p, <<<<"unary", col>>, <<"operators", Checkpoint(p), prec, col>>>>)

\* A token that is not right of the column the body must stay right of.
LeftOf(t, col) == col > 0 /\ t.col <= col

\* Wrong: every operator takes what binds as tightly on its right.
RightFirst(k) == Precedence(k)

\* The precedence an operator asks of its right operand.
RightOf(k) == IF RightAssoc(k) THEN Precedence(k) ELSE Precedence(k) + 1

OperatorsFrom(p, cp, prec, col) ==
  LET q == SkipNewlines(p)
      t == Sig(q, 0)
      r == SkipNewlines(Bump(q))
      next == Sig(r, 0)
      doubled == t.k = "Plus" /\ next.k = "Plus" /\ next.from = t.from + 1
  IN  IF t.k = "none" \/ LeftOf(t, col) \/ Precedence(t.k) < prec THEN q
      ELSE Step(Wrap(Step(IF doubled THEN Bump(Err(r, 1075)) ELSE r, <<"binary", RightOf(t.k), col>>), cp, "Bin"),
                <<"operators", cp, prec, col>>)

Unary(p, col) ==
  CASE Kind(p, 0) = "Minus" -> Wrap(Do(p, <<<<"bump">>, <<"unary", col>>>>), Checkpoint(p), "Unary")
    [] Kind(p, 0) = "NotKeyword" -> Wrap(Do(p, <<<<"bump">>, <<"binary", ComparisonLevel, col>>>>), Checkpoint(p), "Unary")
    [] OTHER -> Do(p, <<<<"atom">>, <<"arguments", Checkpoint(p)>>>>)

\* is_abutted_negation.
Abutted(p) ==
  Kind(p, 0) = "Minus" /\ Kind(p, 1) \in ArgumentStarts /\ Sig(p, 1).from = Sig(p, 0).from + 1

\* Only in parentheses an application goes on over a line break.
OverLinesInside(p) == IF p.paren > 0 THEN SkipNewlines(p) ELSE p

\* parse_application, after its first atom.
ArgumentsFrom(p, cp) ==
  LET q == OverLinesInside(p)
  IN  CASE p.kind \in Compound -> Step(p, <<"access", cp>>)
        [] p.kind \notin Compound /\ Kind(q, 0) \in ArgumentStarts ->
             Step(Wrap(Step(q, <<"atom">>), cp, "App"), <<"arguments", cp>>)
        [] p.kind \notin Compound /\ Abutted(q) ->
             Step(Wrap(Wrap(Do(q, <<<<"bump">>, <<"atom">>>>), Checkpoint(q), "Unary"), cp, "App"), <<"arguments", cp>>)
        [] OTHER -> IF Kind(q, 0) = "none" THEN q ELSE Step(q, <<"access", cp>>)

\* parse_field_access.
AccessFrom(p, cp) ==
  LET q == Bump(p)
      r == Bump(q)
  IN  CASE Kind(p, 0) = "Dot" ->
             IF Kind(q, 0) \notin FieldNames THEN q
             ELSE IF Kind(r, 0) = "Equals" THEN Wrap(Do(r, <<<<"bump">>, <<"expr">>>>), cp, "FieldAssign")
             ELSE Step(Wrap(r, cp, "FieldAccess"), <<"access", cp>>)
        [] Kind(p, 0) = "RevisedKeyword" -> Step(Wrap(Do(q, <<<<"lines">>, <<"braces">>>>), cp, "Revised"), <<"access", cp>>)
        [] OTHER -> IF p.paren = 0 /\ SigPastNewlines(p).k = "Dot" THEN Err(p, 1071) ELSE p

\* record_braces, and a field of them.
Braces(p) ==
  IF Kind(p, 0) = "LeftBrace" THEN Step(SkipNewlines(Inside(Bump(p))), <<"fields">>) ELSE Err(p, 0)

Fields(p) ==
  LET k == Kind(p, 0)
      q == Bump(p)
      r == SkipNewlines(Wrap(IF Kind(q, 0) = "Equals" THEN Do(q, <<<<"bump">>, <<"lines">>, <<"expr">>>>) ELSE q,
                             Checkpoint(p), "RecordField"))
  IN  IF k \in {"RightBrace", "EndOfFile", "none"} THEN Expect(Outside(p), {"RightBrace"}, 0)
      ELSE IF k # "Identifier" /\ ~IsKeyword(k) THEN Outside(Wrap(Err(p, 1024), Checkpoint(p), "RecordField"))
      ELSE Step(IF Kind(r, 0) = "Comma" THEN SkipNewlines(Bump(r)) ELSE r, <<"fields">>)

-----------------------------------------------------------------------------
(***************************************************************************)
(* The open forms.                                                         *)
(***************************************************************************)
If(p) ==
  LET q == Do(p, <<<<"bump">>, <<"expr">>, <<"lines">>, <<"expect", {"ThenKeyword"}, 1021>>, <<"lines">>, <<"expr">>, <<"lines">>>>)
  IN  Wrap(IF Kind(q, 0) = "ElseKeyword" THEN Do(q, <<<<"bump">>, <<"lines">>, <<"expr">>>>) ELSE Err(q, 1022),
           Checkpoint(p), "IfExpr")

LetValue(p) == IF Kind(p, 0) = "Equals" THEN Do(p, <<<<"bump">>, <<"lines">>, <<"expr">>>>) ELSE Err(p, 0)

\* The bindings of a let; a pattern's is the last.
Bindings(p) ==
  LET k == Kind(p, 0)
      named == IF k = "Identifier" THEN p ELSE Err(p, 1060)
      q == SkipNewlines(Wrap(LetValue(Bump(named)), Checkpoint(p), "LetBinding"))
  IN  CASE k = "LeftParen" -> Wrap(LetValue(Step(Bump(p), <<"tuple pattern", Checkpoint(p)>>)), Checkpoint(p), "LetBinding")
        [] k = "Identifier" \/ (Reserved(k) /\ Kind(p, 1) = "Equals") ->
             Step(IF Kind(q, 0) = "Comma" THEN SkipNewlines(Bump(q)) ELSE q, <<"bindings">>)
        [] OTHER -> p

Let(p) ==
  LET q == Do(p, <<<<"bump">>, <<"lines">>, <<"bindings">>>>)
  IN  Wrap(Step(IF Kind(q, 0) = "InKeyword" THEN SkipNewlines(Bump(q)) ELSE Err(q, 1023), <<"let body">>),
           Checkpoint(p), "LetExpr")

\* parse_let_body_seq and parse_def_body_seq: a store may be followed by more.
LetBody(p) ==
  LET b == Step(p, <<"expr">>)
      q == SkipNewlines(b)
  IN  IF b.kind # "FieldAssign" THEN b
      ELSE IF Kind(q, 0) # "InKeyword" THEN q
      ELSE Wrap(Do(q, <<<<"bump">>, <<"lines">>, <<"let body">>>>), Checkpoint(p), "SeqExpr")

DefBody(p, col) ==
  LET b == Step(p, <<"binary", 0, col>>)
      q == SkipNewlines(b)
  IN  IF b.kind # "FieldAssign" THEN b
      ELSE IF Kind(q, 0) \in {"none", "EndOfFile"} \/ Sig(q, 0).col <= col THEN q
      ELSE Wrap(Step(q, <<"def body", col>>), Checkpoint(p), "SeqExpr")

\* parse_match: its arms are where the first one is, or on the line of the last.
Match(p, kind) ==
  LET q == Bump(p)
      r == IF kind = "MatchExpr" THEN Step(q, <<"expr">>)
           ELSE Step(IF Word(q, 0, "on") THEN Bump(q) ELSE q, <<"atom">>)
      s == SkipNewlines(r)
  IN  Wrap(Step(s, <<"arms", Sig(s, 0).col, Sig(s, 0).line>>), Checkpoint(p), kind)

\* Wrong: any `is` is the next arm of this match.
AnyArm(t, col, line) == t.k = "IsKeyword"

ArmOf(t, col, line) == t.k = "IsKeyword" /\ (t.line = line \/ t.col = col)

ArmsFrom(p, col, line) ==
  LET q == Do(p, <<<<"bump">>, <<"pattern">>, <<"alternatives">>>>)
      r == IF Kind(q, 0) = "WhenKeyword" THEN Wrap(Do(q, <<<<"bump">>, <<"expr">>>>), Checkpoint(q), "Guard") ELSE q
      s == Do(Expect(r, Arrows, 1032), <<<<"lines">>, <<"binary", 0, col>>>>)
  IN  IF ArmOf(Sig(p, 0), col, line)
      THEN Step(SkipNewlines(Wrap(s, Checkpoint(p), "MatchArm")), <<"arms", col, Sig(p, 0).line>>)
      ELSE p

Alternatives(p) ==
  LET q == SkipNewlines(Bump(p))
  IN  IF Kind(p, 0) # "Pipe" THEN p
      ELSE IF Kind(q, 0) \in Arrows THEN Err(q, 1032)
      ELSE Do(q, <<<<"pattern">>, <<"alternatives">>>>)

LambdaNames(p) == IF Kind(p, 0) \in Binders THEN Do(p, <<<<"bump">>, <<"lambda names">>>>) ELSE p

ForSteps ==
  <<<<"bump">>, <<"expect", Binders, 0>>, <<"expect", {"InKeyword"}, 0>>, <<"expr">>, <<"expect", Arrows, 0>>, <<"lines">>, <<"expr">>>>
LambdaSteps == <<<<"bump">>, <<"lambda names">>, <<"expect", Arrows, 0>>, <<"lines">>, <<"expr">>>>

-----------------------------------------------------------------------------
(***************************************************************************)
(* Blocks.                                                                 *)
(***************************************************************************)
\* stmts_to_end: statements up to `end`, or to a word that begins a section.
Statements(p, stops) ==
  IF Kind(p, 0) \in {"none", "EndOfFile"} THEN Lose(p, "unclosed block")
  ELSE IF Kind(p, 0) = "EndKeyword" THEN Bump(p)
  ELSE IF Sig(p, 0).w \in stops THEN p
  ELSE Do(p, <<<<"statement">>, <<"lines">>, <<"statements", stops>>>>)

Statement(p) ==
  IF Kind(p, 0) = "Identifier" /\ Kind(p, 1) = "LeftArrow"
  THEN Wrap(Do(p, <<<<"bump">>, <<"bump">>, <<"expr">>>>), Checkpoint(p), "ActBind")
  ELSE Wrap(Step(p, <<"expr">>), Checkpoint(p), "ActStmt")

\* A statement that is one literal and nothing else.
RECURSIVE OnlyLiteral(_)
OnlyLiteral(n) ==
  LET kept == SelectSeq(n.xs, Real)
  IN  IF n.xs = <<>> THEN n.k \in Literals ELSE Len(kept) = 1 /\ OnlyLiteral(kept[1])

\* parse_act: what a literal before the last statement says is lost.
Act(p) ==
  LET q == Do(p, <<<<"bump">>, <<"lines">>, <<"statements", {}>>>>)
      stmts == SelectSeq(SubSeq(q.kids, Checkpoint(p) + 1, Len(q.kids)), LAMBDA n : n.k \in {"ActBind", "ActStmt"})
      bare == SelectSeq(SubSeq(stmts, 1, Len(stmts) - 1), LAMBDA n : n.k = "ActStmt" /\ OnlyLiteral(n))
      told == IF stmts = <<>> THEN <<1040>> ELSE IF PrevSig(q).k = "EndKeyword" THEN <<>> \o [n \in DOMAIN bare |-> 1079] ELSE <<>>
  IN  Wrap([q EXCEPT !.errors = @ \o told], Checkpoint(p), "ActBlock")

\* block::section, which is closed when an `end` was its last token.
Section(p, kind, stops) == Wrap(Step(p, <<"statements", stops>>), Checkpoint(p), kind)
Closed(p) == PrevTaken(p).k = "EndKeyword"

ExpectWord(p, w) == IF Kind(p, 0) = "Identifier" /\ Word(p, 0, w) THEN SkipNewlines(Bump(p)) ELSE Err(p, 0)

Trying(p) ==
  LET q == SkipNewlines(Bump(p))
      tried == Section(ExpectWord(SkipNewlines(Bump(q)), "times"), "TryBody", {"falling", "on"})
      fell == IF ~Closed(tried) /\ Kind(tried, 0) = "Identifier" /\ Word(tried, 0, "falling")
              THEN Section(ExpectWord(ExpectWord(SkipNewlines(Bump(tried)), "back"), "to"), "TryFallback", {"on"})
              ELSE tried
      failed == IF ~Closed(fell) /\ Kind(fell, 0) = "Identifier" /\ Word(fell, 0, "on") /\ Word(fell, 1, "failure")
                THEN Section(SkipNewlines(Bump(Bump(fell))), "TryFailure", {})
                ELSE fell
  IN  Wrap(IF Kind(q, 0) \in Literals \ {"TrueKeyword", "FalseKeyword"} THEN failed ELSE Bump(Err(q, 0)), Checkpoint(p), "TryExpr")

\* parse_handle: a clause is a name with a parameter, wherever it is.
Clauses(p) ==
  IF Kind(p, 0) = "Identifier" /\ Kind(p, 1) = "LeftParen"
  THEN LET q == Do(p, <<<<"bump">>, <<"params">>, <<"expect", {"Equals"}, 0>>, <<"lines">>, <<"expr">>>>)
       IN  Step(SkipNewlines(Wrap(q, Checkpoint(p), "HandleClause")), <<"clauses">>)
  ELSE p

HandleSteps == <<<<"bump">>, <<"bump">>, <<"expr">>, <<"lines">>, <<"clauses">>>>

EffectRow(p) ==
  IF Kind(p, 0) = "LeftBracket"
  THEN Wrap(Do(p, <<<<"bump">>, <<"until bracket">>, <<"expect", {"RightBracket"}, 0>>>>), Checkpoint(p), "EffectRow")
  ELSE Err(p, 0)

TimeoutSteps == <<<<"bump">>, <<"bump">>, <<"effect row">>, <<"expr">>>>

-----------------------------------------------------------------------------
(***************************************************************************)
(* Patterns.                                                               *)
(***************************************************************************)
Pattern(p) ==
  LET k == Kind(p, 0)
      cp == Checkpoint(p)
  IN  CASE k \in {"OtherwiseKeyword", "Underscore"} -> Wrap(Bump(p), cp, "WildPat")
        [] k \in Literals -> Wrap(Bump(p), cp, "LitPat")
        [] k = "TypeIdentifier" -> Step(Bump(p), <<"constructor", cp, Word(p, 0, "Vector")>>)
        [] k = "Identifier" -> Wrap(Bump(p), cp, "VarPat")
        [] k \notin {"OtherwiseKeyword"} \cup Literals /\ Reserved(k) -> Wrap(Bump(Err(p, 1060)), cp, "VarPat")
        [] k = "LeftParen" -> Step(Bump(p), <<"tuple pattern", cp>>)
        [] OTHER -> Wrap(Bump(p), cp, "ErrPat")

\* Patterns with commas between them.
MorePatterns(p) ==
  LET q == Step(p, <<"pattern">>) IN IF Kind(q, 0) = "Comma" THEN Do(q, <<<<"bump">>, <<"more patterns">>>>) ELSE q

VectorElements(p) ==
  IF Kind(p, 0) = "RightBracket" THEN Bump(p) ELSE Expect(MorePatterns(p), {"RightBracket"}, 0)

\* pattern::ctor_fields and pattern::vec_elems.
Constructor(p, cp, vector) ==
  CASE vector /\ Kind(p, 0) = "LeftBracket" -> Wrap(VectorElements(Bump(p)), cp, "VecPat")
    [] Kind(p, 0) = "LeftParen" ->
         Do(p, <<<<"bump">>, <<"pattern">>, <<"expect", {"RightParen"}, 0>>, <<"constructor", cp, vector>>>>)
    [] OTHER -> Wrap(p, cp, "CtorPat")

\* pattern::paren_or_tuple, after its parenthesis.
TuplePattern(p, cp) ==
  LET q == Expect(Step(p, <<"more patterns">>), {"RightParen"}, 0)
  IN  Wrap(q, cp, IF HasComma(q, cp) THEN "TuplePat" ELSE "ParenPat")

-----------------------------------------------------------------------------
\* parse_atom.
Atom(p) ==
  LET k == Kind(p, 0)
      cp == Checkpoint(p)
      Access(q, kind) == Step(Wrap(q, cp, kind), <<"access", cp>>)
      q == Bump(p)
  IN  CASE k = "none" -> [p EXCEPT !.kind = "ErrExpr"]
        [] k \in Literals -> Wrap(q, cp, "Lit")
        [] k = "Identifier" -> IF Word(p, 0, "for") THEN Wrap(Do(p, ForSteps), cp, "ForExpr") ELSE Access(q, "Name")
        [] k = "TypeIdentifier" ->
             IF Kind(q, 0) = "LeftBrace" THEN Wrap(Step(q, <<"braces">>), cp, "RecordLit") ELSE Access(q, "Name")
        [] k = "LeftParen" ->
             LET r == Bracketed(p, "RightParen", 1000) IN Access(r, IF HasComma(r, cp) THEN "Tuple" ELSE "Paren")
        [] k = "LeftBracket" -> Access(Bracketed(p, "RightBracket", 1025), "ListLit")
        [] k = "IfKeyword" -> If(p)
        [] k = "LetKeyword" -> Let(p)
        [] k = "WhenKeyword" -> Match(p, "MatchExpr")
        [] k = "InductionKeyword" -> Match(p, "Induction")
        [] k = "ActKeyword" -> Step(Act(p), <<"access", cp>>)
        [] k = "TryingKeyword" -> Trying(p)
        [] k = "WithKeyword" -> Access(Do(p, HandleSteps), "HandleExpr")
        [] k = "WithTimeoutKeyword" -> Wrap(Do(p, TimeoutSteps), cp, "WithTimeout")
        [] k = "Backslash" -> Wrap(Do(p, LambdaSteps), cp, "Lambda")
        [] k = "LazyKeyword" -> Wrap(Step(q, <<"expr">>), cp, "LazyExpr")
        [] k = "Dot" -> IF Kind(q, 0) \in FieldNames THEN Wrap(Bump(q), cp, "Selector") ELSE Wrap(Err(q, 1071), cp, "ErrExpr")
        [] OTHER -> Wrap(q, cp, "ErrExpr")

Step(p, s) ==
  CASE Head(s) = "bump"            -> Bump(p)
    [] Head(s) = "lines"           -> SkipNewlines(p)
    [] Head(s) = "expect"          -> Expect(p, s[2], s[3])
    [] Head(s) = "expr"            -> Binary(p, 0, 0)
    [] Head(s) = "binary"          -> Binary(p, s[2], s[3])
    [] Head(s) = "operators"       -> OperatorsFrom(p, s[2], s[3], s[4])
    [] Head(s) = "unary"           -> Unary(p, s[2])
    [] Head(s) = "arguments"       -> ArgumentsFrom(p, s[2])
    [] Head(s) = "access"          -> AccessFrom(p, s[2])
    [] Head(s) = "atom"            -> Atom(p)
    [] Head(s) = "elements"        -> Elements(p)
    [] Head(s) = "braces"          -> Braces(p)
    [] Head(s) = "fields"          -> Fields(p)
    [] Head(s) = "bindings"        -> Bindings(p)
    [] Head(s) = "let body"        -> LetBody(p)
    [] Head(s) = "def body"        -> DefBody(p, s[2])
    [] Head(s) = "arms"            -> ArmsFrom(p, s[2], s[3])
    [] Head(s) = "alternatives"    -> Alternatives(p)
    [] Head(s) = "lambda names"    -> LambdaNames(p)
    [] Head(s) = "statements"      -> Statements(p, s[2])
    [] Head(s) = "statement"       -> Statement(p)
    [] Head(s) = "clauses"         -> Clauses(p)
    [] Head(s) = "params"          -> Params(p)
    [] Head(s) = "effect row"      -> EffectRow(p)
    [] Head(s) = "until bracket"   -> UntilBracket(p)
    [] Head(s) = "pattern"         -> Pattern(p)
    [] Head(s) = "constructor"     -> Constructor(p, s[2], s[3])
    [] Head(s) = "more patterns"   -> MorePatterns(p)
    [] Head(s) = "tuple pattern"   -> TuplePattern(p, s[2])
=============================================================================
