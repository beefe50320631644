------------------------------ MODULE TokenStream ------------------------------
(***************************************************************************)
(* The lexer (src/lexer.rs), the tree it feeds (src/cst.rs) and the cursor *)
(* of the parser on it (src/parser.rs).                                    *)
(*                                                                         *)
(* A source is a sequence of symbols: a run of letters is one symbol, and  *)
(* so is every other character.  A token is some symbols, of a kind, at a  *)
(* line and a column; spaces and prose are tokens too.                     *)
(***************************************************************************)
EXTENDS Integers, Sequences, SequencesExt, TLC

CONSTANTS
  Names,      \* the words that are no keywords
  TypeNames   \* those that are capitalized

VARIABLES
  source,  \* the text
  toks     \* its tokens

Keywords ==
  [let |-> "LetKeyword", in |-> "InKeyword", between |-> "BetweenKeyword", and |-> "AndKeyword", or |-> "OrKeyword",
   xor |-> "XorKeyword", not |-> "NotKeyword", if |-> "IfKeyword", is |-> "IsKeyword", otherwise |-> "OtherwiseKeyword",
   then |-> "ThenKeyword", else |-> "ElseKeyword", when |-> "WhenKeyword", where |-> "WhereKeyword", act |-> "ActKeyword",
   end |-> "EndKeyword", record |-> "RecordKeyword", cites |-> "CitesKeyword", grounds |-> "GroundsKeyword",
   quotes |-> "QuotesKeyword", trusting |-> "TrustingKeyword", claim |-> "ClaimKeyword", proof |-> "ProofKeyword",
   qed |-> "QedKeyword", induction |-> "InductionKeyword", forall |-> "ForAllKeyword", linear |-> "LinearKeyword",
   mutable |-> "MutableKeyword", punctual |-> "PunctualKeyword", bounded |-> "BoundedKeyword", unit |-> "UnitKeyword",
   effect |-> "EffectKeyword", class |-> "ClassKeyword", instance |-> "InstanceKeyword", with |-> "WithKeyword",
   trying |-> "TryingKeyword", lazy |-> "LazyKeyword", revised |-> "RevisedKeyword", True |-> "TrueKeyword",
   False |-> "FalseKeyword"]

IsKeyword(k) == k = "WithTimeoutKeyword" \/ \E w \in DOMAIN Keywords : Keywords[w] = k

Letters == Names \cup TypeNames \cup DOMAIN Keywords
Digits == {"0", "1", "2"}
HexDigits == Digits \cup {"a", "f"}

Operators ==
  ("(" :> "LeftParen") @@ (")" :> "RightParen") @@ ("[" :> "LeftBracket") @@ ("]" :> "RightBracket") @@
  ("{" :> "LeftBrace") @@ ("}" :> "RightBrace") @@ ("," :> "Comma") @@ ("." :> "Dot") @@ ("^" :> "Caret") @@
  ("&" :> "Ampersand") @@ ("\\" :> "Backslash") @@ ("~" :> "Tilde") @@ ("+" :> "Plus") @@ ("-" :> "Minus") @@
  ("*" :> "Star") @@ ("/" :> "Slash") @@ ("=" :> "Equals") @@ (":" :> "Colon") @@ ("|" :> "Pipe") @@
  ("<" :> "LessThan") @@ (">" :> "GreaterThan")

LongOperators ==
  (<<"~", "0">> :> "TildeZero") @@ (<<"-", ">">> :> "Arrow") @@ (<<"/", "=">> :> "NotEquals") @@
  (<<"=", "=">> :> "DoubleEquals") @@ (<<"=", ">">> :> "FatArrow") @@ (<<":", ":">> :> "ColonColon") @@
  (<<"|", ">">> :> "PipeForward") @@ (<<"<", "=">> :> "LessOrEqual") @@ (<<"<", "-">> :> "LeftArrow") @@
  (<<">", "=">> :> "GreaterOrEqual") @@ (<<"=", "=", "=">> :> "TripleEquals")

-----------------------------------------------------------------------------
(***************************************************************************)
(* Scanning.  A scanner takes how many symbols are taken and answers how   *)
(* many are taken after it.                                                *)
(***************************************************************************)
Size == Len(source)

\* Lexer::peek, n symbols on; nothing past the end.
Peek(i, n) == IF i + n < Size THEN source[i + n + 1] ELSE ""

Text(from, to) == SubSeq(source, from + 1, to)

RECURSIVE Over(_, _)
Over(i, S) == IF Peek(i, 0) \in S THEN Over(i + 1, S) ELSE i

RECURSIVE ToEndOfLine(_)
ToEndOfLine(i) == IF i = Size \/ Peek(i, 0) = "\n" THEN i ELSE ToEndOfLine(i + 1)

\* scan_ident_end: a hyphen belongs to the name it is in, and an arrow ends it.
RECURSIVE IdentEnd(_)
IdentEnd(i) ==
  IF \/ Peek(i, 0) \in Letters \cup Digits \cup {"_"}
     \/ Peek(i, 0) = "-" /\ Peek(i, 1) # ">"
  THEN IdentEnd(i + 1) ELSE i

\* Wrong: a text literal goes on over the end of its line.
RECURSIVE StringEndOver(_)
StringEndOver(i) ==
  IF i >= Size THEN i ELSE CASE Peek(i, 0) = "\"" -> i + 1 [] Peek(i, 0) = "\\" -> StringEndOver(i + 2) [] OTHER -> StringEndOver(i + 1)

\* scan_string_end: a backslash takes what is after it along, past the end too.
RECURSIVE StringEnd(_)
StringEnd(i) ==
  IF i >= Size THEN i
  ELSE CASE Peek(i, 0) = "\"" -> i + 1
         [] Peek(i, 0) = "\n" -> i
         [] Peek(i, 0) = "\\" -> StringEnd(i + 2)
         [] OTHER -> StringEnd(i + 1)

\* scan_number: a point is the number's when it is not the last symbol and no
\* other point follows it.
NumberEnd(i) ==
  LET whole == Over(i, Digits \cup {"_"})
  IN  IF Peek(whole, 0) = "." /\ Peek(whole, 1) \notin {"", "."} THEN Over(whole + 1, Digits \cup {"_"}) ELSE whole

\* scan_char_literal, after its quote.
CharEnd(i) ==
  LET body == IF Peek(i, 0) = "\\" THEN i + 1 ELSE i
  IN  IF Peek(body, 0) \in {"", "\n"} THEN body
      ELSE IF Peek(body, 1) = "'" THEN body + 2 ELSE body + 1

OperatorEnd(i) ==
  IF i + 2 < Size /\ Text(i, i + 3) \in DOMAIN LongOperators THEN i + 3
  ELSE IF i + 1 < Size /\ Text(i, i + 2) \in DOMAIN LongOperators THEN i + 2 ELSE i + 1

OperatorKind(text) ==
  IF text \in DOMAIN LongOperators THEN LongOperators[text]
  ELSE IF text[1] \in DOMAIN Operators THEN Operators[text[1]] ELSE "ErrorToken"

\* classify_word.
WordKind(text) ==
  CASE text = <<"_">> -> "Underscore"
    [] text = <<"with", "-", "timeout">> -> "WithTimeoutKeyword"
    [] Len(text) = 1 /\ text[1] \in DOMAIN Keywords -> Keywords[text[1]]
    [] text[1] \in TypeNames \cup {"True", "False"} -> "TypeIdentifier"
    [] OTHER -> "Identifier"

\* The branches of `tokenize`: where the token at i ends, and what kind it is.
\* A line of one space is prose; it is not read here.
Prose(i, col) == col = 2 /\ Peek(i, 0) \notin {" ", "\t", "\n"}

ScanEnd(i, col) ==
  LET c == Peek(i, 0)
  IN  IF Prose(i, col) THEN ToEndOfLine(i)
      ELSE CASE c = " " -> Over(i, {" "})
             [] c \in {"\t", "\n"} -> i + 1
             [] c = "\"" -> StringEnd(i + 1)
             [] c = "'" -> CharEnd(i + 1)
             [] c \in Letters \cup {"_"} -> IdentEnd(i + 1)
             [] c \in Digits -> NumberEnd(i)
             [] c = "#" -> Over(i + 1, HexDigits \cup {"_"})
             [] OTHER -> OperatorEnd(i)

ScanKind(i, col, text) ==
  LET c == text[1]
  IN  IF Prose(i, col) THEN "SkippedProse"
      ELSE CASE c = " " -> "Spaces"
             [] c = "\t" -> "Unmapped"
             [] c = "\n" -> "Newline"
             [] c = "\"" -> "TextLiteral"
             [] c = "'" -> IF text \in {<<"'">>, <<"'", "\\">>} THEN "ErrorToken" ELSE "CharLiteral"
             [] c \in Letters \cup {"_"} -> WordKind(text)
             [] c \in Digits -> IF \E n \in DOMAIN text : text[n] = "." THEN "NumberLiteral" ELSE "IntegerLiteral"
             [] c = "#" -> IF Len(text) = 1 THEN "ErrorToken" ELSE "IntegerLiteral"
             [] OTHER -> OperatorKind(text)

Token(k, from, end, line, col) ==
  [k |-> k, w |-> IF end = from + 1 /\ end <= Size THEN source[end] ELSE "", from |-> from, len |-> end - from, line |-> line, col |-> col]

\* `tokenize`: only a line break of its own starts a line.
RECURSIVE TokensFrom(_, _, _, _)
TokensFrom(i, line, col, done) ==
  LET end == ScanEnd(i, col)
      k == ScanKind(i, col, Text(i, IF end > Size THEN Size ELSE end))
  IN  IF i >= Size THEN Append(done, Token("EndOfFile", i, i, line, col))
      ELSE TokensFrom(end, IF k = "Newline" THEN line + 1 ELSE line, IF k = "Newline" THEN 1 ELSE col + (end - i),
                      Append(done, Token(k, i, end, line, col)))

Tokenize == TokensFrom(0, 1, 1, <<>>)

-----------------------------------------------------------------------------
(***************************************************************************)
(* The tree: a leaf is a token and has no children.  A parser p has taken  *)
(* `at` tokens; `kids` are the children so far, `kind` is the kind of the  *)
(* last node, `errors` are the codes it reported (0 for what has none) and *)
(* `lost` is what it counted of what it did not read.                      *)
(***************************************************************************)
Leaf(k, w) == [k |-> k, w |-> w, xs |-> <<>>]
Node(k, xs) == [k |-> k, w |-> "", xs |-> xs]

Parser ==
  [at |-> 0, kids |-> <<>>, kind |-> "Document", errors |-> <<>>, lost |-> <<>>, paren |-> 0, type |-> 0, defEnd |-> 0]

\* Builder::checkpoint and Builder::wrap_from.  A node that is started and ended
\* is wrapped from where it started.
Checkpoint(p) == Len(p.kids)

Wrap(p, cp, kind) ==
  [p EXCEPT !.kids = Append(SubSeq(@, 1, cp), Node(kind, SubSeq(@, cp + 1, Len(@)))), !.kind = kind]

Err(p, code) == [p EXCEPT !.errors = Append(@, code)]
Lose(p, what) == [p EXCEPT !.lost = Append(@, what)]

Trivia == {"Spaces", "SkippedProse", "Unmapped"}

\* The first token from the i-th on that is not of these kinds, and the last one
\* up to it; past the ends there is none.
RECURSIVE Ahead(_, _)
Ahead(i, kinds) == IF i <= Len(toks) /\ toks[i].k \in kinds THEN Ahead(i + 1, kinds) ELSE i

RECURSIVE Behind(_, _)
Behind(i, kinds) == IF i > 0 /\ toks[i].k \in kinds THEN Behind(i - 1, kinds) ELSE i

TokenAt(i) ==
  IF i \in 1 .. Len(toks) THEN toks[i] ELSE [k |-> "none", w |-> "", from |-> 0, len |-> 0, line |-> 0, col |-> 0]

RECURSIVE NthAhead(_, _)
NthAhead(i, n) == IF n = 0 THEN Ahead(i, Trivia) ELSE NthAhead(Ahead(i, Trivia) + 1, n - 1)

\* Parser::sig and Parser::kind.
Sig(p, n)   == TokenAt(NthAhead(p.at + 1, n))
Kind(p, n)  == Sig(p, n).k
Word(p, n, w) == Sig(p, n).w = w
Done(p)     == p.at >= Len(toks)

\* Parser::eat_trivia: a byte no code maps is refused inside a type.
Drift(p) ==
  LET next == Ahead(p.at + 1, Trivia)
      over == SubSeq(toks, p.at + 1, next - 1)
  IN  [p EXCEPT !.at = next - 1,
                !.kids = @ \o [n \in DOMAIN over |-> Leaf(over[n].k, over[n].w)],
                !.errors = IF p.type = 0 THEN @ ELSE @ \o [n \in DOMAIN SelectSeq(over, LAMBDA t : t.k = "Unmapped") |-> 0]]

\* Parser::bump, by Builder::eat.
Take(q) == IF Done(q) THEN q ELSE [q EXCEPT !.at = @ + 1, !.kids = Append(@, Leaf(toks[q.at + 1].k, toks[q.at + 1].w))]
Bump(p) == Take(Drift(p))

RECURSIVE SkipNewlines(_)
SkipNewlines(p) == IF Kind(p, 0) = "Newline" THEN SkipNewlines(Bump(p)) ELSE p

RECURSIVE EatToEndOfLine(_)
EatToEndOfLine(p) == IF Kind(p, 0) \in {"Newline", "EndOfFile", "none"} THEN p ELSE EatToEndOfLine(Bump(p))

\* Parser::sig_past_newlines, Parser::prev_sig and Parser::prev_sig_line.
SigPastNewlines(p) == IF Kind(p, 0) = "Newline" THEN TokenAt(Ahead(p.at + 1, Trivia \cup {"Newline"})) ELSE TokenAt(0)
PrevTaken(p) == TokenAt(Behind(p.at, Trivia))
PrevSig(p) == TokenAt(Behind(p.at, Trivia \cup {"Newline"}))

Real(t) == t.k \notin Trivia \cup {"Newline"}

\* What is under a node, without spaces, prose and line breaks.
RECURSIVE Shape(_)
Shape(n) ==
  LET kept == SelectSeq(n.xs, Real)
  IN  [n EXCEPT !.xs = <<>> \o [i \in DOMAIN kept |-> Shape(kept[i])]]
=============================================================================
