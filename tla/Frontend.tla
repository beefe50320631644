------------------------------- MODULE Frontend -------------------------------
(***************************************************************************)
(* `parse` (src/parser.rs): a text is made tokens, and items are read off  *)
(* them one by one.                                                        *)
(***************************************************************************)
EXTENDS ItemGrammar

CONSTANT
  Texts  \* texts to read: `text`, and what it was written from

VARIABLES
  p,       \* the parser
  written  \* the items the text was written from, and whether they are all of it

vars == <<source, toks, p, written>>

-----------------------------------------------------------------------------
\* What the next item is, in the order the loop of `parse` asks; q is at a token
\* that is no space and no prose.
ItemKind(q) ==
  LET k == Kind(q, 0)
      col == Sig(q, 0).col
  IN  IF k \in {"EndOfFile", "Newline"} THEN "Blank"
      ELSE IF k = "TypeIdentifier" /\ col = 1 /\ Kind(q, 1) = "Colon"
      THEN IF Word(q, 0, "Section") THEN "SectionHeader" ELSE "ChapterHeader"
      ELSE IF k \in {"CitesKeyword", "GroundsKeyword", "QuotesKeyword", "TrustingKeyword"}
      THEN [CitesKeyword |-> "Cites", GroundsKeyword |-> "Grounds", QuotesKeyword |-> "Quotes", TrustingKeyword |-> "Trusting"][k]
      ELSE IF k = "EffectKeyword" /\ col = TopLevelCol THEN "EffectDef"
      ELSE IF k = "ClassKeyword" /\ Kind(q, 1) \in {"Identifier", "TypeIdentifier"} THEN "ClassDef"
      ELSE IF k = "InstanceKeyword" /\ Kind(q, 1) = "TypeIdentifier" THEN "InstanceDef"
      ELSE IF StartsConversion(q) THEN "Conversion"
      ELSE IF col = TopLevelCol /\ LooksLikeTypeDef(q) THEN "TypeDef"
      ELSE IF col = TopLevelCol /\ k \in ItemStarts THEN "Def"
      ELSE "Loose"

\* What is reported of a line that begins no item.
LooseCodes(q) ==
  LET t == Sig(q, 0)
  IN  IF t.col = 1 /\ t.w # "Page" THEN <<1077>>
      ELSE IF t.col > TopLevelCol /\ q.defEnd + 1 = t.line THEN <<1070>>
      ELSE IF t.col \in 2 .. TopLevelCol /\ t.k \notin {"EndKeyword", "QedKeyword"} THEN <<1077>>
      ELSE <<>>

Lines == {"SectionHeader", "ChapterHeader", "Cites", "Grounds", "Quotes", "Trusting", "Conversion"}
ItemKinds == {"EffectDef", "ClassDef", "InstanceDef", "TypeDef", "Def"}

\* Wrong: a line's node is begun and nothing is taken into it.
Untaken(q, kind) == Wrap(q, Checkpoint(q), kind)

Line(q, kind) == Wrap(EatToEndOfLine(q), Checkpoint(q), kind)

Reading == toks # <<>> /\ ~Done(p)

Next1(kind, q) == Reading /\ ItemKind(Drift(p)) = kind /\ p' = q /\ UNCHANGED <<source, toks, written>>

Lex == toks = <<>> /\ toks' = Tokenize /\ UNCHANGED <<source, p, written>>

Blank    == Next1("Blank", Bump(p))
OneLine  == \E kind \in Lines : Next1(kind, Line(Drift(p), kind))
Item     == \E kind \in ItemKinds : Next1(kind, ItemStep(Drift(p), <<kind>>))
Loose    == Next1("Loose", Line([Drift(p) EXCEPT !.errors = @ \o LooseCodes(p)], "Loose"))

Next == Lex \/ Blank \/ OneLine \/ Item \/ Loose

Init == toks = <<>> /\ p = Parser /\ \E t \in Texts : source = t.text /\ written = t.written

Spec == Init /\ [][Next]_vars

-----------------------------------------------------------------------------
(***************************************************************************)
(* Properties.                                                             *)
(***************************************************************************)
Read == toks # <<>> /\ Done(p)

Items == SelectSeq(Shape(Node("Document", p.kids)).xs, LAMBDA n : n.k # "EndOfFile")

\* A text that the grammar writes, in any of its layouts, is read back as the
\* tree it was written from, with nothing to report and nothing lost (the tests
\* of src/expr.rs, src/block.rs, src/pattern.rs, src/types.rs and
\* src/typedef.rs, for every tree of the instance and wherever it stands).
TreesRead == Read /\ written.whole => Items = written.items /\ p.errors = <<>> /\ p.lost = <<>>

\* Whatever is left in a body after what could be read of it, it stays in its
\* definition, the next item is read as it is written (src/parser.rs,
\* eat_item_body: a body that is not understood costs itself only), and what was
\* left is told or counted.
NextItemRead ==
  Read /\ ~written.whole /\ written.items # <<>> =>
    /\ [n \in DOMAIN Items |-> Items[n].k] = [n \in DOMAIN written.items |-> written.items[n].k]
    /\ Last(Items) = Last(written.items)
    /\ p.errors \o p.lost # <<>>

\* Every token is at the line and the column its first symbol is at, and they
\* are all of the text, except after a backslash at the end of a line in a text
\* literal (src/lexer.rs: "every byte lands in exactly one token").
LinesBefore(n) == Cardinality({i \in 1 .. n : source[i] = "\n"})
ColumnOf(n) == n + 1 - Max({0} \cup {i \in 1 .. n : source[i] = "\n"})
BackslashEndsLine ==
  \E i \in DOMAIN source : source[i] = "\\" /\ (i = Len(source) \/ source[i + 1] = "\n")

PlacesRight ==
  toks # <<>> /\ ~BackslashEndsLine =>
    /\ toks[Len(toks)].from = Size
    /\ \A n \in DOMAIN toks :
         toks[n].line = 1 + LinesBefore(toks[n].from) /\ toks[n].col = ColumnOf(toks[n].from)

\* Every turn of the loop takes a token, whatever the text, so that `parse` ends
\* (src/parser.rs, `parse`: its branches bump, or wrap what a handler took).
EachTurnTakes == [][toks # <<>> => p'.at > p.at]_vars
=============================================================================
