---------------------------- MODULE ChapterNames ----------------------------
(***************************************************************************)
(* How chapters are named in a unit: a header is the quire it is written   *)
(* under, or NoQuire, and a name.  Three readings of a name are in use,    *)
(* each given by what it answers for the names in play.                    *)
(***************************************************************************)
EXTENDS Integers, Sequences, SequencesExt

CONSTANTS
  Fold,         \* eq_ignore_ascii_case: names that differ in case are one
  CiteKey,      \* cite_key: names that differ in case or spaces are one
  Slugify,      \* slugify: what a mangled name says of a chapter
  NoQuire       \* the prefix of a plain header

Header(quire, name) == [quire |-> quire, name |-> name]

SameName(a, b) == Fold[a] = Fold[b]

\* A key ignores more than case does.
ASSUME NamesAssumption == \A a, b \in DOMAIN Fold : SameName(a, b) => CiteKey[a] = CiteKey[b]

SameQuire(a, b) ==
  \/ a = NoQuire /\ b = NoQuire
  \/ a # NoQuire /\ b # NoQuire /\ CiteKey[a] = CiteKey[b]

SameHeader(h, g) == SameQuire(h.quire, g.quire) /\ CiteKey[h.name] = CiteKey[g.name]
=============================================================================
