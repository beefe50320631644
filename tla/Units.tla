------------------------------- MODULE Units --------------------------------
(***************************************************************************)
(* From a program to a unit whose every name has one meaning: the bundler  *)
(* assembles the unit (Bundling), the chapter scoper tells the colliding   *)
(* names of its chapters apart, and the resolver reads the result          *)
(* (ChapterScoper).  The bundler and the scoper each decide which chapter  *)
(* a cite means; the scoper and the resolver each decide what is bound.    *)
(***************************************************************************)
EXTENDS Bundling, ChapterScoper

VARIABLES scoped    \* the definitions of the unit, renamed

\* scoper::apply, on the unit the bundler handed on.
Scope ==
  /\ phase = "loaded"
  /\ scoped' = Scoped(UnitChapters)
  /\ phase' = "scoped"
  /\ UNCHANGED <<project, carried, seen, complaints, parts, stack>>

unitVars == <<project, phase, carried, seen, complaints, parts, stack, scoped>>

UnitInit == Init /\ scoped = <<>>

UnitNext == (Next /\ UNCHANGED scoped) \/ Scope

\* Resolving is one call, whose steps follow each other.  Scoping is a single
\* step that nothing waits for.
UnitSpec == UnitInit /\ [][UnitNext]_unitVars /\ WF_<<phase, stack>>(Next /\ UNCHANGED scoped)

-----------------------------------------------------------------------------
Defs == DefsOf(UnitChapters)

\* The chapter the bundler takes a cite to mean (Carried::of).
Meant(cite) ==
  LET headers == HeadersOf(UnitChapters)
      exact   == Exact(headers, cite)
      named   == Named(headers, cite.name)
  IN  headers[CHOOSE i \in IF exact # {} THEN exact ELSE named : TRUE]

\* A cite that says enough for the scoper: it names a chapter under its quire,
\* or one that holds a single definition.
Plain(cite) ==
  \/ Exact(HeadersOf(UnitChapters), cite) # {}
  \/ Cardinality({i \in DOMAIN Defs : CiteKey[Defs[i].slug.name] = CiteKey[cite.name]}) = 1

AllCites == ToSet(CitesOf(UnitChapters))

\* The scoper and the resolver agree on what a definition binds, as far as
\* colliding names go: a `forall` of the declared type binds none, and neither
\* do a statement that is a `let` and `induction on` a name.
BindAlike(d) ==
  LET Collide(S) == S \cap Colliding(Defs) # {}
  IN  /\ ~Collide(d.forall \ ToSet(d.params))
      /\ \A e \in ToSet(Under(d.body)) :
            /\ e.t = "Act" => \A i \in DOMAIN e.xs : ~Collide(Chain(e.xs[i]))
            /\ e.t = "Induction" => ~Collide({e.xs[1].n})

\* What a mention should read as once names are mangled: a local as it was, a
\* colliding name as its chapter's own, or the cited chapter's.
Expected(slug, r) ==
  LET cites == Selecting(UnitChapters, slug, r.n)
  IN  IF r.local \/ r.n \notin Colliding(Defs) THEN r
      ELSE IF Defines(Defs, slug, r.n) THEN [r EXCEPT !.n = Mangle(slug, r.n)]
      ELSE IF cites = <<>> THEN r
      ELSE [r EXCEPT !.n = Mangle(Meant(Last(cites)), r.n)]

\* Renaming captures nothing and loses nothing: every mention the resolver
\* reads as a local stays one, and every other is pointed at the definition its
\* chapter owns or cites (scoper.rs, Scope::mention).
MentionsKeepTheirMeaning ==
  \A i \in DOMAIN Defs :
    BindAlike(Defs[i]) =>
      LET reads == ReadsOf(Defs[i])
      IN  ReadsOf(scoped[i]) = [k \in DOMAIN reads |-> Expected(Defs[i].slug, reads[k])]

\* After scoping a name is defined by one chapter, `opening` apart, which never
\* collides.
OneChapterPerName ==
  \A i, j \in DOMAIN scoped :
     scoped[i].name = scoped[j].name => scoped[i].slug = scoped[j].slug \/ scoped[i].name = Opening

\* No mention loses its definition, but those reported as ambiguous and those
\* that a cite selects from a chapter without it.
NothingBecomesUndefined ==
  \A i \in DOMAIN Defs :
     BindAlike(Defs[i]) =>
       \A n \in Undefined(scoped, scoped[i]) :
          \/ n \in Undefined(Defs, Defs[i])
          \/ n \in AmbiguousRefs(UnitChapters, Defs, Defs[i])
          \/ \E c \in AllCites : \E m \in c.selected :
                n = Mangle(Meant(c), m) /\ ~Defines(Defs, Meant(c), m)

\* The rules over names, which run after the scoper, find what they would have
\* found before it.
RulesUnmoved ==
  /\ DuplicateDefinition(scoped) <=> DuplicateDefinition(Defs)
  /\ \A i \in DOMAIN Defs :
        /\ BindsTwice(scoped[i].body) <=> BindsTwice(Defs[i].body)
        /\ BindAlike(Defs[i]) =>
             AppliedLocalBuiltins(scoped[i].body, LocalsOf(scoped[i]))
               = AppliedLocalBuiltins(Defs[i].body, LocalsOf(Defs[i]))

\* The rule that refuses a cite whose chapter is not there finds none in a unit
\* (CDX3007, name_rules.rs, cites_resolve).
CitesFound == phase = "loaded" /\ WellNamed => ~CiteNotInUnit(UnitChapters)

\* Scoping settles what every name of the unit is, and does no more: what every
\* mention means, which chapter defines a name, and what the name rules find
\* (scoper.rs, apply; name_rules.rs, check).
NamesSettled ==
  /\ CitesFound
  /\ phase = "scoped" /\ (\A c \in AllCites : Plain(c)) =>
       MentionsKeepTheirMeaning /\ OneChapterPerName /\ NothingBecomesUndefined /\ RulesUnmoved
=============================================================================
