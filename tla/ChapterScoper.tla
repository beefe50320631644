--------------------------- MODULE ChapterScoper ----------------------------
(***************************************************************************)
(* The chapter scoper (src/scoper.rs): a name two chapters of a unit       *)
(* define is mangled with its chapter, and every mention of it is pointed  *)
(* at the definition its chapter means; and the name resolver              *)
(* (src/scope.rs) that reads the result.                                   *)
(*                                                                         *)
(* A unit is a sequence of chapters, each with the header it carries, what *)
(* it cites and its definitions.  Both walks go the same way down an       *)
(* expression and differ in what they take to be bound on the way:         *)
(* ScoperBinds and ResolverBinds.                                          *)
(***************************************************************************)
EXTENDS Syntax, ChapterNames, FiniteSets

CONSTANTS
  Capitals,     \* the names with a capital, which need no definition
  Builtins      \* BUILTINS

-----------------------------------------------------------------------------
(***************************************************************************)
(* The definitions of a unit, and who owns a name in a chapter.            *)
(***************************************************************************)
Opening == <<"opening">>

\* The definitions in the order of the unit, each with its chapter's header.
DefsOf(unit) ==
  FlattenSeq([i \in DOMAIN unit |->
    [k \in DOMAIN unit[i].defs |-> unit[i].defs[k] @@ [slug |-> unit[i].header]]])

\* find-colliding-names.
Colliding(defs) ==
  {n \in {defs[i].name : i \in DOMAIN defs} \ {Opening} :
     Cardinality({defs[i].slug : i \in {j \in DOMAIN defs : defs[j].name = n}}) > 1}

NoSlug == [quire |-> NoQuire, name |-> NoQuire]

\* find-slug-for-cite-name: the chapter under the cite's quire; else the one
\* whose name it is, if a single definition is of such a chapter.
CiteSlug(defs, cite) ==
  LET exact == SelectInSeq(defs, LAMBDA d : SameHeader(d.slug, cite))
      hits  == {i \in DOMAIN defs : CiteKey[defs[i].slug.name] = CiteKey[cite.name]}
  IN  IF exact # 0 THEN defs[exact].slug
      ELSE IF Cardinality(hits) = 1 THEN defs[CHOOSE i \in hits : TRUE].slug
      ELSE NoSlug

Defines(defs, slug, n) == \E i \in DOMAIN defs : defs[i].name = n /\ defs[i].slug = slug

Ambiguous == [quire |-> NoQuire, name |-> "ambiguous"]

\* The cites of a chapter that select a name: the last of them counts.
Selecting(unit, slug, n) ==
  SelectSeq(FlattenSeq([i \in DOMAIN unit |-> IF unit[i].header = slug THEN unit[i].cites ELSE <<>>]),
            LAMBDA c : n \in c.selected)

\* Wrong: a cite is heeded even for a name the chapter defines.
OwnerCiteFirst(unit, defs, slug, n) ==
  LET cites == Selecting(unit, slug, n)
  IN  IF cites # <<>> THEN CiteSlug(defs, Last(cites))
      ELSE IF Defines(defs, slug, n) THEN slug
      ELSE Ambiguous

\* build-chapter-rename-map, then apply-cite-overrides: whose definition a
\* colliding name is in a chapter - its own, the cited one, or no one's yet.
Owner(unit, defs, slug, n) ==
  LET cites == Selecting(unit, slug, n)
  IN  IF Defines(defs, slug, n) THEN slug
      ELSE IF cites # <<>> THEN CiteSlug(defs, Last(cites))
      ELSE Ambiguous

Mangle(slug, n) == <<Slugify[slug.quire], Slugify[slug.name]>> \o n

\* A chapter's rename map.
OwnersIn(unit, defs, slug) == [n \in Colliding(defs) |-> Owner(unit, defs, slug, n)]

-----------------------------------------------------------------------------
(***************************************************************************)
(* The walks.                                                              *)
(***************************************************************************)
\* Wrong: a binding sees itself.
ScoperBindsEarly(e, i) ==
  CASE e.t \in {"Let", "Act"}              -> {e.ps[j] : j \in (1 .. i) \cap DOMAIN e.ps} \ {NoName}
    [] e.t \in {"Lambda", "Arm", "Clause"} -> ToSet(e.ps)
    [] OTHER                               -> {}

\* What the scoper takes an expression to bind for its i-th part (Scope::expr,
\* Scope::stmts, Scope::arms): a binding is seen by those after it.
ScoperBinds(e, i) ==
  CASE e.t \in {"Let", "Act"}              -> Before(e.ps, i)
    [] e.t \in {"Lambda", "Arm", "Clause"} -> ToSet(e.ps)
    [] OTHER                               -> {}

\* Scope::mention.
Mention(owners, shadowed, n) ==
  IF n \notin shadowed /\ n \in DOMAIN owners /\ owners[n] # Ambiguous
  THEN Mangle(owners[n], n) ELSE n

\* Scope::expr.
RECURSIVE Renamed(_, _, _)
Renamed(e, owners, shadowed) ==
  IF e.t = "NameRef" THEN [e EXCEPT !.n = Mention(owners, shadowed, e.n)]
  ELSE [e EXCEPT !.xs = [i \in DOMAIN e.xs |-> Renamed(e.xs[i], owners, shadowed \cup ScoperBinds(e, i))]]

\* The mentions the scoper records as ambiguous.
RECURSIVE AmbiguousIn(_, _, _)
AmbiguousIn(e, owners, shadowed) ==
  IF e.t = "NameRef"
  THEN IF e.n \notin shadowed /\ e.n \in DOMAIN owners /\ owners[e.n] = Ambiguous THEN {e.n} ELSE {}
  ELSE UNION {AmbiguousIn(e.xs[i], owners, shadowed \cup ScoperBinds(e, i)) : i \in DOMAIN e.xs}

\* The mentions the resolver reads, in order, and whether each is a local.  The
\* scrutinee of an induction is not resolved.
RECURSIVE Reads(_, _)
Reads(e, locals) ==
  IF e.t = "NameRef" THEN <<[n |-> e.n, local |-> e.n \in locals]>>
  ELSE FlattenSeq([i \in DOMAIN e.xs |->
         IF e.t = "Induction" /\ i = 1 THEN <<>>
         ELSE Reads(e.xs[i], locals \cup ResolverBinds(e, i))])

\* A name bound twice by one construct, which the resolver reports.
RECURSIVE BindsTwice(_)
BindsTwice(e) ==
  \/ \E i, j \in DOMAIN e.ps : i # j /\ e.ps[i] = e.ps[j] /\ e.ps[i] # NoName
  \/ \E i \in DOMAIN e.xs : BindsTwice(e.xs[i])

\* Applied names that are both a local and a builtin (CDX3011).
RECURSIVE AppliedLocalBuiltins(_, _)
AppliedLocalBuiltins(e, locals) ==
  (IF e.t = "Apply" /\ e.xs[1].t = "NameRef" /\ e.xs[1].n \in locals \cap Builtins THEN {e.xs[1].n} ELSE {})
  \cup UNION {AppliedLocalBuiltins(e.xs[i], locals \cup ResolverBinds(e, i)) : i \in DOMAIN e.xs}

\* scope.rs, walk: a definition's parameters, and the variables its declared
\* type binds, are locals of its body.
LocalsOf(d) == ToSet(d.params) \cup d.forall

ReadsOf(d) == Reads(d.body, LocalsOf(d))

\* The names a unit gives: its definitions and the builtins.
NamesOf(defs) == {defs[i].name : i \in DOMAIN defs} \cup Builtins

Undefined(defs, d) ==
  {r.n : r \in {r \in ToSet(ReadsOf(d)) : ~r.local /\ r.n \notin NamesOf(defs) \cup Capitals}}

-----------------------------------------------------------------------------
(***************************************************************************)
(* scoper::apply, and what the rules over names find (name_rules.rs).      *)
(***************************************************************************)
ScopedDef(unit, defs, d) ==
  LET owners == OwnersIn(unit, defs, d.slug)
  IN  [d EXCEPT !.name = Mention(owners, {}, d.name),
                !.body = Renamed(d.body, owners, ToSet(d.params))]

ScopedIn(unit, defs) == [i \in DOMAIN defs |-> ScopedDef(unit, defs, defs[i])]
Scoped(unit) == ScopedIn(unit, DefsOf(unit))

AmbiguousRefs(unit, defs, d) == AmbiguousIn(d.body, OwnersIn(unit, defs, d.slug), ToSet(d.params))

\* check-cites-resolve: a cited chapter no header and no definition names.
CiteNotInUnit(unit) ==
  \E i \in DOMAIN unit : \E c \in ToSet(unit[i].cites) :
     \A j \in DOMAIN unit : CiteKey[unit[j].header.name] # CiteKey[c.name]

\* Two definitions of a name in one chapter.
DuplicateDefinition(defs) ==
  \E i, j \in DOMAIN defs : i # j /\ defs[i].name = defs[j].name /\ defs[i].slug = defs[j].slug
=============================================================================
