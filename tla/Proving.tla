-------------------------------- MODULE Proving --------------------------------
(***************************************************************************)
(* Claims and their proofs (src/proof_norm.rs and the definition loop of   *)
(* src/check.rs).  The plan of a chapter is built claim by claim from the  *)
(* normalized sides of each; every proof is checked against the plan; and  *)
(* what is left is refused if a claim justifies itself.                    *)
(*                                                                         *)
(* Definitions marked "Wrong" are mistakes that the properties detect.     *)
(***************************************************************************)
EXTENDS Normalizer, TLC

CONSTANTS
  Theories,  \* the chapters: sequences of claims
  Ctors,     \* the constructors of each type: [type -> sequence of [name, fields]]
  Depth      \* how deep the values are that a claim is held against (a bound)

VARIABLES
  theory,    \* the claims: [name, binders, sides, proof]
  plan,      \* ProofPlan: of each claim, as far as prepared
  checked,   \* how many claims have been checked
  refused,   \* the claims with an error
  verdict    \* "open", "refused" or "accepted"

vars == <<theory, plan, checked, refused, verdict>>

\* A proof is a term; induction is one form more.
Induction(on, arms) == [k |-> "induction", n |-> on, xs |-> arms]

\* An arm: its constructor, the names in its pattern, its proof.
Case(ctor, names, proof) == [ctor |-> ctor, names |-> names, proof |-> proof]

Claims   == {theory[i].name : i \in DOMAIN theory}
Claim(n) == theory[CHOOSE i \in DOMAIN theory : theory[i].name = n]
IsForall(c) == c.binders # <<>>
BinderNames(c) == {c.binders[i][1] : i \in DOMAIN c.binders}
BinderType(c, n) == c.binders[CHOOSE i \in DOMAIN c.binders : c.binders[i][1] = n][2]

\* def_is_induction, and induction_plan's first returns.
ByInduction(c) == IsForall(c) /\ c.proof.k = "induction" /\ c.proof.n \in BinderNames(c)

-----------------------------------------------------------------------------
(***************************************************************************)
(* The plan.                                                               *)
(***************************************************************************)
NormalSides(sides) == [s \in 1 .. 2 |-> NormalSide(sides[s])]

\* subst_ctype_name, on both sides of an equality.
With(sides, n, term) == [s \in 1 .. 2 |-> Subst(n :> term, sides[s])]

\* instantiate_claim: the binders are replaced one after the other.
RECURSIVE InTurn(_, _, _)
InTurn(sides, binders, xs) ==
  IF binders = <<>> \/ xs = <<>> THEN sides
  ELSE InTurn(With(sides, Head(binders)[1], Head(xs)), Tail(binders), Tail(xs))

Instance(c, xs) == NormalSides(InTurn(c.sides, c.binders, xs))

\* Wrong: the hypothesis of a field is about what the case is about.
GoalAgain(c, case, field) == With(c.sides, c.proof.n, Of(case.ctor, [i \in DOMAIN Front(case.names) |-> Name(case.names[i])]))

\* What the claim says of a field of the case.
AboutField(c, case, field) == With(c.sides, c.proof.n, Name(field))

\* arm_plan: the fields, and after them a hypothesis for each field of the type.
ArmPlan(c, ctor, case) ==
  LET type   == BinderType(c, c.proof.n)
      count  == Len(ctor.fields)
      fields == SubSeq(case.names, 1, count)
      again  == SelectSeq([i \in 1 .. count |-> i], LAMBDA i : ctor.fields[i] = type)
      hyps   == {h \in DOMAIN again : count + h \in DOMAIN case.names}
  IN  IF Len(case.names) < count THEN [proven |-> FALSE]
      ELSE [proven |-> TRUE,
            fields |-> fields,
            goal   |-> NormalSides(With(c.sides, c.proof.n, Of(ctor.name, [i \in DOMAIN fields |-> Name(fields[i])]))),
            known  |-> [n \in {case.names[count + h] : h \in hyps} |->
                          LET h == Max({x \in hyps : case.names[count + x] = n})
                          IN  NormalSides(AboutField(c, case, fields[again[h]]))],
            proof  |-> case.proof]

\* One plan per constructor: the first arm for it, and none if there is no such arm.
CasePlan(c, ctor) ==
  LET fits == {i \in DOMAIN c.proof.xs : c.proof.xs[i].ctor = ctor.name}
  IN  IF fits = {} THEN <<>> ELSE <<ArmPlan(c, ctor, c.proof.xs[Min(fits)])>>

\* prepare, for one claim.
PlanOf(c) ==
  CASE ~IsForall(c)   -> [form |-> "declared", goal |-> NormalSides(c.sides)]
    [] ByInduction(c) -> [form |-> "induction",
                          cases |-> [i \in DOMAIN Ctors[BinderType(c, c.proof.n)] |-> CasePlan(c, Ctors[BinderType(c, c.proof.n)][i])]]
    [] OTHER          -> [form |-> "axiom"]

-----------------------------------------------------------------------------
(***************************************************************************)
(* Checking.  A proof shows an equality if the types of the builtins it is *)
(* made of meet in it; what has type Proof shows any.                      *)
(***************************************************************************)
Init ==
  /\ theory \in Theories
  /\ plan = <<>> /\ checked = 0 /\ refused = {} /\ verdict = "open"

Prepare ==
  /\ verdict = "open" /\ Len(plan) < Len(theory)
  /\ plan' = Append(plan, PlanOf(theory[Len(plan) + 1]))
  /\ UNCHANGED <<theory, checked, refused, verdict>>

\* What a name or an applied claim states, as far as it is known there: nothing,
\* an equality, or whatever is asked.  Claims are applied where the proof was
\* elaborated (elab_claim_apps), which is in the cases of an induction.
Anything == <<>>
Stated(e, known, elab) ==
  CASE e.n \in DOMAIN known -> IF e.xs = <<>> THEN {known[e.n]} ELSE {}
    [] e.n \in Claims -> LET c == Claim(e.n)
                         IN  CASE IsForall(c) /\ e.xs = <<>>     -> {Anything}
                               [] IsForall(c) = (e.xs # <<>>) /\ (elab \/ ~IsForall(c)) -> {Instance(c, e.xs)}
                               [] OTHER -> {}
    [] OTHER -> IF e = Name(<<"assume">>) THEN {Anything} ELSE {}

\* The terms an equality may be shown through: the sides in reach, and what
\* they are with another last argument.
RECURSIVE Sides(_, _)
Sides(e, known) == UNION {ToSet(at) : at \in Stated(e, known, TRUE)} \cup UNION {Sides(e.xs[i], known) : i \in DOMAIN e.xs}

Through(e, l, r, known) ==
  LET sides == Sides(e, known) \cup {l, r}
  IN  sides \cup {[t EXCEPT !.xs[Len(t.xs)] = s] : t \in {x \in sides : x.xs # <<>>}, s \in sides}

\* An application without its last argument, as it meets a named type.
Peeled(t) == [t EXCEPT !.xs = Front(t.xs)]

\* The ways to show an equality, each with what is left to show.
Ways(e, l, r, known, elab) ==
  LET stated == Stated(e, known, elab)
      by     == e.n[1]
      apart  == Len(e.xs) = 1 /\ l.xs # <<>> /\ r.xs # <<>>
  IN  CASE e.n \in DOMAIN known \cup Claims -> IF stated \cap {Anything, <<l, r>>} # {} THEN {<<>>} ELSE {}
        [] by = "assume" /\ e.xs = <<>> -> {<<>>}
        [] by = "Refl" /\ e.xs = <<>>   -> IF l = r THEN {<<>>} ELSE {}
        [] by = "sym" /\ Len(e.xs) = 1  -> {<<<<e.xs[1], r, l>>>>}
        [] by = "trans" /\ Len(e.xs) = 2 -> {<<<<e.xs[1], l, m>>, <<e.xs[2], m, r>>>> : m \in Through(e, l, r, known)}
        [] by = "cong" /\ apart     -> IF Peeled(l) = Peeled(r) THEN {<<<<e.xs[1], Last(l.xs), Last(r.xs)>>>>} ELSE {}
        [] by = "app-cong" /\ apart -> IF Last(l.xs) = Last(r.xs) THEN {<<<<e.xs[1], Peeled(l), Peeled(r)>>>>} ELSE {}
        [] OTHER -> {}

RECURSIVE Shows(_, _, _, _, _)
Shows(e, l, r, known, elab) ==
  \E way \in Ways(e, l, r, known, elab) :
    \A i \in DOMAIN way : Shows(way[i][1], way[i][2], way[i][3], known, elab)

\* A case that is not planned is an error, and one whose pattern is too short is not looked at.
CaseHolds(p) == p # <<>> /\ (p[1].proven => Shows(p[1].proof, p[1].goal[1], p[1].goal[2], p[1].known, TRUE))

ClaimHolds(i) ==
  CASE plan[i].form = "induction" -> \A j \in DOMAIN plan[i].cases : CaseHolds(plan[i].cases[j])
    [] plan[i].form = "axiom"     -> TRUE
    [] OTHER -> theory[i].proof.k = "induction" \/ Shows(theory[i].proof, plan[i].goal[1], plan[i].goal[2], <<>>, FALSE)

Check ==
  /\ verdict = "open" /\ Len(plan) = Len(theory) /\ checked < Len(theory)
  /\ checked' = checked + 1
  /\ refused' = IF ClaimHolds(checked + 1) THEN refused ELSE refused \cup {theory[checked + 1].name}
  /\ UNCHANGED <<theory, plan, verdict>>

\* proof_mentions: the claims a proof mentions.
RECURSIVE Mentions(_)
Mentions(e) ==
  IF e.k = "induction" THEN UNION {Mentions(e.xs[i].proof) : i \in DOMAIN e.xs}
  ELSE ({e.n} \cap Claims) \cup UNION {Mentions(e.xs[i]) : i \in DOMAIN e.xs}

\* reaches.
Reached(from) ==
  LET G[k \in 0 .. Len(theory)] ==
        IF k = 0 THEN from ELSE G[k - 1] \cup UNION {Mentions(Claim(n).proof) : n \in G[k - 1]}
  IN  G[Len(theory)]

Circular(c) == c.name \in Reached(Mentions(c.proof))

\* check_proof_rules, and the errors as the driver reads them.
Rule ==
  /\ verdict = "open" /\ checked = Len(theory)
  /\ refused' = refused \cup {c.name : c \in {theory[i] : i \in {j \in DOMAIN theory : Circular(theory[j])}}}
  /\ verdict' = IF refused' = {} THEN "accepted" ELSE "refused"
  /\ UNCHANGED <<theory, plan, checked>>

Next == Prepare \/ Check \/ Rule

Spec == Init /\ [][Next]_vars

-----------------------------------------------------------------------------
(***************************************************************************)
(* Properties.                                                             *)
(***************************************************************************)
\* The values of a type, as deep as they are looked at.
RECURSIVE Values(_, _)
Values(type, depth) ==
  LET Shape(c) == IF c.fields = <<>> THEN {Name(c.name)}
                  ELSE IF depth = 0 THEN {}
                  ELSE LET each == [i \in DOMAIN c.fields |-> Values(c.fields[i], depth - 1)]
                       IN  {Of(c.name, xs) : xs \in {s \in [DOMAIN each -> UNION {each[i] : i \in DOMAIN each}] : \A i \in DOMAIN s : s[i] \in each[i]}}
  IN  UNION {Shape(Ctors[type][i]) : i \in DOMAIN Ctors[type]}

Worlds(binders) ==
  {env \in [{binders[i][1] : i \in DOMAIN binders} -> UNION {Values(binders[i][2], Depth) : i \in DOMAIN binders}] :
     \A i \in DOMAIN binders : env[binders[i][1]] \in Values(binders[i][2], Depth)}

Agree(sides, env) ==
  LET l == Value(sides[1], env)  r == Value(sides[2], env)
  IN  l = Trap \/ r = Trap \/ l = r

Holds(c) == \A env \in Worlds(c.binders) : Agree(c.sides, env)

\* What a proof takes for granted: assume, a claim about all values that is named
\* and not applied, one not proved by induction, and a case that is not looked at.
RECURSIVE Assumes(_)
Assumes(e) ==
  IF e.k = "induction" THEN \E i \in DOMAIN e.xs : Assumes(e.xs[i].proof)
  ELSE \/ e.xs = <<>> /\ (e.n = <<"assume">> \/ (e.n \in Claims /\ IsForall(Claim(e.n))))
       \/ e.n \notin Claims /\ \E i \in DOMAIN e.xs : Assumes(e.xs[i])

Granted(i) ==
  \/ Assumes(theory[i].proof)
  \/ plan[i].form = "axiom"
  \/ plan[i].form = "declared" /\ theory[i].proof.k = "induction"
  \/ plan[i].form = "induction" /\ \E j \in DOMAIN plan[i].cases : plan[i].cases[j] # <<>> /\ ~plan[i].cases[j][1].proven

\* No case names its fields after another variable of the claim, which would
\* stand for both in the case's goal.
PatternsApart(c) ==
  c.proof.k = "induction" =>
    \A i \in DOMAIN c.proof.xs : ToSet(c.proof.xs[i].names) \cap (BinderNames(c) \ {c.proof.n}) = {}

\* In an accepted chapter, a claim holds of all values if nothing is taken for
\* granted in its proof or in what that cites: unfolding, hypotheses, citations
\* and the ban on circles leave no way to a false one.
ProvedHolds ==
  verdict = "accepted" /\ (\A c \in ToSet(theory) : PatternsApart(c)) =>
    \A i \in DOMAIN theory :
      (\A j \in DOMAIN theory : theory[j].name \in Reached({theory[i].name}) => ~Granted(j)) => Holds(theory[i])

\* What a claim is planned with means what the claim's own sides mean, in each
\* case with the constructor in the place of the variable, whatever was unfolded,
\* renamed and folded on the way (normalize_codextype).
GoalMeans(c, ctor, p) ==
  LET count  == Len(ctor.fields)
      others == SelectSeq(c.binders, LAMBDA b : b[1] # c.proof.n)
      fields == [i \in 1 .. count |-> <<p.fields[i], ctor.fields[i]>>]
      At(env) == (c.proof.n :> Of(ctor.name, [i \in 1 .. count |-> env[p.fields[i]]])) @@ env
  IN  \A env \in Worlds(others \o fields), s \in 1 .. 2 :
        Value(p.goal[s], env) \in {Trap, Value(c.sides[s], At(env))}

PlannedMeansSame ==
  (checked = 0 /\ plan # <<>>) =>
    LET c == theory[Len(plan)]
        p == Last(plan)
    IN  /\ p.form = "declared" => \A s \in 1 .. 2 : Value(p.goal[s], <<>>) \in {Trap, Value(c.sides[s], <<>>)}
        /\ p.form = "induction" =>
             \A j \in DOMAIN p.cases :
               (p.cases[j] # <<>> /\ p.cases[j][1].proven) => GoalMeans(c, Ctors[BinderType(c, c.proof.n)][j], p.cases[j][1])
=============================================================================
