------------------------------ MODULE Ownership ------------------------------
(***************************************************************************)
(* A definition judged by linearity.rs and then run by interp.rs.  Only    *)
(* who owns what is kept of a run: env says for every name in scope what a *)
(* mention of it hands over, and todo holds, innermost first, what is      *)
(* still to be evaluated.  Values other than owners are not kept, so a     *)
(* condition, a guard or a pattern may come out either way.                *)
(*                                                                         *)
(* Owner 0 is the parameter v; the others are the values that minting      *)
(* calls bound to a name, in the order they were made.  Under the linear   *)
(* rule every mention is a use of what it hands over; under the mutable    *)
(* rule only handing the record on is.  A let whose value is a bare name,  *)
(* a closure, a partial application, a list or a record uses nothing yet:  *)
(* it moves what it holds to the new name.                                 *)
(***************************************************************************)
EXTENDS Linearity, FiniteSets

CONSTANTS Names,       \* the local names bodies are written with; v is the parameter
          Bodies,      \* the bodies judged and run
          MaxMints,    \* how many owners a run may make
          MaxRuns      \* how often a closure someone else holds may be run

VARIABLES body, rule, sanctioned,
          reports,     \* what check_def says of the definition
          todo,        \* what is still to be evaluated
          uses,        \* how often each owner that exists was used
          ghost,       \* a name was mentioned after its value had moved on
          left,        \* the owners that became the definition's own value
          failed       \* the interpreter stopped with an error

vars == <<body, rule, sanctioned, reports, todo, uses, ghost, left, failed>>
judged == <<body, rule, sanctioned, reports>>

Owners == 0..MaxMints

----------------------------------------------------------------------------
(* What a name hands over: owners (how often each), closures to be run,    *)
(* and whether it has been moved away.                                     *)

Nothing == [owned |-> [o \in Owners |-> 0], closures |-> <<>>, moved |-> FALSE]
Owner(o) == [Nothing EXCEPT !.owned[o] = 1]
Away == [Nothing EXCEPT !.moved = TRUE]

Both(a, b) == [owned |-> [o \in Owners |-> a.owned[o] + b.owned[o]],
               closures |-> a.closures \o b.closures,
               moved |-> a.moved \/ b.moved]

\* A piece of work: an expression, the names it sees, whether its value is the
\* definition's, whether what it returns when called is, and whether it hands on
\* a record it mentions bare.
Task(e, env, tail) ==
  [expr |-> e, env |-> env, tail |-> tail, called |-> FALSE, hands |-> TRUE]
Reading(e, env) == [Task(e, env, FALSE) EXCEPT !.hands = FALSE]
Each(es, env) == [k \in DOMAIN es |-> Task(es[k], env, FALSE)]

\* A scope in which names are bound again, to something that owns nothing.
Hide(env, names) == [n \in Names |-> IF n \in names THEN Nothing ELSE env[n]]

\* The expressions directly inside one.
Parts(e) ==
  CASE e.kind = "Apply" -> <<e.head>> \o e.args
    [] e.kind = "Binary" -> <<e.left, e.right>>
    [] e.kind = "If" -> <<e.cond, e.yes, e.no>>
    [] e.kind = "Let" -> [k \in DOMAIN e.binds |-> e.binds[k].value] \o <<e.body>>
    [] e.kind = "Lambda" -> <<e.body>>
    [] e.kind = "Match" -> <<e.scrut>> \o [k \in DOMAIN e.arms |-> e.arms[k].guard]
                                      \o [k \in DOMAIN e.arms |-> e.arms[k].body]
    [] e.kind \in {"List", "Record"} -> e.items
    [] e.kind \in {"Unary", "Lazy", "Field", "Timeout"} -> <<e.of>>
    [] e.kind = "Assign" -> <<e.of, e.value>>
    [] e.kind = "Act" -> [k \in DOMAIN e.stmts |-> e.stmts[k].value]
    [] e.kind = "Try" -> [k \in DOMAIN e.stmts |-> e.stmts[k].value]
                           \o [k \in DOMAIN e.fallback |-> e.fallback[k].value]
                           \o [k \in DOMAIN e.failure |-> e.failure[k].value]
    [] e.kind = "Handle" -> <<e.of>> \o [k \in DOMAIN e.clauses |-> e.clauses[k].body]
    [] OTHER -> <<>>

RECURSIVE NamesIn(_)
NamesIn(e) == (IF e.kind = "Name" THEN {e.name} \cap Names ELSE {})
                \cup UNION {NamesIn(Parts(e)[k]) : k \in DOMAIN Parts(e)}

OwnedBy(names, env) == {o \in Owners : \E n \in names : env[n].owned[o] > 0}

----------------------------------------------------------------------------
(* A let that keeps a value for later: what it keeps, and what is          *)
(* evaluated at once.                                                      *)

Keeps(e) == e.kind \in {"Lambda", "List", "Record"} \/ Partial(e)

Inside(e) == IF e.kind = "Apply" THEN e.args ELSE e.items

RECURSIVE Kept(_, _), AtOnce(_)
Kept(e, env) ==
  CASE e.kind = "Name" -> IF e.name \in Names THEN env[e.name] ELSE Nothing
    [] e.kind = "Lambda" -> [Nothing EXCEPT !.closures = <<Task(e.body, Hide(env, e.shadows), FALSE)>>]
    [] Keeps(e) /\ e.kind # "Lambda" ->
         FoldLeft(Both, Nothing, [k \in DOMAIN Inside(e) |-> Kept(Inside(e)[k], env)])
    [] OTHER -> Nothing

AtOnce(e) ==
  CASE e.kind \in {"Name", "Lambda"} -> <<>>
    [] Keeps(e) /\ e.kind # "Lambda" -> FlattenSeq([k \in DOMAIN Inside(e) |-> AtOnce(Inside(e)[k])])
    [] OTHER -> <<e>>

RECURSIVE KeptNames(_)
KeptNames(e) ==
  CASE e.kind = "Name" -> {e.name} \cap Names
    [] e.kind = "Lambda" -> NamesIn(e.body) \ e.shadows
    [] Keeps(e) /\ e.kind # "Lambda" -> UNION {KeptNames(Inside(e)[k]) : k \in DOMAIN Inside(e)}
    [] OTHER -> {}

\* What is bound to a name is gone from the names it was reached by.
Bind(env, b, holding, from) ==
  [n \in Names |-> CASE n = b -> holding
                     [] n # b /\ n \in from /\ env[n] # Nothing -> Away
                     [] OTHER -> env[n]]

----------------------------------------------------------------------------
Init ==
  /\ body \in Bodies
  /\ rule \in {"linear", "mutable"}
  /\ sanctioned \in BOOLEAN
  /\ reports = CheckDef(rule, sanctioned, "v", body)
  /\ todo = <<Task(body, [n \in Names |-> IF n = "v" THEN Owner(0) ELSE Nothing], TRUE)>>
  /\ uses = (0 :> 0)
  /\ ghost = FALSE
  /\ left = {}
  /\ failed = FALSE

Doing(kinds) == todo # <<>> /\ ~failed /\ Head(todo).expr.kind \in kinds
Then(tasks) == todo' = tasks \o Tail(todo)
KeepOwners == UNCHANGED <<uses, ghost, left>>

\* A local name: what it hands over is used, and the closures it holds are run.
Mention ==
  /\ Doing({"Name", "Lit"})
  /\ LET t == Head(todo)
         has == IF t.expr.kind = "Name" /\ t.expr.name \in Names
                THEN t.env[t.expr.name] ELSE Nothing
     IN  /\ uses' = IF rule = "linear" \/ t.hands
                    THEN [o \in DOMAIN uses |-> uses[o] + has.owned[o]] ELSE uses
         /\ ghost' = (ghost \/ has.moved)
         /\ left' = IF t.tail
                    THEN left \cup {o \in Owners : has.owned[o] > 0}
                           \cup UNION {OwnedBy(NamesIn(has.closures[k].expr), has.closures[k].env) :
                                         k \in DOMAIN has.closures}
                    ELSE left
         /\ Then([k \in DOMAIN has.closures |-> [has.closures[k] EXCEPT !.tail = t.called]])
  /\ UNCHANGED <<judged, failed>>

\* A closure made here and given away: whoever holds it runs it as it likes.
MakeClosure ==
  /\ Doing({"Lambda"})
  /\ LET t == Head(todo)
         run == Task(t.expr.body, Hide(t.env, t.expr.shadows), FALSE)
     IN  \E n \in 0..MaxRuns :
           /\ Then([k \in 1..n |-> run])
           /\ left' = IF t.tail THEN left \cup OwnedBy(NamesIn(t.expr.body), run.env) ELSE left
  /\ UNCHANGED <<judged, uses, ghost, failed>>

\* The head, then the arguments from left to right.  A lambda in head position
\* is run by this very call.
Apply ==
  /\ Doing({"Apply"})
  /\ LET t == Head(todo)
         e == t.expr
         head == IF e.head.kind = "Lambda"
                 THEN Task(e.head.body, Hide(t.env, e.head.shadows), FALSE)
                 ELSE Task(e.head, t.env, FALSE)
         gives == Known(e.head) /\ Sigs[e.head.name].gives \in {"mutable", "holds"}
     IN  Then(<<head>> \o [k \in DOMAIN e.args |->
                            [Task(e.args[k], t.env, FALSE) EXCEPT !.hands = gives]])
  /\ KeepOwners /\ UNCHANGED <<judged, failed>>

\* Both operands, unless "and" or "or" is decided by its left one.
Operands ==
  /\ Doing({"Binary"})
  /\ LET t == Head(todo)
     IN  \/ Then(Each(<<t.expr.left, t.expr.right>>, t.env))
         \/ /\ t.expr.shortcut
            /\ Then(Each(<<t.expr.left>>, t.env))
  /\ KeepOwners /\ UNCHANGED <<judged, failed>>

\* List elements, record fields, the operand of an operator, a field access
\* and a field assignment.
Components ==
  /\ Doing({"List", "Record", "Unary", "Lazy", "Field", "Assign"})
  /\ LET t == Head(todo)
         e == t.expr
     IN  Then(CASE e.kind = "Field" -> <<Reading(e.of, t.env)>>
                [] e.kind = "Assign" -> <<Reading(e.of, t.env), Task(e.value, t.env, FALSE)>>
                [] OTHER -> Each(Parts(e), t.env))
  /\ KeepOwners /\ UNCHANGED <<judged, failed>>

Choose ==
  /\ Doing({"If"})
  /\ LET t == Head(todo)
     IN  \E arm \in {t.expr.yes, t.expr.no} :
           Then(<<Task(t.expr.cond, t.env, FALSE), Task(arm, t.env, t.tail)>>)
  /\ KeepOwners /\ UNCHANGED <<judged, failed>>

\* The arms are tried in order: a pattern may not match, and then a guard that
\* was evaluated may still send the value on to the next arm.
Match ==
  /\ Doing({"Match"})
  /\ LET t == Head(todo)
     IN  Then(<<Task(t.expr.scrut, t.env, FALSE),
                Task([kind |-> "Arms", arms |-> t.expr.arms], t.env, t.tail)>>)
  /\ KeepOwners /\ UNCHANGED <<judged, failed>>

TryArm ==
  /\ Doing({"Arms"})
  /\ LET t == Head(todo)
         others == Task([t.expr EXCEPT !.arms = Tail(@)], t.env, t.tail)
         arm == Head(t.expr.arms)
         env == Hide(t.env, arm.shadows)
     IN  /\ t.expr.arms # <<>>
         /\ \/ Then(<<others>>)
            \/ Then(<<Task(arm.guard, env, FALSE), Task(arm.body, env, t.tail)>>)
            \/ /\ arm.guard.kind # "Lit"
               /\ Then(<<Task(arm.guard, env, FALSE), others>>)
  /\ KeepOwners /\ UNCHANGED <<judged, failed>>

\* No arm applied, or a construct the interpreter does not run.
Fail ==
  /\ \/ Doing({"Handle", "Timeout", "Try"})
     \/ Doing({"Arms"}) /\ Head(todo).expr.arms = <<>>
  /\ failed' = TRUE
  /\ KeepOwners /\ UNCHANGED <<judged, todo>>

\* A statement at a time.  A let that is not the last statement binds for all
\* the statements after it.
InAct == Doing({"Act"}) /\ Head(todo).expr.stmts # <<>>
Stmt == Head(Head(todo).expr.stmts)
AfterStmt == [Head(todo).expr EXCEPT !.stmts = Tail(@)]
LetStmt == Stmt.name = "" /\ Stmt.value.kind = "Let" /\ AfterStmt.stmts # <<>>
Fresh == Cardinality(DOMAIN uses)
Mints(e) == IF rule = "linear" THEN IsMint(e) ELSE IsMutableMint(e)

EmptyBlock ==
  /\ Doing({"Act"})
  /\ Head(todo).expr.stmts = <<>>
  /\ Then(<<>>)
  /\ KeepOwners /\ UNCHANGED <<judged, failed>>

Execute ==
  /\ InAct
  /\ Stmt.name = "" /\ ~LetStmt
  /\ LET t == Head(todo)
     IN  IF AfterStmt.stmts = <<>>
         THEN Then(<<Task(Stmt.value, t.env, t.tail)>>)
         ELSE Then(<<Task(Stmt.value, t.env, FALSE), Task(AfterStmt, t.env, t.tail)>>)
  /\ KeepOwners /\ UNCHANGED <<judged, failed>>

ExecuteLet ==
  /\ InAct
  /\ LetStmt
  /\ LET t == Head(todo)
         block == [AfterStmt EXCEPT !.stmts = <<[name |-> "", value |-> Stmt.value.body]>> \o @]
     IN  Then(<<Task([Stmt.value EXCEPT !.body = block], t.env, t.tail)>>)
  /\ KeepOwners /\ UNCHANGED <<judged, failed>>

BindResult ==
  /\ InAct
  /\ Stmt.name # ""
  /\ Mints(Stmt.value) => Fresh \in Owners
  /\ LET t == Head(todo)
         env == [t.env EXCEPT ![Stmt.name] = IF Mints(Stmt.value) THEN Owner(Fresh) ELSE Nothing]
     IN  Then(<<Task(Stmt.value, t.env, FALSE), Task(AfterStmt, env, t.tail)>>)
  /\ uses' = IF Mints(Stmt.value) THEN uses @@ (Fresh :> 0) ELSE uses
  /\ UNCHANGED <<judged, ghost, left, failed>>

\* A let, a binding at a time: Binding says that the first one binds its name to
\* holding, taking it from the names in from, once the values in now are done.
Binding(holding, from, now) ==
  LET t == Head(todo)
      env == Bind(t.env, Head(t.expr.binds).name, holding, from)
  IN  Then(Each(now, t.env) \o <<Task(AfterBind(t.expr), env, t.tail)>>)

InLet == Doing({"Let"}) /\ Head(todo).expr.binds # <<>>
BoundValue == Head(Head(todo).expr.binds).value
KeptByLet == rule = "linear" /\ Keeps(BoundValue)
MintedByLet == Mints(BoundValue)

LetBody ==
  /\ Doing({"Let"})
  /\ Head(todo).expr.binds = <<>>
  /\ LET t == Head(todo) IN Then(<<Task(t.expr.body, t.env, t.tail)>>)
  /\ KeepOwners /\ UNCHANGED <<judged, failed>>

LetMoves ==
  /\ InLet
  /\ BoundValue.kind = "Name" /\ ~MintedByLet
  /\ Binding(Kept(BoundValue, Head(todo).env), KeptNames(BoundValue), <<>>)
  /\ KeepOwners /\ UNCHANGED <<judged, failed>>

LetKeeps ==
  /\ InLet
  /\ KeptByLet
  /\ Binding(Kept(BoundValue, Head(todo).env), KeptNames(BoundValue), AtOnce(BoundValue))
  /\ KeepOwners /\ UNCHANGED <<judged, failed>>

LetMints ==
  /\ InLet
  /\ MintedByLet
  /\ Fresh \in Owners
  /\ Binding(Owner(Fresh), {}, IF BoundValue.kind = "Name" THEN <<>> ELSE BoundValue.args)
  /\ uses' = uses @@ (Fresh :> 0)
  /\ UNCHANGED <<judged, ghost, left, failed>>

LetUses ==
  /\ InLet
  /\ BoundValue.kind # "Name" /\ ~KeptByLet /\ ~MintedByLet
  /\ Binding(Nothing, {}, <<BoundValue>>)
  /\ KeepOwners /\ UNCHANGED <<judged, failed>>

Next == \/ Mention \/ MakeClosure \/ Apply \/ Operands \/ Components \/ Choose
        \/ Match \/ TryArm \/ Fail
        \/ EmptyBlock \/ Execute \/ ExecuteLet \/ BindResult
        \/ LetBody \/ LetMoves \/ LetKeeps \/ LetMints \/ LetUses

Spec == Init /\ [][Next]_vars

Returned == todo = <<>> /\ ~failed
Accepted == reports = {"clean"}

----------------------------------------------------------------------------
(* The bodies the walk can follow.  It is one pass over the text, and      *)
(* these constructs make the text and the run differ.                      *)

RECURSIVE Within(_)
Within(e) == {e} \cup UNION {Within(Parts(e)[k]) : k \in DOMAIN Parts(e)}

RECURSIVE Occurrences(_)
Occurrences(e) == IF e.kind = "Name" /\ e.name \in Names THEN <<e.name>>
                  ELSE FlattenSeq([k \in DOMAIN Parts(e) |-> Occurrences(Parts(e)[k])])

\* A closure is bound by a let, passed, listed or called on the spot.
ClosuresInPlace(e) ==
  /\ e.kind # "Lambda"
  /\ \A x \in Within(e) :
       /\ \A k \in DOMAIN Parts(x) :
            Parts(x)[k].kind = "Lambda" => \/ x.kind \in {"Apply", "List"}
                                           \/ x.kind = "Let" /\ k <= Len(x.binds)
       /\ x.kind \in {"List", "Record"} => \A k \in DOMAIN x.items : ~Partial(x.items[k])

\* What a let keeps, it keeps once, unevaluated and under another name.
KeptOnce(e) ==
  \A x \in Within(e) : x.kind = "Let" =>
    \A k \in DOMAIN x.binds :
      LET value == x.binds[k].value IN
        Keeps(value) => /\ IsInjective(Occurrences(value))
                        /\ AtOnce(value) = <<>>
                        /\ x.binds[k].name \notin KeptNames(value)

\* Guards, and operands that may be skipped, mention nothing.
OptionalPartsClosed(e) ==
  \A x \in Within(e) :
    /\ x.kind = "Match" => \A k \in DOMAIN x.arms : NamesIn(x.arms[k].guard) = {}
    /\ x.kind = "Binary" /\ x.shortcut => NamesIn(x.right) = {}

\* Lets among statements come last.
LetsLast(e) ==
  \A x \in Within(e) : x.kind = "Act" =>
    \A k \in DOMAIN x.stmts : k < Len(x.stmts) => x.stmts[k].value.kind # "Let"

Followed(e) ==
  ClosuresInPlace(e) /\ KeptOnce(e) /\ OptionalPartsClosed(e) /\ LetsLast(e)

\* The names an expression may have the value of.
RECURSIVE Yields(_)
Yields(e) == CASE e.kind = "Name" -> {e.name}
               [] e.kind = "If" -> Yields(e.yes) \cup Yields(e.no)
               [] e.kind = "Let" -> Yields(e.body)
               [] e.kind = "Match" -> UNION {Yields(e.arms[k].body) : k \in DOMAIN e.arms}
               [] e.kind = "Act" /\ e.stmts # <<>> -> Yields(Last(e.stmts).value)
               [] OTHER -> {}

NoClosures(e) == \A x \in Within(e) : x.kind = "Lambda" => NamesIn(x.body) = {}

----------------------------------------------------------------------------
TypeOK ==
  /\ reports \subseteq {"clean", "dead", "captured", "escapes", "returned",
                        "uneven", "many", "unused"}
  /\ DOMAIN uses \subseteq Owners
  /\ \A o \in DOMAIN uses : uses[o] \in Nat
  /\ ghost \in BOOLEAN /\ failed \in BOOLEAN
  /\ left \subseteq DOMAIN uses
  /\ \A k \in DOMAIN todo : DOMAIN todo[k].env = Names

\* A linear value is used exactly once (linearity.rs:4): when the walk reports
\* nothing of a body it can follow, then on every path through that body the
\* parameter, and every owner the body made, is used exactly once; and a mutable
\* record is handed to a new owner at most once.
UsedExactlyOnce ==
  Returned /\ Accepted /\ Followed(body) =>
    /\ rule = "linear" => \A o \in DOMAIN uses : uses[o] = 1
    /\ rule = "mutable" /\ NoClosures(body) => \A o \in DOMAIN uses : uses[o] <= 1

\* After a move the original name is dead: no run of an accepted body mentions
\* a name whose value a let gave to another one.
MovedStaysAway == Accepted /\ Followed(body) => ~ghost

=============================================================================
