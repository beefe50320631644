------------------------------ MODULE Linearity ------------------------------
(***************************************************************************)
(* check_def of linearity.rs: the walks that judge the body of one         *)
(* definition, lin_of for a linear value and consume_of for a mutable      *)
(* record, and check_mints, which finds the owners the body itself makes.  *)
(*                                                                         *)
(* A body is a tree of records told apart by "kind"; an application is     *)
(* kept as its spine, head and arguments, as the interpreter keeps it.     *)
(* Sigs gives each global function the parameters declared linear and      *)
(* what its result carries ("plain", "linear", "mutable", or "holds" for a *)
(* structure with a mutable record inside).                                *)
(***************************************************************************)
EXTENDS Integers, Sequences, SequencesExt, TLC

-----------------------------------------------------------------------------
(***************************************************************************)
(* The answers of the linear walk of linearity.rs and the ways they are    *)
(* joined.  One answer says of one name, over one part of a body:          *)
(*   count   how many times it is used;                                    *)
(*   ok      no two branches disagreed about the count;                    *)
(*   dead    how many mentions came after it was moved to another name;    *)
(*   ret     it reaches the value of the definition;                       *)
(*   esc     it was passed to a parameter not declared linear;             *)
(*   cap     something that may run many times or never captured it.       *)
(* The code keeps the name of the first offender in esc and cap; only      *)
(* whether there is one decides anything.                                  *)
(***************************************************************************)
Zero == [count |-> 0, ok |-> TRUE, dead |-> 0,
         ret |-> FALSE, esc |-> FALSE, cap |-> FALSE]
One == [Zero EXCEPT !.count = 1]

Used(tail) == [One EXCEPT !.ret = tail]

Flagged(c) == c.count > 0 \/ c.dead > 0 \/ c.esc \/ c.cap

\* What outlives this point captures what it uses, and is not returned.
Captured(c) == IF Flagged(c) THEN [c EXCEPT !.ret = FALSE, !.cap = TRUE] ELSE c

Joined(a, b) == [count |-> a.count + b.count, ok |-> a.ok /\ b.ok,
                 dead |-> a.dead + b.dead, ret |-> a.ret \/ b.ret,
                 esc |-> a.esc \/ b.esc, cap |-> a.cap \/ b.cap]

\* Both happen: the counts add.
LinSeq(a, b) == Joined(a, b)

\* Wrong: two arms that disagree about the count are not noticed.
BranchUneven(a, b) == [Joined(a, b) EXCEPT !.count = a.count]

\* One of two arms happens: they must agree, and the first one's count stands.
Branch(a, b) == [Joined(a, b) EXCEPT !.count = a.count,
                                     !.ok = a.ok /\ b.ok /\ a.count = b.count]

\* Wrong: the count of the first path, whatever the other one's is.
PathMaxFirst(a, b) == [Joined(a, b) EXCEPT !.count = a.count]

\* One of two paths is taken and they may disagree: the worse one counts.
PathMax(a, b) ==
  [Joined(a, b) EXCEPT !.count = IF a.count >= b.count THEN a.count ELSE b.count]

\* How often an abandoned name is mentioned after all.
Ghosts(d) == d.dead + d.count + IF d.ok THEN 0 ELSE 1

\* Wrong: what the old name still does is forgotten.
MoveJoinForgetful(moved, dead) == moved

\* The value went to a new name: that one's answer, the old name's uses dead.
MoveJoin(moved, dead) ==
  [moved EXCEPT !.dead = @ + Ghosts(dead),
                !.esc = @ \/ dead.esc, !.cap = @ \/ dead.cap]

\* The value was stored under a new name (c is what storing it did): its one
\* use now is that name's.
RetainJoin(c, moved, dead) ==
  [count |-> moved.count + IF c.count > 0 THEN c.count - 1 ELSE 0,
   ok |-> c.ok /\ moved.ok,
   dead |-> c.dead + moved.dead + Ghosts(dead),
   ret |-> moved.ret,
   esc |-> c.esc \/ moved.esc \/ dead.esc,
   cap |-> c.cap \/ moved.cap \/ dead.cap]

\* What happens in order, and what happens in exactly one of several ways.
InOrder(results) == FoldLeft(LinSeq, Zero, results)
Only(results) == IF results = <<>> THEN Zero ELSE FoldRight(Branch, Front(results), Last(results))
Worst(results) == IF results = <<>> THEN Zero ELSE FoldRight(PathMax, Front(results), Last(results))

(***************************************************************************)
(* The report.  The order of the tests is the diagnosis: a value that was  *)
(* captured and used twice is reported as captured.  sanctioned says the   *)
(* declared return type may carry a linear value.                          *)
(***************************************************************************)
Diagnosis(r, sanctioned) ==
  IF r.dead > 0 THEN "dead"
  ELSE IF r.cap THEN "captured"
  ELSE IF r.esc THEN "escapes"
  ELSE IF r.ret /\ ~sanctioned THEN "returned"
  ELSE IF ~r.ok THEN "uneven"
  ELSE IF r.count > 1 THEN "many"
  ELSE IF r.count = 0 THEN "unused"
  ELSE "clean"

\* The mutable rule asks two of the questions.
MutableDiagnosis(r) ==
  IF r.dead > 0 THEN "dead" ELSE IF r.count > 1 THEN "many" ELSE "clean"

-----------------------------------------------------------------------------
(***************************************************************************)
(* The walks.                                                              *)
(***************************************************************************)

CONSTANT Sigs

Known(head) == head.kind = "Name" /\ head.name \in DOMAIN Sigs
Arity(head) == Len(Sigs[head.name].linear)

ParamLinear(head, k) ==
  Known(head) /\ k <= Arity(head) /\ Sigs[head.name].linear[k]

Saturated(e) == e.kind = "Apply" /\ Known(e.head) /\ Len(e.args) = Arity(e.head)
Partial(e) == e.kind = "Apply" /\ Known(e.head) /\ Len(e.args) < Arity(e.head)

IsMint(e) == Saturated(e) /\ Sigs[e.head.name].gives = "linear"

\* A call, or a definition without parameters named.
IsMutableMint(e) ==
  \/ Saturated(e) /\ Sigs[e.head.name].gives = "mutable"
  \/ Known(e) /\ Arity(e) = 0 /\ Sigs[e.name].gives = "mutable"

Mentions(e, v) == e.kind = "Name" /\ e.name = v

\* The call takes v itself and gives back something v is still reached from.
Threads(e, v) == /\ \E k \in DOMAIN e.args : Mentions(e.args[k], v)
                 /\ Known(e.head)
                 /\ Sigs[e.head.name].gives \in {"mutable", "holds"}

\* The let and the statement that remain once the first binding is done.
AfterBind(e) == [e EXCEPT !.binds = Tail(@)]

RECURSIVE Stashes(_, _)
Stashes(e, v) ==
  \/ Mentions(e, v)
  \/ e.kind \in {"List", "Record"} /\ \E k \in DOMAIN e.items : Stashes(e.items[k], v)

\* The binding keeps the value for later rather than using it.
BindRetains(value, v, c) ==
  CASE value.kind = "Lambda" -> Flagged(c)
    [] value.kind = "Apply" -> Flagged(c) /\ Partial(value)
    [] value.kind \in {"List", "Record"} -> Stashes(value, v)
    [] OTHER -> FALSE

----------------------------------------------------------------------------
(* The linear walk.                                                        *)

RECURSIVE LinOf(_, _, _), LinLet(_, _, _), LinStmts(_, _)

LinArg(v, e, k) ==
  LET a == e.args[k] IN
    CASE Mentions(a, v) -> [One EXCEPT !.esc = ~ParamLinear(e.head, k)]
      [] a.kind = "Lambda" -> Captured(LinOf(v, FALSE, a))
      [] OTHER -> LinOf(v, FALSE, a)

LinItem(v, e, k) ==
  LET use == LinOf(v, FALSE, e.items[k]) IN
    IF e.kind = "List" /\ e.items[k].kind = "Lambda" THEN Captured(use) ELSE use

LinArm(v, tail, arm) ==
  IF v \in arm.shadows THEN Zero
  ELSE LinSeq(LinOf(v, FALSE, arm.guard), LinOf(v, tail, arm.body))

LinClause(v, clause) ==
  IF v \in clause.shadows THEN Zero ELSE Captured(LinOf(v, FALSE, clause.body))

LinOf(v, tail, e) ==
  CASE e.kind = "Name" -> IF e.name = v THEN Used(tail) ELSE Zero
    [] e.kind = "Apply" ->
         LinSeq(LinOf(v, FALSE, e.head), InOrder([k \in DOMAIN e.args |-> LinArg(v, e, k)]))
    [] e.kind = "Binary" -> LinSeq(LinOf(v, FALSE, e.left), LinOf(v, FALSE, e.right))
    [] e.kind = "If" -> LinSeq(LinOf(v, FALSE, e.cond),
                               Branch(LinOf(v, tail, e.yes), LinOf(v, tail, e.no)))
    [] e.kind = "Let" -> LinLet(v, tail, e)
    [] e.kind = "Lambda" ->
         LET c == LinOf(v, FALSE, e.body) IN
           IF v \in e.shadows THEN Zero
           ELSE IF tail /\ Flagged(c) THEN [c EXCEPT !.ret = TRUE] ELSE c
    [] e.kind = "Match" ->
         LinSeq(LinOf(v, FALSE, e.scrut),
                Only([k \in DOMAIN e.arms |-> LinArm(v, tail, e.arms[k])]))
    [] e.kind \in {"List", "Record"} -> InOrder([k \in DOMAIN e.items |-> LinItem(v, e, k)])
    [] e.kind \in {"Unary", "Lazy", "Field"} -> LinOf(v, FALSE, e.of)
    [] e.kind = "Assign" -> LinSeq(LinOf(v, FALSE, e.of), LinOf(v, FALSE, e.value))
    [] e.kind = "Act" -> LinStmts(v, e.stmts)
    [] e.kind = "Handle" ->
         LinSeq(LinOf(v, FALSE, e.of),
                InOrder([k \in DOMAIN e.clauses |-> LinClause(v, e.clauses[k])]))
    [] e.kind = "Timeout" -> LinOf(v, tail, e.of)
    [] e.kind = "Try" ->
         InOrder(<<LinStmts(v, e.stmts), LinStmts(v, e.fallback), LinStmts(v, e.failure)>>)
    [] OTHER -> Zero

\* "let h = v" moves the value to h; a binding that keeps it hands it to h; one
\* that rebinds v ends the value's story.
LinLet(v, tail, e) ==
  IF e.binds = <<>> THEN LinOf(v, tail, e.body)
  ELSE LET b == Head(e.binds)
           rest == AfterBind(e)
           here == LinOf(v, FALSE, b.value)
       IN  CASE Mentions(b.value, v) ->
                  IF b.name = v THEN LinLet(v, tail, rest)
                  ELSE MoveJoin(LinLet(b.name, tail, rest), LinLet(v, FALSE, rest))
             [] ~Mentions(b.value, v) /\ BindRetains(b.value, v, here) ->
                  IF b.name = v THEN here
                  ELSE RetainJoin(here, LinLet(b.name, tail, rest), LinLet(v, FALSE, rest))
             [] OTHER -> IF b.name = v THEN here
                         ELSE LinSeq(here, LinLet(v, tail, rest))

\* A statement binds nothing when its name is "".
LinStmts(v, stmts) ==
  IF stmts = <<>> THEN Zero
  ELSE LET s == Head(stmts) IN
    IF s.name = v THEN LinOf(v, FALSE, s.value)
    ELSE LinSeq(LinOf(v, FALSE, s.value), LinStmts(v, Tail(stmts)))

----------------------------------------------------------------------------
(* The mutable walk: only handing the record on counts, and reading it or  *)
(* passing it to a call that does not give it back is free.                *)

RECURSIVE ConsumeOf(_, _), ConsumeLet(_, _), ConsumeStmts(_, _)

ConsumeRead(v, obj) == IF obj.kind = "Name" THEN Zero ELSE ConsumeOf(v, obj)

ConsumeArg(v, threads, a) ==
  IF a.kind = "Name"
  THEN IF a.name = v /\ threads THEN One ELSE Zero
  ELSE ConsumeOf(v, a)

ConsumeArm(v, arm) ==
  IF v \in arm.shadows THEN Zero
  ELSE LinSeq(ConsumeOf(v, arm.guard), ConsumeOf(v, arm.body))

ConsumeClause(v, clause) ==
  IF v \in clause.shadows THEN Zero ELSE ConsumeOf(v, clause.body)

ConsumeOf(v, e) ==
  CASE e.kind = "Name" -> IF e.name = v THEN One ELSE Zero
    [] e.kind = "Field" -> ConsumeRead(v, e.of)
    [] e.kind = "Apply" ->
         LinSeq(ConsumeOf(v, e.head),
                InOrder([k \in DOMAIN e.args |-> ConsumeArg(v, Threads(e, v), e.args[k])]))
    [] e.kind = "Binary" -> LinSeq(ConsumeOf(v, e.left), ConsumeOf(v, e.right))
    [] e.kind = "If" -> LinSeq(ConsumeOf(v, e.cond),
                               PathMax(ConsumeOf(v, e.yes), ConsumeOf(v, e.no)))
    [] e.kind = "Let" -> ConsumeLet(v, e)
    [] e.kind = "Lambda" -> IF v \in e.shadows THEN Zero ELSE ConsumeOf(v, e.body)
    [] e.kind = "Match" ->
         LinSeq(ConsumeOf(v, e.scrut), Worst([k \in DOMAIN e.arms |-> ConsumeArm(v, e.arms[k])]))
    [] e.kind \in {"List", "Record"} ->
         InOrder([k \in DOMAIN e.items |-> ConsumeOf(v, e.items[k])])
    [] e.kind \in {"Unary", "Lazy", "Timeout"} -> ConsumeOf(v, e.of)
    [] e.kind = "Assign" -> LinSeq(ConsumeRead(v, e.of), ConsumeOf(v, e.value))
    [] e.kind = "Act" -> ConsumeStmts(v, e.stmts)
    [] e.kind = "Handle" ->
         LinSeq(ConsumeOf(v, e.of),
                InOrder([k \in DOMAIN e.clauses |-> ConsumeClause(v, e.clauses[k])]))
    [] e.kind = "Try" ->
         LinSeq(ConsumeStmts(v, e.stmts),
                PathMax(ConsumeStmts(v, e.fallback), ConsumeStmts(v, e.failure)))
    [] OTHER -> Zero

\* After a move every mention of the old name is dead, readings included.
ConsumeLet(v, e) ==
  IF e.binds = <<>> THEN ConsumeOf(v, e.body)
  ELSE LET b == Head(e.binds)
           rest == AfterBind(e)
           here == ConsumeOf(v, b.value)
       IN  IF Mentions(b.value, v)
           THEN IF b.name = v THEN ConsumeLet(v, rest)
                ELSE MoveJoin(ConsumeLet(b.name, rest), LinLet(v, FALSE, rest))
           ELSE IF b.name = v THEN here ELSE LinSeq(here, ConsumeLet(v, rest))

ConsumeStmts(v, stmts) ==
  IF stmts = <<>> THEN Zero
  ELSE LET s == Head(stmts) IN
    IF s.name = v THEN ConsumeOf(v, s.value)
    ELSE LinSeq(ConsumeOf(v, s.value), ConsumeStmts(v, Tail(stmts)))

----------------------------------------------------------------------------
(* The owners a body makes: a name bound to a call that returns a linear   *)
(* value, or a mutable record, is followed for the rest of its scope.      *)

RECURSIVE CheckMints(_, _, _), CheckMintsStmts(_, _)

\* The report on the owner that the first binding of a let makes.
MintedInLet(sanctioned, tail, e) ==
  LET b == Head(e.binds) IN
    CASE IsMint(b.value) -> {Diagnosis(LinLet(b.name, tail, AfterBind(e)), sanctioned)}
      [] IsMutableMint(b.value) -> {MutableDiagnosis(ConsumeLet(b.name, AfterBind(e)))}
      [] OTHER -> {}

MintedInStmts(sanctioned, stmts) ==
  LET s == Head(stmts) IN
    CASE s.name # "" /\ IsMint(s.value) -> {Diagnosis(LinStmts(s.name, Tail(stmts)), sanctioned)}
      [] s.name # "" /\ IsMutableMint(s.value) ->
           {MutableDiagnosis(ConsumeStmts(s.name, Tail(stmts)))}
      [] OTHER -> {}

CheckMintsAll(sanctioned, es) == UNION {CheckMints(sanctioned, FALSE, es[k]) : k \in DOMAIN es}

CheckMints(sanctioned, tail, e) ==
  CASE e.kind = "Let" ->
         IF e.binds = <<>> THEN CheckMints(sanctioned, tail, e.body)
         ELSE CheckMints(sanctioned, FALSE, Head(e.binds).value)
                \cup MintedInLet(sanctioned, tail, e)
                \cup CheckMints(sanctioned, tail, AfterBind(e))
    [] e.kind = "If" -> CheckMints(sanctioned, FALSE, e.cond)
                          \cup CheckMints(sanctioned, tail, e.yes)
                          \cup CheckMints(sanctioned, tail, e.no)
    [] e.kind = "Apply" -> CheckMintsAll(sanctioned, <<e.head>> \o e.args)
    [] e.kind = "Binary" -> CheckMintsAll(sanctioned, <<e.left, e.right>>)
    [] e.kind = "Lambda" -> CheckMints(sanctioned, FALSE, e.body)
    [] e.kind = "Match" ->
         CheckMints(sanctioned, FALSE, e.scrut)
           \cup UNION {CheckMints(sanctioned, FALSE, e.arms[k].guard)
                         \cup CheckMints(sanctioned, tail, e.arms[k].body) : k \in DOMAIN e.arms}
    [] e.kind \in {"List", "Record"} -> CheckMintsAll(sanctioned, e.items)
    [] e.kind \in {"Unary", "Lazy", "Field"} -> CheckMints(sanctioned, FALSE, e.of)
    [] e.kind = "Assign" -> CheckMintsAll(sanctioned, <<e.of, e.value>>)
    [] e.kind = "Act" -> CheckMintsStmts(sanctioned, e.stmts)
    [] e.kind = "Timeout" -> CheckMints(sanctioned, tail, e.of)
    [] e.kind = "Handle" ->
         CheckMints(sanctioned, FALSE, e.of)
           \cup CheckMintsAll(sanctioned, [k \in DOMAIN e.clauses |-> e.clauses[k].body])
    [] e.kind = "Try" -> CheckMintsStmts(sanctioned, e.stmts)
                           \cup CheckMintsStmts(sanctioned, e.fallback)
                           \cup CheckMintsStmts(sanctioned, e.failure)
    [] OTHER -> {}

CheckMintsStmts(sanctioned, stmts) ==
  IF stmts = <<>> THEN {}
  ELSE CheckMints(sanctioned, FALSE, Head(stmts).value)
         \cup MintedInStmts(sanctioned, stmts)
         \cup CheckMintsStmts(sanctioned, Tail(stmts))

\* One parameter v, declared linear or of a mutable record type.
CheckOneParam(rule, sanctioned, v, body) ==
  IF rule = "mutable" THEN MutableDiagnosis(ConsumeOf(v, body))
  ELSE Diagnosis(LinOf(v, TRUE, body), sanctioned)

\* Everything reported of a definition; it is accepted when all is clean.
CheckDef(rule, sanctioned, v, body) ==
  {CheckOneParam(rule, sanctioned, v, body)} \cup CheckMints(sanctioned, TRUE, body)
=============================================================================
