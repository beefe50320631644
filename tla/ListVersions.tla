---------------------------- MODULE ListVersions ----------------------------
(***************************************************************************)
(* The pass of list_versions.rs over a chapter, and the chapter run before *)
(* and after it: the rounds that find which definitions write a list they  *)
(* are given, the trials that find which of them answer it, the rewriting. *)
(* Before the pass a chapter runs with Codex's lists, which are written in *)
(* place, and after it with Roc's, which are values.  Definitions carry    *)
(* [params, list, body]: whether they answer a list.                       *)
(***************************************************************************)
EXTENDS Versions

CONSTANTS Chapters,      \* functions from names to definitions; "main" takes a number
          Arguments      \* what main is run with

VARIABLES chapter, phase,
          round,         \* how many rounds there were
          writers,       \* which definitions write which parameters
          assumed,       \* the writers taken to answer the list they write
          rewritten,     \* the chapter after the pass
          refused,       \* the definitions it could not rewrite
          before, after, \* what the runs of main came to
          changed        \* which parameters each definition changes when it runs in place

vars == <<chapter, phase, round, writers, assumed, rewritten, refused, before, after, changed>>

\* Wrong: the writers are found by going through the chapter once.
MaxRoundsOnce == 1
MaxRounds == 64

WritersAmong(class) == [n \in {k \in DOMAIN class : class[k].writes} |-> class[n].as]
Found(w) == WritersAmong([n \in {k \in DOMAIN chapter : Touches(chapter[k], w)} |-> Classify(chapter[n], w)])

Init ==
  /\ chapter \in Chapters
  /\ phase = "rounds" /\ round = 0
  /\ writers = <<>> /\ assumed = {}
  /\ rewritten = <<>> /\ refused = {}
  /\ before = <<>> /\ after = <<>> /\ changed = <<>>

\* A call to a writer writes, so the writers are found round by round.
Round ==
  /\ phase = "rounds"
  /\ \E found \in {Found(writers)} :
       IF round = MaxRounds \/ found = writers
       THEN phase' = "assuming" /\ UNCHANGED <<round, writers>>
       ELSE round' = round + 1 /\ writers' = found /\ UNCHANGED phase
  /\ UNCHANGED <<chapter, assumed, rewritten, refused, before, after, changed>>

\* A writer of one list whose answer has its type may be answering it.
Assume ==
  /\ phase = "assuming"
  /\ phase' = "trying"
  /\ assumed' = {n \in DOMAIN writers : Len(writers[n].written) = 1 /\ chapter[n].list}
  /\ UNCHANGED <<chapter, round, writers, rewritten, refused, before, after, changed>>

Assuming == [n \in DOMAIN writers |->
               IF n \in assumed THEN [writers[n] EXCEPT !.returnsList = TRUE] ELSE writers[n]]

\* Those with a leaf that says otherwise are dropped until there is none.
Try ==
  /\ phase = "trying"
  /\ LET dropped == {n \in assumed :
                       LET d == chapter[n]
                       IN  ~AnswersList(d, d.params[writers[n].written[1]].name, Assuming)}
     IN  IF dropped = {} THEN writers' = Assuming /\ phase' = "rewriting" /\ UNCHANGED assumed
         ELSE assumed' = assumed \ dropped /\ UNCHANGED <<writers, phase>>
  /\ UNCHANGED <<chapter, round, rewritten, refused, before, after, changed>>

Rewrite ==
  /\ phase = "rewriting"
  /\ phase' = "rewritten"
  /\ \E result \in {[n \in {k \in DOMAIN chapter : Touches(chapter[k], writers)}
                       |-> RewriteUnder(chapter[n], n, writers)]} :
       /\ refused' = {n \in DOMAIN result : result[n].why # None}
       /\ rewritten' = [n \in DOMAIN chapter |->
                          IF n \in DOMAIN result \ refused' THEN [chapter[n] EXCEPT !.body = result[n].body]
                          ELSE chapter[n]]
  /\ UNCHANGED <<chapter, round, writers, assumed, before, after, changed>>

\* A definition by itself: its lists hold two zeros, its numbers are n.
Changes(d, n) ==
  LET lists == ListParams(d)
      vals == [k \in DOMAIN d.params |-> IF k \in lists THEN [sort |-> "list", at |-> k] ELSE Num(n)]
      m == [Start(chapter, TRUE) EXCEPT !.heap = [k \in DOMAIN d.params |-> <<Num(0), Num(0)>>]]
      r == Eval(d.body, Bound(<<>>, NamesOf(d.params), vals), TRUE, m)
  IN  {k \in lists : r.m.heap[k] # m.heap[k]}

RunBoth ==
  /\ phase = "rewritten"
  /\ phase' = "run"
  /\ before' = [n \in Arguments |-> Run(chapter, TRUE, "main", <<n>>)]
  /\ after' = IF refused = {} THEN [n \in Arguments |-> Run(rewritten, FALSE, "main", <<n>>)] ELSE before'
  /\ changed' = [f \in DOMAIN chapter |-> UNION {Changes(chapter[f], n) : n \in Arguments}]
  /\ UNCHANGED <<chapter, round, writers, assumed, rewritten, refused>>

Next == Round \/ Assume \/ Try \/ Rewrite \/ RunBoth

Spec == Init /\ [][Next]_vars

----------------------------------------------------------------------------
(* What the pass follows.  Each of these is a way a list is written that   *)
(* it neither refuses nor sees; outside them the two runs agree.           *)

Everything == UNION {Within(chapter[f].body) : f \in DOMAIN chapter}
Of(kind) == {e \in Everything : e.kind = kind}
Writing == {"list-set-at"} \cup DOMAIN writers
WritesIn(e) == NamesIn(e) \cap Writing # {}
ListsIn(e) == {x.name : x \in {y \in Within(e) : y.kind = "Name" /\ y.list}}
CallOf(e) == e.kind = "Apply" /\ e.head.kind = "Name" /\ e.head.name \in DOMAIN chapter

\* What is written in a statement stays in it.
QuietStatements == \A e \in Of("Act") : \A k \in DOMAIN e.stmts : ~WritesIn(e.stmts[k].value)

\* A write on the right of a short circuit is hoisted ahead of it.
QuietShortcuts == \A e \in Of("Binary") : e.shortcut => ~WritesIn(e.right)

\* What writes a list is called, never handed on.
WritersCalled ==
  /\ \A e \in Everything : \A k \in DOMAIN Parts(e) :
       Parts(e)[k].kind = "Name" /\ Parts(e)[k].name \in Writing => e.kind = "Apply" /\ k = 1
  /\ \A f \in DOMAIN chapter : chapter[f].body.kind = "Name" => chapter[f].body.name \notin Writing

\* A closure keeps the version it was made with.
NothingCaptured ==
  \A e \in Of("Lambda") : ListsIn(e.body) \subseteq {e.params[k].name : k \in DOMAIN e.params}

\* What an arm stores is forgotten after it.
StoredOutside ==
  LET arms == UNION {{e.yes, e.no} : e \in Of("If")}
                \cup UNION {{e.arms[k].body : k \in DOMAIN e.arms} : e \in Of("Match")}
  IN  \A x \in UNION {Within(a) : a \in arms} :
        x.kind \in {"List", "Record"} => \A k \in DOMAIN x.items : ~(x.items[k].kind = "Name" /\ x.items[k].list)

\* The lists an expression may be: a name's, or a new one.
RECURSIVE Origins(_)
Origins(e) ==
  CASE e.kind = "Name" -> {e.name}
    [] e.kind = "List" -> {"new"}
    [] e.kind = "If" /\ ~WritesIn(e) -> Origins(e.yes) \cup Origins(e.no)
    [] e.kind = "Match" /\ ~WritesIn(e) -> UNION {Origins(e.arms[k].body) : k \in DOMAIN e.arms}
    [] Writes(e) -> Origins(e.args[1])
    [] CallOf(e) /\ chapter[e.head.name].list ->
         IF e.head.name \in DOMAIN writers /\ writers[e.head.name].returnsList
         THEN Origins(e.args[writers[e.head.name].written[1]]) ELSE {"new"}
    [] OTHER -> {"new", "unknown"}

OneOrigin(e) == Cardinality(Origins(e)) = 1

RECURSIVE Leaves(_)
Leaves(e) ==
  CASE e.kind = "Let" -> Leaves(e.body)
    [] e.kind = "If" -> Leaves(e.yes) \cup Leaves(e.no)
    [] e.kind = "Match" -> UNION {Leaves(e.arms[k].body) : k \in DOMAIN e.arms}
    [] OTHER -> {e}

\* Which list is bound, written or answered can be told from the text ...
OriginsKnown ==
  /\ \A e \in Of("Let") : e.list => OneOrigin(e.value)
  /\ \A e \in Everything : Writes(e) => OneOrigin(e.args[1])
  /\ \A e \in Everything : CallOf(e) /\ e.head.name \in DOMAIN writers =>
       \A k \in DOMAIN e.args : k \in Range(writers[e.head.name].written) => OneOrigin(e.args[k])
  /\ \A f \in DOMAIN chapter :
       chapter[f].list /\ ~(f \in DOMAIN writers /\ writers[f].returnsList) =>
         \A x \in Leaves(chapter[f].body) : Origins(x) = {"new"}

\* ... and no call is given one list twice.
GivenApart ==
  \A e \in Everything : CallOf(e) =>
    LET lists == {k \in DOMAIN e.args : k \in ListParams(chapter[e.head.name])}
    IN  \A j, k \in lists : j # k => Origins(e.args[j]) \cap Origins(e.args[k]) \subseteq {"new"}

\* Every definition is given all its arguments at once.
NoPartials == \A e \in Everything : CallOf(e) => Len(e.args) >= Len(chapter[e.head.name].params)

Followed ==
  /\ NoPartials /\ QuietStatements /\ QuietShortcuts /\ WritersCalled
  /\ NothingCaptured /\ StoredOutside /\ OriginsKnown /\ GivenApart

\* A loop hands its lists on in their places: a call that exchanges them does not
\* answer what its caller has to.
InPlace ==
  \A f \in DOMAIN chapter : \A e \in Leaves(chapter[f].body) :
    CallOf(e) /\ e.head.name = f =>
      \A j, k \in ListParams(chapter[f]) : j # k => chapter[f].params[j].name \notin Origins(e.args[k])

----------------------------------------------------------------------------
(* Properties.                                                             *)

\* The pass stays within its types: rounds are counted, the writers written are
\* definitions with list parameters, and the rewritten chapter has the same names.
TypeOK ==
  /\ phase \in {"rounds", "assuming", "trying", "rewriting", "rewritten", "run"}
  /\ round \in 0 .. MaxRounds
  /\ DOMAIN writers \subseteq DOMAIN chapter
  /\ \A f \in DOMAIN writers : /\ Range(writers[f].written) \subseteq ListParams(chapter[f])
                               /\ writers[f].returnsList => Len(writers[f].written) = 1
  /\ assumed \subseteq DOMAIN writers /\ refused \subseteq DOMAIN chapter
  /\ phase \in {"rewritten", "run"} => DOMAIN rewritten = DOMAIN chapter

\* A chapter the pass does not refuse, and whose lists it can follow, answers
\* with Roc's lists what it answered with Codex's (list_versions.rs:1-5), and a
\* parameter that a run changed is one the pass hands back (9-14, classify).  A
\* read such as `list-at x 0` before a write in the same call keeps the version it
\* saw (635-639), though the module comment says that it sees the written one (22-25).
SameAnswer ==
  phase = "run" /\ refused = {} /\ Followed =>
    /\ \A n \in Arguments : ~before[n].stuck => after[n].answer = before[n].answer
    /\ \A f \in DOMAIN chapter : changed[f] # {} =>
         f \in DOMAIN writers /\ changed[f] \subseteq Range(writers[f].written)

\* The rounds end where another would find the same writers, not at their bound
\* (list_versions.rs:64-84).
RoundsSettle == phase = "assuming" /\ NoPartials => Found(writers) = writers

\* What the pass adds to the calls waiting does not grow with the length of a
\* loop: a self-call stays a tail call (list_versions.rs:15-18, tail_call).
LoopsStay ==
  phase = "run" /\ refused = {} /\ Followed /\ InPlace =>
    \A n \in Arguments : ~before[n].stuck => after[n].deepest <= before[n].deepest + 1

=============================================================================
