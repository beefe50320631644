------------------------------- MODULE Machine -------------------------------
(***************************************************************************)
(* The interpreter (src/interp.rs): compiled bodies run over frames of     *)
(* values, with calls in tail position handed back to a loop, spines       *)
(* applied to as many arguments as a function still wants, and the         *)
(* answers of definitions without parameters kept.  Every definition      *)
(* declares its type.                                                      *)
(*                                                                         *)
(* A machine m has the code of each definition, which definitions may be   *)
(* kept, and whether the program writes.  To the store it adds what is     *)
(* kept, how deep the evaluation is and has been.  Steps are not counted.  *)
(***************************************************************************)
EXTENDS Meaning

CONSTANT DepthLimit  \* how deep evaluations may nest

-----------------------------------------------------------------------------
(***************************************************************************)
(* Compiling (src/code.rs): every name is looked up once, and a local one  *)
(* becomes a number of frames to hop over and a slot in the frame;         *)
(* applications are flattened to their spine.  `frames` mirrors the frames *)
(* the run will have pushed, innermost first.                              *)
(*                                                                         *)
(* Left out: what the compiler knows of types (it chooses between integer  *)
(* operations and converts units), and names that collide between chapters.*)
(***************************************************************************)
Fail == Node("Fail", NoName, <<>>, <<>>)

\* The head of an application and its arguments in order; of anything else, its
\* parts as they are.
RECURSIVE Spine(_)
Spine(e) == IF e.t = "Apply" THEN Append(Spine(e.xs[1]), e.xs[2]) ELSE <<e>>

Spined(e) == IF e.t = "Apply" THEN [e EXCEPT !.xs = Spine(e)] ELSE e

\* The statement that is a `let` with statements after it: they become an `act`
\* in its body.
LetStatements(e) == {i \in 1 .. (Len(e.xs) - 1) : e.ps[i] = NoName /\ e.xs[i].t = "Let"}

Swallowed(e) ==
  IF e.t # "Act" \/ LetStatements(e) = {} THEN e
  ELSE LET i == CHOOSE i \in LetStatements(e) : \A j \in LetStatements(e) : i <= j
           rest == Act(SubSeq(e.ps, i, Len(e.ps)), <<Last(e.xs[i].xs)>> \o SubSeq(e.xs, i + 1, Len(e.xs)))
       IN  Act(SubSeq(e.ps, 1, i), SubSeq(e.xs, 1, i - 1) \o <<[e.xs[i] EXCEPT !.xs = Append(Front(@), rest)]>>)

\* The frames pushed before the i-th part: one for each `let` binding and each
\* bound statement before it, one for a lambda's parameters, and one for an arm,
\* even if its pattern binds nothing.
Pushed(e, i) ==
  CASE e.t \in {"Let", "Act"} ->
         LET bound == SelectSeq(SubSeq(e.ps, 1, i - 1), LAMBDA n : n # NoName)
         IN  Reverse([j \in DOMAIN bound |-> <<bound[j]>>])
    [] e.t \in {"Lambda", "Arm"} -> <<e.ps>>
    [] OTHER -> <<>>

\* Wrong: the first of a frame's bindings of a name is taken.
SlotFirst(n, frame) == CHOOSE i \in DOMAIN frame : frame[i] = n /\ \A j \in 1 .. (i - 1) : frame[j] # n

\* A later binding shadows an earlier one of the same frame.
Slot(n, frame) == CHOOSE i \in DOMAIN frame : frame[i] = n /\ \A j \in (i + 1) .. Len(frame) : frame[j] # n

Local(n, frames) ==
  LET hops == CHOOSE h \in DOMAIN frames : n \in ToSet(frames[h]) /\ \A g \in 1 .. (h - 1) : n \notin ToSet(frames[g])
  IN  Node("Local", <<hops, Slot(n, frames[hops])>>, <<>>, <<>>)

\* A local, a definition with parameters, one without, a builtin, or nothing.
NameCode(n, frames, ds) ==
  IF n \in UNION {ToSet(frames[h]) : h \in DOMAIN frames} THEN Local(n, frames)
  ELSE IF n \in Defined(ds) /\ DefOf(n, ds).params = <<>> THEN Node("ConstDef", n, <<>>, <<>>)
  ELSE IF n \in Defined(ds) \cup DOMAIN Builtins THEN Node("Global", n, <<>>, <<>>)
  ELSE Fail

\* What is left of the names a node binds: how many, or which statements bind.
Binders(e) ==
  CASE e.t \in {"Lambda", "Arm"} -> Len(e.ps)
    [] e.t = "Act" -> {i \in DOMAIN e.ps : e.ps[i] # NoName}
    [] OTHER -> e.n

RECURSIVE Compile(_, _, _), CompileFrom(_, _, _, _)
CompileFrom(e, i, frames, ds) ==
  IF i > Len(e.xs) THEN <<>>
  ELSE <<Compile(e.xs[i], Pushed(e, i) \o frames, ds)>> \o CompileFrom(e, i + 1, frames, ds)

Compile(expr, frames, ds) ==
  LET e == Spined(Swallowed(expr))
      xs == CompileFrom(e, 1, frames, ds)
  IN  CASE e.t = "NameRef" -> NameCode(e.n, frames, ds)
        [] e.t \in {"Handle", "Try"} -> Fail
        [] e.t = "Induction" -> Node("Match", e.n, <<>>, xs)
        [] OTHER -> Node(e.t, Binders(e), <<>>, xs)

\* A definition's body, under a frame of its parameters, if it has any.
CompiledDef(d, ds) == Compile(d.body, IF d.params = <<>> THEN <<>> ELSE <<d.params>>, ds)

-----------------------------------------------------------------------------
(***************************************************************************)
(* What may be kept.                                                       *)
(***************************************************************************)
ImpureBuiltins == {<<"peek-byte">>, <<"poke-byte">>}

Mentions(n, ds) == IF n \in Defined(ds) THEN Mentioned(DefOf(n, ds).body) ELSE {}

RECURSIVE Touching(_, _)
\* The definitions that mention one of `names`, through any number of others.
Touching(names, ds) ==
  LET more == {d.name : d \in {d \in ToSet(ds) : Mentions(d.name, ds) \cap names # {}}}
  IN  IF more \subseteq names THEN names ELSE Touching(names \cup more, ds)

\* A definition whose declared type has an effect says something.
Effectful(ds) == Touching({<<"say">>}, ds)

Cacheable(ds) == {d.name : d \in ToSet(ds)} \ (Effectful(ds) \cup Touching(ImpureBuiltins, ds))

\* program_writes: a mention of a builtin that writes through a list.
ProgramWrites(ds) == \E d \in ToSet(ds) : <<"list-set-at">> \in Mentioned(d.body)

Frozen(v) == v.t = "Lit" /\ ~Is(v, "list")

\* Wrong: only the list that is kept is marked, and not the lists in it.
MarkedTop(v, s) == IF Is(v, "list") THEN {Of(v)} ELSE {}

\* mark_cached: the lists of a kept value, and the lists in them.  What a
\* function holds is not looked at.
RECURSIVE Marked(_, _)
Marked(v, s) ==
  IF ~Is(v, "list") THEN {}
  ELSE {Of(v)} \cup UNION {Marked(s.lists[Of(v)][i], s) : i \in DOMAIN s.lists[Of(v)]}

Keep(n, r, m) ==
  IF Fails(r) \/ n \notin m.cacheable \/ (m.writes /\ ~Frozen(r.v)) THEN r
  ELSE [r EXCEPT !.s.cache = (n :> r.v) @@ @, !.s.marked = @ \cup Marked(r.v, r.s)]

-----------------------------------------------------------------------------
(***************************************************************************)
(* Running.                                                                *)
(***************************************************************************)
\* Wrong: a match and a block call what they end in.
TailFormsFew == {"If", "Let", "Apply"}

\* The forms whose last part is evaluated after everything else in them.
TailForms == {"If", "Let", "Match", "Act", "Apply"}

Pending(f, args) == [t |-> "Pending", f |-> f, args |-> args]

Deeper(s) == [s EXCEPT !.depth = @ + 1, !.deepest = IF s.depth = @ THEN @ + 1 ELSE @]

RECURSIVE Run(_, _, _, _, _), RunForm(_, _, _, _, _), RunEach(_, _, _, _), RunArms(_, _, _, _, _, _),
          RunStmts(_, _, _, _, _, _), ApplySpine(_, _, _, _, _, _), RunFrames(_, _, _, _)

\* eval, and eval_tail where the answer may be a call that is still to be made.
Run(c, env, tail, m, s) ==
  LET last == tail /\ c.t \in TailForms
      r == RunForm(c, env, last, m, IF last THEN s ELSE Deeper(s))
  IN  IF ~last /\ s.depth = DepthLimit THEN Result(Trap, s) ELSE [r EXCEPT !.s.depth = s.depth]

\* Values in order, up to the first that fails.
RunEach(cs, env, m, s) ==
  IF cs = <<>> THEN [vs |-> <<>>, s |-> s, ok |-> TRUE]
  ELSE LET first == Run(Head(cs), env, FALSE, m, s)
           rest == RunEach(Tail(cs), env, m, first.s)
       IN  IF Fails(first) THEN [vs |-> <<>>, s |-> first.s, ok |-> FALSE]
           ELSE [rest EXCEPT !.vs = <<first.v>> \o @]

RunArms(v, arms, env, tail, m, s) ==
  IF arms = <<>> THEN Result(NoArm, s)
  ELSE LET arm == Head(arms)
           inside == <<IF arm.n = 0 THEN <<>> ELSE <<v>>>> \o env
           guard == Run(arm.xs[1], inside, FALSE, m, s)
       IN  IF Fails(guard) THEN guard
           ELSE IF guard.v = Bool(FALSE) THEN RunArms(v, Tail(arms), env, tail, m, guard.s)
           ELSE Run(arm.xs[2], inside, tail, m, guard.s)

RunStmts(c, i, env, tail, m, s) ==
  LET last == i = Len(c.xs)
      r == Run(c.xs[i], env, tail /\ last /\ i \notin c.n, m, s)
  IN  IF Fails(r) \/ (last /\ i \notin c.n) THEN r
      ELSE IF last THEN Result(Unit, r.s)
      ELSE RunStmts(c, i + 1, IF i \in c.n THEN <<<<r.v>>>> \o env ELSE env, tail, m, r.s)

\* As many arguments at once as the function still wants; a call that is
\* complete before the last argument is made before that one is evaluated.
ApplySpine(f, args, env, tail, m, s) ==
  LET wanted == IF f.t = "Fun" THEN Len(f.ps) - Len(f.args) ELSE 1
      take == IF wanted < Len(args) THEN wanted ELSE Len(args)
      each == RunEach(SubSeq(args, 1, take), env, m, s)
      rest == SubSeq(args, take + 1, Len(args))
  IN  CASE args = <<>> -> Result(f, s)
        [] args # <<>> /\ (~each.ok \/ f.t # "Fun") -> Result(Trap, each.s)
        [] OTHER ->
             LET given == f.args \o each.vs
             IN  CASE take < wanted -> Result([f EXCEPT !.args = given], each.s)
                   [] take = wanted /\ tail /\ rest = <<>> -> Result(Pending(f, given), each.s)
                   [] OTHER -> LET r == RunFrames(f, given, m, each.s)
                               IN  IF Fails(r) THEN r ELSE ApplySpine(r.v, rest, env, tail, m, r.s)

\* call_frames: a call, and whatever call it ends in, one after the other.
RunFrames(f, args, m, s) ==
  LET r == Run(f.body, <<args>> \o f.env, TRUE, m, s)
  IN  IF f.body.t = "Builtin" THEN Builtin(f.n, args, s)
      ELSE IF r.v.t = "Pending" THEN RunFrames(r.v.f, r.v.args, m, r.s) ELSE r

Parameters(k) == [i \in 1 .. k |-> NoName]

\* What `and`, `or` and a boolean `&` answer on their left operand alone.
Settles(op, a) ==
  \/ op \in {<<"and">>, <<"&">>} /\ a = Bool(FALSE)
  \/ op = <<"or">> /\ a = Bool(TRUE)

RunForm(c, env, tail, m, s) ==
  CASE c.t = "Lit" -> Result(c, s)
    [] c.t = "Local" -> Result(env[c.n[1]][c.n[2]], s)
    [] c.t = "Global" -> Result(m.globals[c.n], s)
    [] c.t = "ConstDef" -> IF c.n \in DOMAIN s.cache THEN Result(s.cache[c.n], s)
                           ELSE Keep(c.n, Run(m.code[c.n], <<>>, FALSE, m, s), m)
    [] c.t = "Lambda" -> Result(Fun(<<"lambda">>, Parameters(c.n), c.xs[1], env), s)
    [] c.t = "Act" -> RunStmts(c, 1, env, tail, m, s)
    [] c.t = "If" ->
         LET b == Run(c.xs[1], env, FALSE, m, s)
         IN  IF b.v \in {Bool(TRUE), Bool(FALSE)}
             THEN Run(c.xs[IF b.v = Bool(TRUE) THEN 2 ELSE 3], env, tail, m, b.s)
             ELSE Result(Trap, b.s)
    [] c.t = "Let" ->
         LET first == Run(Head(c.xs), env, tail /\ Len(c.xs) = 1, m, s)
         IN  IF Len(c.xs) = 1 \/ Fails(first) THEN first
             ELSE RunForm([c EXCEPT !.xs = Tail(@)], <<<<first.v>>>> \o env, tail, m, first.s)
    [] c.t = "Match" ->
         LET v == Run(c.xs[1], env, FALSE, m, s)
         IN  IF Fails(v) THEN v ELSE RunArms(v.v, Tail(c.xs), env, tail, m, v.s)
    [] c.t = "Binary" ->
         LET a == Run(c.xs[1], env, FALSE, m, s)
             b == Run(c.xs[2], env, FALSE, m, a.s)
         IN  CASE Fails(a) -> Result(Trap, a.s)
               [] Settles(c.n, a.v) -> a
               [] ~Fails(a) /\ ~Settles(c.n, a.v) /\ Fails(b) -> Result(Trap, b.s)
               [] OTHER -> Operation(c.n, a.v, b.v, b.s)
    [] c.t \in {"Unary", "List"} ->
         LET each == RunEach(c.xs, env, m, s)
         IN  CASE ~each.ok -> Result(Trap, each.s)
               [] each.ok /\ c.t = "List" -> NewList(each.vs, each.s)
               [] OTHER -> Result(Operated(<<"-">>, Num(0), each.vs[1], each.s), each.s)
    [] c.t = "Apply" ->
         LET f == Run(Head(c.xs), env, FALSE, m, s)
         IN  IF Fails(f) THEN f ELSE ApplySpine(f.v, Tail(c.xs), env, tail, m, f.s)
    [] OTHER -> Result(Trap, s)

-----------------------------------------------------------------------------
\* Interp::new: the table of globals is complete before a body runs.
Loaded(ds) ==
  LET code == [n \in Defined(ds) |-> CompiledDef(DefOf(n, ds), ds)] @@ <<>>
      own == [n \in Defined(ds) |-> Fun(n, DefOf(n, ds).params, code[n], <<>>)]
  IN  [code |-> code, cacheable |-> Cacheable(ds), writes |-> ProgramWrites(ds),
       globals |-> own @@ [n \in DOMAIN Builtins |-> Fun(n, Parameters(Builtins[n]), Node("Builtin", n, <<>>, <<>>), <<>>)]]

Fresh == NoStore @@ [cache |-> <<>>, depth |-> 0, deepest |-> 0]

\* Interp::run: the entry point, if there is one, in the empty environment.
Ran(ds) ==
  LET m == Loaded(ds)
  IN  IF <<"opening">> \notin DOMAIN m.code THEN Result(Trap, Fresh)
      ELSE Run(m.code[<<"opening">>], <<>>, FALSE, m, Fresh)
=============================================================================
