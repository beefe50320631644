-------------------------------- MODULE Passes --------------------------------
(***************************************************************************)
(* A chapter from its checked tree to what is emitted (src/ir.rs,          *)
(* lower_pipeline): the driver's way, with the passes and the prune, and   *)
(* the way of an emitter that writes chapters as they are written, with    *)
(* neither, but with calls to forwarders written as the calls they make.   *)
(***************************************************************************)
EXTENDS IrPasses, Machine, FiniteSets

CONSTANT Programs  \* the chapters, as sequences of definitions

VARIABLES
  source,  \* the chapter as it was checked
  defs,    \* its definitions now
  stage    \* what was done last

vars == <<source, defs, stage>>

Roots == {<<"opening">>}

Init == source \in Programs /\ defs = source /\ stage = "source"

Pass(before, after, result) ==
  stage = before /\ stage' = after /\ defs' = result /\ UNCHANGED source

LowerDriver == Pass("source", "lowered", LowerAll(source))
Fold        == Pass("lowered", "folded", FoldConstants(defs))
Leaf        == Pass("folded", "leaves", InlineLeafCalls(defs))
Once        == Pass("leaves", "once", InlineSingleCaller(defs))
Lift        == Pass("once", "lifted", LiftLambdas(defs))
Prune       == Pass("lifted", "emitted", PruneUnreachableRoots(defs, Roots))

LowerWhole  == Pass("source", "whole", LowerEach(source))
LiftWhole   == Pass("whole", "whole lifted", LiftLambdas(defs))
CallBack    == Pass("whole lifted", "called back", CallBackDirectly(defs))

Next == LowerDriver \/ Fold \/ Leaf \/ Once \/ Lift \/ Prune \/ LowerWhole \/ LiftWhole \/ CallBack

Spec == Init /\ [][Next]_vars

-----------------------------------------------------------------------------
(***************************************************************************)
(* Properties.                                                             *)
(***************************************************************************)
\* No argument is the mention of a definition that prints when it is evaluated:
\* leaves substitute it wherever, and as often as, the parameter is mentioned
\* (args_simple).
ArgumentsQuiet ==
  \A d \in ToSet(source) : \A e \in ToSet(Under(d.body)) :
    e.t = "Apply" /\ e.xs[2].t = "NameRef" /\ (\E c \in ToSet(source) : c.name = e.xs[2].n /\ c.params = <<>>) =>
      Eval(e.xs[2], <<>>, source, NoStore).s.said = <<>>

\* Whatever is folded, substituted, lifted, dropped or called back, the chapter
\* prints the same and answers the same (lower_pipeline and call_back_directly).
MeaningKept == ArgumentsQuiet => MeaningOf(defs) = MeaningOf(source)

\* However binders are re-spelled, every reader reads the binder it read before
\* (bind_local, bound_name).
BindersKept ==
  stage \in {"lowered", "whole"} =>
    \A i \in DOMAIN source :
      DefByDepth(defs[i]) = DefByDepth([ShapeDef(source[i]) EXCEPT !.body = Wrapped(@)])

\* At every stage a name is bound where it stands, or defined, or a builtin; no
\* two definitions have one name; and once lambdas are lifted none is left.
NothingLoose == stage # "source" =>
  /\ \A d \in ToSet(defs) : Free(d.body) \subseteq ToSet(d.params) \cup Defined(defs) \cup BuiltinNames
  /\ Cardinality(Defined(defs)) = Len(defs)
  /\ stage \in {"lifted", "emitted", "whole lifted", "called back"} =>
       \A d \in ToSet(defs) : \A x \in ToSet(Under(d.body)) : x.t # "Lambda"

\* The chapters the interpreter runs as their emitters would: with no proofs and
\* no handlers, and no boundaries to check, which only emitted code does.  What a
\* kept function holds is not marked as kept (mark_cached), and is left out.
Interpreted(r) ==
  /\ \A d \in ToSet(source) : ~d.bounded /\ {e.t : e \in ToSet(Under(d.body))} \cap {"Induction", "Handle", "Try", "Record", "Field"} = {}
  /\ \A n \in DOMAIN r.s.cache : r.s.cache[n].t = "Fun" => r.s.cache[n].env = <<>> /\ r.s.cache[n].args = <<>>

\* The interpreter, with names made slots, answers kept, calls looped on and
\* spines applied at once, prints and answers what the chapter means, in which a
\* definition without parameters is evaluated at every mention.
CompiledAgrees == stage = "source" => LET r == Ran(source) IN Interpreted(r) => Outcome(r) = MeaningOf(source)

\* Definitions are only called, and only in tail position.
RECURSIVE TailCallsOnly(_, _)
TailCallsOnly(e, tail) ==
  LET call == e.t = "Apply" /\ e.xs[1].t = "NameRef" /\ e.xs[1].n \in Defined(source)
      InTail(i) == CASE e.t = "If" -> i > 1
                     [] e.t = "Match" -> i > 1
                     [] e.t \in {"Let", "Arm", "Act"} -> i = Len(e.xs)
                     [] OTHER -> FALSE
  IN  /\ e.t = "NameRef" => e.n \notin Defined(source)
      /\ call => tail
      /\ \A i \in DOMAIN e.xs : (call /\ i = 1) \/ TailCallsOnly(Spined(e.xs[i]), tail /\ InTail(i))

RECURSIVE Height(_)
Height(c) == 1 + Max({0} \cup {Height(c.xs[i]) : i \in DOMAIN c.xs})

\* A chapter that calls its definitions in tail position only runs as deep as it
\* is written, however often it goes round (Interp::call_frames).
LoopsRunFlat ==
  stage = "source" /\ (\A d \in ToSet(source) : TailCallsOnly(Spined(d.body), TRUE)) =>
    LET code == Loaded(source).code
    IN  Ran(source).s.deepest <= Height(code[<<"opening">>]) + Max({Height(code[n]) : n \in DOMAIN code})
=============================================================================
