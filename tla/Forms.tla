-------------------------------- MODULE Forms --------------------------------
(***************************************************************************)
(* Expressions as the checker's front half sees them (Expr, ast.rs).  A    *)
(* node has its form, a name, the names it binds and its parts; a `let`,   *)
(* an `act`, an arm and a handler's clause keep what they bind in `ps`, in *)
(* the order of their parts.                                               *)
(*                                                                         *)
(* Names are tuples, so that a name mangled with its chapter is a longer   *)
(* one; NoName stands where a statement or an arm binds nothing.           *)
(***************************************************************************)
EXTENDS Integers, Sequences, SequencesExt

NoName == <<>>

Node(t, n, ps, xs) == [t |-> t, n |-> n, ps |-> ps, xs |-> xs]

Ref(n)            == Node("NameRef", n, <<>>, <<>>)
Lit(n)            == Node("Lit", n, <<>>, <<>>)
Apply(f, a)       == Node("Apply", NoName, <<>>, <<f, a>>)
Binary(op, l, r)  == Node("Binary", op, <<>>, <<l, r>>)
If(c, t, e)       == Node("If", NoName, <<>>, <<c, t, e>>)
Let(ps, vs, body) == Node("Let", NoName, ps, Append(vs, body))
Field(e)          == Node("Field", NoName, <<>>, <<e>>)
Negate(e)         == Node("Unary", NoName, <<>>, <<e>>)
Lambda(ps, body)  == Node("Lambda", NoName, ps, <<body>>)
Arm(ps, g, body)  == Node("Arm", NoName, ps, <<g, body>>)
Match(s, arms)    == Node("Match", NoName, <<>>, <<s>> \o arms)
Induction(s, arms) == Node("Induction", NoName, <<>>, <<s>> \o arms)
Act(ps, es)       == Node("Act", NoName, ps, es)
Clause(ps, body)  == Node("Clause", NoName, ps, <<body>>)
Handle(body, cs)  == Node("Handle", NoName, <<>>, <<body>> \o cs)
Try(b, f, x)      == Node("Try", NoName, <<>>, <<b, f, x>>)
Record(n, es)     == Node("Record", n, <<>>, es)
List(es)          == Node("List", NoName, <<>>, es)
=============================================================================
