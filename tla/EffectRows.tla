----------------------------- MODULE EffectRows -----------------------------
(***************************************************************************)
(* Effect rows and their slot array: `EffectRow`, `row_subst` and the      *)
(* functions that read and bind it (src/check.rs, `impl UnifyState`).      *)
(*                                                                         *)
(* A row is a set of labels and a tail.  The tail is the id of a row       *)
(* variable, or NoTail: the row is then closed.  The code keeps labels in  *)
(* a vector and compares vectors first; every arm behind that comparison   *)
(* compares them as sets, so a set gives the same answers.  The tail's     *)
(* NAME is only printed and is left out.                                   *)
(*                                                                         *)
(* `rs` is the slot array, over every id that may be minted; a slot that   *)
(* was not minted yet reads as itself, which is what `resolve_row` makes   *)
(* of an id it has no slot for.  `next` is `next_row_id`.                  *)
(***************************************************************************)
EXTENDS Integers, Reachability

CONSTANTS Label,     \* effect labels, each a (name, scope) pair in the code
          MaxRows    \* bound: how many row ids are minted

ASSUME MaxRowsAssumption == MaxRows \in Nat

VARIABLES rowSubst,   \* `row_subst`: the slot array
          nextRow     \* `next_row_id`: the next id to mint

RowId == 0 .. (MaxRows - 1)

NoTail == -1

Row(ids) == [labels : SUBSET Label, id : ids \cup {NoTail}]

EmptyRow == [labels |-> {}, id |-> NoTail]

\* A row that is a bare variable.
RowVar(i) == [labels |-> {}, id |-> i]

IsOpen(r) == r.id # NoTail

\* A slot holding itself is an unbound row variable.
RowUnbound(rs, i) == rs[i] = RowVar(i)

\* The row variable a bound slot continues with, if it has one.
RowSucc(rs) ==
  [i \in DOMAIN rs |->
     IF RowUnbound(rs, i) \/ ~IsOpen(rs[i]) THEN {} ELSE {rs[i].id}]

\* Follow an open row's tail slot by slot to where it stops, at an unbound
\* variable or a closed row, keeping the labels picked up on the way.
ResolveRow(rs, r) ==
  IF ~IsOpen(r) THEN r
  ELSE LET succ  == RowSucc(rs)
           chain == Reach(succ, {r.id})
           end   == CHOOSE e \in chain : succ[e] = {}
       IN  [labels |-> r.labels \cup UNION {rs[i].labels : i \in chain},
            id     |-> IF RowUnbound(rs, end) THEN end ELSE NoTail]

AddRowSubst(rs, i, r) == [rs EXCEPT ![i] = r]

(***************************************************************************)
(* What an operation on rows leaves: the slot array, the next id, the row  *)
(* or Boolean it answers, and whether it reported CDX2090.                 *)
(*                                                                         *)
(* Among the operators are wrong variants, each marked as one: mistakes    *)
(* that the properties of RowStore and Unifier tell from the code.         *)
(***************************************************************************)
Agreed(rs, next)        == [rs |-> rs, next |-> next, ok |-> TRUE, reported |-> FALSE]
Refused(rs, next, rep)  == [rs |-> rs, next |-> next, ok |-> FALSE, reported |-> rep]

\* An open row's tail is bound to a closed row.
CloseTail(rs, i, ls) == AddRowSubst(rs, i, [labels |-> ls, id |-> NoTail])

\* Two tails are bound to a third, the one with labels la, the other with lb.
BindBoth(rs, t3, a, la, b, lb) ==
  AddRowSubst(AddRowSubst(rs, a.id, [labels |-> la, id |-> t3]), b.id, [labels |-> lb, id |-> t3])

\* Wrong: each tail gets the labels its own row has.
ThroughSwapped(rs, t3, a, b) ==
  BindBoth(rs, t3, a, a.labels \ b.labels, b, b.labels \ a.labels)

\* Each tail gets the labels its row lacks.
Through(rs, t3, a, b) ==
  BindBoth(rs, t3, a, b.labels \ a.labels, b, a.labels \ b.labels)

\* Two open rows: with one tail they must carry the same labels already.
UnifyOpen(rs, next, a, b) ==
  IF a.id = b.id THEN Refused(rs, next, FALSE)
  ELSE Agreed(Through(rs, next, a, b), next + 1)

\* Two closed rows agree or fail.  An open row meeting a closed one is bound
\* to it, and may carry no label the closed one lacks.  Two open rows with
\* different tails are equated through a third, freshly minted.
UnifyResolved(rs, next, a, b) ==
  LET only1 == a.labels \ b.labels
      only2 == b.labels \ a.labels
  IN  IF a = b THEN Agreed(rs, next)
      ELSE IF IsOpen(a) /\ IsOpen(b) THEN UnifyOpen(rs, next, a, b)
      ELSE IF IsOpen(a) /\ only1 = {} THEN Agreed(CloseTail(rs, a.id, only2), next)
      ELSE IF IsOpen(b) /\ only2 = {} THEN Agreed(CloseTail(rs, b.id, only1), next)
      ELSE Refused(rs, next, TRUE)

\* Wrong: the second row is taken as it is written.
UnifyRowUnresolved(rs, next, r1, r2) == UnifyResolved(rs, next, ResolveRow(rs, r1), r2)

UnifyRow(rs, next, r1, r2) == UnifyResolved(rs, next, ResolveRow(rs, r1), ResolveRow(rs, r2))

Merged(a, b, i) == [labels |-> a.labels \cup b.labels, id |-> i]

\* Two rows meeting as the ambient effects of one expression.  It never mints:
\* two different open tails are equated by substituting one for the other.
UnionResolved(rs, a, b) ==
  IF a = EmptyRow THEN [rs |-> rs, row |-> b]
  ELSE IF b = EmptyRow \/ a = b THEN [rs |-> rs, row |-> a]
  ELSE IF ~IsOpen(a) THEN [rs |-> rs, row |-> Merged(a, b, b.id)]
  ELSE IF ~IsOpen(b) \/ a.id = b.id THEN [rs |-> rs, row |-> Merged(a, b, a.id)]
  ELSE [rs |-> AddRowSubst(rs, a.id, RowVar(b.id)), row |-> Merged(a, b, b.id)]

\* Wrong: the second row is taken as it is written.
RowUnionUnresolved(rs, r1, r2) == UnionResolved(rs, ResolveRow(rs, r1), r2)

RowUnion(rs, r1, r2) == UnionResolved(rs, ResolveRow(rs, r1), ResolveRow(rs, r2))

\* A lambda mints a row only when its body's is closed.
OpenRowIfClosed(rs, next, r) ==
  LET a == ResolveRow(rs, r)
  IN  IF IsOpen(a) THEN [next |-> next, row |-> a]
      ELSE [next |-> next + 1, row |-> [a EXCEPT !.id = next]]

=============================================================================
