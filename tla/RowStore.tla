------------------------------ MODULE RowStore ------------------------------
(***************************************************************************)
(* The row variables of one checker state, and everything that happens to  *)
(* them: `next_row_id` and `row_subst` under `fresh_row`, `unify_row`,     *)
(* `row_union` and `open_row_if_closed`.  Inference calls these in an      *)
(* order the program being checked decides, on rows it built earlier from  *)
(* ids already minted; here every such call may come next.                 *)
(***************************************************************************)
EXTENDS EffectRows

rowVars == <<rowSubst, nextRow>>

MintedId == 0 .. (nextRow - 1)

\* The rows inference can hold: labels, and a tail minted already or none.
MintedRow == Row(MintedId)

RowInit ==
  /\ rowSubst = [i \in RowId |-> RowVar(i)]
  /\ nextRow = 0

MintRow ==
  /\ nextRow < MaxRows
  /\ nextRow' = nextRow + 1
  /\ UNCHANGED rowSubst

\* Open rows with different tails need room for the row between them.
UnifyRows(r1, r2) ==
  LET u == UnifyRow(rowSubst, nextRow, r1, r2)
  IN  /\ u.next <= MaxRows
      /\ rowSubst' = u.rs
      /\ nextRow' = u.next

UnionRows(r1, r2) ==
  /\ rowSubst' = RowUnion(rowSubst, r1, r2).rs
  /\ UNCHANGED nextRow

OpenRow(r) ==
  LET u == OpenRowIfClosed(rowSubst, nextRow, r)
  IN  /\ u.next <= MaxRows
      /\ nextRow' = u.next
      /\ UNCHANGED rowSubst

RowNext ==
  \/ MintRow
  \/ \E r1, r2 \in MintedRow : UnifyRows(r1, r2)
  \/ \E r1, r2 \in MintedRow : UnionRows(r1, r2)
  \/ \E r \in MintedRow : OpenRow(r)

RowSpec == RowInit /\ [][RowNext]_rowVars

-----------------------------------------------------------------------------

\* The slot array holds rows, and ids are minted up to the bound.
RowTypeOK ==
  /\ rowSubst \in [RowId -> Row(RowId)]
  /\ nextRow \in 0 .. MaxRows

\* A bound slot continues only with a minted id, and an id not minted yet has
\* an unbound slot: nothing refers to a row before it exists.
RowsMinted ==
  /\ \A i \in RowId \ MintedId : RowUnbound(rowSubst, i)
  /\ \A i \in MintedId : RowSucc(rowSubst)[i] \subseteq MintedId

\* No chain of tails comes back to a slot it left, so `resolve_row` reaches an
\* end and its bound of 10,000 slots is never what stops it.
RowsAcyclic == Acyclic(RowSucc(rowSubst))

\* Two rows that `unify_row` accepts resolve to one row afterwards, whatever
\* bindings, labels and shared tails either had before.
UnifiedRowsAgree ==
  \A r1, r2 \in MintedRow :
    LET u == UnifyRow(rowSubst, nextRow, r1, r2)
    IN  u.ok /\ u.next <= MaxRows => ResolveRow(u.rs, r1) = ResolveRow(u.rs, r2)

\* An effect that reached a row variable stays in it, and one bound to a closed
\* row is settled: no later unification takes a label away or adds one there.
RowsOnlyGrow ==
  [][\A i \in MintedId :
       LET old == ResolveRow(rowSubst, RowVar(i))
           new == ResolveRow(rowSubst', RowVar(i))
       IN  /\ old.labels \subseteq new.labels
           /\ ~IsOpen(old) => new = old]_rowVars

=============================================================================
