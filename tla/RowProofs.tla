----------------------------- MODULE RowProofs -----------------------------
(***************************************************************************)
(* What the operations on effect rows keep, for any ids and any labels;    *)
(* then, for every set of labels and any number of rows: the row variables *)
(* keep their types, refer only to minted ids, and form no circle.  The    *)
(* three are one inductive invariant: a row minted between two others      *)
(* closes no circle because nothing refers to an id before it is minted,   *)
(* and nothing does because every tail was resolved to an end.             *)
(***************************************************************************)
EXTENDS RowStore

\* A slot array over `ids` whose minted part is closed and leads nowhere twice.
RowsSound(ids, minted, rs) ==
  /\ minted \subseteq ids /\ NoTail \notin ids
  /\ rs \in [ids -> Row(ids)]
  /\ Acyclic(RowSucc(rs))
  /\ \A i \in ids \ minted : RowUnbound(rs, i)
  /\ \A i \in minted : RowSucc(rs)[i] \subseteq minted

LEMMA RowSuccTyped ==
  ASSUME NEW ids, NEW minted, NEW rs, RowsSound(ids, minted, rs)
  PROVE  RowSucc(rs) \in [ids -> SUBSET ids] /\ DOMAIN RowSucc(rs) = ids
BY DEF RowsSound, RowSucc, IsOpen, Row

\* A row over minted ids resolves to one, and an open one to an unbound tail.
LEMMA ResolveRowEnds ==
  ASSUME NEW ids, NEW minted, NEW rs, RowsSound(ids, minted, rs), NEW r \in Row(minted)
  PROVE  /\ ResolveRow(rs, r) \in Row(minted)
         /\ IsOpen(ResolveRow(rs, r)) => /\ ResolveRow(rs, r).id \in minted
                                         /\ RowUnbound(rs, ResolveRow(rs, r).id)
<1>1. CASE ~IsOpen(r)
  BY <1>1 DEF ResolveRow
<1>2. CASE IsOpen(r)
  <2> DEFINE succ  == RowSucc(rs)
             chain == Reach(succ, {r.id})
             end   == CHOOSE e \in chain : succ[e] = {}
             ls    == r.labels \cup UNION {rs[i].labels : i \in chain}
  <2>1. r.id \in minted
    BY <1>2 DEF Row, IsOpen
  <2>2. Closed(succ, minted) /\ {r.id} \subseteq minted
    BY <2>1 DEF Closed, RowsSound
  <2>3. chain \subseteq minted
    BY <2>2, RowSuccTyped, ReachLeast DEF RowsSound
  <2>4. \E e \in chain : succ[e] = {}
    BY <2>1, RowSuccTyped, AcyclicEnds DEF RowsSound
  <2>5. end \in minted
    BY <2>3, <2>4
  <2>6. ls \in SUBSET Label
    <3>1. r.labels \in SUBSET Label
      BY DEF Row
    <3>2. \A i \in chain : rs[i].labels \in SUBSET Label
      BY <2>3 DEF Row, RowsSound
    <3> QED
      BY <3>1, <3>2
  <2>7. ResolveRow(rs, r) = [labels |-> ls, id |-> IF RowUnbound(rs, end) THEN end ELSE NoTail]
    BY <1>2 DEF ResolveRow
  <2> HIDE DEF end, ls
  <2>8. CASE RowUnbound(rs, end)
    <3>1. ResolveRow(rs, r) = [labels |-> ls, id |-> end]
      BY <2>7, <2>8
    <3>2. ResolveRow(rs, r).id = end /\ ResolveRow(rs, r) \in Row(minted)
      BY <2>5, <2>6, <3>1 DEF Row
    <3> QED
      BY <2>5, <2>8, <3>2
  <2>9. CASE ~RowUnbound(rs, end)
    BY <2>6, <2>7, <2>9 DEF Row, IsOpen
  <2> QED
    BY <2>8, <2>9
<1> QED
  BY <1>1, <1>2

\* Binding an unbound row variable to a row that does not lead back to it.
LEMMA AddRowSubstSound ==
  ASSUME NEW ids, NEW minted, NEW rs, RowsSound(ids, minted, rs),
         NEW i \in minted, RowUnbound(rs, i), NEW r \in Row(minted), r # RowVar(i),
         IsOpen(r) => RowUnbound(rs, r.id) /\ r.id # i
  PROVE  RowsSound(ids, minted, AddRowSubst(rs, i, r))
<1> DEFINE new == AddRowSubst(rs, i, r)
           T   == IF IsOpen(r) THEN {r.id} ELSE {}
<1>1. /\ minted \subseteq ids /\ rs \in [ids -> Row(ids)] /\ r \in Row(ids)
      /\ T \in SUBSET minted
  BY DEF RowsSound, Row, IsOpen
<1>2. RowSucc(new) = [RowSucc(rs) EXCEPT ![i] = T]
  BY <1>1 DEF AddRowSubst, RowSucc, RowUnbound
<1>3. Closed(RowSucc(rs), T)
  BY <1>1 DEF Closed, RowSucc
<1>4. i \notin Reach(RowSucc(rs), T)
  <2>1. Reach(RowSucc(rs), T) \subseteq T
    BY <1>1, <1>3, RowSuccTyped, ReachLeast
  <2> QED
    BY <2>1
<1>5. Acyclic(RowSucc(new))
  <2>1. /\ RowSucc(rs) \in [ids -> SUBSET ids] /\ Acyclic(RowSucc(rs))
        /\ i \in ids /\ T \in SUBSET ids
    BY <1>1, RowSuccTyped DEF RowsSound
  <2>2. Acyclic([RowSucc(rs) EXCEPT ![i] = T])
    BY <1>4, <2>1, AcyclicBind
  <2> QED
    BY <1>2, <2>2
<1>6. \A j \in ids \ minted : RowUnbound(new, j)
  BY <1>1 DEF RowsSound, AddRowSubst, RowUnbound
<1>7. \A j \in minted : RowSucc(new)[j] \subseteq minted
  BY <1>1, <1>2, RowSuccTyped DEF RowsSound
<1>8. new \in [ids -> Row(ids)]
  BY <1>1 DEF AddRowSubst
<1> QED
  BY <1>5, <1>6, <1>7, <1>8 DEF RowsSound

\* Minting an id adds an unbound slot.
LEMMA MintSound ==
  ASSUME NEW ids, NEW minted, NEW rs, RowsSound(ids, minted, rs), NEW i \in ids
  PROVE  RowsSound(ids, minted \cup {i}, rs)
BY RowSuccTyped DEF RowsSound, RowSucc, RowUnbound

\* `unify_row` keeps the slots sound, and mints at most the next id.
LEMMA UnifyRowSound ==
  ASSUME NEW ids, NEW minted, NEW rs, RowsSound(ids, minted, rs),
         NEW next \in Int, NEW r1 \in Row(minted), NEW r2 \in Row(minted),
         UnifyRow(rs, next, r1, r2).next # next => next \in ids \ minted
  PROVE  LET u == UnifyRow(rs, next, r1, r2)
         IN  \/ u.next = next     /\ RowsSound(ids, minted, u.rs)
             \/ u.next = next + 1 /\ RowsSound(ids, minted \cup {next}, u.rs)
<1> DEFINE u     == UnifyRow(rs, next, r1, r2)
           a     == ResolveRow(rs, r1)
           b     == ResolveRow(rs, r2)
           only1 == a.labels \ b.labels
           only2 == b.labels \ a.labels
<1>1. /\ a \in Row(minted) /\ b \in Row(minted)
      /\ IsOpen(a) => a.id \in minted /\ RowUnbound(rs, a.id)
      /\ IsOpen(b) => b.id \in minted /\ RowUnbound(rs, b.id)
  BY ResolveRowEnds
<1>2. only1 \in SUBSET Label /\ only2 \in SUBSET Label
  BY <1>1 DEF Row
<1>3. ASSUME NEW i \in minted, RowUnbound(rs, i), NEW ls \in SUBSET Label
      PROVE  RowsSound(ids, minted, AddRowSubst(rs, i, [labels |-> ls, id |-> NoTail]))
  <2> DEFINE r == [labels |-> ls, id |-> NoTail]
  <2>1. r \in Row(minted) /\ ~IsOpen(r) /\ r # RowVar(i)
    BY DEF Row, IsOpen, RowVar, RowsSound
  <2> QED
    BY <1>3, <2>1, AddRowSubstSound
<1>4. CASE u.rs = rs /\ u.next = next
  BY <1>4
<1>5. CASE IsOpen(a) /\ ~IsOpen(b) /\ a # b /\ only1 = {}
  BY <1>1, <1>2, <1>3, <1>5 DEF UnifyRow, UnifyResolved, UnifyOpen, Agreed, Refused, CloseTail
<1>6. CASE ~IsOpen(a) /\ IsOpen(b) /\ a # b /\ only2 = {}
  BY <1>1, <1>2, <1>3, <1>6 DEF UnifyRow, UnifyResolved, UnifyOpen, Agreed, Refused, CloseTail
<1>7. CASE IsOpen(a) /\ IsOpen(b) /\ a # b /\ a.id # b.id
  <2> DEFINE all == minted \cup {next}
             ra  == [labels |-> only2, id |-> next]
             rb  == [labels |-> only1, id |-> next]
             mid == AddRowSubst(rs, a.id, ra)
  <2>1. u.rs = AddRowSubst(mid, b.id, rb) /\ u.next = next + 1
    BY <1>7 DEF UnifyRow, UnifyResolved, UnifyOpen, Agreed, Refused, Through, BindBoth
  <2>2. next \in ids \ minted
    BY <2>1
  <2>3. RowsSound(ids, all, rs) /\ RowUnbound(rs, next)
    BY <2>2, MintSound DEF RowsSound
  <2>4. /\ ra \in Row(all) /\ rb \in Row(all) /\ ra.id = next /\ rb.id = next
        /\ a.id \in all /\ b.id \in all /\ a.id # next /\ b.id # next
        /\ ra # RowVar(a.id) /\ rb # RowVar(b.id)
    BY <1>1, <1>2, <1>7, <2>2 DEF Row, RowVar
  <2>5. RowsSound(ids, all, mid)
    BY <1>1, <1>7, <2>3, <2>4, AddRowSubstSound
  <2>6. RowUnbound(mid, next) /\ RowUnbound(mid, b.id)
    BY <1>1, <1>7, <2>3, <2>4 DEF AddRowSubst, RowUnbound, RowsSound
  <2>7. RowsSound(ids, all, u.rs)
    BY <2>1, <2>4, <2>5, <2>6, AddRowSubstSound
  <2> QED
    BY <2>1, <2>7
<1>8. \/ u.rs = rs /\ u.next = next
      \/ IsOpen(a) /\ ~IsOpen(b) /\ a # b /\ only1 = {}
      \/ ~IsOpen(a) /\ IsOpen(b) /\ a # b /\ only2 = {}
      \/ IsOpen(a) /\ IsOpen(b) /\ a # b /\ a.id # b.id
  BY DEF UnifyRow, UnifyResolved, UnifyOpen, Agreed, Refused
<1> QED
  BY <1>4, <1>5, <1>6, <1>7, <1>8

\* `row_union` keeps the slots sound, and mints nothing.
LEMMA RowUnionSound ==
  ASSUME NEW ids, NEW minted, NEW rs, RowsSound(ids, minted, rs),
         NEW r1 \in Row(minted), NEW r2 \in Row(minted)
  PROVE  RowsSound(ids, minted, RowUnion(rs, r1, r2).rs)
<1> DEFINE u == RowUnion(rs, r1, r2)
           a == ResolveRow(rs, r1)
           b == ResolveRow(rs, r2)
<1>1. /\ a \in Row(minted) /\ b \in Row(minted)
      /\ IsOpen(a) => a.id \in minted /\ RowUnbound(rs, a.id)
      /\ IsOpen(b) => b.id \in minted /\ RowUnbound(rs, b.id)
  BY ResolveRowEnds
<1>2. \/ u.rs = rs
      \/ IsOpen(a) /\ IsOpen(b) /\ a.id # b.id /\ u.rs = AddRowSubst(rs, a.id, RowVar(b.id))
  BY DEF RowUnion, UnionResolved
<1>3. CASE IsOpen(a) /\ IsOpen(b) /\ a.id # b.id /\ u.rs = AddRowSubst(rs, a.id, RowVar(b.id))
  <2>1. RowVar(b.id) \in Row(minted) /\ RowVar(b.id).id = b.id /\ RowVar(b.id) # RowVar(a.id)
    BY <1>1, <1>3 DEF RowVar, Row
  <2> QED
    BY <1>1, <1>3, <2>1, AddRowSubstSound
<1> QED
  BY <1>2, <1>3

-----------------------------------------------------------------------------
(***************************************************************************)
(* What a binding changes for whoever reads rows.                          *)
(***************************************************************************)
\* Binding an unbound row variable extends the rows that end there by what it
\* is bound to, and leaves every other row as it was.
LEMMA BindReads ==
  ASSUME NEW ids, NEW minted, NEW rs, RowsSound(ids, minted, rs),
         NEW i \in minted, RowUnbound(rs, i), NEW r \in Row(minted), r # RowVar(i),
         IsOpen(r) => RowUnbound(rs, r.id) /\ r.id # i,
         NEW q \in Row(minted)
  PROVE  LET old == ResolveRow(rs, q)
         IN  ResolveRow(AddRowSubst(rs, i, r), q)
               = IF old.id = i THEN [labels |-> old.labels \cup r.labels, id |-> r.id] ELSE old
<1> DEFINE new == AddRowSubst(rs, i, r)
           T   == IF IsOpen(r) THEN {r.id} ELSE {}
<1>1. /\ minted \subseteq ids /\ rs \in [ids -> Row(ids)] /\ r \in Row(ids)
      /\ T \in SUBSET minted /\ NoTail \notin ids
  BY DEF RowsSound, Row, IsOpen
<1>2. CASE ~IsOpen(q)
  BY <1>1, <1>2 DEF ResolveRow, IsOpen
<1>3. CASE IsOpen(q)
  <2> DEFINE succ == RowSucc(rs)
             C    == Reach(succ, {q.id})
             L    == UNION {rs[j].labels : j \in C}
             end  == CHOOSE e \in C : succ[e] = {}
             nsucc == RowSucc(new)
             nC   == Reach(nsucc, {q.id})
             nL   == UNION {new[j].labels : j \in nC}
             nend == CHOOSE e \in nC : nsucc[e] = {}
  <2>1. q.id \in ids
    BY <1>1, <1>3 DEF Row, IsOpen
  <2>2. succ \in [ids -> SUBSET ids] /\ Acyclic(succ) /\ (\A n \in ids : \A p, s \in succ[n] : p = s)
    BY RowSuccTyped DEF RowsSound, RowSucc
  <2>3. RowsSound(ids, minted, new)
    BY AddRowSubstSound
  <2>4. nsucc \in [ids -> SUBSET ids] /\ Acyclic(nsucc) /\ (\A n \in ids : \A p, s \in nsucc[n] : p = s)
    BY <2>3, RowSuccTyped DEF RowsSound, RowSucc
  <2>5. nsucc = [succ EXCEPT ![i] = T] /\ succ[i] = {} /\ Closed(succ, T)
    BY <1>1 DEF AddRowSubst, RowSucc, RowUnbound, Closed
  <2>6. nC = C \cup (IF i \in C THEN T ELSE {})
    <3>1. i \in ids /\ T \in SUBSET ids /\ {q.id} \in SUBSET ids
      BY <1>1, <2>1
    <3>2. succ \in [ids -> SUBSET ids] /\ nsucc \in [ids -> SUBSET ids]
      BY <2>2, <2>4
    <3>3. nsucc[i] = T /\ (\A n \in ids : n # i => nsucc[n] = succ[n]) /\ succ[i] = {} /\ Closed(succ, T)
      BY <2>5, <3>1, <3>2
    <3> HIDE DEF T, succ, nsucc, C, nC
    <3>4. Reach(nsucc, {q.id}) = Reach(succ, {q.id}) \cup (IF i \in Reach(succ, {q.id}) THEN T ELSE {})
      BY <3>1, <3>2, <3>3, ReachBind
    <3> QED
      BY <3>4 DEF C, nC
  <2>7. end \in C /\ succ[end] = {} /\ C \subseteq ids
    <3>1. \E e \in C : succ[e] = {}
      BY <2>1, <2>2, AcyclicEnds
    <3>2. C \subseteq ids
      BY <2>2 DEF Reach
    <3> QED
      BY <3>1, <3>2
  <2>8. nend \in nC /\ nsucc[nend] = {} /\ nC \subseteq ids
    <3>1. \E e \in nC : nsucc[e] = {}
      BY <2>1, <2>4, AcyclicEnds
    <3>2. nC \subseteq ids
      BY <2>4 DEF Reach
    <3> QED
      BY <3>1, <3>2
  <2>9. /\ ResolveRow(rs, q) = [labels |-> q.labels \cup L, id |-> IF RowUnbound(rs, end) THEN end ELSE NoTail]
        /\ ResolveRow(new, q) = [labels |-> q.labels \cup nL, id |-> IF RowUnbound(new, nend) THEN nend ELSE NoTail]
    BY <1>3 DEF ResolveRow
  <2>10. i \in C => end = i
    BY <2>1, <2>2, <2>5, <2>7, OneEnd
  <2>11. ASSUME NEW e \in nC, nsucc[e] = {} PROVE nend = e
    BY <2>1, <2>4, <2>8, <2>11, OneEnd
  <2>12. \A j \in ids : j # i => new[j] = rs[j]
    BY <1>1 DEF AddRowSubst
  <2>13. new[i] = r /\ rs[i].labels = {}
    BY <1>1 DEF AddRowSubst, RowUnbound, RowVar
  <2> DEFINE old  == ResolveRow(rs, q)
             read == ResolveRow(new, q)
  <2> SUFFICES read = IF old.id = i THEN [labels |-> old.labels \cup r.labels, id |-> r.id]
                                    ELSE old
    OBVIOUS
  <2> HIDE DEF end, nend, L, nL, C, nC, succ, nsucc, new, T
  <2>14. CASE i \notin C
    <3>1. nC = C
      BY <2>6, <2>14
    <3>2. nL = L
      BY <2>7, <2>12, <2>14, <3>1 DEF L, nL
    <3>3. nend = end
      BY <2>5, <2>7, <2>11, <2>14, <3>1
    <3>4. RowUnbound(new, nend) <=> RowUnbound(rs, end)
      BY <2>7, <2>12, <2>14, <3>3 DEF RowUnbound
    <3>5. (IF RowUnbound(rs, end) THEN end ELSE NoTail) # i
      BY <1>1, <2>7, <2>14
    <3>6. (IF RowUnbound(new, nend) THEN nend ELSE NoTail) = (IF RowUnbound(rs, end) THEN end ELSE NoTail)
      BY <3>3, <3>4
    <3>7. read = old
      BY <2>9, <3>2, <3>6
    <3>8. old.id # i
      BY <2>9, <3>5
    <3> QED
      BY <3>7, <3>8
  <2>15. CASE i \in C
    <3>1. nC = C \cup T /\ end = i
      BY <2>6, <2>10, <2>15
    <3>2. ResolveRow(rs, q) = [labels |-> q.labels \cup L, id |-> i]
      BY <2>9, <3>1
    <3>3. nL = L \cup r.labels
      <4>1. \A j \in T : new[j].labels = {}
        BY <1>1, <2>12 DEF T, RowUnbound, RowVar
      <4>2. \A j \in C : j # i => new[j].labels = rs[j].labels
        BY <2>7, <2>12
      <4>3. \A v : v \in nL <=> v \in L \cup r.labels
        BY <2>13, <2>15, <3>1, <4>1, <4>2 DEF L, nL
      <4> QED
        BY <4>3
    <3>4. (IF RowUnbound(new, nend) THEN nend ELSE NoTail) = r.id
      <4>1. CASE IsOpen(r)
        <5>1. r.id \in nC /\ r.id # i /\ new[r.id] = RowVar(r.id)
          BY <1>1, <2>12, <3>1, <4>1 DEF T, RowUnbound
        <5>2. nsucc[r.id] = {}
          BY <1>1, <2>5, <2>12, <4>1, <5>1 DEF T, succ, RowSucc
        <5> QED
          BY <2>11, <5>1, <5>2 DEF RowUnbound
      <4>2. CASE ~IsOpen(r)
        <5>1. nsucc[i] = {} /\ i \in nC
          BY <1>1, <2>2, <2>5, <2>15, <3>1, <4>2 DEF T
        <5>2. nend = i
          BY <2>11, <5>1
        <5> QED
          BY <2>13, <4>2, <5>2 DEF RowUnbound, IsOpen
      <4> QED
        BY <4>1, <4>2
    <3>5. read = [labels |-> q.labels \cup (L \cup r.labels), id |-> r.id]
      BY <2>9, <3>3, <3>4
    <3>6. old.id = i /\ old.labels = q.labels \cup L
      BY <3>2
    <3>7. q.labels \cup (L \cup r.labels) = old.labels \cup r.labels
      BY <3>6
    <3> QED
      BY <3>5, <3>6, <3>7
  <2> QED
    BY <2>14, <2>15
<1> QED
  BY <1>2, <1>3

\* What may become of a row as others are bound: it gets more labels while it
\* is open, and a closed one stays as it is.
Grown(old, new) ==
  /\ old.labels \subseteq new.labels
  /\ ~IsOpen(old) => new = old

\* A row with more labels and another tail, read from an open row.
LEMMA BindGrows ==
  ASSUME NEW ids, NEW minted, NEW rs, RowsSound(ids, minted, rs),
         NEW i \in minted, RowUnbound(rs, i), NEW r \in Row(minted), r # RowVar(i),
         IsOpen(r) => RowUnbound(rs, r.id) /\ r.id # i,
         NEW q \in Row(minted)
  PROVE  Grown(ResolveRow(rs, q), ResolveRow(AddRowSubst(rs, i, r), q))
<1> DEFINE old == ResolveRow(rs, q)
           new == ResolveRow(AddRowSubst(rs, i, r), q)
<1>1. new = IF old.id = i THEN [labels |-> old.labels \cup r.labels, id |-> r.id] ELSE old
  BY BindReads
<1>2. i # NoTail
  BY DEF RowsSound
<1> HIDE DEF old, new
<1>3. Grown(old, new)
  BY <1>1, <1>2 DEF Grown, IsOpen
<1> QED
  BY <1>3 DEF old, new

\* Rows grow over two bindings when they grow over each.
LEMMA GrownTwice ==
  ASSUME NEW a, NEW b, NEW c, Grown(a, b), Grown(b, c)
  PROVE  Grown(a, c)
BY DEF Grown

\* Rows that were one row are one still.
StillOne(rows, old, new) ==
  \A p, q \in rows : ResolveRow(old, p) = ResolveRow(old, q) => ResolveRow(new, p) = ResolveRow(new, q)

\* Two rows that `unify_row` accepts resolve to one row in the slots it leaves;
\* whatever it does, every row resolves to a grown one, and two that were one
\* row stay so.
LEMMA UnifyRowReads ==
  ASSUME NEW ids, NEW minted, NEW rs, RowsSound(ids, minted, rs),
         NEW next \in Int, NEW r1 \in Row(minted), NEW r2 \in Row(minted),
         UnifyRow(rs, next, r1, r2).next # next => next \in ids \ minted
  PROVE  LET u == UnifyRow(rs, next, r1, r2)
         IN  /\ u.ok => ResolveRow(u.rs, r1) = ResolveRow(u.rs, r2)
             /\ \A q \in Row(minted) : Grown(ResolveRow(rs, q), ResolveRow(u.rs, q))
             /\ StillOne(Row(minted), rs, u.rs)
<1> DEFINE u     == UnifyRow(rs, next, r1, r2)
           a     == ResolveRow(rs, r1)
           b     == ResolveRow(rs, r2)
           only1 == a.labels \ b.labels
           only2 == b.labels \ a.labels
           Goal  == /\ u.ok => ResolveRow(u.rs, r1) = ResolveRow(u.rs, r2)
                    /\ \A q \in Row(minted) : Grown(ResolveRow(rs, q), ResolveRow(u.rs, q))
                    /\ StillOne(Row(minted), rs, u.rs)
<1> SUFFICES Goal
  OBVIOUS
<1>1. /\ a \in Row(minted) /\ b \in Row(minted)
      /\ IsOpen(a) => a.id \in minted /\ RowUnbound(rs, a.id)
      /\ IsOpen(b) => b.id \in minted /\ RowUnbound(rs, b.id)
  BY ResolveRowEnds
<1>2. /\ only1 \in SUBSET Label /\ only2 \in SUBSET Label
      /\ a = [labels |-> a.labels, id |-> a.id] /\ b = [labels |-> b.labels, id |-> b.id]
  BY <1>1 DEF Row
<1>3. ASSUME NEW i \in minted, RowUnbound(rs, i), NEW ls \in SUBSET Label, NEW q \in Row(minted)
      PROVE  LET new == AddRowSubst(rs, i, [labels |-> ls, id |-> NoTail])
                 old == ResolveRow(rs, q)
             IN  /\ ResolveRow(new, q) = IF old.id = i THEN [labels |-> old.labels \cup ls, id |-> NoTail]
                                                       ELSE old
                 /\ Grown(old, ResolveRow(new, q))
  <2> DEFINE r == [labels |-> ls, id |-> NoTail]
  <2>1. r \in Row(minted) /\ ~IsOpen(r) /\ r # RowVar(i) /\ r.labels = ls /\ r.id = NoTail
    BY DEF Row, IsOpen, RowVar, RowsSound
  <2> HIDE DEF r
  <2>2. /\ ResolveRow(AddRowSubst(rs, i, r), q)
             = IF ResolveRow(rs, q).id = i
               THEN [labels |-> ResolveRow(rs, q).labels \cup r.labels, id |-> r.id]
               ELSE ResolveRow(rs, q)
        /\ Grown(ResolveRow(rs, q), ResolveRow(AddRowSubst(rs, i, r), q))
    BY <1>3, <2>1, BindReads, BindGrows
  <2> QED
    BY <2>1, <2>2 DEF r
<1>4. CASE u.rs = rs /\ (u.ok => a = b)
  BY <1>4 DEF Grown, StillOne
<1>5. CASE IsOpen(a) /\ ~IsOpen(b) /\ a # b /\ only1 = {}
  <2>1. u.rs = AddRowSubst(rs, a.id, [labels |-> only2, id |-> NoTail])
    BY <1>5 DEF UnifyRow, UnifyResolved, UnifyOpen, Agreed, Refused, CloseTail
  <2>2. b.id = NoTail /\ NoTail # a.id /\ b.labels = a.labels \cup only2
    BY <1>5 DEF IsOpen
  <2>3. /\ ResolveRow(u.rs, r1) = [labels |-> a.labels \cup only2, id |-> NoTail]
        /\ ResolveRow(u.rs, r2) = b
    BY <1>1, <1>2, <1>3, <1>5, <2>1, <2>2
  <2>4. \A q \in Row(minted) : Grown(ResolveRow(rs, q), ResolveRow(u.rs, q))
    BY <1>1, <1>2, <1>3, <1>5, <2>1
  <2>5. \A q \in Row(minted) :
          ResolveRow(u.rs, q) = IF ResolveRow(rs, q).id = a.id
                                THEN [labels |-> ResolveRow(rs, q).labels \cup only2, id |-> NoTail]
                                ELSE ResolveRow(rs, q)
    BY <1>1, <1>2, <1>3, <1>5, <2>1
  <2>6. StillOne(Row(minted), rs, u.rs)
    BY <2>5 DEF StillOne
  <2> QED
    BY <1>2, <2>2, <2>3, <2>4, <2>6
<1>6. CASE ~IsOpen(a) /\ IsOpen(b) /\ a # b /\ only2 = {}
  <2>1. u.rs = AddRowSubst(rs, b.id, [labels |-> only1, id |-> NoTail])
    BY <1>6 DEF UnifyRow, UnifyResolved, UnifyOpen, Agreed, Refused, CloseTail
  <2>2. a.id = NoTail /\ NoTail # b.id /\ a.labels = b.labels \cup only1
    BY <1>6 DEF IsOpen
  <2>3. /\ ResolveRow(u.rs, r2) = [labels |-> b.labels \cup only1, id |-> NoTail]
        /\ ResolveRow(u.rs, r1) = a
    BY <1>1, <1>2, <1>3, <1>6, <2>1, <2>2
  <2>4. \A q \in Row(minted) : Grown(ResolveRow(rs, q), ResolveRow(u.rs, q))
    BY <1>1, <1>2, <1>3, <1>6, <2>1
  <2>5. \A q \in Row(minted) :
          ResolveRow(u.rs, q) = IF ResolveRow(rs, q).id = b.id
                                THEN [labels |-> ResolveRow(rs, q).labels \cup only1, id |-> NoTail]
                                ELSE ResolveRow(rs, q)
    BY <1>1, <1>2, <1>3, <1>6, <2>1
  <2>6. StillOne(Row(minted), rs, u.rs)
    BY <2>5 DEF StillOne
  <2> QED
    BY <1>2, <2>2, <2>3, <2>4, <2>6
<1>7. CASE IsOpen(a) /\ IsOpen(b) /\ a # b /\ a.id # b.id
  <2> DEFINE all == minted \cup {next}
             ra  == [labels |-> only2, id |-> next]
             rb  == [labels |-> only1, id |-> next]
             mid == AddRowSubst(rs, a.id, ra)
  <2>1. u.rs = AddRowSubst(mid, b.id, rb) /\ u.next = next + 1
    BY <1>7 DEF UnifyRow, UnifyResolved, UnifyOpen, Agreed, Refused, Through, BindBoth
  <2>2. next \in ids \ minted
    BY <2>1
  <2>3. RowsSound(ids, all, rs) /\ RowUnbound(rs, next)
    BY <2>2, MintSound DEF RowsSound
  <2>4. /\ ra \in Row(all) /\ rb \in Row(all) /\ ra.id = next /\ rb.id = next
        /\ a.id \in all /\ b.id \in all /\ a.id # next /\ b.id # next
        /\ ra # RowVar(a.id) /\ rb # RowVar(b.id)
        /\ ra.labels = only2 /\ rb.labels = only1
    BY <1>1, <1>2, <1>7, <2>2 DEF Row, RowVar
  <2>5. RowsSound(ids, all, mid)
    BY <1>1, <1>7, <2>3, <2>4, AddRowSubstSound
  <2>6. RowUnbound(mid, next) /\ RowUnbound(mid, b.id)
    BY <1>1, <1>7, <2>3, <2>4 DEF AddRowSubst, RowUnbound, RowsSound
  <2>7. ASSUME NEW q \in Row(minted)
        PROVE  LET old == ResolveRow(rs, q)
                   via == ResolveRow(mid, q)
                   new == ResolveRow(u.rs, q)
               IN  /\ via = IF old.id = a.id THEN [labels |-> old.labels \cup only2, id |-> next] ELSE old
                   /\ new = IF via.id = b.id THEN [labels |-> via.labels \cup only1, id |-> next] ELSE via
                   /\ Grown(old, new)
    <3>1. q \in Row(all)
      BY DEF Row
    <3>2. /\ a.id \in all /\ RowUnbound(rs, a.id) /\ ra \in Row(all) /\ ra # RowVar(a.id)
          /\ RowUnbound(rs, ra.id) /\ ra.id # a.id
      BY <1>1, <1>7, <2>3, <2>4
    <3>3. /\ b.id \in all /\ RowUnbound(mid, b.id) /\ rb \in Row(all) /\ rb # RowVar(b.id)
          /\ RowUnbound(mid, rb.id) /\ rb.id # b.id
      BY <2>4, <2>6
    <3> DEFINE i == a.id
               j == b.id
    <3> HIDE DEF ra, rb, all, i, j
    <3>4. /\ ResolveRow(AddRowSubst(rs, i, ra), q)
               = IF ResolveRow(rs, q).id = i
                 THEN [labels |-> ResolveRow(rs, q).labels \cup ra.labels, id |-> ra.id]
                 ELSE ResolveRow(rs, q)
          /\ Grown(ResolveRow(rs, q), ResolveRow(AddRowSubst(rs, i, ra), q))
      <4>1. i \in all /\ RowUnbound(rs, i) /\ ra # RowVar(i) /\ ra.id # i
        BY <3>2 DEF i
      <4> QED
        BY <2>3, <3>1, <3>2, <4>1, BindReads, BindGrows
    <3> HIDE DEF mid
    <3>5. /\ ResolveRow(AddRowSubst(mid, j, rb), q)
               = IF ResolveRow(mid, q).id = j
                 THEN [labels |-> ResolveRow(mid, q).labels \cup rb.labels, id |-> rb.id]
                 ELSE ResolveRow(mid, q)
          /\ Grown(ResolveRow(mid, q), ResolveRow(AddRowSubst(mid, j, rb), q))
      <4>1. j \in all /\ RowUnbound(mid, j) /\ rb # RowVar(j) /\ rb.id # j
        BY <3>3 DEF j
      <4> QED
        BY <2>5, <3>1, <3>3, <4>1, BindReads, BindGrows
    <3> QED
      BY <2>1, <2>4, <3>4, <3>5, GrownTwice DEF i, j, mid
  <2>8. /\ ResolveRow(u.rs, r1) = [labels |-> a.labels \cup only2, id |-> next]
        /\ ResolveRow(u.rs, r2) = [labels |-> b.labels \cup only1, id |-> next]
    <3>1. b.id # a.id /\ b.id # next
      BY <1>7, <2>4
    <3> HIDE DEF mid, only1, only2
    <3>2. ResolveRow(u.rs, r1) = [labels |-> a.labels \cup only2, id |-> next]
      <4>1. ResolveRow(mid, r1) = [labels |-> a.labels \cup only2, id |-> next]
        BY <2>7
      <4>2. ResolveRow(mid, r1).id # b.id
        BY <3>1, <4>1
      <4>3. ResolveRow(u.rs, r1) = ResolveRow(mid, r1)
        BY <2>7, <4>2
      <4> QED
        BY <4>1, <4>3
    <3>3. ResolveRow(u.rs, r2) = [labels |-> b.labels \cup only1, id |-> next]
      BY <2>7, <3>1
    <3> QED
      BY <3>2, <3>3
  <2>9. a.labels \cup only2 = b.labels \cup only1
    OBVIOUS
  <2>10. StillOne(Row(minted), rs, u.rs)
    <3> HIDE DEF mid, only1, only2
    <3> SUFFICES ASSUME NEW p \in Row(minted), NEW q \in Row(minted),
                        ResolveRow(rs, p) = ResolveRow(rs, q)
                 PROVE  ResolveRow(u.rs, p) = ResolveRow(u.rs, q)
      BY DEF StillOne
    <3>1. ResolveRow(mid, p) = ResolveRow(mid, q)
      BY <2>7
    <3> QED
      BY <2>7, <3>1
  <2> QED
    BY <2>7, <2>8, <2>9, <2>10
<1>8. \/ u.rs = rs /\ (u.ok => a = b)
      \/ IsOpen(a) /\ ~IsOpen(b) /\ a # b /\ only1 = {}
      \/ ~IsOpen(a) /\ IsOpen(b) /\ a # b /\ only2 = {}
      \/ IsOpen(a) /\ IsOpen(b) /\ a # b /\ a.id # b.id
  BY DEF UnifyRow, UnifyResolved, UnifyOpen, Agreed, Refused
<1> QED
  BY <1>4, <1>5, <1>6, <1>7, <1>8

\* Over `row_union` too, every row resolves to a grown one.
LEMMA RowUnionReads ==
  ASSUME NEW ids, NEW minted, NEW rs, RowsSound(ids, minted, rs),
         NEW r1 \in Row(minted), NEW r2 \in Row(minted), NEW q \in Row(minted)
  PROVE  Grown(ResolveRow(rs, q), ResolveRow(RowUnion(rs, r1, r2).rs, q))
<1> DEFINE u == RowUnion(rs, r1, r2)
           a == ResolveRow(rs, r1)
           b == ResolveRow(rs, r2)
<1>1. /\ a \in Row(minted) /\ b \in Row(minted)
      /\ IsOpen(a) => a.id \in minted /\ RowUnbound(rs, a.id)
      /\ IsOpen(b) => b.id \in minted /\ RowUnbound(rs, b.id)
  BY ResolveRowEnds
<1>2. \/ u.rs = rs
      \/ IsOpen(a) /\ IsOpen(b) /\ a.id # b.id /\ u.rs = AddRowSubst(rs, a.id, RowVar(b.id))
  BY DEF RowUnion, UnionResolved
<1>3. CASE u.rs = rs
  BY <1>3 DEF Grown
<1>4. CASE IsOpen(a) /\ IsOpen(b) /\ a.id # b.id /\ u.rs = AddRowSubst(rs, a.id, RowVar(b.id))
  <2>1. RowVar(b.id) \in Row(minted) /\ RowVar(b.id).id = b.id /\ RowVar(b.id) # RowVar(a.id)
    BY <1>1, <1>4 DEF RowVar, Row
  <2> QED
    BY <1>1, <1>4, <2>1, BindGrows
<1> QED
  BY <1>2, <1>3, <1>4

-----------------------------------------------------------------------------

RowInv == nextRow \in 0 .. MaxRows /\ RowsSound(RowId, MintedId, rowSubst)

LEMMA InitRows == RowInit => RowInv
<1> SUFFICES ASSUME RowInit PROVE RowInv
  OBVIOUS
<1>1. nextRow = 0 /\ 0 \in 0 .. MaxRows /\ MintedId = {}
  BY MaxRowsAssumption DEF RowInit, MintedId
<1>2. rowSubst \in [RowId -> Row(RowId)]
  BY DEF RowInit, RowVar, Row
<1>3. \A i \in RowId : RowUnbound(rowSubst, i)
  BY DEF RowInit, RowUnbound
<1>4. Acyclic(RowSucc(rowSubst))
  BY <1>2, <1>3 DEF Acyclic, RowSucc
<1> QED
  BY <1>1, <1>2, <1>3, <1>4 DEF RowInv, RowsSound, RowId, NoTail

\* The ids minted after the next one is.
LEMMA MintedNext ==
  ASSUME nextRow \in 0 .. MaxRows, nextRow' = nextRow + 1, nextRow' <= MaxRows
  PROVE  /\ nextRow \in RowId \ MintedId /\ nextRow' \in 0 .. MaxRows
         /\ MintedId' = MintedId \cup {nextRow}
BY MaxRowsAssumption DEF RowId, MintedId

LEMMA NextRows == RowInv /\ [RowNext]_rowVars => RowInv'
<1> SUFFICES ASSUME RowInv, [RowNext]_rowVars PROVE RowInv'
  OBVIOUS
<1> USE DEF RowInv
<1>1. CASE MintRow
  <2>1. RowsSound(RowId, MintedId \cup {nextRow}, rowSubst)
    BY <1>1, MintedNext, MintSound, MaxRowsAssumption DEF MintRow
  <2> QED
    BY <1>1, <2>1, MintedNext, MaxRowsAssumption DEF MintRow
<1>2. ASSUME NEW r1 \in MintedRow, NEW r2 \in MintedRow, UnifyRows(r1, r2)
      PROVE  RowInv'
  <2> DEFINE u == UnifyRow(rowSubst, nextRow, r1, r2)
  <2>1. u.next <= MaxRows /\ rowSubst' = u.rs /\ nextRow' = u.next
    BY <1>2 DEF UnifyRows
  <2>2. u.next = nextRow \/ u.next = nextRow + 1
    BY DEF UnifyRow, UnifyResolved, UnifyOpen, Agreed, Refused
  <2>3. u.next # nextRow => nextRow \in RowId \ MintedId
    BY <2>1, <2>2, MintedNext
  <2>4. \/ u.next = nextRow     /\ RowsSound(RowId, MintedId, u.rs)
        \/ u.next = nextRow + 1 /\ RowsSound(RowId, MintedId \cup {nextRow}, u.rs)
    <3>1. nextRow \in Int /\ r1 \in Row(MintedId) /\ r2 \in Row(MintedId)
      BY DEF MintedRow
    <3> QED
      BY <2>3, <3>1, UnifyRowSound
  <2>5. CASE u.next = nextRow /\ RowsSound(RowId, MintedId, u.rs)
    <3>1. MintedId' = MintedId
      BY <2>1, <2>5 DEF MintedId
    <3> QED
      BY <2>1, <2>5, <3>1
  <2>6. CASE u.next = nextRow + 1 /\ RowsSound(RowId, MintedId \cup {nextRow}, u.rs)
    BY <2>1, <2>6, MintedNext
  <2> QED
    BY <2>4, <2>5, <2>6
<1>3. ASSUME NEW r1 \in MintedRow, NEW r2 \in MintedRow, UnionRows(r1, r2)
      PROVE  RowInv'
  <2>1. RowsSound(RowId, MintedId, RowUnion(rowSubst, r1, r2).rs)
    BY RowUnionSound DEF MintedRow
  <2> QED
    BY <1>3, <2>1 DEF UnionRows, MintedId
<1>4. ASSUME NEW r \in MintedRow, OpenRow(r)
      PROVE  RowInv'
  <2>1. nextRow' = nextRow \/ nextRow' = nextRow + 1
    BY <1>4 DEF OpenRow, OpenRowIfClosed
  <2>2. nextRow' <= MaxRows /\ rowSubst' = rowSubst
    BY <1>4 DEF OpenRow
  <2>3. CASE nextRow' = nextRow
    BY <2>2, <2>3 DEF MintedId
  <2>4. CASE nextRow' = nextRow + 1
    <3>1. RowsSound(RowId, MintedId \cup {nextRow}, rowSubst)
      BY <2>2, <2>4, MintedNext, MintSound
    <3> QED
      BY <2>2, <2>4, <3>1, MintedNext
  <2> QED
    BY <2>1, <2>3, <2>4
<1>5. CASE UNCHANGED rowVars
  BY <1>5 DEF rowVars, MintedId
<1> QED
  BY <1>1, <1>2, <1>3, <1>4, <1>5 DEF RowNext

\* Row variables hold rows.
THEOREM RowsTyped == RowSpec => []RowTypeOK
<1>1. RowInv => RowTypeOK
  BY DEF RowInv, RowsSound, RowTypeOK
<1> QED
  BY <1>1, InitRows, NextRows, PTL DEF RowSpec

\* Nothing refers to a row before it is minted.
THEOREM RowsOnlyMinted == RowSpec => []RowsMinted
<1>1. RowInv => RowsMinted
  BY DEF RowInv, RowsSound, RowsMinted
<1> QED
  BY <1>1, InitRows, NextRows, PTL DEF RowSpec

\* Following a row's tail always comes to an end.
THEOREM RowChainsEnd == RowSpec => []RowsAcyclic
<1>1. RowInv => RowsAcyclic
  BY DEF RowInv, RowsSound, RowsAcyclic
<1> QED
  BY <1>1, InitRows, NextRows, PTL DEF RowSpec

\* Rows that `unify_row` accepts are one row from then on.
THEOREM AcceptedRowsAgree == RowSpec => []UnifiedRowsAgree
<1>1. RowInv => UnifiedRowsAgree
  <2> SUFFICES ASSUME RowInv, NEW r1 \in MintedRow, NEW r2 \in MintedRow,
                      UnifyRow(rowSubst, nextRow, r1, r2).ok,
                      UnifyRow(rowSubst, nextRow, r1, r2).next <= MaxRows
               PROVE  ResolveRow(UnifyRow(rowSubst, nextRow, r1, r2).rs, r1)
                        = ResolveRow(UnifyRow(rowSubst, nextRow, r1, r2).rs, r2)
    BY DEF UnifiedRowsAgree
  <2> DEFINE u == UnifyRow(rowSubst, nextRow, r1, r2)
  <2>1. u.next = nextRow \/ u.next = nextRow + 1
    BY DEF UnifyRow, UnifyResolved, UnifyOpen, Agreed, Refused
  <2>2. u.next # nextRow => nextRow \in RowId \ MintedId
    BY <2>1, MaxRowsAssumption DEF RowInv, RowId, MintedId
  <2>3. nextRow \in Int /\ r1 \in Row(MintedId) /\ r2 \in Row(MintedId)
    BY DEF RowInv, MintedRow
  <2> QED
    BY <2>2, <2>3, UnifyRowReads DEF RowInv
<1> QED
  BY <1>1, InitRows, NextRows, PTL DEF RowSpec

LEMMA NextGrows ==
  ASSUME RowInv, [RowNext]_rowVars, NEW q \in MintedRow
  PROVE  Grown(ResolveRow(rowSubst, q), ResolveRow(rowSubst', q))
<1> USE DEF RowInv, MintedRow
<1>1. CASE rowSubst' = rowSubst
  BY <1>1 DEF Grown
<1>2. ASSUME NEW r1 \in MintedRow, NEW r2 \in MintedRow, UnifyRows(r1, r2)
      PROVE  Grown(ResolveRow(rowSubst, q), ResolveRow(rowSubst', q))
  <2> DEFINE u == UnifyRow(rowSubst, nextRow, r1, r2)
  <2>1. u.next <= MaxRows /\ rowSubst' = u.rs
    BY <1>2 DEF UnifyRows
  <2>2. u.next = nextRow \/ u.next = nextRow + 1
    BY DEF UnifyRow, UnifyResolved, UnifyOpen, Agreed, Refused
  <2>3. u.next # nextRow => nextRow \in RowId \ MintedId
    BY <2>1, <2>2, MaxRowsAssumption DEF RowId, MintedId
  <2>4. Grown(ResolveRow(rowSubst, q), ResolveRow(u.rs, q))
    BY <2>3, UnifyRowReads
  <2> QED
    BY <2>1, <2>4
<1>3. ASSUME NEW r1 \in MintedRow, NEW r2 \in MintedRow, UnionRows(r1, r2)
      PROVE  Grown(ResolveRow(rowSubst, q), ResolveRow(rowSubst', q))
  BY <1>3, RowUnionReads DEF UnionRows
<1> QED
  BY <1>1, <1>2, <1>3 DEF RowNext, MintRow, OpenRow, rowVars

\* No step takes a label from a row, and none changes a closed one.
THEOREM RowsGrow == RowSpec => RowsOnlyGrow
<1>1. RowInv /\ [RowNext]_rowVars
        => [\A i \in MintedId :
              LET old == ResolveRow(rowSubst, RowVar(i))
                  new == ResolveRow(rowSubst', RowVar(i))
              IN  /\ old.labels \subseteq new.labels
                  /\ ~IsOpen(old) => new = old]_rowVars
  <2> SUFFICES ASSUME RowInv, [RowNext]_rowVars, NEW i \in MintedId
               PROVE  Grown(ResolveRow(rowSubst, RowVar(i)), ResolveRow(rowSubst', RowVar(i)))
    BY DEF Grown
  <2>1. RowVar(i) \in MintedRow
    BY DEF RowVar, MintedRow, Row
  <2> QED
    BY <2>1, NextGrows
<1> QED
  BY <1>1, InitRows, NextRows, PTL DEF RowSpec, RowsOnlyGrow

=============================================================================
