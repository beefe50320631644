--------------------------- MODULE ListViewsProofs ---------------------------
(***************************************************************************)
(* For every set of addresses, every list and every order of cuts, stores, *)
(* pushes, drops and prunings: the two halves of the table of views agree, *)
(* and a view shows what its list holds.                                   *)
(*                                                                         *)
(* The second rests on an invariant about stores under way.  Lists that    *)
(* are linked can be laid out in one memory, as they lie on bare metal: a  *)
(* view starts where its list does, and its offset further on.  A store is *)
(* then to one address, and what it still has to do is what lies between   *)
(* the lists it has reached and the others.                                *)
(***************************************************************************)
EXTENDS ListViews, FiniteSetTheorems, SequenceTheorems, TLAPS

-----------------------------------------------------------------------------
(***************************************************************************)
(* The two halves of the table.                                            *)
(***************************************************************************)
\* A view is linked at an address that nothing is under: neither half has it.
LEMMA FreshUnlinked ==
  ASSUME TableAgrees, NEW c, Fresh(c)
  PROVE  /\ c \notin DOMAIN up /\ \A d \in DOMAIN up : up[d].parent # c
         /\ \A p \in DOMAIN down : c \notin down[p]
         /\ c \in DOMAIN down => down[c] = {}
BY DEF TableAgrees, Fresh, Strong

LEMMA LinkAgrees ==
  ASSUME TableAgrees, NEW c, NEW p, NEW gone, Fresh(c), Link(c, p, gone)
  PROVE  TableAgrees'
<1>1. PICK d : /\ down' = AddedDown(d, p, c)
               /\ \A x \in DOMAIN up \ gone : up[x].parent \in DOMAIN d /\ x \in d[up[x].parent]
               /\ \A q \in DOMAIN d : \A x \in d[q] : x \in DOMAIN up \ gone /\ up[x].parent = q
  <2>1. CASE Cardinality(DOMAIN up) >= pruneAt
    <3>1. \A x \in DOMAIN up \ gone : /\ up[x].parent \in DOMAIN DownWithout(gone)
                                      /\ x \in DownWithout(gone)[up[x].parent]
      BY DEF TableAgrees, DownWithout, Restrict
    <3>2. \A q \in DOMAIN DownWithout(gone) : \A x \in DownWithout(gone)[q] :
             x \in DOMAIN up \ gone /\ up[x].parent = q
      BY DEF TableAgrees, DownWithout, Restrict
    <3> QED
      BY <2>1, <3>1, <3>2 DEF Link
  <2>2. CASE ~(Cardinality(DOMAIN up) >= pruneAt)
    BY <2>2 DEF Link, TableAgrees
  <2> QED
    BY <2>1, <2>2
<1>2. up' = [x \in (DOMAIN up \ gone) \cup {c} |-> IF x = c THEN [parent |-> p, off |-> 1] ELSE up[x]]
  BY DEF Link
<1>3. c \notin DOMAIN up
  BY FreshUnlinked
<1>4. \A x \in DOMAIN up' : up'[x].parent \in DOMAIN down' /\ x \in down'[up'[x].parent]
  BY <1>1, <1>2 DEF AddedDown
<1>5. \A q \in DOMAIN down' : \A x \in down'[q] : x \in DOMAIN up' /\ up'[x].parent = q
  BY <1>1, <1>2, <1>3 DEF AddedDown
<1> QED
  BY <1>4, <1>5 DEF TableAgrees

LEMMA DetachAgrees ==
  ASSUME TableAgrees, NEW p, up' = DetachedUp(p), down' = DetachedDown(p)
  PROVE  TableAgrees'
BY DEF TableAgrees, DetachedUp, DetachedDown, Without, Restrict

LEMMA NextAgrees ==
  ASSUME TableAgrees, [Next]_vars
  PROVE  TableAgrees'
<1>1. CASE UNCHANGED <<up, down>>
  BY <1>1 DEF TableAgrees
<1>2. ASSUME NEW p, NEW c, NEW gone, Cut(p, c, gone)
      PROVE  TableAgrees'
  BY <1>1, <1>2, LinkAgrees DEF Cut, table
<1>3. ASSUME NEW p, NEW s, Grow(p, s)
      PROVE  TableAgrees'
  BY <1>3, DetachAgrees DEF Grow
<1> QED
  BY <1>1, <1>2, <1>3 DEF Next, Make, Drop, Push, ListInsertAt, GrowCopy, SetAt, Spread, vars, table

-----------------------------------------------------------------------------
(***************************************************************************)
(* Types.                                                                  *)
(***************************************************************************)
UpTyped   == DOMAIN up \subseteq Ptr /\ \A c \in DOMAIN up : up[c] \in [parent : Ptr, off : Nat]
DownTyped == DOMAIN down \subseteq Ptr /\ \A p \in DOMAIN down : down[p] \subseteq Ptr

\* A growing list stays a list.
LEMMA InsertAtTyped ==
  ASSUME NEW S, NEW s \in Seq(S), NEW i \in 1 .. (Len(s) + 1), NEW v \in S
  PROVE  InsertAt(s, i, v) \in Seq(S)
<1>1. SubSeq(s, 1, i - 1) \in Seq(S) /\ SubSeq(s, i, Len(s)) \in Seq(S) /\ <<v>> \in Seq(S)
  OBVIOUS
<1> QED
  BY <1>1 DEF InsertAt

\* Dropping what nobody refers to leaves lists.
LEMMA LivingTyped ==
  ASSUME NEW f \in [Ptr -> Seq(Items)], cells' = Living(f)
  PROVE  cells' \in [Ptr -> Seq(Items)]
BY DEF Living

LEMMA LinkTyped ==
  ASSUME UpTyped, DownTyped, pruneAt \in Nat, NEW c \in Ptr, NEW p \in Ptr,
         NEW gone \in SUBSET Ptr, Link(c, p, gone)
  PROVE  UpTyped' /\ DownTyped' /\ pruneAt' \in Nat
<1>1. UpTyped'
  <2>1. up' = [x \in (DOMAIN up \ gone) \cup {c} |-> IF x = c THEN [parent |-> p, off |-> 1] ELSE up[x]]
    BY DEF Link
  <2> QED
    BY <2>1 DEF UpTyped
<1>2. DownTyped'
  <2>1. PICK d : /\ down' = AddedDown(d, p, c)
                 /\ DOMAIN d \subseteq Ptr /\ \A q \in DOMAIN d : d[q] \subseteq Ptr
    <3>1. \A q \in DOMAIN DownWithout(gone) : q \in DOMAIN down /\ DownWithout(gone)[q] \subseteq down[q]
      BY DEF DownWithout, Restrict
    <3> QED
      BY <3>1 DEF Link, DownTyped
  <2> QED
    BY <2>1 DEF AddedDown, DownTyped
<1>3. pruneAt' \in Nat
  <2>1. Cardinality(DOMAIN up \ gone) \in Nat
    BY BoundAssumption, FS_Subset, FS_CardinalityType DEF UpTyped
  <2> QED
    BY <2>1, PruneAssumption DEF Link, Larger
<1> QED
  BY <1>1, <1>2, <1>3

LEMMA DetachTyped ==
  ASSUME UpTyped, DownTyped, NEW p \in Ptr, up' = DetachedUp(p), down' = DetachedDown(p)
  PROVE  UpTyped' /\ DownTyped'
BY DEF UpTyped, DownTyped, DetachedUp, DetachedDown, Without, Restrict

\* The table of views, the lists, and a store under way, which has an item.
TableTyped == UpTyped /\ DownTyped /\ pruneAt \in Nat
CellsTyped == cells \in [Ptr -> Seq(Items)] /\ held \subseteq Ptr
StoreTyped ==
  /\ todo \subseteq Ptr \X Nat /\ seen \subseteq Ptr
  /\ item \in Items \/ (item = NoItem /\ todo = {})

Typed == TableAgrees /\ TableTyped /\ CellsTyped /\ StoreTyped

LEMMA NextTyped == Typed /\ [Next]_vars => Typed'
<1> SUFFICES ASSUME Typed, [Next]_vars PROVE Typed'
  OBVIOUS
<1>1. /\ TableAgrees /\ UpTyped /\ DownTyped /\ cells \in [Ptr -> Seq(Items)] /\ held \subseteq Ptr /\ pruneAt \in Nat
      /\ todo \subseteq Ptr \X Nat /\ seen \subseteq Ptr
      /\ item \in Items \/ (item = NoItem /\ todo = {})
  BY DEF Typed, TableTyped, CellsTyped, StoreTyped
<1>2. TableTyped' /\ (cells \in [Ptr -> Seq(Items)])' /\ (held \subseteq Ptr)' /\ StoreTyped' => Typed'
  BY NextAgrees DEF Typed, CellsTyped
<1>3. UNCHANGED table => TableTyped'
  BY <1>1 DEF table, TableTyped, UpTyped, DownTyped
<1>4. UNCHANGED store => StoreTyped'
  BY <1>1 DEF store, StoreTyped
<1>5. ASSUME NEW p \in Ptr, NEW s \in Seq(Items), Make(p, s)
      PROVE  Typed'
  BY <1>1, <1>2, <1>3, <1>4, <1>5 DEF Make
<1>14. Literals \subseteq Seq(Items)
  BY BoundAssumption, GivenAssumption DEF Literals
<1>15. ASSUME NEW p \in Ptr, NEW q \in Ptr, NEW i \in 1 .. MaxLen, NEW v \in Items, GrowCopy(p, q, i, v)
       PROVE  Typed'
  <2>1. InsertAt(cells[p], i, v) \in Seq(Items)
    BY <1>1, <1>15, BoundAssumption, InsertAtTyped DEF GrowCopy
  <2> QED
    BY <1>5, <1>15, <2>1 DEF GrowCopy
<1>6. ASSUME NEW p \in Ptr, Drop(p)
      PROVE  Typed'
  BY <1>1, <1>2, <1>3, <1>4, <1>6, LivingTyped DEF Drop
<1>7. ASSUME NEW p \in Ptr, NEW c \in Ptr, NEW gone \in SUBSET Ptr, Cut(p, c, gone)
      PROVE  Typed'
  <2>1. TableTyped'
    BY <1>1, <1>3, <1>7, LinkTyped DEF Cut, TableTyped
  <2>2. [cells EXCEPT ![c] = Tail(cells[p])] \in [Ptr -> Seq(Items)]
    BY <1>1, <1>7 DEF Cut
  <2> QED
    BY <1>1, <1>2, <1>4, <1>7, <2>1, <2>2, LivingTyped DEF Cut
<1>8. ASSUME NEW p \in Ptr, NEW s \in Seq(Items), Grow(p, s)
      PROVE  Typed'
  <2>1. [cells EXCEPT ![p] = s] \in [Ptr -> Seq(Items)]
    BY <1>1
  <2> QED
    BY <1>1, <1>2, <1>4, <1>8, <2>1, DetachTyped, LivingTyped DEF Grow, TableTyped
<1>9. ASSUME NEW p \in Ptr, NEW v \in Items, Push(p, v)
      PROVE  Typed'
  <2>1. Append(cells[p], v) \in Seq(Items)
    BY <1>1
  <2> QED
    BY <1>8, <1>9, <2>1 DEF Push
<1>10. ASSUME NEW p \in Ptr, NEW i \in 1 .. MaxLen, NEW v \in Items,
              i <= Len(cells[p]) + 1, ListInsertAt(p, i, v)
       PROVE  Typed'
  <2>1. InsertAt(cells[p], i, v) \in Seq(Items)
    BY <1>1, <1>10, BoundAssumption, InsertAtTyped
  <2> QED
    BY <1>8, <1>10, <2>1 DEF ListInsertAt
<1>11. ASSUME NEW p \in Ptr, NEW i \in 1 .. MaxLen, NEW v \in Items, SetAt(p, i, v)
       PROVE  Typed'
  <2>1. (cells \in [Ptr -> Seq(Items)])'
    BY <1>1, <1>11 DEF SetAt
  <2>2. StoreTyped'
    BY <1>11, BoundAssumption DEF SetAt, StoreTyped
  <2> QED
    BY <1>1, <1>2, <1>3, <1>11, <2>1, <2>2 DEF SetAt
<1>12. ASSUME NEW t \in todo, Spread(t)
       PROVE  Typed'
  <2>1. t[1] \in Ptr /\ t[2] \in Nat
    BY <1>1
  <2>2. Linked(t[1], t[2]) \subseteq Ptr \X Nat
    BY <1>1, <2>1 DEF Linked, UpTyped, TableAgrees
  <2>3. Reached(t) \subseteq Ptr \X Nat
    BY <2>2 DEF Reached
  <2>4. StoreTyped'
    BY <1>1, <1>12, <2>3 DEF Spread, StoreTyped
  <2>5. (cells \in [Ptr -> Seq(Items)])'
    <3> DEFINE new(p, i) == IF <<p, i>> \in {n \in Reached(t) : n[2] \in DOMAIN cells[n[1]]}
                            THEN item ELSE cells[p][i]
    <3>1. cells' = [p \in Ptr |-> [i \in DOMAIN cells[p] |-> new(p, i)]]
      BY <1>12 DEF Spread
    <3>2. \A p \in Ptr : [i \in DOMAIN cells[p] |-> new(p, i)] \in Seq(Items)
      <4> SUFFICES ASSUME NEW p \in Ptr PROVE [i \in DOMAIN cells[p] |-> new(p, i)] \in Seq(Items)
        OBVIOUS
      <4>1. cells[p] \in Seq(Items) /\ item \in Items
        BY <1>1
      <4>2. \A i \in DOMAIN cells[p] : new(p, i) \in Items
        BY <4>1
      <4> HIDE DEF new
      <4>3. DOMAIN cells[p] = 1 .. Len(cells[p]) /\ Len(cells[p]) \in Nat
        BY <4>1
      <4> QED
        BY <4>2, <4>3, IsASeq
    <3> HIDE DEF new
    <3> QED
      BY <3>1, <3>2
  <2> QED
    BY <1>1, <1>2, <1>3, <1>12, <2>4, <2>5 DEF Spread
<1>13. CASE UNCHANGED vars
  BY <1>1, <1>2, <1>3, <1>4, <1>13 DEF vars, table, store
<1> QED
  BY <1>5, <1>6, <1>7, <1>9, <1>10, <1>11, <1>12, <1>13, <1>14, <1>15 DEF Next

-----------------------------------------------------------------------------
(***************************************************************************)
(* Views and their lists, with no store under way.                         *)
(***************************************************************************)
\* A living view ends where its list ends.
SameEnds == \A c \in DOMAIN up : Strong(c) => Len(cells[up[c].parent]) = up[c].off + Len(cells[c])

\* A living view holds what its list holds from its offset on.
Shows == \A c \in DOMAIN up : Strong(c) =>
           \A i \in DOMAIN cells[c] : cells[c][i] = cells[up[c].parent][up[c].off + i]

\* The lists lie in one memory, each view its offset behind its list's start.
Laid(pot) == pot \in [Ptr -> Int] /\ \A c \in DOMAIN up : pot[c] = pot[up[c].parent] + up[c].off

\* A link as it was, between lists as they were.
SameLink(c) ==
  /\ c \in DOMAIN up /\ up'[c] = up[c] /\ Strong(c)
  /\ cells'[c] = cells[c] /\ cells'[up[c].parent] = cells[up[c].parent]

\* A step that leaves the links it leaves as they were, and links only a view
\* to what it was cut from.
LEMMA LinksKept ==
  ASSUME SameEnds, Shows,
         \A c \in DOMAIN up' : Strong(c)' =>
            \/ SameLink(c)
            \/ /\ Len(cells'[up'[c].parent]) = up'[c].off + Len(cells'[c])
               /\ \A i \in DOMAIN cells'[c] : cells'[c][i] = cells'[up'[c].parent][up'[c].off + i]
  PROVE  SameEnds' /\ Shows'
BY DEF SameEnds, Shows, SameLink

LEMMA MakeKeeps ==
  ASSUME Typed, SameEnds, Shows, NEW p \in Ptr, NEW s, Make(p, s)
  PROVE  SameEnds' /\ Shows'
<1>1. Fresh(p) /\ up' = up /\ held' = held \cup {p} /\ cells' = [cells EXCEPT ![p] = s]
  BY DEF Make, table
<1>2. ASSUME NEW c \in DOMAIN up', Strong(c)'
      PROVE  SameLink(c)
  <2>1. c # p /\ up[c].parent # p
    BY <1>1, <1>2, FreshUnlinked DEF Typed
  <2> QED
    BY <1>1, <1>2, <2>1 DEF SameLink, Strong, Typed, CellsTyped
<1> QED
  BY <1>2, LinksKept

LEMMA DropKeeps ==
  ASSUME Typed, SameEnds, Shows, NEW p \in Ptr, Drop(p)
  PROVE  SameEnds' /\ Shows'
<1>1. up' = up /\ held' = held \ {p} /\ cells' = Living(cells)
  BY DEF Drop, table
<1>2. ASSUME NEW c \in DOMAIN up', Strong(c)'
      PROVE  SameLink(c)
  <2>1. c \in Ptr /\ up[c].parent \in Ptr
    BY <1>1, <1>2 DEF Typed, TableTyped, UpTyped
  <2>2. Strong(up[c].parent)' /\ Strong(c)
    BY <1>1, <1>2 DEF Strong
  <2> QED
    BY <1>1, <1>2, <2>1, <2>2 DEF SameLink, Living
<1> QED
  BY <1>2, LinksKept

LEMMA GrowKeeps ==
  ASSUME Typed, SameEnds, Shows, NEW p \in Ptr, NEW s, Grow(p, s)
  PROVE  SameEnds' /\ Shows'
<1>1. up' = DetachedUp(p) /\ held' = held /\ cells' = Living([cells EXCEPT ![p] = s])
  BY DEF Grow
<1>2. ASSUME NEW c \in DOMAIN up', Strong(c)'
      PROVE  SameLink(c)
  <2>1. c \in DOMAIN up /\ up'[c] = up[c] /\ c # p /\ up[c].parent # p
    BY <1>1, <1>2 DEF DetachedUp, Without, Restrict, Typed, TableAgrees
  <2>2. c \in Ptr /\ up[c].parent \in Ptr
    BY <2>1 DEF Typed, TableTyped, UpTyped
  <2>3. Strong(up[c].parent)'
    BY <1>2, <2>1 DEF Strong
  <2>4. Strong(c)
    BY <1>1, <1>2 DEF Strong, DetachedUp, Without, Restrict
  <2> QED
    BY <1>1, <1>2, <2>1, <2>2, <2>3, <2>4 DEF SameLink, Living, Typed, CellsTyped
<1> QED
  BY <1>2, LinksKept

LEMMA CutKeeps ==
  ASSUME Typed, SameEnds, Shows, NEW p \in Ptr, NEW c \in Ptr, NEW gone, Cut(p, c, gone)
  PROVE  SameEnds' /\ Shows'
<1>1. /\ Fresh(c) /\ p \in held /\ cells[p] # <<>> /\ cells[p] \in Seq(Items)
      /\ held' = held \cup {c}
      /\ cells' = Living([cells EXCEPT ![c] = Tail(cells[p])])
      /\ cells \in [Ptr -> Seq(Items)]
  BY DEF Cut, Typed, CellsTyped
<1>2. p # c
  BY <1>1 DEF Fresh, Strong
<1>3. \A x \in DOMAIN up' : x # c => x \in DOMAIN up /\ up'[x] = up[x]
  BY DEF Cut, Link, table
<1>4. ASSUME NEW x \in DOMAIN up', Strong(x)', x # c
      PROVE  SameLink(x)
  <2>1. x \in DOMAIN up /\ up'[x] = up[x] /\ up[x].parent # c
    BY <1>1, <1>3, <1>4, FreshUnlinked DEF Typed
  <2>2. x \in Ptr /\ up[x].parent \in Ptr
    BY <2>1 DEF Typed, TableTyped, UpTyped
  <2>3. Strong(up[x].parent)'
    BY <2>1 DEF Strong
  <2>4. Strong(x)
    <3>1. c \in DOMAIN up' => up'[c].parent = p
      BY <1>1 DEF Cut, Link, table, Fresh
    <3> QED
      BY <1>1, <1>3, <1>4, <3>1 DEF Strong
  <2> QED
    BY <1>1, <1>4, <2>1, <2>2, <2>3, <2>4 DEF SameLink, Living
<1>5. ASSUME c \in DOMAIN up'
      PROVE  /\ Len(cells'[up'[c].parent]) = up'[c].off + Len(cells'[c])
             /\ \A i \in DOMAIN cells'[c] : cells'[c][i] = cells'[up'[c].parent][up'[c].off + i]
  <2>1. up'[c] = [parent |-> p, off |-> 1]
    BY <1>1, <1>5 DEF Cut, Link, table, Fresh
  <2>2. Strong(p)' /\ Strong(c)'
    BY <1>1 DEF Strong
  <2>3. cells'[p] = cells[p] /\ cells'[c] = Tail(cells[p])
    BY <1>1, <1>2, <2>2 DEF Living
  <2>4. ASSUME NEW l \in Seq(Items), l # <<>>
        PROVE  Len(l) = 1 + Len(Tail(l)) /\ \A i \in DOMAIN Tail(l) : Tail(l)[i] = l[1 + i]
    BY <2>4
  <2>5. /\ Len(cells[p]) = 1 + Len(Tail(cells[p]))
        /\ \A i \in DOMAIN Tail(cells[p]) : Tail(cells[p])[i] = cells[p][1 + i]
    BY <1>1, <2>4
  <2> QED
    BY <2>1, <2>3, <2>5
<1> QED
  BY <1>4, <1>5, LinksKept

\* The lists can still be laid out after a step without a store: a view just
\* cut lies where it was cut, and nothing was laid out by it.
LEMMA StaysLaid ==
  ASSUME Typed, [Next]_vars, NEW pot, Laid(pot)
  PROVE  \E new : Laid(new)'
<1>1. CASE \A c \in DOMAIN up' : c \in DOMAIN up /\ up'[c] = up[c]
  BY <1>1 DEF Laid
<1>2. ASSUME NEW p \in Ptr, NEW c \in Ptr, NEW gone, Cut(p, c, gone)
      PROVE  \E new : Laid(new)'
  <2> DEFINE new == [pot EXCEPT ![c] = pot[p] + 1]
  <2>1. Fresh(c) /\ p # c
    BY <1>2 DEF Cut, Fresh, Strong
  <2>2. \A x \in DOMAIN up' : IF x = c THEN up'[x] = [parent |-> p, off |-> 1]
                                       ELSE x \in DOMAIN up /\ up'[x] = up[x] /\ up[x].parent # c
    BY <1>2, <2>1, FreshUnlinked DEF Cut, Link, table, Typed
  <2>3. new \in [Ptr -> Int] /\ new[c] = pot[p] + 1 /\ \A x \in Ptr : x # c => new[x] = pot[x]
    BY DEF Laid
  <2>4. \A x \in DOMAIN up : x \in Ptr /\ up[x].parent \in Ptr
    BY DEF Typed, TableTyped, UpTyped
  <2> HIDE DEF new
  <2>5. \A x \in DOMAIN up' : new[x] = new[up'[x].parent] + up'[x].off
    BY <2>1, <2>2, <2>3, <2>4 DEF Laid
  <2> QED
    BY <2>3, <2>5 DEF Laid
<1> QED
  BY <1>1, <1>2 DEF Next, Make, Drop, Push, ListInsertAt, Grow, GrowCopy, SetAt, Spread, vars, table,
                    DetachedUp, Without, Restrict

-----------------------------------------------------------------------------
(***************************************************************************)
(* A store under way, to address a.                                        *)
(***************************************************************************)
\* The lists reached hold the item there.  From one reached to one that is not
\* the store is still to be handed on, or the view does not reach down to the
\* address.  Everywhere else a view holds what its list holds.
StoreAt(pot, a, cs, work, reached) ==
  /\ \A t \in work : t[1] \in reached /\ t[2] = a - pot[t[1]]
  /\ \A x \in reached : Strong(x) /\ a - pot[x] \in DOMAIN cs[x] /\ cs[x][a - pot[x]] = item
  /\ \A c \in DOMAIN up : Strong(c) =>
       LET p == up[c].parent
       IN  /\ c \in reached /\ p \notin reached => <<c, a - pot[c]>> \in work
           /\ p \in reached /\ c \notin reached => <<p, a - pot[p]>> \in work \/ a - pot[c] < 1
           /\ \A i \in DOMAIN cs[c] :
                \/ cs[c][i] = cs[p][up[c].off + i]
                \/ i = a - pot[c] /\ (c \in reached \/ p \in reached)

\* A store that has nothing left to do has left every view as its list.
LEMMA StoreDone ==
  ASSUME Typed, NEW pot, Laid(pot), NEW a \in Int, NEW cs \in [Ptr -> Seq(Items)], NEW reached,
         StoreAt(pot, a, cs, {}, reached)
  PROVE  \A c \in DOMAIN up : Strong(c) =>
            \A i \in DOMAIN cs[c] : cs[c][i] = cs[up[c].parent][up[c].off + i]
<1> SUFFICES ASSUME NEW c \in DOMAIN up, Strong(c), NEW i \in DOMAIN cs[c],
                    cs[c][i] # cs[up[c].parent][up[c].off + i]
             PROVE  FALSE
  OBVIOUS
<1> DEFINE p == up[c].parent
<1>1. i = a - pot[c] /\ (c \in reached \/ p \in reached)
  BY DEF StoreAt
<1>2. c \in Ptr /\ p \in Ptr /\ pot[c] = pot[p] + up[c].off /\ pot[p] \in Int /\ up[c].off \in Nat
  BY DEF Laid, Typed, TableTyped, UpTyped
<1>3. i \in Nat /\ i >= 1
  BY <1>2
<1>4. c \in reached /\ p \in reached
  BY <1>1, <1>3 DEF StoreAt
<1>5. cs[c][a - pot[c]] = item /\ cs[p][a - pot[p]] = item
  BY <1>4 DEF StoreAt
<1>6. up[c].off + i = a - pot[p]
  BY <1>1, <1>2
<1> QED
  BY <1>1, <1>5, <1>6

\* A store begins at the list the program stores into.
LEMMA SetAtStores ==
  ASSUME Typed, SameEnds, Shows, NEW pot, Laid(pot),
         NEW p \in Ptr, NEW i \in Nat, NEW v, SetAt(p, i, v)
  PROVE  /\ SameEnds' /\ Laid(pot)'
         /\ StoreAt(pot, pot[p] + i, cells, todo, seen)'
<1> DEFINE a == pot[p] + i
<1>1. /\ p \in held /\ i \in DOMAIN cells[p] /\ cells' = [cells EXCEPT ![p][i] = v]
      /\ todo' = {<<p, i>>} /\ seen' = {p} /\ item' = v /\ up' = up /\ held' = held
  BY DEF SetAt, table
<1>2. cells \in [Ptr -> Seq(Items)] /\ pot[p] \in Int /\ i = a - pot[p]
  BY DEF Typed, CellsTyped, Laid
<1>3. /\ \A x \in Ptr : DOMAIN cells'[x] = DOMAIN cells[x] /\ Len(cells'[x]) = Len(cells[x])
      /\ \A x \in Ptr : \A j \in DOMAIN cells[x] :
            cells'[x][j] = IF x = p /\ j = i THEN v ELSE cells[x][j]
  BY <1>1, <1>2
<1>4. \A c \in DOMAIN up : c \in Ptr /\ up[c].parent \in Ptr /\ up[c].off \in Nat
                           /\ pot[c] = pot[up[c].parent] + up[c].off /\ pot[up[c].parent] \in Int
  BY DEF Laid, Typed, TableTyped, UpTyped
<1>5. \A x : Strong(x)' <=> Strong(x)
  BY <1>1 DEF Strong
<1>6. SameEnds'
  BY <1>1, <1>3, <1>4, <1>5 DEF SameEnds
<1>7. Laid(pot)'
  BY <1>1 DEF Laid
<1>8. \A t \in todo' : t[1] \in seen' /\ t[2] = a - pot[t[1]]
  BY <1>1, <1>2
<1>9. \A x \in seen' : Strong(x)' /\ a - pot[x] \in DOMAIN cells'[x] /\ cells'[x][a - pot[x]] = item'
  BY <1>1, <1>2, <1>3, <1>5 DEF Strong
<1>10. ASSUME NEW c \in DOMAIN up', Strong(c)'
       PROVE  LET q == up'[c].parent
              IN  /\ c \in seen' /\ q \notin seen' => <<c, a - pot[c]>> \in todo'
                  /\ q \in seen' /\ c \notin seen' => <<q, a - pot[q]>> \in todo' \/ a - pot[c] < 1
                  /\ \A j \in DOMAIN cells'[c] :
                       \/ cells'[c][j] = cells'[q][up'[c].off + j]
                       \/ j = a - pot[c] /\ (c \in seen' \/ q \in seen')
  <2> DEFINE q == up[c].parent
  <2>1. c \in DOMAIN up /\ Strong(c) /\ up' = up
    BY <1>1, <1>5, <1>10
  <2>2. c = p => <<c, a - pot[c]>> \in todo'
    BY <1>1, <1>2
  <2>3. q = p => <<q, a - pot[q]>> \in todo'
    BY <1>1, <1>2
  <2>4. ASSUME NEW j \in DOMAIN cells[c]
        PROVE  \/ cells'[c][j] = cells'[q][up[c].off + j]
               \/ j = a - pot[c] /\ (c \in seen' \/ q \in seen')
    <3>1. cells[c][j] = cells[q][up[c].off + j] /\ Len(cells[q]) = up[c].off + Len(cells[c])
      BY <2>1 DEF Shows, SameEnds
    <3>2. c \in Ptr /\ q \in Ptr /\ up[c].off \in Nat /\ pot[c] = pot[q] + up[c].off /\ pot[q] \in Int
      BY <1>4, <2>1
    <3>3. cells[c] \in Seq(Items) /\ cells[q] \in Seq(Items)
      BY <1>2, <3>2
    <3>4. j \in 1 .. Len(cells[c]) /\ Len(cells[c]) \in Nat /\ DOMAIN cells[q] = 1 .. Len(cells[q])
      BY <3>3
    <3>5. up[c].off + j \in DOMAIN cells[q]
      BY <3>1, <3>2, <3>4
    <3>6. CASE c = p /\ j = i
      BY <1>1, <1>2, <3>6
    <3>7. CASE q = p /\ up[c].off + j = i
      BY <1>1, <1>2, <3>2, <3>4, <3>7
    <3> QED
      BY <1>3, <3>1, <3>2, <3>5, <3>6, <3>7
  <2> QED
    BY <1>1, <1>3, <1>4, <2>1, <2>2, <2>3, <2>4
<1> QED
  BY <1>6, <1>7, <1>8, <1>9, <1>10 DEF StoreAt

\* What a store is handed on to lies at its address, in a living list that has
\* an element there.
LEMMA HandedOn ==
  ASSUME Typed, SameEnds, NEW pot, Laid(pot), NEW a \in Int,
         NEW x, Strong(x), x \in Ptr, a - pot[x] \in DOMAIN cells[x],
         NEW n \in Linked(x, a - pot[x])
  PROVE  /\ n[1] \in Ptr /\ Strong(n[1]) /\ n = <<n[1], a - pot[n[1]]>>
         /\ a - pot[n[1]] \in DOMAIN cells[n[1]]
<1>1. cells \in [Ptr -> Seq(Items)] /\ pot \in [Ptr -> Int]
  BY DEF Typed, CellsTyped, Laid
<1>2. CASE \E c \in {x} \cap DOMAIN up : n = <<up[c].parent, up[c].off + (a - pot[x])>>
  <2> DEFINE p == up[x].parent
  <2>1. x \in DOMAIN up /\ n = <<p, up[x].off + (a - pot[x])>> /\ Strong(p)
    BY <1>2 DEF Strong
  <2>2. p \in Ptr /\ up[x].off \in Nat /\ pot[x] = pot[p] + up[x].off /\ pot[p] \in Int
    BY <1>1, <2>1 DEF Laid, Typed, TableTyped, UpTyped
  <2>3. n = <<p, a - pot[p]>>
    BY <2>1, <2>2
  <2>4. Len(cells[p]) = up[x].off + Len(cells[x])
    BY <2>1 DEF SameEnds
  <2>5. a - pot[x] \in 1 .. Len(cells[x]) /\ Len(cells[x]) \in Nat /\ DOMAIN cells[p] = 1 .. Len(cells[p])
    BY <1>1, <2>2
  <2>6. a - pot[p] \in DOMAIN cells[p]
    <3>1. a - pot[p] = (a - pot[x]) + up[x].off
      BY <2>2
    <3>2. a - pot[p] \in 1 .. Len(cells[p])
      <4> DEFINE k == a - pot[x]
                 o == up[x].off
                 L == Len(cells[x])
      <4>1. k \in 1 .. L /\ L \in Nat /\ o \in Nat
        BY <2>2, <2>5
      <4> HIDE DEF k, o, L
      <4>2. k + o \in 1 .. (o + L)
        BY <4>1
      <4> QED
        BY <2>4, <3>1, <4>2 DEF k, o, L
    <3> QED
      BY <2>5, <3>2
  <2> QED
    BY <2>1, <2>2, <2>3, <2>6
<1>3. CASE \E c \in {d \in (IF x \in DOMAIN down THEN down[x] ELSE {}) : Strong(d) /\ a - pot[x] > up[d].off} :
             n = <<c, (a - pot[x]) - up[c].off>>
  <2>1. PICK c : /\ x \in DOMAIN down /\ c \in down[x] /\ Strong(c) /\ a - pot[x] > up[c].off
                 /\ n = <<c, (a - pot[x]) - up[c].off>>
    BY <1>3
  <2>2. c \in DOMAIN up /\ up[c].parent = x
    BY <2>1 DEF Typed, TableAgrees
  <2>3. c \in Ptr /\ up[c].off \in Nat /\ pot[c] = pot[x] + up[c].off /\ pot[x] \in Int
    BY <1>1, <2>2 DEF Laid, Typed, TableTyped, UpTyped
  <2>4. n = <<c, a - pot[c]>>
    BY <2>1, <2>3
  <2>5. Len(cells[x]) = up[c].off + Len(cells[c])
    BY <2>1, <2>2 DEF SameEnds
  <2>6. /\ a - pot[x] \in 1 .. Len(cells[x]) /\ Len(cells[c]) \in Nat
        /\ DOMAIN cells[c] = 1 .. Len(cells[c])
    BY <1>1, <2>3
  <2>7. a - pot[c] \in DOMAIN cells[c]
    <3>1. a - pot[x] = (a - pot[c]) + up[c].off
      BY <2>3
    <3>2. a - pot[c] \in 1 .. Len(cells[c])
      <4> DEFINE k == a - pot[c]
                 o == up[c].off
                 L == Len(cells[c])
      <4>1. k \in Int /\ o \in Nat /\ L \in Nat
        BY <2>3, <2>6
      <4>2. k + o \in 1 .. (o + L) /\ k + o > o
        BY <2>1, <2>5, <2>6, <3>1
      <4> HIDE DEF k, o, L
      <4>3. k \in 1 .. L
        BY <4>1, <4>2
      <4> QED
        BY <4>3 DEF k, L
    <3> QED
      BY <2>6, <3>2
  <2> QED
    BY <2>1, <2>3, <2>4, <2>7
<1> QED
  BY <1>2, <1>3 DEF Linked

\* One turn of write_through: one list more has handed the store on.
LEMMA SpreadStores ==
  ASSUME Typed, SameEnds, NEW pot, Laid(pot), NEW a \in Int, StoreAt(pot, a, cells, todo, seen),
         NEW t \in todo, Spread(t)
  PROVE  /\ SameEnds' /\ Laid(pot)'
         /\ \E work, reached :
              /\ StoreAt(pot, a, cells', work, reached)
              /\ todo' = work /\ (work # {} => seen' = reached /\ item' = item)
              /\ (work = {} => seen' = {})
<1> DEFINE x   == t[1]
           N   == Reached(t)
           New == {n[1] : n \in N}
           R   == seen \cup New
           W   == (todo \ {t}) \cup N
<1>1. /\ cells \in [Ptr -> Seq(Items)] /\ pot \in [Ptr -> Int] /\ up' = up /\ held' = held
      /\ x \in Ptr /\ x \in seen /\ Strong(x) /\ t = <<x, a - pot[x]>> /\ a - pot[x] \in DOMAIN cells[x]
  <2>1. t \in Ptr \X Nat /\ x \in seen /\ t[2] = a - pot[x]
    BY DEF StoreAt, Typed, StoreTyped
  <2>2. Strong(x) /\ a - pot[x] \in DOMAIN cells[x]
    BY <2>1 DEF StoreAt
  <2> QED
    BY <2>1, <2>2 DEF Typed, CellsTyped, Laid, Spread, table
<1>2. N = {n \in Linked(x, a - pot[x]) : n[1] \notin seen}
  BY <1>1 DEF Reached
<1>3. \A n \in N : /\ n[1] \in Ptr /\ Strong(n[1]) /\ n = <<n[1], a - pot[n[1]]>>
                   /\ a - pot[n[1]] \in DOMAIN cells[n[1]] /\ n[1] \notin seen
  BY <1>1, <1>2, HandedOn
<1>4. \A y \in New : /\ y \in Ptr /\ Strong(y) /\ <<y, a - pot[y]>> \in N
                     /\ a - pot[y] \in DOMAIN cells[y] /\ y \notin seen
  BY <1>3
<1>5. {n \in N : n[2] \in DOMAIN cells[n[1]]} = N
  BY <1>3
<1>6. cells' = [p \in Ptr |-> [i \in DOMAIN cells[p] |-> IF <<p, i>> \in N THEN item ELSE cells[p][i]]]
  BY <1>5 DEF Spread
<1>7. /\ todo' = W /\ (W # {} => seen' = R /\ item' = item)
      /\ (W = {} => seen' = {})
  BY <1>5 DEF Spread
<1>8. \A y \in Ptr : \A i \in DOMAIN cells[y] :
         cells'[y][i] = IF y \in New /\ i = a - pot[y] THEN item ELSE cells[y][i]
  <2>1. \A y \in Ptr : \A i : <<y, i>> \in N <=> y \in New /\ i = a - pot[y]
    BY <1>3, <1>4
  <2> HIDE DEF N, New
  <2> QED
    BY <1>6, <2>1
<1>9. \A y \in Ptr : DOMAIN cells'[y] = DOMAIN cells[y] /\ Len(cells'[y]) = Len(cells[y])
  <2>1. \A y \in Ptr : DOMAIN cells'[y] = DOMAIN cells[y]
    BY <1>6
  <2>2. \A y \in Ptr : cells[y] \in Seq(Items)
    BY <1>1
  <2>3. \A y \in Ptr : DOMAIN cells'[y] = 1 .. Len(cells[y]) /\ Len(cells[y]) \in Nat
    BY <2>1, <2>2
  <2>4. Typed'
    BY NextTyped DEF Next
  <2>5. \A y \in Ptr : cells'[y] \in Seq(Items)
    BY <2>4 DEF Typed, CellsTyped
  <2> QED
    BY <2>1, <2>3, <2>5
<1>10. \A c \in DOMAIN up : c \in Ptr /\ up[c].parent \in Ptr /\ up[c].off \in Nat
                            /\ pot[c] = pot[up[c].parent] + up[c].off
  BY DEF Laid, Typed, TableTyped, UpTyped
<1>11. \A y : Strong(y)' <=> Strong(y)
  BY <1>1 DEF Strong
<1>12. SameEnds'
  BY <1>1, <1>9, <1>10, <1>11 DEF SameEnds
<1>13. Laid(pot)'
  BY <1>1 DEF Laid
<1>14. \A c \in DOMAIN up : c = x /\ up[c].parent \notin seen => up[c].parent \in New
  <2> SUFFICES ASSUME NEW c \in DOMAIN up, c = x, up[c].parent \notin seen PROVE up[c].parent \in New
    OBVIOUS
  <2>1. <<up[c].parent, up[c].off + (a - pot[x])>> \in Linked(x, a - pot[x])
    BY DEF Linked
  <2> QED
    BY <1>2, <2>1
<1>15. \A c \in DOMAIN up : Strong(c) /\ up[c].parent = x /\ c \notin seen /\ a - pot[x] > up[c].off => c \in New
  <2> SUFFICES ASSUME NEW c \in DOMAIN up, Strong(c), up[c].parent = x, c \notin seen,
                      a - pot[x] > up[c].off
               PROVE  c \in New
    OBVIOUS
  <2>1. x \in DOMAIN down /\ c \in down[x]
    BY DEF Typed, TableAgrees
  <2>2. <<c, (a - pot[x]) - up[c].off>> \in Linked(x, a - pot[x])
    BY <2>1 DEF Linked
  <2> QED
    BY <1>2, <2>2
<1>16. \A s \in W : s[1] \in R /\ s[2] = a - pot[s[1]]
  BY <1>3 DEF StoreAt
<1>17. \A y \in R : Strong(y) /\ a - pot[y] \in DOMAIN cells'[y] /\ cells'[y][a - pot[y]] = item
  <2> SUFFICES ASSUME NEW y \in R
               PROVE  Strong(y) /\ a - pot[y] \in DOMAIN cells'[y] /\ cells'[y][a - pot[y]] = item
    OBVIOUS
  <2>1. CASE y \in New
    BY <1>4, <1>8, <1>9, <2>1
  <2>2. CASE y \in seen
    <3>1. Strong(y) /\ a - pot[y] \in DOMAIN cells[y] /\ cells[y][a - pot[y]] = item
      BY <2>2 DEF StoreAt
    <3>2. y \in Ptr
      BY <2>2 DEF Typed, StoreTyped
    <3> QED
      BY <1>8, <1>9, <3>1, <3>2
  <2> QED
    BY <2>1, <2>2
<1>18. ASSUME NEW c \in DOMAIN up, Strong(c)
       PROVE  LET p == up[c].parent
              IN  /\ c \in R /\ p \notin R => <<c, a - pot[c]>> \in W
                  /\ p \in R /\ c \notin R => <<p, a - pot[p]>> \in W \/ a - pot[c] < 1
                  /\ \A i \in DOMAIN cells'[c] :
                       \/ cells'[c][i] = cells'[p][up[c].off + i]
                       \/ i = a - pot[c] /\ (c \in R \/ p \in R)
  <2> DEFINE p == up[c].parent
  <2>1. /\ c \in Ptr /\ p \in Ptr /\ up[c].off \in Nat /\ pot[c] = pot[p] + up[c].off
        /\ pot[c] \in Int /\ pot[p] \in Int
    BY <1>1, <1>10
  <2>2. /\ c \in seen /\ p \notin seen => <<c, a - pot[c]>> \in todo
        /\ p \in seen /\ c \notin seen => <<p, a - pot[p]>> \in todo \/ a - pot[c] < 1
        /\ \A i \in DOMAIN cells[c] :
             \/ cells[c][i] = cells[p][up[c].off + i]
             \/ i = a - pot[c] /\ (c \in seen \/ p \in seen)
    BY <1>18 DEF StoreAt
  <2>3. c \in R /\ p \notin R => <<c, a - pot[c]>> \in W
    <3>1. CASE c \in New
      BY <1>4, <3>1
    <3>2. CASE c \in seen /\ p \notin R
      <4>1. c # x
        BY <1>14, <3>2
      <4> QED
        BY <1>1, <2>2, <3>2, <4>1
    <3> QED
      BY <3>1, <3>2
  <2>4. p \in R /\ c \notin R => <<p, a - pot[p]>> \in W \/ a - pot[c] < 1
    <3>1. CASE p \in New
      BY <1>4, <3>1
    <3>2. CASE p \in seen /\ c \notin R
      <4>1. p = x => a - pot[c] < 1
        <5>1. p = x => ~(a - pot[p] > up[c].off)
          BY <1>15, <1>18, <3>2
        <5> QED
          BY <2>1, <5>1
      <4> QED
        BY <1>1, <2>2, <3>2, <4>1
    <3> QED
      BY <3>1, <3>2
  <2>5. ASSUME NEW i \in DOMAIN cells'[c]
        PROVE  \/ cells'[c][i] = cells'[p][up[c].off + i]
               \/ i = a - pot[c] /\ (c \in R \/ p \in R)
    <3>1. i \in DOMAIN cells[c] /\ i \in Int
      BY <1>1, <1>9, <2>1
    <3>2. up[c].off + i \in DOMAIN cells[p]
      <4>1. Len(cells[p]) = up[c].off + Len(cells[c])
        BY <1>18 DEF SameEnds
      <4>2. i \in 1 .. Len(cells[c]) /\ Len(cells[c]) \in Nat /\ DOMAIN cells[p] = 1 .. Len(cells[p])
        BY <1>1, <2>1, <3>1
      <4> QED
        BY <2>1, <4>1, <4>2
    <3>3. i = a - pot[c] <=> up[c].off + i = a - pot[p]
      BY <2>1, <3>1
    <3> HIDE DEF New, p
    <3>4. CASE i # a - pot[c]
      BY <1>8, <2>1, <2>2, <3>1, <3>2, <3>3, <3>4
    <3>5. CASE i = a - pot[c] /\ c \notin R /\ p \notin R
      BY <1>8, <2>1, <2>2, <3>1, <3>2, <3>3, <3>5
    <3> QED
      BY <3>4, <3>5
  <2> QED
    BY <2>3, <2>4, <2>5
<1>19. StoreAt(pot, a, cells', W, R)
  BY <1>16, <1>17, <1>18 DEF StoreAt
<1> QED
  BY <1>7, <1>12, <1>13, <1>19

-----------------------------------------------------------------------------
(***************************************************************************)
(* What is proved of every behaviour.                                      *)
(***************************************************************************)
\* Between stores every living view shows its list; during one, what it does
\* not show yet is on the way.
ViewsInv ==
  /\ Typed /\ SameEnds
  /\ todo = {} => seen = {} /\ Shows /\ \E pot : Laid(pot)
  /\ todo # {} => \E pot : \E a \in Int : Laid(pot) /\ StoreAt(pot, a, cells, todo, seen)

LEMMA InitViews == Init => ViewsInv
<1> SUFFICES ASSUME Init PROVE ViewsInv
  OBVIOUS
<1>1. DOMAIN up = {} /\ DOMAIN down = {}
  BY DEF Init
<1>2. Typed
  BY <1>1, PruneAssumption DEF Init, Typed, TableAgrees, TableTyped, UpTyped, DownTyped, CellsTyped, StoreTyped
<1>3. Laid([p \in Ptr |-> 0])
  BY <1>1 DEF Laid
<1> QED
  BY <1>1, <1>2, <1>3 DEF Init, ViewsInv, SameEnds, Shows

LEMMA NextViews == ViewsInv /\ [Next]_vars => ViewsInv'
<1> SUFFICES ASSUME ViewsInv, [Next]_vars PROVE ViewsInv'
  OBVIOUS
<1>1. Typed /\ SameEnds /\ Typed'
  BY NextTyped DEF ViewsInv
<1>2. CASE UNCHANGED vars
  BY <1>1, <1>2 DEF ViewsInv, vars, SameEnds, Shows, Laid, StoreAt, Strong
<1>3. ASSUME todo = {}, SameEnds', Shows', UNCHANGED store
      PROVE  ViewsInv'
  <2>1. PICK pot : Laid(pot)
    BY <1>3 DEF ViewsInv
  <2>2. \E new : Laid(new)'
    BY <1>1, <2>1, StaysLaid
  <2> QED
    BY <1>1, <1>3, <2>2 DEF ViewsInv, store
<1>4. ASSUME NEW p \in Ptr, NEW s, Make(p, s)
      PROVE  ViewsInv'
  BY <1>1, <1>3, <1>4, MakeKeeps DEF ViewsInv, Make, Idle
<1>5. ASSUME NEW p \in Ptr, Drop(p)
      PROVE  ViewsInv'
  BY <1>1, <1>3, <1>5, DropKeeps DEF ViewsInv, Drop, Idle
<1>6. ASSUME NEW p \in Ptr, NEW c \in Ptr, NEW gone, Cut(p, c, gone)
      PROVE  ViewsInv'
  BY <1>1, <1>3, <1>6, CutKeeps DEF ViewsInv, Cut, Idle
<1>7. ASSUME NEW p \in Ptr, NEW s, Grow(p, s)
      PROVE  ViewsInv'
  BY <1>1, <1>3, <1>7, GrowKeeps DEF ViewsInv, Grow, Idle
<1>8. ASSUME NEW p \in Ptr, NEW i \in Nat, NEW v, SetAt(p, i, v)
      PROVE  ViewsInv'
  <2>1. todo = {} /\ todo' # {}
    BY <1>8 DEF SetAt, Idle
  <2>2. PICK pot : Laid(pot)
    BY <2>1 DEF ViewsInv
  <2>3. SameEnds' /\ Laid(pot)' /\ StoreAt(pot, pot[p] + i, cells, todo, seen)'
    BY <1>1, <1>8, <2>1, <2>2, SetAtStores DEF ViewsInv
  <2>4. pot[p] + i \in Int
    BY <2>2 DEF Laid
  <2> QED
    BY <1>1, <2>1, <2>3, <2>4 DEF ViewsInv
<1>9. ASSUME NEW t \in todo, Spread(t)
      PROVE  ViewsInv'
  <2>0. PICK pot : \E a \in Int : Laid(pot) /\ StoreAt(pot, a, cells, todo, seen)
    BY <1>9 DEF ViewsInv
  <2>1. PICK a \in Int : Laid(pot) /\ StoreAt(pot, a, cells, todo, seen)
    BY <2>0
  <2>2. /\ SameEnds' /\ Laid(pot)'
        /\ \E work, reached :
              /\ StoreAt(pot, a, cells', work, reached)
              /\ todo' = work /\ (work # {} => seen' = reached /\ item' = item)
              /\ (work = {} => seen' = {})
    BY <1>1, <1>9, <2>1, SpreadStores
  <2>3. PICK work, reached :
              /\ StoreAt(pot, a, cells', work, reached)
              /\ todo' = work /\ (work # {} => seen' = reached /\ item' = item)
              /\ (work = {} => seen' = {})
    BY <2>2
  <2>4. up' = up /\ held' = held
    BY <1>9 DEF Spread, table
  <2>5. CASE work = {}
    <3>1. cells' \in [Ptr -> Seq(Items)]
      BY <1>1 DEF Typed, CellsTyped
    <3>2. \A c \in DOMAIN up : Strong(c) =>
             \A i \in DOMAIN cells'[c] : cells'[c][i] = cells'[up[c].parent][up[c].off + i]
      BY <1>1, <2>1, <2>3, <2>5, <3>1, StoreDone
    <3>3. Shows'
      BY <2>4, <3>2 DEF Shows, Strong
    <3> QED
      BY <1>1, <2>2, <2>3, <2>5, <3>3 DEF ViewsInv
  <2>6. CASE work # {}
    <3>1. StoreAt(pot, a, cells, todo, seen)'
      BY <2>3, <2>4, <2>6 DEF StoreAt, Strong
    <3> QED
      BY <1>1, <2>1, <2>2, <2>3, <2>6, <3>1 DEF ViewsInv
  <2> QED
    BY <2>5, <2>6
<1> QED
  BY <1>2, <1>4, <1>5, <1>6, <1>7, <1>8, <1>9 DEF Next, Push, GrowCopy, ListInsertAt

\* Cells hold lists, and the table and the store under way name addresses.
THEOREM ListsTyped == Spec => []TypeOK
<1>1. Typed => TypeOK
  BY DEF Typed, TableTyped, UpTyped, DownTyped, CellsTyped, StoreTyped, TypeOK
<1>2. ViewsInv => Typed
  BY DEF ViewsInv
<1> QED
  BY <1>1, <1>2, InitViews, NextViews, PTL DEF Spec

\* The two halves of the table of views never disagree.
THEOREM TablesAgree == Spec => []TableAgrees
<1>1. ViewsInv => TableAgrees
  BY DEF ViewsInv, Typed
<1> QED
  BY <1>1, InitViews, NextViews, PTL DEF Spec

\* Once a store has been written through, every view shows its list.
THEOREM ViewsShowLists == Spec => []WindowsAgree
<1>1. ViewsInv => WindowsAgree
  <2> SUFFICES ASSUME ViewsInv, Idle, NEW c \in DOMAIN up, Strong(c), NEW i \in DOMAIN cells[c]
               PROVE  /\ up[c].off + i \in DOMAIN cells[up[c].parent]
                      /\ cells[c][i] = cells[up[c].parent][up[c].off + i]
    BY DEF WindowsAgree
  <2> DEFINE p == up[c].parent
  <2>1. /\ c \in Ptr /\ p \in Ptr /\ up[c].off \in Nat
        /\ cells[c] \in Seq(Items) /\ cells[p] \in Seq(Items)
    BY DEF ViewsInv, Typed, TableTyped, UpTyped, CellsTyped
  <2>2. Len(cells[p]) = up[c].off + Len(cells[c]) /\ cells[c][i] = cells[p][up[c].off + i]
    BY DEF ViewsInv, SameEnds, Shows, Idle
  <2>3. i \in 1 .. Len(cells[c]) /\ Len(cells[c]) \in Nat /\ DOMAIN cells[p] = 1 .. Len(cells[p])
    BY <2>1
  <2>4. up[c].off + i \in DOMAIN cells[p]
    BY <2>1, <2>2, <2>3
  <2> QED
    BY <2>2, <2>4
<1> QED
  BY <1>1, InitViews, NextViews, PTL DEF Spec

=============================================================================
