------------------------------- MODULE ListViews -------------------------------
(***************************************************************************)
(* Tails that are views of their lists (src/interp.rs, `mod views`).  What *)
(* a Cons pattern binds for the rest is a list of its own, linked to the   *)
(* list it was cut from: a store into either is copied into the other, and *)
(* a push or an insert unlinks the list, as the reallocation behind one    *)
(* does on bare metal.                                                     *)
(*                                                                         *)
(* A list is a cell at a pointer.  The program holds some of them; a link  *)
(* holds the parent strongly and the child weakly, and a pointer whose     *)
(* cell nobody refers to may be handed out again.                          *)
(***************************************************************************)
EXTENDS Integers, Sequences, FiniteSets, SequencesExt, Functions

CONSTANTS
  Ptr,       \* the addresses a cell may be at
  Items,     \* what a list holds
  NoItem,    \* what is being stored when nothing is
  Given,     \* what the program's own lists are of
  MaxLen,    \* how long lists grow here (a bound)
  MinPrune   \* how many links there are at least before one is pruned (4096)

ASSUME PruneAssumption == MinPrune \in Nat \ {0}
ASSUME BoundAssumption == IsFiniteSet(Ptr) /\ MaxLen \in Nat
ASSUME GivenAssumption == Given \subseteq Items

VARIABLES
  cells,    \* the lists, by pointer
  held,     \* the pointers the program holds
  up,       \* by view: the list it was cut from and where
  down,     \* by list: the views cut from it
  pruneAt,  \* how many links there are when the table is pruned next
  todo,     \* what write_through still has to hand on: lists and positions
  seen,     \* the lists it has reached
  item      \* what is being stored

vars == <<cells, held, up, down, pruneAt, todo, seen, item>>

table == <<up, down, pruneAt>>
store == <<todo, seen, item>>

-----------------------------------------------------------------------------
\* Rc::strong_count of a cell is not zero.
Strong(p) == p \in held \/ \E c \in DOMAIN up : up[c].parent = p

\* A weak reference keeps the address.
Fresh(p) == ~Strong(p) /\ p \notin DOMAIN up

\* What a cell held is dropped with its last strong reference.
Living(f) == [p \in Ptr |-> IF Strong(p)' THEN f[p] ELSE <<>>]

Idle == todo = {}

Without(f, S) == Restrict(f, DOMAIN f \ S)

Init ==
  /\ cells = [p \in Ptr |-> <<>>] /\ held = {}
  /\ up = <<>> /\ down = <<>> /\ pruneAt = MinPrune
  /\ todo = {} /\ seen = {} /\ item = NoItem

-----------------------------------------------------------------------------
\* Interp::list.
Make(p, s) ==
  /\ Idle /\ Fresh(p)
  /\ held' = held \cup {p}
  /\ UNCHANGED <<table, store>>
  /\ cells' = [cells EXCEPT ![p] = s]

\* The program lets go of a list.
Drop(p) ==
  /\ Idle /\ p \in held
  /\ held' = held \ {p}
  /\ UNCHANGED <<table, store>>
  /\ cells' = Living(cells)

\* prune: links whose view is dead are dropped, in any order.  A dropped link
\* lets go of its parent, which may be found dead too, or not any more.
Prunes ==
  {gone \in SUBSET DOMAIN up :
     LET kept == DOMAIN up \ gone
         Lives(c) == c \in held \/ \E d \in kept : up[d].parent = c
     IN  /\ \A c \in DOMAIN up : ~Strong(c) => c \in gone
         /\ \A c \in gone : ~Lives(c)}

Larger(a, b) == IF a > b THEN a ELSE b

\* Wrong: the views that are gone are kept under their lists.
DownAll(gone) == down

\* What is left of the views of each list; a list without any is forgotten.
DownWithout(gone) ==
  Restrict([p \in DOMAIN down |-> down[p] \ gone], {p \in DOMAIN down : down[p] \ gone # {}})

AddedDown(f, p, c) == [q \in DOMAIN f \cup {p} |-> (IF q \in DOMAIN f THEN f[q] ELSE {}) \cup (IF q = p THEN {c} ELSE {})]

\* views::link: the view c of p, from its second element on.
Link(c, p, gone) ==
  /\ IF Cardinality(DOMAIN up) >= pruneAt
     THEN gone \in Prunes /\ pruneAt' = Larger(2 * Cardinality(DOMAIN up \ gone), MinPrune)
     ELSE gone = {} /\ pruneAt' = pruneAt
  /\ up' = [x \in (DOMAIN up \ gone) \cup {c} |-> IF x = c THEN [parent |-> p, off |-> 1] ELSE up[x]]
  /\ down' = AddedDown(IF Cardinality(DOMAIN up) >= pruneAt THEN DownWithout(gone) ELSE down, p, c)

\* matches_pat on ListCons: the rest of a list is a view of it, and of a list of
\* one it is an empty list of its own.
Cut(p, c, gone) ==
  /\ Idle /\ p \in held /\ cells[p] # <<>> /\ Fresh(c)
  /\ held' = held \cup {c}
  /\ IF Len(cells[p]) > 1
     THEN Link(c, p, gone)
     ELSE gone = {} /\ UNCHANGED table
  /\ cells' = Living([cells EXCEPT ![c] = Tail(cells[p])])
  /\ UNCHANGED store

\* Wrong: a list that grows stays what its views are views of.
DetachedUpOnly(p) == Without(up, {p})

\* views::detach: the list is a view of nothing, and nothing is a view of it.
DetachedUp(p) == Without(up, {p} \cup (IF p \in DOMAIN down THEN down[p] ELSE {}))

DetachedDown(p) == [q \in DOMAIN down \ {p} |-> down[q] \ (IF p \in DOMAIN up /\ up[p].parent = q THEN {p} ELSE {})]

\* list-push, list-snoc and list-insert-at, of a list the cache does not hold: s is
\* the list with the new item.
Grow(p, s) ==
  /\ Idle /\ p \in held /\ Len(cells[p]) < MaxLen
  /\ up' = DetachedUp(p) /\ down' = DetachedDown(p)
  /\ UNCHANGED <<held, pruneAt, store>>
  /\ cells' = Living([cells EXCEPT ![p] = s])

Push(p, v) == Grow(p, Append(cells[p], v))

ListInsertAt(p, i, v) == Grow(p, InsertAt(cells[p], i, v))

\* Interp::cow: a list that the cache holds is copied, and it is the copy that
\* grows.  Which lists the cache holds is `Meaning`'s account; here any may be.
GrowCopy(p, q, i, v) ==
  /\ p \in held /\ Len(cells[p]) < MaxLen /\ i <= Len(cells[p]) + 1
  /\ Make(q, InsertAt(cells[p], i, v))

\* list-set-at: the list itself, and then write_through.
SetAt(p, i, v) ==
  /\ Idle /\ p \in held /\ i \in DOMAIN cells[p]
  /\ cells' = [cells EXCEPT ![p][i] = v]
  /\ todo' = {<<p, i>>} /\ seen' = {p} /\ item' = v
  /\ UNCHANGED <<held, table>>

\* What a list hands a store at i on to: its parent, and those of its living
\* views that reach there.
Linked(x, i) ==
  {<<up[c].parent, up[c].off + i>> : c \in {x} \cap DOMAIN up}
    \cup {<<c, i - up[c].off>> : c \in {d \in (IF x \in DOMAIN down THEN down[x] ELSE {}) : Strong(d) /\ i > up[d].off}}

\* Wrong: a list that has the item already is handed it again.
ReachedAgain(t) == Linked(t[1], t[2])

\* The links that lead to a list the store has not reached yet.
Reached(t) == {n \in Linked(t[1], t[2]) : n[1] \notin seen}

\* Wrong: a store goes no further than the links of the list it is made to.
SpreadOnce(t) ==
  LET stored == {n \in Reached(t) : n[2] \in DOMAIN cells[n[1]]}
  IN  /\ cells' = [p \in Ptr |-> [i \in DOMAIN cells[p] |-> IF <<p, i>> \in stored THEN item ELSE cells[p][i]]]
      /\ todo' = {} /\ seen' = {} /\ item' = NoItem
      /\ UNCHANGED <<held, table>>

\* One turn of write_through, which takes what is on its stack in some order:
\* the item is stored into what is linked, where it was not before and where
\* there is such an element.
Spread(t) ==
  LET stored == {n \in Reached(t) : n[2] \in DOMAIN cells[n[1]]}
  IN  /\ cells' = [p \in Ptr |-> [i \in DOMAIN cells[p] |-> IF <<p, i>> \in stored THEN item ELSE cells[p][i]]]
      /\ todo' = (todo \ {t}) \cup stored
      /\ IF todo' = {} THEN seen' = {} /\ item' = NoItem
         ELSE seen' = seen \cup {n[1] : n \in Reached(t)} /\ UNCHANGED item
      /\ UNCHANGED <<held, table>>

\* A bound: the program's own lists are as long as lists grow here, and of one
\* item.
Literals == {[i \in 1 .. MaxLen |-> v] : v \in Given}

Next ==
  \/ \E p \in Ptr, s \in Literals : Make(p, s)
  \/ \E p \in Ptr : Drop(p)
  \/ \E p, c \in Ptr : \E gone \in SUBSET Ptr : Cut(p, c, gone)
  \/ \E p \in Ptr, v \in Items : Push(p, v)
  \/ \E p \in Ptr, i \in 1 .. MaxLen, v \in Items : i <= Len(cells[p]) + 1 /\ ListInsertAt(p, i, v)
  \/ \E p, q \in Ptr, i \in 1 .. MaxLen, v \in Items : GrowCopy(p, q, i, v)
  \/ \E p \in Ptr, i \in 1 .. MaxLen, v \in Items : SetAt(p, i, v)
  \/ \E t \in todo : Spread(t)

Spec == Init /\ [][Next]_vars /\ WF_vars(\E t \in todo : Spread(t))

-----------------------------------------------------------------------------
(***************************************************************************)
(* Properties.                                                             *)
(***************************************************************************)
TypeOK ==
  /\ cells \in [Ptr -> Seq(Items)] /\ held \subseteq Ptr
  /\ DOMAIN up \subseteq Ptr /\ \A c \in DOMAIN up : up[c] \in [parent : Ptr, off : Nat]
  /\ DOMAIN down \subseteq Ptr /\ \A p \in DOMAIN down : down[p] \subseteq Ptr
  /\ pruneAt \in Nat /\ todo \subseteq Ptr \X Nat /\ seen \subseteq Ptr /\ item \in Items \cup {NoItem}

\* The two halves of the table say the same, whatever was pruned, detached or
\* let go of and whatever address was handed out again: a list's views are those
\* whose parent it is, and nothing is under a recycled address (the comment on
\* `mod views`: "a key is never a recycled address").
TableAgrees ==
  /\ \A c \in DOMAIN up : up[c].parent \in DOMAIN down /\ c \in down[up[c].parent]
  /\ \A p \in DOMAIN down : \A c \in down[p] : c \in DOMAIN up /\ up[c].parent = p

\* A view and its list agree wherever both have an element, once a store has
\* been written through (views::write_through, "as on bare metal").
WindowsAgree ==
  Idle => \A c \in DOMAIN up : Strong(c) =>
    \A i \in DOMAIN cells[c] :
      up[c].off + i \in DOMAIN cells[up[c].parent] /\ cells[c][i] = cells[up[c].parent][up[c].off + i]

\* Writing a store through comes to an end.
WritesSettle == ~Idle ~> Idle

=============================================================================
