------------------------------ MODULE BindOnce ------------------------------
(***************************************************************************)
(* What a slot array promises to those who read it: a slot is written at   *)
(* most once, and never with a content that leads back to it.  The type    *)
(* variables of the checker (Unifier) are shown to implement this.         *)
(***************************************************************************)
EXTENDS Reachability

CONSTANTS
  Slot,        \* the slots
  Content,     \* what a slot may hold
  Blank,       \* per slot: what it holds before it is written
  Mentioned    \* per content: the slots a reader goes on to from it

\* What the theorems about this module take for granted.
ContentTyped ==
  /\ Mentioned \in [Content -> SUBSET Slot]
  /\ Blank \in [Slot -> Content]

VARIABLE store

IsBlank(s, i) == s[i] = Blank[i]

\* The slots a reader goes on to from a slot.
Succ(s) == [i \in Slot |-> IF IsBlank(s, i) THEN {} ELSE Mentioned[s[i]]]

Init == store = Blank

Bind(i, t) ==
  /\ IsBlank(store, i)
  /\ t # Blank[i]
  /\ store' = [store EXCEPT ![i] = t]
  /\ i \notin Reach(Succ(store), Mentioned[t])

Next == \E i \in Slot : \E t \in Content : Bind(i, t)

Spec == Init /\ [][Next]_store

-----------------------------------------------------------------------------

TypeOK == store \in [Slot -> Content]

\* A reader that follows slots comes to an end.
ReadersEnd == Acyclic(Succ(store))

\* What was written stays.
BindingsStay ==
  [][\A i \in Slot : IsBlank(store, i) \/ store'[i] = store[i]]_store

-----------------------------------------------------------------------------
(***************************************************************************)
(* Slots written once, never in a circle, can always be read to an end.    *)
(***************************************************************************)

\* What a slot mentions are slots.
LEMMA SuccTyped ==
  ASSUME ContentTyped, TypeOK
  PROVE  Succ(store) \in [Slot -> SUBSET Slot]
BY DEF ContentTyped, TypeOK, Succ

\* Slots hold contents.
THEOREM StoreTyped == ASSUME ContentTyped PROVE Spec => []TypeOK
<1>1. Init => TypeOK
  BY DEF ContentTyped, Init, TypeOK
<1>2. TypeOK /\ [Next]_store => TypeOK'
  BY DEF TypeOK, Next, Bind
<1> QED
  BY <1>1, <1>2, PTL DEF Spec

\* However slots are written, a reader of any of them comes to an end.
THEOREM ReadersAlwaysEnd == ASSUME ContentTyped PROVE Spec => []ReadersEnd
<1>1. Init => ReadersEnd
  <2> SUFFICES ASSUME Init PROVE ReadersEnd
    OBVIOUS
  <2>1. \A i \in Slot : Succ(store)[i] = {}
    BY DEF Init, Succ, IsBlank
  <2> QED
    BY <2>1 DEF ReadersEnd, Acyclic, Succ
<1>2. TypeOK /\ ReadersEnd /\ [Next]_store => ReadersEnd'
  <2> SUFFICES ASSUME TypeOK, ReadersEnd, [Next]_store PROVE ReadersEnd'
    OBVIOUS
  <2>1. CASE UNCHANGED store
    BY <2>1 DEF ReadersEnd, Succ, IsBlank
  <2>2. CASE Next
    <3>1. PICK i \in Slot, t \in Content : Bind(i, t)
      BY <2>2 DEF Next
    <3>2. Mentioned[t] \in SUBSET Slot
      BY DEF ContentTyped
    <3>3. Acyclic([Succ(store) EXCEPT ![i] = Mentioned[t]])
      BY <3>1, <3>2, SuccTyped, AcyclicBind DEF Bind, ReadersEnd
    <3>4. Succ(store') = [Succ(store) EXCEPT ![i] = Mentioned[t]]
      BY <3>1 DEF Bind, Succ, IsBlank, TypeOK
    <3> QED
      BY <3>3, <3>4 DEF ReadersEnd
  <2> QED
    BY <2>1, <2>2
<1> QED
  BY <1>1, <1>2, StoreTyped, PTL DEF Spec

\* What was written is never written over.
THEOREM BindingsAlwaysStay == ASSUME ContentTyped PROVE Spec => BindingsStay
<1>1. TypeOK /\ [Next]_store
        => [\A i \in Slot : IsBlank(store, i) \/ store'[i] = store[i]]_store
  BY DEF TypeOK, Next, Bind
<1> QED
  BY <1>1, StoreTyped, PTL DEF Spec, BindingsStay

=============================================================================
