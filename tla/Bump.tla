-------------------------------- MODULE Bump --------------------------------
(***************************************************************************)
(* The interpreter's model of the phase allocator (src/bump.rs): a bump    *)
(* cursor with two homes, the bivy outside an extent and the deck inside   *)
(* one, and the cell the deck cursor is loaded from and written back to.   *)
(*                                                                         *)
(* An interpreted program reaches every operation through a builtin        *)
(* (`alloc-bytes`, `__heap-restore`, `__heap-advance`, `__deck-set`,       *)
(* `__deck-enter`, `__deck-exit`) or by allocating a value, so any of them *)
(* may come next, with any address.  `blocks` is not in the code: it is    *)
(* what the program was handed and has not given back.  Definitions marked *)
(* "Wrong" are mistakes that the properties detect.                        *)
(***************************************************************************)
EXTENDS Integers, TLAPS

CONSTANTS
  Align,        \* ALIGN
  HeapOrigin,   \* HEAP_ORIGIN
  ImageOrigin,  \* IMAGE_ORIGIN
  Size,         \* the byte counts programs ask for
  Address,      \* the addresses programs restore to and set the deck to
  MaxDepth,     \* bound: how deep extents nest
  MaxAddress    \* bound: how far a cursor moves

ASSUME OriginAssumption ==
  /\ Align \in Nat \ {0}
  /\ HeapOrigin \in Nat /\ ImageOrigin \in Nat
  /\ ImageOrigin < HeapOrigin

ASSUME RequestAssumption ==
  /\ Size \subseteq Nat
  /\ Address \subseteq Int
  /\ MaxDepth \in Nat /\ MaxAddress \in Int

VARIABLES
  image,    \* the image cursor: the next literal's address
  bivy,     \* the cursor outside extents
  cell,     \* the deck-pos cell
  deck,     \* the cursor while an extent is open
  depth,    \* how many extents are open
  hwm,      \* the high-water mark
  blocks    \* what is allocated and not given back: [home, from, to]

vars == <<image, bivy, cell, deck, depth, hwm, blocks>>

Home == {"bivy", "deck"}

\* Everything occupies whole words.
Aligned(n) == ((n + Align - 1) \div Align) * Align

Active == IF depth = 0 THEN "bivy" ELSE "deck"
Cursor == IF depth = 0 THEN bivy ELSE deck

\* What lies at or above an address of a home is given back when its cursor is
\* moved there.
Keeping(home, v) == {b \in blocks : b.home = home => b.to <= v}

MoveCursor(v) ==
  /\ v <= MaxAddress
  /\ hwm' = IF v > hwm THEN v ELSE hwm
  /\ IF depth = 0 THEN bivy' = v /\ UNCHANGED deck
                  ELSE deck' = v /\ UNCHANGED bivy

Init ==
  /\ image = ImageOrigin
  /\ bivy = HeapOrigin /\ cell = HeapOrigin /\ deck = HeapOrigin
  /\ depth = 0
  /\ hwm = HeapOrigin
  /\ blocks = {}

\* A literal takes at least a word of the image; a debug build asserts that
\* the image stays below the heap.
Intern(n) ==
  LET next == image + (IF Aligned(n) < Align THEN Align ELSE Aligned(n))
  IN  /\ next < HeapOrigin
      /\ image' = next
      /\ UNCHANGED <<bivy, cell, deck, depth, hwm, blocks>>

\* Reserve n bytes: the answer is the cursor before it moves.
Alloc(n) ==
  LET to == Cursor + Aligned(n)
  IN  /\ MoveCursor(to)
      /\ blocks' = blocks \cup {[home |-> Active, from |-> Cursor, to |-> to]}
      /\ UNCHANGED <<image, cell, depth>>

\* `__heap-restore`, and `__heap-advance` with the address it comes to.
SetCursor(v) ==
  /\ MoveCursor(v)
  /\ blocks' = Keeping(Active, v)
  /\ UNCHANGED <<image, cell, depth>>

\* With an extent open this reaches only the cell, and the extent's end will
\* overwrite it.
DeckSet(v) ==
  /\ cell' = v
  /\ blocks' = IF depth = 0 THEN Keeping("deck", v) ELSE blocks
  /\ UNCHANGED <<image, bivy, deck, depth, hwm>>

\* Wrong: every level loads the cell.
EnterEveryLevel ==
  /\ depth < MaxDepth
  /\ deck' = cell
  /\ depth' = depth + 1
  /\ UNCHANGED <<image, bivy, cell, hwm, blocks>>

\* Only the outermost pair loads the cell and writes it back.
Enter ==
  /\ depth < MaxDepth
  /\ deck' = IF depth = 0 THEN cell ELSE deck
  /\ depth' = depth + 1
  /\ UNCHANGED <<image, bivy, cell, hwm, blocks>>

\* Wrong: the cursor is not written back.
ExitForgetful ==
  /\ depth' = IF depth = 0 THEN 0 ELSE depth - 1
  /\ UNCHANGED <<image, bivy, cell, deck, hwm, blocks>>

\* Closing with no extent open writes the cell too.
Exit ==
  /\ depth' = IF depth = 0 THEN 0 ELSE depth - 1
  /\ cell' = IF depth' = 0 THEN deck ELSE cell
  /\ UNCHANGED <<image, bivy, deck, hwm, blocks>>

Next ==
  \/ \E n \in Size : Intern(n)
  \/ \E n \in Size : Alloc(n)
  \/ \E v \in Address : SetCursor(v)
  \/ \E v \in Address : DeckSet(v)
  \/ Enter
  \/ Exit

Spec == Init /\ [][Next]_vars

-----------------------------------------------------------------------------

Block == [home : Home, from : Int, to : Int]

TypeOK ==
  /\ image \in Nat /\ bivy \in Int /\ cell \in Int /\ deck \in Int
  /\ depth \in Nat /\ hwm \in Int
  /\ blocks \subseteq Block

Disjoint(b, c) == b.to <= c.from \/ c.to <= b.from

\* Two allocations of one home that the program still holds share no byte,
\* however extents nest, are closed too often, or are interleaved with
\* restores and moves of the deck.
HomesDisjoint ==
  \A b, c \in blocks : b.home = c.home /\ b # c => Disjoint(b, c)

\* Where the deck's allocations end: the cursor while an extent is open, and
\* neither the cell nor the stale cursor lies below them when none is.
DeckAbove(v) == v <= deck /\ (depth = 0 => v <= cell)

\* An allocation made later does not start below one still held: "was this
\* allocated before the base" is answered by comparing addresses.
BelowCursor ==
  \A b \in blocks :
    /\ b.from <= b.to
    /\ b.home = "bivy" => b.to <= bivy
    /\ b.home = "deck" => DeckAbove(b.to)

\* While an extent is open the bivy stands still, and opening and closing
\* extents inside it does not move the deck cursor its caller is filling.
ExtentsKeepCursors ==
  [][/\ depth > 0 => bivy' = bivy
     /\ depth > 0 /\ depth' # depth => deck' = deck
     /\ depth = 0 => (deck' = deck \/ depth' = 1)]_vars

-----------------------------------------------------------------------------
(***************************************************************************)
(* For every alignment, origin, request and bound: the allocator never     *)
(* hands out a byte of a home that the program still holds there.          *)
(***************************************************************************)


\* Rounding up never takes less than nothing.
LEMMA AlignedNat ==
  ASSUME NEW n \in Nat
  PROVE  Aligned(n) \in Nat
<1> DEFINE d == (n + Align - 1) \div Align
<1>1. Align \in Nat /\ Align >= 1
  BY OriginAssumption
<1>2. n + Align - 1 \in Nat
  BY <1>1
<1>3. d \in Nat
  BY <1>1, <1>2
<1>4. d * Align \in Nat
  BY <1>1, <1>3
<1> QED
  BY <1>4 DEF Aligned

\* Every variable keeps its type: cursors stay integers, and what is handed
\* out is a block of one of the homes.
THEOREM TypeCorrect == Spec => []TypeOK
<1>1. Init => TypeOK
  BY OriginAssumption DEF Init, TypeOK
<1>2. TypeOK /\ [Next]_vars => TypeOK'
  <2> SUFFICES ASSUME TypeOK, [Next]_vars
               PROVE  TypeOK'
    OBVIOUS
  <2> USE OriginAssumption, RequestAssumption DEF TypeOK
  <2>1. CASE \E n \in Size : Intern(n)
    <3>1. PICK n \in Size : Intern(n)
      BY <2>1
    <3>2. Aligned(n) \in Nat
      BY AlignedNat
    <3> QED
      BY <3>1, <3>2 DEF Intern
  <2>2. CASE \E n \in Size : Alloc(n)
    <3>1. PICK n \in Size : Alloc(n)
      BY <2>2
    <3>2. Aligned(n) \in Nat
      BY AlignedNat
    <3>3. Active \in Home /\ Cursor \in Int
      BY DEF Active, Home, Cursor
    <3>4. [home |-> Active, from |-> Cursor, to |-> Cursor + Aligned(n)] \in Block
      BY <3>2, <3>3 DEF Block
    <3> QED
      BY <3>1, <3>2, <3>3, <3>4 DEF Alloc, MoveCursor
  <2>3. CASE \E v \in Address : SetCursor(v)
    BY <2>3 DEF SetCursor, MoveCursor, Keeping
  <2>4. CASE \E v \in Address : DeckSet(v)
    BY <2>4 DEF DeckSet, Keeping
  <2>5. CASE Enter
    BY <2>5 DEF Enter
  <2>6. CASE Exit
    BY <2>6 DEF Exit
  <2>7. CASE UNCHANGED vars
    BY <2>7 DEF vars
  <2> QED
    BY <2>1, <2>2, <2>3, <2>4, <2>5, <2>6, <2>7 DEF Next
<1> QED
  BY <1>1, <1>2, PTL DEF Spec

\* What is held lies below where its home's next allocation starts; this is
\* what keeps allocations apart, and it is inductive.
THEOREM HeldBelow == Spec => []BelowCursor
<1>1. Init => BelowCursor
  BY DEF Init, BelowCursor
<1>2. TypeOK /\ BelowCursor /\ [Next]_vars => BelowCursor'
  <2> SUFFICES ASSUME TypeOK, BelowCursor, [Next]_vars
               PROVE  BelowCursor'
    OBVIOUS
  <2> USE OriginAssumption, RequestAssumption DEF TypeOK, BelowCursor, DeckAbove
  <2>1. CASE \E n \in Size : Intern(n)
    BY <2>1 DEF Intern
  <2>2. CASE \E n \in Size : Alloc(n)
    <3>1. PICK n \in Size : Alloc(n)
      BY <2>2
    <3> DEFINE new == [home |-> Active, from |-> Cursor, to |-> Cursor + Aligned(n)]
    <3>2. Aligned(n) \in Nat
      BY AlignedNat
    <3>3. /\ blocks' = blocks \cup {new}
          /\ depth' = depth /\ cell' = cell
          /\ depth = 0 => bivy' = bivy + Aligned(n) /\ deck' = deck
          /\ depth # 0 => deck' = deck + Aligned(n) /\ bivy' = bivy
      BY <3>1 DEF Alloc, MoveCursor, Cursor
    <3>4. ASSUME NEW b \in blocks
          PROVE  /\ b.from <= b.to
                 /\ b.home = "bivy" => b.to <= bivy'
                 /\ b.home = "deck" => b.to <= deck' /\ (depth' = 0 => b.to <= cell')
      BY <3>2, <3>3, <3>4 DEF Block
    <3>5. /\ new.from <= new.to
          /\ new.home = "bivy" => new.to <= bivy'
          /\ new.home = "deck" => new.to <= deck' /\ (depth' = 0 => new.to <= cell')
      BY <3>2, <3>3 DEF Active, Cursor
    <3> QED
      BY <3>3, <3>4, <3>5
  <2>3. CASE \E v \in Address : SetCursor(v)
    <3>1. PICK v \in Address : SetCursor(v)
      BY <2>3
    <3>2. CASE depth = 0
      BY <3>1, <3>2 DEF SetCursor, MoveCursor, Keeping, Active, Block
    <3>3. CASE depth # 0
      BY <3>1, <3>3 DEF SetCursor, MoveCursor, Keeping, Active, Block
    <3> QED
      BY <3>2, <3>3
  <2>4. CASE \E v \in Address : DeckSet(v)
    BY <2>4 DEF DeckSet, Keeping, Block
  <2>5. CASE Enter
    BY <2>5 DEF Enter, Block
  <2>6. CASE Exit
    BY <2>6 DEF Exit, Block
  <2>7. CASE UNCHANGED vars
    BY <2>7 DEF vars
  <2> QED
    BY <2>1, <2>2, <2>3, <2>4, <2>5, <2>6, <2>7 DEF Next
<1> QED
  BY <1>1, <1>2, TypeCorrect, PTL DEF Spec

\* Two allocations of one home that the program still holds share no byte.
THEOREM HomesStayDisjoint == Spec => []HomesDisjoint
<1>1. Init => HomesDisjoint
  BY DEF Init, HomesDisjoint
<1>2. TypeOK /\ BelowCursor /\ HomesDisjoint /\ [Next]_vars => HomesDisjoint'
  <2> SUFFICES ASSUME TypeOK, BelowCursor, HomesDisjoint, [Next]_vars
               PROVE  HomesDisjoint'
    OBVIOUS
  <2>1. CASE blocks' \subseteq blocks
    BY <2>1 DEF HomesDisjoint, Disjoint
  <2>2. CASE \E n \in Size : Alloc(n)
    <3>1. PICK n \in Size : Alloc(n)
      BY <2>2
    <3> DEFINE new == [home |-> Active, from |-> Cursor, to |-> Cursor + Aligned(n)]
    <3>2. blocks' = blocks \cup {new}
      BY <3>1 DEF Alloc
    <3>3. ASSUME NEW b \in blocks, b.home = new.home
          PROVE  b.to <= new.from
      BY <3>3 DEF BelowCursor, DeckAbove, Active, Cursor, TypeOK, Block, Home
    <3> QED
      BY <3>2, <3>3 DEF HomesDisjoint, Disjoint
  <2>3. CASE UNCHANGED vars
    BY <2>1, <2>3 DEF vars
  <2> QED
    BY <2>1, <2>2, <2>3 DEF Next, Intern, SetCursor, DeckSet, Enter, Exit, Keeping
<1> QED
  BY <1>1, <1>2, TypeCorrect, HeldBelow, PTL DEF Spec

\* An open extent holds the bivy still, and nesting moves no deck cursor.
THEOREM CursorsKept == Spec => ExtentsKeepCursors
<1>1. TypeOK /\ [Next]_vars
        => [/\ depth > 0 => bivy' = bivy
            /\ depth > 0 /\ depth' # depth => deck' = deck
            /\ depth = 0 => (deck' = deck \/ depth' = 1)]_vars
  <2> SUFFICES ASSUME TypeOK, [Next]_vars
               PROVE  /\ depth > 0 => bivy' = bivy
                      /\ depth > 0 /\ depth' # depth => deck' = deck
                      /\ depth = 0 => (deck' = deck \/ depth' = 1)
    OBVIOUS
  <2>1. depth \in Nat
    BY DEF TypeOK
  <2>2. CASE depth' = depth /\ (depth > 0 => bivy' = bivy) /\ (depth = 0 => deck' = deck)
    BY <2>1, <2>2
  <2>3. CASE Enter
    BY <2>1, <2>3 DEF Enter
  <2>4. CASE Exit
    BY <2>1, <2>4 DEF Exit
  <2> QED
    BY <2>1, <2>2, <2>3, <2>4 DEF Next, Intern, Alloc, SetCursor, MoveCursor, DeckSet, vars
<1> QED
  BY <1>1, TypeCorrect, PTL DEF Spec, ExtentsKeepCursors

=============================================================================
