------------------------------ MODULE MCUnifier ------------------------------
(***************************************************************************)
(* What `unify` promises when it answers true, stated without reference to *)
(* how it gets there - the two types are then one type, read through the   *)
(* slots - and types to model check the unifier with, in pools: the types  *)
(* one program under check has its unifications made of.  Types of two     *)
(* pools would only meet in pairs that share no arm.                       *)
(***************************************************************************)
EXTENDS Unifier

CONSTANT Depth    \* bound: how deep types are compared

\* A type under everything unification sees through: bound variables, `linear`
\* and quantifiers, however they alternate.
RECURSIVE Bared(_, _)
Bared(s, t) ==
  LET r == Resolve(s, t)
  IN  IF r.tag \in Quantified \cup {"Linear"} THEN Bared(s, r.args[1]) ELSE r

\* A list and a linked list are interchangeable.
Name(n) == IF n = LinkedListName THEN ListName ELSE n

\* A type as a constructor applied to arguments: a list is the application of
\* the name List, and an application of a name to an argument adds the
\* argument to those the name has already.
RECURSIVE Applied(_, _)
Applied(s, t) ==
  LET r == Bared(s, t)
  IN  CASE r.tag \in Listish -> [con |-> "name", num |-> ListName, args |-> r.args]
        [] r.tag \in Named \cup {"TypeCon"} -> [con |-> "name", num |-> Name(r.num), args |-> r.args]
        [] r.tag = "TypeApply" ->
             LET f == Applied(s, r.args[1])
             IN  IF f.con = "name" THEN [f EXCEPT !.args = Append(@, r.args[2])]
                 ELSE [con |-> "apply", num |-> 0, args |-> r.args]
        [] OTHER -> [con |-> r.tag, num |-> r.num, args |-> r.args]

SameNumber(x, y) ==
  x.num = y.num \/ (x.con \in {"Vector", "SizedVec"} /\ (x.num < 0 \/ y.num < 0))

\* The one type, to a given depth.  An error type agrees with anything, and a
\* proof with any equality.
RECURSIVE Agree(_, _, _)
Agree(n, t, u) ==
  LET x == Applied(subst, t)
      y == Applied(subst, u)
  IN  \/ n = 0
      \/ x.con = "Error" \/ y.con = "Error"
      \/ {x.con, y.con} = {"Proof", "PropEq"}
      \/ /\ x.con = y.con /\ SameNumber(x, y) /\ Len(x.args) = Len(y.args)
         /\ \A k \in DOMAIN x.args : Agree(n - 1, x.args[k], y.args[k])
         /\ x.con = "Fun" =>
              ResolveRow(rowSubst, Bared(subst, t).row) = ResolveRow(rowSubst, Bared(subst, u).row)

\* When a call of `unify` is about to answer true, at any depth of the
\* recursion, its two types have become one: no pair was forgotten, and none
\* was undone while the later ones were unified.
UnifiedAgree ==
  \A k \in DOMAIN stack :
    LET f == stack[k]
    IN  f.acc /\ f.rest = <<>> /\ k = Len(stack) => Agree(Depth, f.a, f.b) \/ uncovered

-----------------------------------------------------------------------------
(***************************************************************************)
(* Types to model check with, and what they hold.                          *)
(***************************************************************************)
Int32  == Node("Integer", 1, <<>>)
Text   == Node("Text", 0, <<>>)
Err    == Node("Error", 0, <<>>)
List(t)   == Node("List", 0, <<t>>)
Linked(t) == Node("LinkedList", 0, <<t>>)
Linear(t) == Node("Linear", 0, <<t>>)
ForAll(i, t) == Node("ForAll", i, <<t>>)
Eq(t, u)     == Node("PropEq", 0, <<t, u>>)
Apply(t, u)  == Node("TypeApply", 0, <<t, u>>)
Con(n, ts)   == Node("Constructed", n, ts)
Sum(n, ts)   == Node("Sum", n, ts)
Vec(n, t)    == Node("Vector", n, <<t>>)
Mask(n, t)   == Node("VectorMask", n, <<t>>)
Rec(n, ts)   == Node("Record", n, ts)
Sized(n, t)  == Node("SizedVec", n, <<t>>)
Unit(n, t)   == Node("Unit", n, <<t>>)
Effectful(n, t) == Node("Effectful", n, <<t>>)
Real(n)      == Node("Real", n, <<>>)
Proof        == Node("Proof", 0, <<>>)
Fun(t, r, u) == [tag |-> "Fun", num |-> 0, args |-> <<t, u>>, row |-> r]

\* The closure unification needs.
RECURSIVE Parts(_)
Parts(t) ==
  {t} \cup UNION {Parts(t.args[k]) : k \in DOMAIN t.args}
      \cup (IF t.tag \in Named /\ t.args # <<>> THEN Parts(PeelHead(t)) ELSE {})

RECURSIVE WalkedIn(_), Stripped(_), MentionedIn(_), RowsIn(_)
WalkedIn(t) ==
  IF t.tag = "Var" THEN {t.num}
  ELSE IF t.tag \in WalkedTag THEN UNION {WalkedIn(t.args[k]) : k \in DOMAIN t.args} ELSE {}
Stripped(t) == IF t.tag = "Linear" THEN Stripped(t.args[1]) ELSE t
MentionedIn(t) ==
  IF t.tag = "Var" THEN {t.num} ELSE UNION {MentionedIn(t.args[k]) : k \in DOMAIN t.args}
RowsIn(t) ==
  UNION {RowsIn(t.args[k]) : k \in DOMAIN t.args}
    \cup (IF t.tag = "Fun" /\ IsOpen(t.row) THEN {t.row.id} ELSE {})

-----------------------------------------------------------------------------
CONSTANT Program     \* the pools of the programs that may be checked

VARIABLE pool        \* the pool of the program at hand

e1 == "io"
e2 == "net"
MCLabel == {e1, e2}
Open(i, ls)  == [labels |-> ls, id |-> i]
Shut(ls)     == [labels |-> ls, id |-> NoTail]

Vs == {Var(i) : i \in 0 .. (MaxVars - 1)}

\* Variables, lists, arrows and equalities, everything the occurs check walks.
Structural ==
  {Var(0), Var(1), Var(2), Int32, List(Var(0)),
   Fun(Var(0), EmptyRow, Var(1)), Fun(Var(2), EmptyRow, List(Var(2))),
   Eq(Var(1), Var(2))}

\* Applications of type constructors, bare names, a quantifier and an error.
Applications ==
  {Var(0), Err, List(Int32), Linked(Var(0)), Apply(Var(0), Var(1)),
   Apply(Var(1), Int32), Con(7, <<Int32>>), TypeCon(7), Con(7, <<>>),
   Con(8, <<Int32, Text>>), ForAll(9, Con(7, <<Int32>>))}

\* Lanes: vectors, masks and sized vectors of known and of any width, and an
\* equality between masks.
Lanes ==
  {Var(0), Int32, Vec(4, Var(1)), Vec(-1, Int32), Vec(2, Text), Mask(4, Var(1)), Mask(4, Text),
   Mask(2, Int32), Sized(3, Int32), Sized(-1, Var(1)), Eq(Mask(4, Text), Mask(4, Int32)),
   Eq(Vec(2, Text), Int32), Linear(Linear(Vec(4, Var(1))))}

\* Declared types under their three spellings, units, effectful values, session
\* states and proofs.
Names ==
  {Var(0), Con(7, <<Int32>>), Sum(7, <<Var(1)>>), Rec(7, <<Text>>), Con(7, <<Int32, Text>>),
   Unit(5, Var(1)), Unit(5, Int32), Effectful(6, Var(1)), Proof,
   Eq(Text, Var(1)), Real(1), Real(2), Con(31, <<Int32>>), TypeCon(32),
   Fun(Int32, EmptyRow, Int32)}

\* Arrows with effects.
Effects ==
  {Var(0), Fun(Var(0), Open(0, {}), Var(1)), Fun(Text, Open(0, {e1}), Text),
   Fun(Var(1), Open(1, {e2}), Var(0)), Fun(Text, Shut({e1}), Var(1)),
   Fun(Fun(Text, Open(1, {}), Text), Open(0, {}), Text)}

\* Linear wrappers over variables.
Linears ==
  {Var(0), Var(1), Int32, Text, Linear(Var(1)), Linear(Linear(Text)), List(Var(0)),
   List(Linear(Var(1)))}

\* A named type over a variable.
Cyclic == {Var(0), Var(1), Int32, Con(7, <<Var(1)>>), Con(7, <<Var(0)>>), List(Var(0))}

Pools == [structural |-> Structural, applications |-> Applications, lanes |-> Lanes, names |-> Names,
          effects |-> Effects, linears |-> Linears, cyclic |-> Cyclic]

MCOperand == UNION {Pools[p] : p \in Program}

MCTerm == Vs \cup {TypeCon(ListName), TypeCon(LinkedListName)} \cup UNION {Parts(t) : t \in MCOperand}

MCWalked      == [t \in MCTerm |-> WalkedIn(t)]
MCBare        == [t \in MCTerm |-> Stripped(t)]
MCMentions    == [t \in MCTerm |-> MentionedIn(t)]
MCMentionsRow == [t \in MCTerm |-> RowsIn(t)]

\* Bounds: how many variables and rows a program mints.
VarsOf == [structural |-> 3, applications |-> 2, lanes |-> 2, names |-> 2, effects |-> 2,
           linears |-> 2, cyclic |-> 2]
RowsOf == [p \in DOMAIN Pools |-> IF p = "effects" THEN MaxRows ELSE 0]

allVars == <<vars, pool>>

PoolInit == Init /\ pool \in Program

PoolNext ==
  /\ UNCHANGED pool
  /\ \/ nextId < VarsOf[pool] /\ Fresh
     \/ nextRow < RowsOf[pool] /\ FreshRow
     \/ \E x, y \in Pools[pool] : Unify(x, y)
     \/ Step

\* The recursion runs on its own: nothing decides whether it goes on.
PoolSpec == PoolInit /\ [][PoolNext]_allVars /\ WF_allVars(Step /\ UNCHANGED pool)

=============================================================================
