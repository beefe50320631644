---------------------------- MODULE Reachability ----------------------------
(***************************************************************************)
(* What can be reached along the slots of a slot array.                    *)
(*                                                                         *)
(* The checker keeps two arrays that name variables by index: type         *)
(* variables (`UnifyState::substitutions`) and effect-row variables        *)
(* (`UnifyState::row_subst`).  Both are read by following slots, and both  *)
(* readers stop only because no chain of slots comes back to its start.    *)
(* `succ` maps every variable to the variables its slot mentions (none     *)
(* when it is unbound).  The operators are written with sets that are      *)
(* closed under `succ`, and not with recursion, so that TLAPS can reason   *)
(* about them; the facts that the proofs about the unifier and the row     *)
(* store rest on follow.                                                   *)
(***************************************************************************)
EXTENDS TLAPS

\* S holds everything its members lead to.
Closed(succ, S) == \A n \in S : succ[n] \subseteq S

\* Everything `from` leads to, `from` included: the least closed set around it.
Reach(succ, from) ==
  LET walks == {S \in SUBSET (DOMAIN succ) : from \subseteq S /\ Closed(succ, S)}
  IN  {n \in DOMAIN succ : \A S \in walks : n \in S}

\* No chain comes back: every nonempty set has a member that leads out of it
\* at once.
Acyclic(succ) ==
  \A S \in SUBSET (DOMAIN succ) :
    S # {} => \E n \in S : succ[n] \cap S = {}

-----------------------------------------------------------------------------
\* The variables a walk starts from are among those it reaches.
LEMMA ReachStart ==
  ASSUME NEW succ, NEW from, from \subseteq DOMAIN succ
  PROVE  from \subseteq Reach(succ, from)
BY DEF Reach

\* What a walk reaches is itself closed: the walk has nowhere left to go.
LEMMA ReachClosed ==
  ASSUME NEW D, NEW succ \in [D -> SUBSET D], NEW from
  PROVE  Closed(succ, Reach(succ, from))
<1> SUFFICES ASSUME NEW n \in Reach(succ, from), NEW m \in succ[n]
             PROVE  m \in Reach(succ, from)
  BY DEF Closed
<1>1. n \in D /\ m \in D
  BY DEF Reach
<1>2. ASSUME NEW S \in SUBSET D, from \subseteq S, Closed(succ, S)
      PROVE  m \in S
  BY <1>2 DEF Reach, Closed
<1> QED
  BY <1>1, <1>2 DEF Reach

\* A closed set around the start holds all that is reached.
LEMMA ReachLeast ==
  ASSUME NEW succ, NEW from, NEW S \in SUBSET DOMAIN succ,
         from \subseteq S, Closed(succ, S)
  PROVE  Reach(succ, from) \subseteq S
BY DEF Reach

\* Giving slot u a content that does not lead back to u keeps the array
\* acyclic.  This is the whole argument for the occurs check.
LEMMA AcyclicBind ==
  ASSUME NEW D, NEW succ \in [D -> SUBSET D], Acyclic(succ),
         NEW u \in D, NEW T \in SUBSET D, u \notin Reach(succ, T)
  PROVE  Acyclic([succ EXCEPT ![u] = T])
<1> DEFINE R == Reach(succ, T)
           new == [succ EXCEPT ![u] = T]
<1>1. /\ T \subseteq R
      /\ R \subseteq D
      /\ Closed(succ, R)
  <2>1. T \subseteq R
    BY ReachStart
  <2>2. R \subseteq D
    BY DEF Reach
  <2>3. Closed(succ, R)
    BY ReachClosed
  <2> QED
    BY <2>1, <2>2, <2>3
<1> SUFFICES ASSUME NEW S \in SUBSET D, S # {}
             PROVE  \E n \in S : new[n] \cap S = {}
  BY DEF Acyclic
<1>2. CASE S \cap R # {}
  <2>1. PICK n \in S \cap R : succ[n] \cap (S \cap R) = {}
    BY <1>1, <1>2 DEF Acyclic
  <2>2. n # u /\ new[n] = succ[n]
    BY <2>1, <1>1
  <2>3. succ[n] \subseteq R
    BY <2>1, <1>1 DEF Closed
  <2> QED
    BY <2>1, <2>2, <2>3
<1>3. CASE S \cap R = {} /\ u \in S
  BY <1>1, <1>3
<1>4. CASE u \notin S
  <2>1. PICK n \in S : succ[n] \cap S = {}
    BY DEF Acyclic
  <2> QED
    BY <2>1, <1>4
<1> QED
  BY <1>2, <1>3, <1>4

\* Slots that mention nothing can be added at will: minting keeps the array
\* acyclic.
LEMMA AcyclicMint ==
  ASSUME NEW D, NEW succ \in [D -> SUBSET D], Acyclic(succ),
         NEW E, D \subseteq E, NEW new \in [E -> SUBSET E],
         \A n \in D : new[n] = succ[n],
         \A n \in E \ D : new[n] = {}
  PROVE  Acyclic(new)
<1> SUFFICES ASSUME NEW S \in SUBSET E, S # {}
             PROVE  \E n \in S : new[n] \cap S = {}
  BY DEF Acyclic
<1>1. CASE S \subseteq D
  BY <1>1 DEF Acyclic
<1>2. CASE \E n \in S : n \notin D
  BY <1>2
<1> QED
  BY <1>1, <1>2

\* Every walk of an acyclic array comes to an end.
LEMMA AcyclicEnds ==
  ASSUME NEW D, NEW succ \in [D -> SUBSET D], Acyclic(succ),
         NEW u \in D
  PROVE  \E e \in Reach(succ, {u}) : succ[e] = {}
<1>1. u \in Reach(succ, {u}) /\ Reach(succ, {u}) \subseteq D
  BY ReachStart DEF Reach
<1>2. PICK e \in Reach(succ, {u}) : succ[e] \cap Reach(succ, {u}) = {}
  BY <1>1 DEF Acyclic
<1>3. succ[e] \subseteq Reach(succ, {u})
  BY ReachClosed DEF Closed
<1> QED
  BY <1>2, <1>3

\* A walk from one variable goes through it and on from what its slot mentions.
LEMMA ReachStep ==
  ASSUME NEW D, NEW succ \in [D -> SUBSET D], NEW n \in D
  PROVE  Reach(succ, {n}) \subseteq {n} \cup Reach(succ, succ[n])
<1> DEFINE R == Reach(succ, succ[n])
<1>1. Closed(succ, R) /\ R \subseteq D /\ succ[n] \subseteq R
  <2>1. Closed(succ, R)
    BY ReachClosed
  <2>2. R \subseteq D
    BY DEF Reach
  <2>3. succ[n] \subseteq R
    BY ReachStart
  <2> QED
    BY <2>1, <2>2, <2>3
<1>2. Closed(succ, {n} \cup R)
  BY <1>1 DEF Closed
<1> QED
  BY <1>1, <1>2, ReachLeast

\* Where slots mention one variable at most, a walk has one end.
LEMMA OneEnd ==
  ASSUME NEW D, NEW succ \in [D -> SUBSET D], Acyclic(succ),
         \A n \in D : \A p, q \in succ[n] : p = q,
         NEW x \in D, NEW e \in Reach(succ, {x}), NEW f \in Reach(succ, {x}),
         succ[e] = {}, succ[f] = {}
  PROVE  e = f
<1> DEFINE B == {n \in D : e \in Reach(succ, {n}) /\ f \in Reach(succ, {n})}
<1>1. PICK n \in B : succ[n] \cap B = {}
  <2>1. x \in B /\ B \in SUBSET D
    OBVIOUS
  <2> QED
    BY <2>1 DEF Acyclic
<1>2. Reach(succ, {n}) \subseteq {n} \cup Reach(succ, succ[n])
  BY ReachStep
<1>3. CASE succ[n] = {}
  <2>1. Reach(succ, {}) \subseteq {}
    <3>1. Closed(succ, {})
      BY DEF Closed
    <3> QED
      BY <3>1, ReachLeast
  <2> QED
    BY <1>2, <1>3, <2>1
<1>4. ASSUME NEW m \in succ[n] PROVE FALSE
  <2>1. succ[n] = {m} /\ m \in D
    BY <1>4
  <2>2. e # n /\ f # n
    BY <1>4
  <2>3. e \in Reach(succ, {m}) /\ f \in Reach(succ, {m})
    BY <1>2, <2>1, <2>2
  <2> QED
    BY <1>1, <1>4, <2>1, <2>3
<1> QED
  BY <1>3, <1>4

\* What is reached once an unbound slot is given a content that leads nowhere
\* else: the same as before, and the content where the slot was reached.
LEMMA ReachBind ==
  ASSUME NEW D, NEW succ \in [D -> SUBSET D], NEW u \in D, succ[u] = {},
         NEW T \in SUBSET D, Closed(succ, T), NEW from \in SUBSET D,
         NEW new \in [D -> SUBSET D], new[u] = T, \A n \in D : n # u => new[n] = succ[n]
  PROVE  Reach(new, from)
           = Reach(succ, from) \cup (IF u \in Reach(succ, from) THEN T ELSE {})
<1> DEFINE C   == Reach(succ, from)
           N   == Reach(new, from)
           E   == C \cup (IF u \in C THEN T ELSE {})
<1>1. new \in [D -> SUBSET D] /\ C \subseteq D /\ N \subseteq D /\ E \subseteq D
  BY DEF Reach
<1>2. Closed(succ, C) /\ from \subseteq C /\ Closed(new, N) /\ from \subseteq N
  BY <1>1, ReachClosed, ReachStart
<1>3. N \subseteq E
  <2>1. Closed(new, E)
    BY <1>1, <1>2 DEF Closed
  <2> QED
    BY <1>1, <1>2, <2>1, ReachLeast
<1>4. C \subseteq N
  <2>1. Closed(succ, N)
    BY <1>1, <1>2 DEF Closed
  <2>2. N \in SUBSET DOMAIN succ /\ from \subseteq N
    BY <1>1, <1>2
  <2> HIDE DEF N
  <2> QED
    BY <2>1, <2>2, ReachLeast
<1>5. u \in C => T \subseteq N
  BY <1>1, <1>2, <1>4 DEF Closed
<1> QED
  BY <1>3, <1>4, <1>5
=============================================================================
