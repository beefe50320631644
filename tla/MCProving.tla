------------------------------- MODULE MCProving -------------------------------
(***************************************************************************)
(* Theories of naturals, bits and lists: claims that hold and claims that  *)
(* do not, with every proof a few steps make; lemmas cited and citing back *)
(* in circles; variables with the names of the binders they meet.          *)
(***************************************************************************)
EXTENDS Proving

m == <<"m">>
n == <<"n">>
k == <<"k">>
h == <<"h">>
xs == <<"xs">>
t == <<"t">>
ih == <<"ih">>
Z == Name(<<"Z">>)
S(x) == Of(<<"S">>, <<x>>)
Plus(x, y) == Of(<<"plus">>, <<x, y>>)
Two(x) == Of(<<"two">>, <<x>>)
UpTo(x, y) == Of(<<"up-to">>, <<x, y>>)
Flip(x) == Of(<<"flip">>, <<x>>)
On == Name(<<"On">>)
Off == Name(<<"Off">>)
Length(x) == Of(<<"list-length">>, <<x>>)
Push(x, y) == Of(<<"list-push">>, <<x, y>>)
Join(x, y) == Of(<<"&">>, <<x, y>>)
N == Name(n)
M == Name(m)
K == Name(k)

PZ == PCtor(<<"Z">>, <<>>)
PS == PCtor(<<"S">>, <<PVar(k)>>)

\* plus, by its first argument; two, at most; flip; a constant; one with a let,
\* and one with a condition.
MCDefs ==
  (<<"plus">> :> [params |-> <<m, n>>, body |-> Match(M, <<PZ, PS>>, <<N, S(Plus(K, N))>>)]) @@
  (<<"two">>  :> [params |-> <<n>>, body |-> Match(N, <<PZ, PS>>, <<S(Z), S(S(Z))>>)]) @@
  (<<"flip">> :> [params |-> <<n>>, body |-> Match(N, <<PCtor(<<"On">>, <<>>), PCtor(<<"Off">>, <<>>)>>, <<Off, On>>)]) @@
  (<<"three">> :> [params |-> <<>>, body |-> Let(<<k>>, <<S(S(Z))>>, S(K))]) @@
  (<<"up-to">> :> [params |-> <<m, n>>, body |-> Match(M, <<PZ, PS>>, <<On, Match(N, <<PZ, PCtor(<<"S">>, <<PVar(h)>>)>>,
                                                                              <<Off, UpTo(K, Name(h))>>)>>)]) @@
  (<<"const">> :> [params |-> <<m, n>>, body |-> Cond(Truth("True"), M, N)])

C(name, fields) == [name |-> name, fields |-> fields]
MCCtors ==
  ("Nat" :> <<C(<<"Z">>, <<>>), C(<<"S">>, <<"Nat">>)>>) @@
  ("Bit" :> <<C(<<"On">>, <<>>), C(<<"Off">>, <<>>)>>) @@
  ("List" :> <<C(<<"Nil">>, <<>>), C(<<"Cons">>, <<"Bit", "List">>)>>)

Thm(name, binders, l, r, proof) == [name |-> name, binders |-> binders, sides |-> <<l, r>>, proof |-> proof]

Refl == Name(<<"Refl">>)
IH == Name(ih)
Sym(p) == Of(<<"sym">>, <<p>>)
Trans(p, q) == Of(<<"trans">>, <<p, q>>)
Cong(p) == Of(<<"cong">>, <<p>>)
OnNat(v, base, names, step) == Induction(v, <<Case(<<"Z">>, <<>>, base), Case(<<"S">>, names, step)>>)

\* The lemmas that addition needs.
ZeroRight == Thm(<<"zero-right">>, <<<<n, "Nat">>>>, Plus(N, Z), N, OnNat(n, Refl, <<k, ih>>, Cong(IH)))
A == Name(<<"a">>)
B == Name(<<"b">>)
SuccRight == Thm(<<"succ-right">>, <<<<<<"a">>, "Nat">>, <<<<"b">>, "Nat">>>>, Plus(A, S(B)), S(Plus(A, B)),
                 OnNat(<<"a">>, Refl, <<k, ih>>, Cong(IH)))
ZeroAt(x) == Of(<<"zero-right">>, <<x>>)
SuccAt(x, y) == Of(<<"succ-right">>, <<x, y>>)
Goal(xss) == Of(<<"goal">>, xss)

\* What is claimed of one natural, and of two.
OfOne == {<<Plus(N, Z), N>>, <<Plus(N, N), N>>, <<Plus(S(Z), N), Two(N)>>, <<N, Z>>, <<Plus(N, S(Z)), S(N)>>,
          <<Of(<<"const">>, <<N, Z>>), N>>, <<Two(N), S(S(Z))>>, <<Plus(Name(<<"three">>), N), Plus(N, Name(<<"three">>))>>}
OfTwo == {<<Plus(M, N), Plus(N, M)>>, <<Plus(M, S(N)), S(Plus(M, N))>>, <<Plus(M, N), N>>, <<M, N>>, <<Plus(M, N), Plus(M, M)>>}

\* Proofs of the base, and of the step.
Bases == {Refl, Sym(ZeroAt(N)), Of(<<"other">>, <<Z>>)}
Steps == {Refl, IH, Cong(IH), Sym(Cong(IH)), Trans(Cong(IH), Sym(SuccAt(N, K))), Trans(Cong(IH), Refl),
          Trans(SuccAt(K, Z), Cong(ZeroAt(K))), Goal(<<K>>), Goal(<<S(K)>>), Goal(<<S(K), N>>), Of(<<"other">>, <<S(K)>>),
          Of(<<"app-cong">>, <<IH>>), Name(<<"assume">>), Name(<<"zero-right">>)}

\* The claims about one natural, with another about the same that may cite it.
Ones ==
  {<<ZeroRight, SuccRight, Thm(<<"goal">>, <<<<n, "Nat">>>>, s[1], s[2], OnNat(n, b, v, p)),
     Thm(<<"other">>, <<<<n, "Nat">>>>, s[1], s[2], OnNat(n, Refl, <<k, ih>>, q))>> :
     s \in OfOne, b \in Bases, v \in {<<k, ih>>, <<>>}, p \in Steps, q \in {Goal(<<S(K)>>)}}

\* The claims about two, in both orders of the binders and by induction on either.
Twos ==
  {<<ZeroRight, SuccRight, Thm(<<"goal">>, bs, s[1], s[2], OnNat(v, b, <<k, ih>>, p))>> :
     s \in OfTwo, bs \in {<<<<m, "Nat">>, <<n, "Nat">>>>, <<<<n, "Nat">>, <<m, "Nat">>>>}, v \in {m, n}, b \in Bases, p \in Steps}

\* Claims about lists and bits, and claims without a binder.
XS == Name(xs)
T == Name(t)
OfList == {<<Length(Push(XS, On)), Of(<<"+">>, <<Num(1), Length(XS)>>)>>, <<Join(XS, Nil), XS>>, <<Join(XS, XS), Nil>>,
           <<Of(<<"list-at">>, <<Push(XS, On), Num(0)>>), On>>, <<Push(XS, On), Join(XS, Chain(On, Nil))>>,
           <<Of(<<"list-insert-at">>, <<XS, Num(0), On>>), Chain(On, XS)>>,
           <<Length(Of(<<"list-set-at">>, <<Push(XS, On), Num(0), Off>>)), Length(Push(XS, On))>>}
Lists ==
  {<<Thm(<<"goal">>, <<<<xs, "List">>>>, s[1], s[2],
         Induction(xs, <<Case(<<"Nil">>, <<>>, Refl), Case(<<"Cons">>, v, p)>>))>> :
     s \in OfList, v \in {<<h, t, ih>>, <<h, t>>}, p \in {Refl, IH, Cong(IH), Cong(Cong(IH))}}
Bits ==
  {<<Thm(<<"goal">>, <<<<n, "Bit">>>>, s[1], s[2], Induction(n, arms))>> :
     s \in {<<Flip(Flip(N)), N>>, <<Flip(N), N>>},
     arms \in {<<Case(<<"On">>, <<>>, Refl), Case(<<"Off">>, <<>>, Refl)>>, <<Case(<<"On">>, <<>>, Refl)>>}}
Plain ==
  {<<Thm(<<"goal">>, <<>>, s[1], s[2], p), Thm(<<"other">>, <<>>, s[2], s[1], q)>> :
     s \in {<<Flip(On), Off>>, <<Flip(On), On>>, <<Plus(Name(<<"three">>), Z), Name(<<"three">>)>>,
            <<Of(<<"+">>, <<Num(3), Num(4)>>), Num(-1)>>, <<Of(<<"/">>, <<Num(-3), Num(2)>>), Num(-1)>>,
            <<Of(<<"-">>, <<Num(1), Of(<<"*">>, <<Num(2), Num(1)>>)>>), Num(-1)>>},
     p \in {Refl, Sym(Name(<<"other">>)), Name(<<"goal">>), Name(<<"assume">>)}, q \in {Refl, Sym(Name(<<"goal">>)), Trans(Sym(Name(<<"goal">>)), Refl)}}

\* A case that names its field after the other variable, and a lemma cited for
\* its own variables the other way round.
Confused ==
  {<<Thm(<<"goal">>, bs, s[1], s[2], OnNat(n, Refl, <<m, ih>>, p))>> :
     s \in OfTwo \cup {<<UpTo(N, S(M)), UpTo(N, N)>>}, bs \in {<<<<m, "Nat">>, <<n, "Nat">>>>, <<<<n, "Nat">>, <<m, "Nat">>>>},
     p \in {Refl, IH, Cong(IH)}}
  \cup
  {<<[SuccRight EXCEPT !.binders = <<<<m, "Nat">>, <<n, "Nat">>>>, !.sides = <<Plus(M, S(N)), S(Plus(M, N))>>,
                       !.proof = OnNat(m, Refl, <<k, ih>>, Cong(IH))],
     Thm(<<"goal">>, <<<<m, "Nat">>, <<n, "Nat">>>>, Plus(N, S(M)), S(r), OnNat(m, p, <<k, ih>>, SuccAt(x, y)))>> :
     r \in {Plus(N, M), Plus(M, N), Plus(N, N)}, p \in Bases, x \in {M, N, K}, y \in {M, N, K, S(K)}}

MCTheories == Ones \cup Twos \cup Lists \cup Bits \cup Plain \cup Confused
=============================================================================
