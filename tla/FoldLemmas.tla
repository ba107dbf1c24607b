----------------------------- MODULE FoldLemmas -----------------------------
(***************************************************************************)
(* Folds of sequences from the left, for what follows the folds of a       *)
(* model step by step. The provers cannot instantiate a theorem's operator *)
(* parameter, but a module's: what is folded is a constant of this one.    *)
(***************************************************************************)
EXTENDS SequencesExt, WellFoundedInduction, SequenceTheorems, TLAPS

CONSTANTS Op(_, _), Base

-----------------------------------------------------------------------------
(* Induction, with a set of naturals for the predicate.                    *)

LEMMA HasLeast ==
  ASSUME NEW S \in SUBSET Nat, S # {}
  PROVE  \E n \in S : \A m \in S : n <= m
<1> DEFINE R == OpToRel(<, Nat)
<1>1. IsWellFoundedOn(R, Nat)
  BY NatLessThanWellFounded
<1>2. \E n \in S : \A m \in S : ~ (<<m, n>> \in R)
  <2> HIDE DEF R
  <2> QED BY <1>1, WFMin, Zenon
<1>3. \A n, m \in S : <<m, n>> \in R <=> m < n
  BY DEF OpToRel
<1>4. PICK n \in S : \A m \in S : ~ (m < n)
  <2> HIDE DEF R
  <2> QED BY <1>2, <1>3
<1>5. \A m \in S : n <= m
  BY <1>4
<1> QED BY <1>5

LEMMA NatSetInduction ==
  ASSUME NEW S, 0 \in S, \A n \in Nat : n \in S => n + 1 \in S
  PROVE  Nat \subseteq S
<1> SUFFICES ASSUME Nat \ S # {} PROVE FALSE
  OBVIOUS
<1>1. PICK n \in Nat \ S : \A m \in Nat \ S : n <= m
  BY HasLeast
<1>2. n - 1 \in Nat /\ n - 1 \in S
  BY <1>1
<1> QED BY <1>1, <1>2

-----------------------------------------------------------------------------
(* The recursion of FoldLeft, over the sets of positions.                  *)

\* f folds s over each set of the first n positions, by greatest members.
Unrolls(f, n, s) ==
  f = [P \in SUBSET (1 .. n) |->
         IF P = {} THEN Base ELSE Op(f[P \ {Max(P)}], s[Max(P)])]

LEMMA GreatestIsMax ==
  ASSUME NEW n \in Nat, NEW P \in SUBSET (1 .. n + 1), n + 1 \in P
  PROVE  Max(P) = n + 1 /\ P \ {Max(P)} \subseteq 1 .. n
<1>1. \A y \in P : n + 1 >= y /\ y \in Int
  OBVIOUS
<1>2. \A x \in P : (\A y \in P : x >= y) => x = n + 1
  BY <1>1
<1>3. Max(P) = n + 1
  BY <1>1, <1>2 DEF Max
<1> QED BY <1>3

LEMMA MaxIsMember ==
  ASSUME NEW n \in Nat, NEW P \in SUBSET (1 .. n), P # {}
  PROVE  Max(P) \in P
<1> DEFINE gaps == {n - p : p \in P}
<1>1. gaps \in SUBSET Nat /\ gaps # {}
  <2>1. \A p \in P : n - p \in Nat
    OBVIOUS
  <2> QED BY <2>1
<1>2. PICK d \in gaps : \A c \in gaps : d <= c
  <2> HIDE DEF gaps
  <2> QED BY <1>1, HasLeast
<1>3. PICK p \in P : d = n - p
  BY <1>2
<1>4. \A q \in P : n - p <= n - q
  BY <1>2, <1>3
<1>5. \A q \in P : p >= q
  BY <1>4
<1> QED BY <1>5 DEF Max

LEMMA UnrollsFirst ==
  ASSUME NEW n \in Nat, NEW s, NEW f, Unrolls(f, n + 1, s)
  PROVE  Unrolls([P \in SUBSET (1 .. n) |-> f[P]], n, s)
<1> DEFINE g == [P \in SUBSET (1 .. n) |-> f[P]]
<1>1. ASSUME NEW P \in SUBSET (1 .. n)
      PROVE  f[P] = IF P = {} THEN Base ELSE Op(g[P \ {Max(P)}], s[Max(P)])
  <2>1. P \in SUBSET (1 .. n + 1)
    OBVIOUS
  <2>2. f[P] = IF P = {} THEN Base ELSE Op(f[P \ {Max(P)}], s[Max(P)])
    BY <2>1, Zenon DEF Unrolls
  <2>3. g[P \ {Max(P)}] = f[P \ {Max(P)}]
    OBVIOUS
  <2> QED BY <2>2, <2>3
<1> HIDE DEF g
<1>2. g = [P \in SUBSET (1 .. n) |->
             IF P = {} THEN Base ELSE Op(g[P \ {Max(P)}], s[Max(P)])]
  BY <1>1 DEF g
<1> QED BY <1>2 DEF Unrolls, g

LEMMA UnrollsSame ==
  ASSUME NEW n \in Nat, NEW s, NEW t, NEW f, Unrolls(f, n, s), \A i \in 1 .. n : t[i] = s[i]
  PROVE  Unrolls(f, n, t)
<1>1. \A P \in SUBSET (1 .. n) : P # {} => s[Max(P)] = t[Max(P)]
  BY MaxIsMember
<1> QED BY <1>1 DEF Unrolls

LEMMA UnrollsOnce ==
  ASSUME NEW n \in Nat, NEW s
  PROVE  \A f, g : Unrolls(f, n, s) /\ Unrolls(g, n, s) => f = g
<1> DEFINE Agree(k) == \A f, g : Unrolls(f, k, s) /\ Unrolls(g, k, s) => f = g
           S == {k \in Nat : Agree(k)}
<1>1. Agree(0)
  <2> SUFFICES ASSUME NEW f, NEW g, Unrolls(f, 0, s), Unrolls(g, 0, s) PROVE f = g
    OBVIOUS
  <2>1. 1 .. 0 = {} /\ SUBSET (1 .. 0) = {{}}
    OBVIOUS
  <2>2. f = [P \in {{}} |-> Base] /\ g = [P \in {{}} |-> Base]
    BY <2>1 DEF Unrolls
  <2> QED BY <2>2
<1>2. ASSUME NEW k \in Nat, Agree(k) PROVE Agree(k + 1)
  <2> SUFFICES ASSUME NEW f, NEW g, Unrolls(f, k + 1, s), Unrolls(g, k + 1, s) PROVE f = g
    OBVIOUS
  <2> DEFINE F == [P \in SUBSET (1 .. k) |-> f[P]]
             G == [P \in SUBSET (1 .. k) |-> g[P]]
  <2>1. F = G
    <3>1. Unrolls(F, k, s) /\ Unrolls(G, k, s)
      BY UnrollsFirst
    <3> HIDE DEF F, G
    <3> QED BY <1>2, <3>1
  <2>2. \A P \in SUBSET (1 .. k) : f[P] = g[P]
    <3>1. ASSUME NEW P \in SUBSET (1 .. k) PROVE F[P] = f[P] /\ G[P] = g[P]
      OBVIOUS
    <3> HIDE DEF F, G
    <3> QED BY <2>1, <3>1
  <2>3. ASSUME NEW P \in SUBSET (1 .. k + 1), P # {}
        PROVE  f[P \ {Max(P)}] = g[P \ {Max(P)}]
    <3>1. CASE k + 1 \in P
      BY <2>2, <3>1, GreatestIsMax
    <3>2. CASE k + 1 \notin P
      <4>1. P \ {Max(P)} \in SUBSET (1 .. k)
        <5>1. \A p \in P : p \in 1 .. k
          BY <3>2
        <5> QED BY <5>1, Zenon
      <4> QED BY <2>2, <4>1
    <3> QED BY <3>1, <3>2
  <2> QED BY <2>3 DEF Unrolls
<1>3. \A k \in Nat : k \in S => k + 1 \in S
  <2> HIDE DEF Agree
  <2> QED BY <1>2
<1>4. n \in S
  <2>1. 0 \in S
    BY <1>1
  <2> HIDE DEF S
  <2> QED BY <1>3, <2>1, NatSetInduction
<1> QED BY <1>4

LEMMA SomeUnrolls ==
  ASSUME NEW n \in Nat, NEW s
  PROVE  \E f : Unrolls(f, n, s)
<1> DEFINE Some(k) == \E f : Unrolls(f, k, s)
           S == {k \in Nat : Some(k)}
<1>1. Some(0)
  <2>1. 1 .. 0 = {} /\ SUBSET (1 .. 0) = {{}}
    OBVIOUS
  <2> DEFINE f == [P \in {{}} |-> Base]
  <2>2. Unrolls(f, 0, s)
    BY <2>1 DEF Unrolls
  <2> QED BY <2>2
<1>2. ASSUME NEW k \in Nat, Some(k) PROVE Some(k + 1)
  <2>1. PICK f : Unrolls(f, k, s)
    BY <1>2
  <2> DEFINE g == [P \in SUBSET (1 .. k + 1) |->
                     IF k + 1 \in P THEN Op(f[P \ {k + 1}], s[k + 1]) ELSE f[P]]
  <2>2. ASSUME NEW P \in SUBSET (1 .. k + 1)
        PROVE  g[P] = IF P = {} THEN Base ELSE Op(g[P \ {Max(P)}], s[Max(P)])
    <3>1. CASE k + 1 \in P
      <4>1. Max(P) = k + 1 /\ P \ {k + 1} \in SUBSET (1 .. k) /\ k + 1 \notin P \ {k + 1}
        BY <3>1, GreatestIsMax
      <4>2. g[P \ {k + 1}] = f[P \ {k + 1}]
        BY <4>1
      <4>3. g[P] = Op(f[P \ {k + 1}], s[k + 1])
        BY <3>1
      <4> QED BY <3>1, <4>1, <4>2, <4>3
    <3>2. CASE k + 1 \notin P
      <4>1. P \in SUBSET (1 .. k) /\ P \ {Max(P)} \in SUBSET (1 .. k)
        <5>1. \A p \in P : p \in 1 .. k
          BY <3>2
        <5> QED BY <5>1, Zenon
      <4>2. f[P] = IF P = {} THEN Base ELSE Op(f[P \ {Max(P)}], s[Max(P)])
        BY <2>1, <4>1, Zenon DEF Unrolls
      <4>3. g[P] = f[P] /\ g[P \ {Max(P)}] = f[P \ {Max(P)}]
        BY <3>2, <4>1
      <4> QED BY <4>2, <4>3
    <3> QED BY <3>1, <3>2
  <2>3. g = [P \in SUBSET (1 .. k + 1) |-> g[P]]
    OBVIOUS
  <2>4. Unrolls(g, k + 1, s)
    <3> HIDE DEF g
    <3> QED BY <2>2, <2>3 DEF Unrolls
  <2> QED BY <2>4
<1>3. \A k \in Nat : k \in S => k + 1 \in S
  <2> HIDE DEF Some
  <2> QED BY <1>2
<1>4. n \in S
  <2>1. 0 \in S
    BY <1>1
  <2> HIDE DEF S
  <2> QED BY <1>3, <2>1, NatSetInduction
<1> QED BY <1>4

-----------------------------------------------------------------------------
(* FoldLeft.                                                               *)

LEMMA FoldUnrolls ==
  ASSUME NEW n \in Nat, NEW s, DOMAIN s = 1 .. n
  PROVE  \E f : Unrolls(f, n, s) /\ FoldLeft(Op, Base, s) = f[1 .. n]
<1> DEFINE f == CHOOSE f : f = [P \in SUBSET DOMAIN s |->
                  IF P = {} THEN Base ELSE Op(f[P \ {Max(P)}], s[Max(P)])]
<1>1. FoldLeft(Op, Base, s) = f[DOMAIN s]
  BY DEF FoldLeft, MapThenFoldSet
<1>2. \E g : g = [P \in SUBSET DOMAIN s |->
                  IF P = {} THEN Base ELSE Op(g[P \ {Max(P)}], s[Max(P)])]
  <2>1. PICK g : Unrolls(g, n, s)
    BY SomeUnrolls
  <2>2. g = [P \in SUBSET DOMAIN s |->
               IF P = {} THEN Base ELSE Op(g[P \ {Max(P)}], s[Max(P)])]
    BY <2>1, Zenon DEF Unrolls
  <2> QED BY <2>2, Zenon
<1>3. f = [P \in SUBSET DOMAIN s |->
             IF P = {} THEN Base ELSE Op(f[P \ {Max(P)}], s[Max(P)])]
  BY <1>2, Zenon
<1>4. Unrolls(f, n, s)
  BY <1>3, Zenon DEF Unrolls
<1> HIDE DEF f
<1> QED BY <1>1, <1>4

\* Nothing folds to the base.
LEMMA FoldOfNone ==
  ASSUME NEW s, DOMAIN s = {}
  PROVE  FoldLeft(Op, Base, s) = Base
<1>1. DOMAIN s = 1 .. 0 /\ 1 .. 0 = {}
  OBVIOUS
<1>2. PICK f : Unrolls(f, 0, s) /\ FoldLeft(Op, Base, s) = f[1 .. 0]
  BY <1>1, FoldUnrolls
<1> QED BY <1>1, <1>2 DEF Unrolls

\* One more element is one more step.
LEMMA FoldOfAppend ==
  ASSUME NEW S, NEW s \in Seq(S), NEW x \in S
  PROVE  FoldLeft(Op, Base, Append(s, x)) = Op(FoldLeft(Op, Base, s), x)
<1> DEFINE t == Append(s, x)
           n == Len(s)
<1>1. n \in Nat /\ DOMAIN s = 1 .. n /\ DOMAIN t = 1 .. n + 1
      /\ t[n + 1] = x /\ \A i \in 1 .. n : t[i] = s[i]
  OBVIOUS
<1> HIDE DEF t, n
<1>2. PICK f : Unrolls(f, n, s) /\ FoldLeft(Op, Base, s) = f[1 .. n]
  BY <1>1, FoldUnrolls
<1>3. PICK g : Unrolls(g, n + 1, t) /\ FoldLeft(Op, Base, t) = g[1 .. n + 1]
  BY <1>1, FoldUnrolls
<1> DEFINE h == [P \in SUBSET (1 .. n) |-> g[P]]
<1>4. h[1 .. n] = f[1 .. n]
  <2>1. Unrolls(h, n, t)
    BY <1>1, <1>3, UnrollsFirst
  <2> HIDE DEF h
  <2>2. Unrolls(f, n, t)
    BY <1>1, <1>2, UnrollsSame
  <2> QED BY <1>1, <2>1, <2>2, UnrollsOnce
<1>5. g[1 .. n] = f[1 .. n]
  BY <1>4
<1>6. Max(1 .. n + 1) = n + 1 /\ (1 .. n + 1) \ {n + 1} = 1 .. n
  BY <1>1, GreatestIsMax
<1>7. g[1 .. n + 1] = Op(g[1 .. n], t[n + 1])
  <2>1. 1 .. n + 1 \in SUBSET (1 .. n + 1) /\ 1 .. n + 1 # {}
    <3>1. 1 \in 1 .. n + 1
      BY <1>1
    <3> QED BY <3>1, Zenon
  <2>2. \A P \in SUBSET (1 .. n + 1) : P # {} => g[P] = Op(g[P \ {Max(P)}], t[Max(P)])
    BY <1>3, Zenon DEF Unrolls
  <2> QED BY <1>6, <2>1, <2>2
<1> QED BY <1>1, <1>2, <1>3, <1>5, <1>7 DEF t
=============================================================================
