------------------------------ MODULE SumTheorems -------------------------------
(***************************************************************************)
(* What a sum over a finite set is, for the sums the models are written    *)
(* with (SumFunctionOnSet): payments of an invoice, refunds of a payment,  *)
(* what notes take of their source.                                        *)
(*                                                                         *)
(* The sum is a fold, a recursive function read off with CHOOSE.  That     *)
(* there is one is shown by induction on the size of the set, stated of    *)
(* the set of sizes for which it holds, so that no operator is a           *)
(* parameter.                                                              *)
(***************************************************************************)
EXTENDS FiniteSetTheorems, TLAPS

(* The fold's next element, and the fold. *)
Pick(s) == CHOOSE x \in s : TRUE
Iter(g, S) == CHOOSE f : f = [s \in SUBSET S |-> IF s = {} THEN 0 ELSE g[Pick(s)] + f[s \ {Pick(s)}]]

LEMMA Unfolded == ASSUME NEW g, NEW S PROVE SumFunctionOnSet(g, S) = Iter(g, S)[S]
  BY DEF SumFunctionOnSet, FoldFunctionOnSet, MapThenFoldSet, Iter, Pick

(* Induction, of a set of numbers. *)
LEMMA NatInd == ASSUME NEW T \in SUBSET Nat, 0 \in T, \A n \in T : n + 1 \in T PROVE T = Nat
<1> DEFINE U == Nat \ T
<1> SUFFICES ASSUME U # {} PROVE FALSE
  OBVIOUS
<1>1. PICK m \in U : \A y \in U : ~(<<y, m>> \in OpToRel(<, Nat))
  <2> HIDE DEF U
  <2>1. U \subseteq Nat
    BY DEF U
  <2> QED BY <2>1, NatLessThanWellFounded, WFMin
<1>2. m # 0 /\ m - 1 \in Nat /\ m - 1 < m /\ m - 1 + 1 = m
  OBVIOUS
<1>3. m - 1 \in T
  BY <1>1, <1>2 DEF OpToRel
<1> QED BY <1>2, <1>3

\* What the definition of a sum asks of the function it is read off.
Adds(f, g, S) ==
  /\ f \in [SUBSET S -> Int]
  /\ \A s \in SUBSET S : f[s] = IF s = {} THEN 0 ELSE g[Pick(s)] + f[s \ {Pick(s)}]

LEMMA Picked == \A s : s # {} => Pick(s) \in s
  BY DEF Pick

(* There is such a function, *)
LEMMA IterExists == ASSUME NEW D, NEW g \in [D -> Int], NEW S \in SUBSET D, IsFiniteSet(S) PROVE \E f : Adds(f, g, S)
<1> DEFINE Upto(f, n) == f \in [SUBSET S -> Int]
              /\ \A s \in SUBSET S : Cardinality(s) <= n => f[s] = IF s = {} THEN 0 ELSE g[Pick(s)] + f[s \ {Pick(s)}]
           T == {n \in Nat : \E f : Upto(f, n)}
<1>0. \A s \in SUBSET S : IsFiniteSet(s) /\ Cardinality(s) \in Nat
  BY FS_Subset, FS_CardinalityType
<1>1. 0 \in T
  <2> DEFINE f == [s \in SUBSET S |-> 0]
  <2>1. \A s \in SUBSET S : Cardinality(s) <= 0 => s = {}
    BY <1>0, FS_EmptySet
  <2>2. Upto(f, 0)
    BY <2>1
  <2> QED BY <2>2
<1>2. ASSUME NEW n \in T PROVE n + 1 \in T
  <2>1. PICK f : Upto(f, n)
    OBVIOUS
  <2> DEFINE h == [s \in SUBSET S |-> IF s = {} THEN 0 ELSE g[Pick(s)] + f[s \ {Pick(s)}]]
  <2>2. h \in [SUBSET S -> Int]
    BY <2>1, Picked
  <2>3. ASSUME NEW s \in SUBSET S, Cardinality(s) <= n + 1, s # {} PROVE h[s] = g[Pick(s)] + h[s \ {Pick(s)}]
    <3>1. Pick(s) \in s
      BY <2>3, Picked
    <3>2. Cardinality(s \ {Pick(s)}) <= n
      BY <1>0, <2>3, <3>1, FS_RemoveElement
    <3>3. f[s \ {Pick(s)}] = h[s \ {Pick(s)}]
      BY <2>1, <3>2
    <3> QED BY <2>3, <3>3
  <2>4. Upto(h, n + 1)
    BY <2>2, <2>3
  <2>5. n + 1 \in Nat
    OBVIOUS
  <2> HIDE DEF h
  <2> QED BY <2>4, <2>5
<1> HIDE DEF T
<1>3. T = Nat
  BY <1>1, <1>2, NatInd DEF T
<1>4. PICK f : Upto(f, Cardinality(S))
  BY <1>0, <1>3 DEF T
<1>5. \A s \in SUBSET S : Cardinality(s) <= Cardinality(S)
  BY FS_Subset
<1>6. \A s \in SUBSET S : f[s] = IF s = {} THEN 0 ELSE g[Pick(s)] + f[s \ {Pick(s)}]
  BY <1>4, <1>5
<1>7. f \in [SUBSET S -> Int]
  BY <1>4
<1> QED BY <1>6, <1>7 DEF Adds

(* the fold is one, *)
LEMMA IterAdds == ASSUME NEW D, NEW g \in [D -> Int], NEW S \in SUBSET D, IsFiniteSet(S) PROVE Adds(Iter(g, S), g, S)
<1>1. PICK f : Adds(f, g, S)
  BY IterExists
<1>2. f = [s \in SUBSET S |-> IF s = {} THEN 0 ELSE g[Pick(s)] + f[s \ {Pick(s)}]]
  BY <1>1 DEF Adds
<1>3. Iter(g, S) = [s \in SUBSET S |-> IF s = {} THEN 0 ELSE g[Pick(s)] + Iter(g, S)[s \ {Pick(s)}]]
  BY <1>2 DEF Iter
<1>4. ASSUME NEW h, h = [s \in SUBSET S |-> IF s = {} THEN 0 ELSE g[Pick(s)] + h[s \ {Pick(s)}]] PROVE Adds(h, g, S)
  <2> DEFINE T == {n \in Nat : \A s \in SUBSET S : Cardinality(s) <= n => h[s] \in Int}
  <2>0. \A s \in SUBSET S : IsFiniteSet(s) /\ Cardinality(s) \in Nat
    BY FS_Subset, FS_CardinalityType
  <2>1. \A s \in SUBSET S : h[s] = IF s = {} THEN 0 ELSE g[Pick(s)] + h[s \ {Pick(s)}]
    BY <1>4
  <2>2. 0 \in T
    <3>1. \A s \in SUBSET S : Cardinality(s) <= 0 => s = {}
      BY <2>0, FS_EmptySet
    <3>2. \A s \in SUBSET S : s = {} => h[s] = 0
      BY <2>1
    <3> QED BY <3>1, <3>2
  <2>3. ASSUME NEW n \in T, NEW s \in SUBSET S, Cardinality(s) <= n + 1 PROVE h[s] \in Int
    <3>1. CASE s # {}
      <4>1. Pick(s) \in s
        BY <3>1, Picked
      <4>2. Cardinality(s \ {Pick(s)}) <= n
        BY <2>0, <2>3, <4>1, FS_RemoveElement
      <4>3. g[Pick(s)] \in Int /\ h[s \ {Pick(s)}] \in Int
        BY <4>1, <4>2
      <4> QED BY <2>1, <3>1, <4>3
    <3>2. CASE s = {}
      BY <2>1, <3>2
    <3> QED BY <3>1, <3>2
  <2>4. T = Nat
    <3>1. \A n \in T : n + 1 \in T
      BY <2>3
    <3> HIDE DEF T
    <3> QED BY <2>2, <3>1, NatInd DEF T
  <2>5. \A s \in SUBSET S : h[s] \in Int
    BY <2>0, <2>4
  <2>6. DOMAIN h = SUBSET S
    BY <1>4
  <2> QED BY <1>4, <2>1, <2>5, <2>6 DEF Adds
<1> QED BY <1>3, <1>4

(* and any two agree where both are defined. *)
LEMMA AddsAgree ==
  ASSUME NEW f, NEW g, NEW S, NEW k, NEW h, NEW U, Adds(f, g, S), Adds(k, h, U), IsFiniteSet(S),
         \A x \in S \cap U : g[x] = h[x]
  PROVE  \A s \in SUBSET (S \cap U) : f[s] = k[s]
<1> DEFINE T == {n \in Nat : \A s \in SUBSET (S \cap U) : Cardinality(s) <= n => f[s] = k[s]}
<1>0. \A s \in SUBSET (S \cap U) : IsFiniteSet(s) /\ Cardinality(s) \in Nat
  BY FS_Subset, FS_CardinalityType
<1>1. \A s \in SUBSET (S \cap U) : s = {} => f[s] = 0 /\ k[s] = 0
  BY DEF Adds
<1>2. 0 \in T
  <2>1. \A s \in SUBSET (S \cap U) : Cardinality(s) <= 0 => s = {}
    BY <1>0, FS_EmptySet
  <2> QED BY <1>1, <2>1
<1>3. ASSUME NEW n \in T, NEW s \in SUBSET (S \cap U), Cardinality(s) <= n + 1 PROVE f[s] = k[s]
  <2>1. CASE s # {}
    <3>1. Pick(s) \in s
      BY <2>1, Picked
    <3>2. Cardinality(s \ {Pick(s)}) <= n
      BY <1>0, <1>3, <3>1, FS_RemoveElement
    <3>3. f[s \ {Pick(s)}] = k[s \ {Pick(s)}] /\ g[Pick(s)] = h[Pick(s)]
      BY <3>1, <3>2
    <3>4. f[s] = g[Pick(s)] + f[s \ {Pick(s)}] /\ k[s] = h[Pick(s)] + k[s \ {Pick(s)}]
      BY <2>1 DEF Adds
    <3> QED BY <3>3, <3>4
  <2>2. CASE s = {}
    BY <1>1, <2>2
  <2> QED BY <2>1, <2>2
<1>4. T = Nat
  <2>1. \A n \in T : n + 1 \in T
    BY <1>3
  <2> HIDE DEF T
  <2> QED BY <1>2, <2>1, NatInd DEF T
<1> QED BY <1>0, <1>4

(* Adding up in another order makes no difference. *)
LEMMA AnyOrder ==
  ASSUME NEW D, NEW g \in [D -> Int], NEW S \in SUBSET D, IsFiniteSet(S), NEW f, Adds(f, g, S)
  PROVE  \A s \in SUBSET S : \A x \in s : f[s] = g[x] + f[s \ {x}]
<1> DEFINE T == {n \in Nat : \A s \in SUBSET S : Cardinality(s) <= n => \A x \in s : f[s] = g[x] + f[s \ {x}]}
<1>0. \A s \in SUBSET S : IsFiniteSet(s) /\ Cardinality(s) \in Nat
  BY FS_Subset, FS_CardinalityType
<1>a. \A s \in SUBSET S : f[s] \in Int /\ \A x \in s : g[x] \in Int
  BY DEF Adds
<1>1. 0 \in T
  <2>1. \A s \in SUBSET S : Cardinality(s) <= 0 => s = {}
    BY <1>0, FS_EmptySet
  <2> QED BY <2>1
<1>2. ASSUME NEW n \in T, NEW s \in SUBSET S, Cardinality(s) <= n + 1, NEW x \in s PROVE f[s] = g[x] + f[s \ {x}]
  <2> DEFINE c == Pick(s)
  <2>1. c \in s /\ f[s] = g[c] + f[s \ {c}]
    BY Picked DEF Adds
  <2>2. CASE x = c
    BY <2>1, <2>2
  <2>3. CASE x # c
    <3>1. Cardinality(s \ {c}) <= n /\ Cardinality(s \ {x}) <= n
      BY <1>0, <1>2, <2>1, FS_RemoveElement
    <3> DEFINE r == (s \ {c}) \ {x}
    <3>2. r = (s \ {x}) \ {c}
      OBVIOUS
    <3>3. f[s \ {c}] = g[x] + f[r]
      BY <2>3, <3>1
    <3>4. f[s \ {x}] = g[c] + f[(s \ {x}) \ {c}]
      BY <2>1, <2>3, <3>1
    <3>5. f[r] \in Int /\ g[x] \in Int /\ g[c] \in Int
      BY <1>a, <2>1
    <3> HIDE DEF c, r
    <3> QED BY <2>1, <3>2, <3>3, <3>4, <3>5
  <2> QED BY <2>2, <2>3
<1>3. T = Nat
  <2>1. \A n \in T : n + 1 \in T
    BY <1>2
  <2> HIDE DEF T
  <2> QED BY <1>1, <2>1, NatInd DEF T
<1> SUFFICES ASSUME NEW s \in SUBSET S, NEW x \in s PROVE f[s] = g[x] + f[s \ {x}]
  OBVIOUS
<1>4. Cardinality(s) \in T /\ Cardinality(s) <= Cardinality(s)
  BY <1>0, <1>3
<1> QED BY <1>4

-----------------------------------------------------------------------------
(* What a sum of a function's values over a finite set is. *)

LEMMA SumIsInt ==
  ASSUME NEW D, NEW g \in [D -> Int], NEW S \in SUBSET D, IsFiniteSet(S)
  PROVE  SumFunctionOnSet(g, S) \in Int
<1>1. Adds(Iter(g, S), g, S)
  BY IterAdds
<1>2. Iter(g, S)[S] \in Int
  BY <1>1 DEF Adds
<1> QED BY <1>2, Unfolded

LEMMA SumOfNone == ASSUME NEW D, NEW g \in [D -> Int] PROVE SumFunctionOnSet(g, {}) = 0
<1>1. Adds(Iter(g, {}), g, {})
  BY IterAdds, FS_EmptySet
<1>2. Iter(g, {})[{}] = 0
  BY <1>1 DEF Adds
<1> QED BY <1>2, Unfolded

(* Only the terms count. *)
LEMMA SumAgrees ==
  ASSUME NEW D, NEW g \in [D -> Int], NEW E, NEW h \in [E -> Int], NEW S \in SUBSET D, S \subseteq E, IsFiniteSet(S),
         \A x \in S : g[x] = h[x]
  PROVE  SumFunctionOnSet(g, S) = SumFunctionOnSet(h, S)
<1>1. Adds(Iter(g, S), g, S) /\ Adds(Iter(h, S), h, S)
  BY IterAdds
<1>2. \A s \in SUBSET (S \cap S) : Iter(g, S)[s] = Iter(h, S)[s]
  BY <1>1, AddsAgree
<1> QED BY <1>2, Unfolded

(* One term is set apart. *)
LEMMA SumWithout ==
  ASSUME NEW D, NEW g \in [D -> Int], NEW S \in SUBSET D, IsFiniteSet(S), NEW x \in S
  PROVE  SumFunctionOnSet(g, S) = g[x] + SumFunctionOnSet(g, S \ {x})
<1>0. IsFiniteSet(S \ {x})
  BY FS_RemoveElement
<1>1. Adds(Iter(g, S), g, S) /\ Adds(Iter(g, S \ {x}), g, S \ {x})
  BY <1>0, IterAdds
<1>2. \A s \in SUBSET (S \cap (S \ {x})) : Iter(g, S)[s] = Iter(g, S \ {x})[s]
  BY <1>1, AddsAgree
<1>3. Iter(g, S)[S] = g[x] + Iter(g, S)[S \ {x}]
  BY <1>1, AnyOrder
<1> QED BY <1>2, <1>3, Unfolded

(* No debts, no debt. *)
LEMMA SumIsNat ==
  ASSUME NEW D, NEW g \in [D -> Int], NEW S \in SUBSET D, IsFiniteSet(S), \A x \in S : g[x] >= 0
  PROVE  SumFunctionOnSet(g, S) >= 0
<1> DEFINE T == {n \in Nat : \A s \in SUBSET S : Cardinality(s) <= n => SumFunctionOnSet(g, s) >= 0}
<1>0. \A s \in SUBSET S : IsFiniteSet(s) /\ Cardinality(s) \in Nat
  BY FS_Subset, FS_CardinalityType
<1>1. 0 \in T
  <2>1. \A s \in SUBSET S : Cardinality(s) <= 0 => s = {}
    BY <1>0, FS_EmptySet
  <2> QED BY <2>1, SumOfNone
<1>2. ASSUME NEW n \in T, NEW s \in SUBSET S, Cardinality(s) <= n + 1 PROVE SumFunctionOnSet(g, s) >= 0
  <2>1. CASE s # {}
    <3>1. Pick(s) \in s
      BY <2>1, Picked
    <3>2. Cardinality(s \ {Pick(s)}) <= n
      BY <1>0, <1>2, <3>1, FS_RemoveElement
    <3>3. SumFunctionOnSet(g, s \ {Pick(s)}) >= 0 /\ SumFunctionOnSet(g, s \ {Pick(s)}) \in Int
      BY <1>0, <3>2, SumIsInt
    <3>4. g[Pick(s)] \in Int /\ g[Pick(s)] >= 0
      BY <3>1
    <3>5. SumFunctionOnSet(g, s) = g[Pick(s)] + SumFunctionOnSet(g, s \ {Pick(s)})
      BY <1>0, <3>1, SumWithout
    <3> QED BY <3>3, <3>4, <3>5
  <2>2. CASE s = {}
    BY <2>2, SumOfNone
  <2> QED BY <2>1, <2>2
<1>3. T = Nat
  <2>1. \A n \in T : n + 1 \in T
    BY <1>2
  <2> HIDE DEF T
  <2> QED BY <1>1, <2>1, NatInd DEF T
<1> QED BY <1>0, <1>3

(* The terms can be compared one by one. *)
LEMMA SumGrows ==
  ASSUME NEW D, NEW g \in [D -> Int], NEW E, NEW h \in [E -> Int], NEW S \in SUBSET D, S \subseteq E, IsFiniteSet(S),
         \A x \in S : g[x] <= h[x]
  PROVE  SumFunctionOnSet(g, S) <= SumFunctionOnSet(h, S)
<1> DEFINE T == {n \in Nat : \A s \in SUBSET S :
                               Cardinality(s) <= n => SumFunctionOnSet(g, s) <= SumFunctionOnSet(h, s)}
<1>0. \A s \in SUBSET S : IsFiniteSet(s) /\ Cardinality(s) \in Nat /\ s \in SUBSET E
  BY FS_Subset, FS_CardinalityType
<1>1. 0 \in T
  <2>1. \A s \in SUBSET S : Cardinality(s) <= 0 => s = {}
    BY <1>0, FS_EmptySet
  <2>2. SumFunctionOnSet(g, {}) = 0 /\ SumFunctionOnSet(h, {}) = 0
    BY SumOfNone
  <2> QED BY <2>1, <2>2
<1>2. ASSUME NEW n \in T, NEW s \in SUBSET S, Cardinality(s) <= n + 1
      PROVE  SumFunctionOnSet(g, s) <= SumFunctionOnSet(h, s)
  <2>1. CASE s # {}
    <3>1. Pick(s) \in s
      BY <2>1, Picked
    <3>2. Cardinality(s \ {Pick(s)}) <= n
      BY <1>0, <1>2, <3>1, FS_RemoveElement
    <3>3. SumFunctionOnSet(g, s \ {Pick(s)}) <= SumFunctionOnSet(h, s \ {Pick(s)})
      BY <3>2
    <3>4. SumFunctionOnSet(g, s \ {Pick(s)}) \in Int /\ SumFunctionOnSet(h, s \ {Pick(s)}) \in Int
      BY <1>0, SumIsInt
    <3>5. g[Pick(s)] \in Int /\ h[Pick(s)] \in Int /\ g[Pick(s)] <= h[Pick(s)]
      BY <3>1
    <3>6. SumFunctionOnSet(g, s) = g[Pick(s)] + SumFunctionOnSet(g, s \ {Pick(s)})
      BY <1>0, <3>1, SumWithout
    <3>7. SumFunctionOnSet(h, s) = h[Pick(s)] + SumFunctionOnSet(h, s \ {Pick(s)})
      BY <1>0, <3>1, SumWithout
    <3> QED BY <3>3, <3>4, <3>5, <3>6, <3>7
  <2>2. CASE s = {}
    BY <2>2, SumOfNone
  <2> QED BY <2>1, <2>2
<1>3. T = Nat
  <2>1. \A n \in T : n + 1 \in T
    BY <1>2
  <2> HIDE DEF T
  <2> QED BY <1>1, <2>1, NatInd DEF T
<1>4. Cardinality(S) \in T /\ Cardinality(S) <= Cardinality(S)
  BY <1>0, <1>3
<1> QED BY <1>4

(* Fewer terms that are not negative come to no more. *)
LEMMA SumOfFewer ==
  ASSUME NEW D, NEW g \in [D -> Int], NEW S \in SUBSET D, IsFiniteSet(S), NEW U \in SUBSET S, \A x \in S : g[x] >= 0
  PROVE  SumFunctionOnSet(g, U) <= SumFunctionOnSet(g, S)
<1> DEFINE T == {n \in Nat : \A s \in SUBSET S :
                               Cardinality(s) <= n => SumFunctionOnSet(g, s \cap U) <= SumFunctionOnSet(g, s)}
<1>0. \A s \in SUBSET S : IsFiniteSet(s) /\ Cardinality(s) \in Nat /\ SumFunctionOnSet(g, s) \in Int
  BY FS_Subset, FS_CardinalityType, SumIsInt
<1>1. 0 \in T
  <2>1. \A s \in SUBSET S : Cardinality(s) <= 0 => s = {} /\ s \cap U = {}
    BY <1>0, FS_EmptySet
  <2>2. SumFunctionOnSet(g, {}) = 0
    BY SumOfNone
  <2> QED BY <2>1, <2>2
<1>2. ASSUME NEW n \in T, NEW s \in SUBSET S, Cardinality(s) <= n + 1
      PROVE  SumFunctionOnSet(g, s \cap U) <= SumFunctionOnSet(g, s)
  <2>1. CASE s # {}
    <3> DEFINE c == Pick(s)
               r == s \ {c}
    <3>1. c \in s /\ r \in SUBSET S /\ g[c] \in Int /\ g[c] >= 0
      BY <2>1, Picked
    <3>2. Cardinality(r) <= n
      BY <1>0, <1>2, <3>1, FS_RemoveElement
    <3>3. SumFunctionOnSet(g, r \cap U) <= SumFunctionOnSet(g, r)
      BY <3>1, <3>2
    <3>4. SumFunctionOnSet(g, s) = g[c] + SumFunctionOnSet(g, r)
      BY <1>0, <3>1, SumWithout
    <3>5. SumFunctionOnSet(g, r) \in Int /\ SumFunctionOnSet(g, r \cap U) \in Int
      BY <1>0, <3>1
    <3>6. CASE c \in U
      <4>0. c \in s \cap U /\ (s \cap U) \ {c} = r \cap U
        BY <3>1, <3>6
      <4> HIDE DEF c, r
      <4>1. IsFiniteSet(s \cap U) /\ s \cap U \in SUBSET D
        BY <1>0
      <4>2. SumFunctionOnSet(g, s \cap U) = g[c] + SumFunctionOnSet(g, (s \cap U) \ {c})
        BY <4>0, <4>1, SumWithout
      <4> QED BY <3>1, <3>3, <3>4, <3>5, <4>0, <4>2
    <3>7. CASE c \notin U
      <4>1. s \cap U = r \cap U
        BY <3>7
      <4> HIDE DEF c, r
      <4>2. SumFunctionOnSet(g, s \cap U) = SumFunctionOnSet(g, r \cap U)
        BY <4>1
      <4>3. SumFunctionOnSet(g, s) \in Int
        BY <1>0
      <4> HIDE DEF T
      <4> QED BY <3>1, <3>3, <3>4, <3>5, <4>2, <4>3
    <3> QED BY <3>6, <3>7
  <2>2. CASE s = {}
    <3>1. s \cap U = {}
      BY <2>2
    <3> QED BY <1>0, <2>2, <3>1
  <2> QED BY <2>1, <2>2
<1>3. T = Nat
  <2>1. \A n \in T : n + 1 \in T
    BY <1>2
  <2> HIDE DEF T
  <2> QED BY <1>1, <2>1, NatInd DEF T
<1>4. Cardinality(S) \in T /\ Cardinality(S) <= Cardinality(S) /\ S \cap U = U
  BY <1>0, <1>3
<1> QED BY <1>4

(* A term that is changed, added or taken away. *)
LEMMA SumWithChanged ==
  ASSUME NEW D, NEW g \in [D -> Int], NEW h \in [D -> Int], NEW S \in SUBSET D, IsFiniteSet(S), NEW x \in S,
         \A y \in S \ {x} : g[y] = h[y]
  PROVE  SumFunctionOnSet(h, S) = SumFunctionOnSet(g, S) - g[x] + h[x]
<1>0. IsFiniteSet(S \ {x})
  BY FS_RemoveElement
<1>1. SumFunctionOnSet(g, S) = g[x] + SumFunctionOnSet(g, S \ {x})
  BY SumWithout
<1>2. SumFunctionOnSet(h, S) = h[x] + SumFunctionOnSet(h, S \ {x})
  BY SumWithout
<1>3. SumFunctionOnSet(g, S \ {x}) = SumFunctionOnSet(h, S \ {x})
  BY <1>0, SumAgrees
<1>4. SumFunctionOnSet(g, S \ {x}) \in Int /\ g[x] \in Int /\ h[x] \in Int
  BY <1>0, SumIsInt
<1> QED BY <1>1, <1>2, <1>3, <1>4

LEMMA SumWithAdded ==
  ASSUME NEW D, NEW g \in [D -> Int], NEW S \in SUBSET D, IsFiniteSet(S), NEW x \in D, x \notin S
  PROVE  SumFunctionOnSet(g, S \cup {x}) = g[x] + SumFunctionOnSet(g, S)
<1>1. IsFiniteSet(S \cup {x}) /\ (S \cup {x}) \ {x} = S
  BY FS_AddElement
<1> QED BY <1>1, SumWithout

(* What is added up, and over what, differ in one place only. *)
LEMMA SumMoves ==
  ASSUME NEW D, IsFiniteSet(D), NEW g \in [D -> Int], NEW h \in [D -> Int], NEW S \in SUBSET D, NEW T \in SUBSET D,
         NEW x \in D, \A y \in D \ {x} : g[y] = h[y] /\ (y \in S <=> y \in T)
  PROVE  SumFunctionOnSet(h, T)
           = SumFunctionOnSet(g, S) - (IF x \in S THEN g[x] ELSE 0) + (IF x \in T THEN h[x] ELSE 0)
<1> DEFINE R == S \ {x}
<1>0. g[x] \in Int /\ h[x] \in Int
  OBVIOUS
<1>1. IsFiniteSet(S) /\ IsFiniteSet(T) /\ IsFiniteSet(R) /\ R \in SUBSET D /\ T \ {x} = R
  BY FS_Subset
<1>2. SumFunctionOnSet(g, S) = SumFunctionOnSet(g, R) + (IF x \in S THEN g[x] ELSE 0)
  <2>1. CASE x \in S
    <3>1. SumFunctionOnSet(g, S) = g[x] + SumFunctionOnSet(g, S \ {x})
      BY <1>1, <2>1, SumWithout
    <3>2. SumFunctionOnSet(g, R) \in Int
      BY <1>1, SumIsInt
    <3> QED BY <1>0, <2>1, <3>1, <3>2
  <2>2. CASE x \notin S
    <3>1. R = S
      BY <2>2
    <3>2. SumFunctionOnSet(g, S) \in Int
      BY <1>1, SumIsInt
    <3> HIDE DEF R
    <3> QED BY <2>2, <3>1, <3>2
  <2> QED BY <2>1, <2>2
<1>3. SumFunctionOnSet(h, T) = SumFunctionOnSet(h, R) + (IF x \in T THEN h[x] ELSE 0)
  <2>1. CASE x \in T
    <3>1. SumFunctionOnSet(h, T) = h[x] + SumFunctionOnSet(h, T \ {x})
      BY <1>1, <2>1, SumWithout
    <3>2. SumFunctionOnSet(h, R) \in Int
      BY <1>1, SumIsInt
    <3>3. SumFunctionOnSet(h, T \ {x}) = SumFunctionOnSet(h, R)
      BY <1>1
    <3> HIDE DEF R
    <3> QED BY <1>0, <2>1, <3>1, <3>2, <3>3
  <2>2. CASE x \notin T
    <3>1. R = T
      BY <1>1, <2>2
    <3>2. SumFunctionOnSet(h, T) \in Int
      BY <1>1, SumIsInt
    <3> HIDE DEF R
    <3> QED BY <2>2, <3>1, <3>2
  <2> QED BY <2>1, <2>2
<1>4. SumFunctionOnSet(g, R) = SumFunctionOnSet(h, R)
  <2>1. \A y \in R : g[y] = h[y]
    OBVIOUS
  <2> QED BY <1>1, <2>1, SumAgrees
<1>5. SumFunctionOnSet(g, R) \in Int /\ g[x] \in Int /\ h[x] \in Int
  BY <1>1, SumIsInt
<1> HIDE DEF R
<1> QED BY <1>2, <1>3, <1>4, <1>5
=================================================================================
