---------------------------- MODULE SumTheorems ----------------------------
(***************************************************************************)
(* Facts about sums over finite sets, SumFunctionOnSet(f, S), on which the *)
(* proofs about Ledger and Policy rest: the money and the quantities that  *)
(* are added up there.  Induction is by a least counterexample: a number   *)
(* or a subset, from the well-founded orderings of the library.            *)
(***************************************************************************)
EXTENDS Functions, FiniteSetTheorems, TLAPS

(* The element that a sum takes next. *)
Pick(s) == CHOOSE x \in s : TRUE

Step(f, g, s) == IF s = {} THEN 0 ELSE f[Pick(s)] + g[s \ {Pick(s)}]

(* g has the sums over all subsets of S. *)
PartialSums(f, S, g) == g = [s \in SUBSET S |-> Step(f, g, s)]

-----------------------------------------------------------------------------
(* Three forms of induction. *)

LEMMA LeastNumber ==
    ASSUME NEW T \in SUBSET Nat, T # {}
    PROVE  \E n \in T : \A m \in T : n <= m
    <1>1. PICK n \in T : \A m \in T : <<m, n>> \notin OpToRel(<, Nat)
        BY NatLessThanWellFounded, WFMin, Zenon
    <1>2. \A m \in T : ~(m < n)
        BY <1>1 DEF OpToRel
    <1> QED  BY <1>2

LEMMA MinimalSubset ==
    ASSUME NEW S, IsFiniteSet(S), NEW T \in SUBSET SUBSET S, T # {}
    PROVE  \E m \in T : \A u \in SUBSET m : u \in T => u = m
    <1>1. T \subseteq FiniteSubsetsOf(S)
        BY FS_FiniteSubsetsOfFinite
    <1>2. PICK m \in T : \A u \in T : <<u, m>> \notin StrictSubsetOrdering(S)
        BY <1>1, FS_StrictSubsetOrderingWellFounded, WFMin, Zenon
    <1> QED  BY <1>2 DEF StrictSubsetOrdering

LEMMA SubsetInduction ==
    ASSUME NEW S, IsFiniteSet(S), NEW T, {} \in T,
           \A u \in SUBSET S : \A x \in S \ u : u \in T => u \cup {x} \in T
    PROVE  S \in T
    <1> DEFINE Bad == {s \in SUBSET S : s \notin T}
    <1> SUFFICES ASSUME Bad # {} PROVE FALSE
        BY DEF Bad
    <1>1. Bad \in SUBSET SUBSET S
        OBVIOUS
    <1>2. PICK m \in Bad : \A u \in SUBSET m : u \in Bad => u = m
        <2> HIDE DEF Bad
        <2> QED  BY <1>1, MinimalSubset
    <1>3. PICK x \in m : TRUE
        OBVIOUS
    <1>4. m \ {x} \in T /\ m \ {x} \in SUBSET S /\ x \in S \ (m \ {x})
        BY <1>2, <1>3
    <1>5. (m \ {x}) \cup {x} = m
        BY <1>3
    <1> QED  BY <1>4, <1>5

-----------------------------------------------------------------------------
(* A sum is well defined and follows its recursion.                        *)

(* By the size of the subsets. *)
LEMMA PartialSumsExist ==
    ASSUME NEW f, NEW S, IsFiniteSet(S)
    PROVE  \E g : PartialSums(f, S, g)
    <1> DEFINE Upto(n, g) == \A s \in SUBSET S : Cardinality(s) <= n => g[s] = Step(f, g, s)
    <1>0. \A s \in SUBSET S : IsFiniteSet(s) /\ Cardinality(s) \in Nat
        BY FS_Subset, FS_CardinalityType
    <1>1. ASSUME NEW n \in Nat, ~\E g : Upto(n, g) PROVE FALSE
        <2> DEFINE Bad == {k \in Nat : ~\E g : Upto(k, g)}
        <2>1. PICK k \in Bad : \A m \in Bad : k <= m
            BY <1>1, LeastNumber
        <2>2. k # 0
            <3> DEFINE g == [s \in {{}} |-> 0]
            <3>1. Upto(0, g)
                <4> SUFFICES ASSUME NEW s \in SUBSET S, Cardinality(s) <= 0
                             PROVE  g[s] = Step(f, g, s)
                    OBVIOUS
                <4>1. s = {}
                    BY <1>0, FS_EmptySet
                <4> QED  BY <4>1 DEF Step
            <3> HIDE DEF g
            <3> QED  BY <3>1
        <2>3. PICK g : Upto(k - 1, g)
            <3>1. k - 1 \in Nat /\ k - 1 \notin Bad
                BY <2>1, <2>2
            <3> QED  BY <3>1
        <2> DEFINE h == [s \in SUBSET S |-> IF Cardinality(s) <= k - 1 THEN g[s] ELSE Step(f, g, s)]
        <2>4. Upto(k, h)
            <3> SUFFICES ASSUME NEW s \in SUBSET S, Cardinality(s) <= k
                         PROVE  h[s] = Step(f, h, s)
                OBVIOUS
            <3>1. h[s] = Step(f, g, s)
                BY <2>3
            <3>2. CASE s = {}
                BY <3>1, <3>2 DEF Step
            <3>3. CASE s # {}
                <4> DEFINE r == s \ {Pick(s)}
                <4>1. Pick(s) \in s /\ r \in SUBSET S
                    BY <3>3 DEF Pick
                <4>2. Cardinality(r) = Cardinality(s) - 1
                    BY <4>1, <1>0, FS_RemoveElement
                <4>3. h[r] = g[r]
                    BY <4>1, <4>2, <1>0
                <4> QED  BY <3>1, <3>3, <4>3 DEF Step
            <3> QED  BY <3>2, <3>3
        <2> HIDE DEF h
        <2> QED  BY <2>1, <2>4
    <1>2. PICK g : Upto(Cardinality(S), g)
        BY <1>0, <1>1
    <1> DEFINE h == [s \in SUBSET S |-> g[s]]
    <1>3. \A s \in SUBSET S : h[s] = Step(f, h, s)
        <2> SUFFICES ASSUME NEW s \in SUBSET S PROVE h[s] = Step(f, h, s)
            OBVIOUS
        <2>1. Cardinality(s) <= Cardinality(S)
            BY FS_Subset
        <2>2. h[s] = Step(f, g, s)
            BY <1>2, <2>1
        <2>3. s # {} => s \ {Pick(s)} \in SUBSET S
            OBVIOUS
        <2> QED  BY <2>2, <2>3 DEF Step
    <1>4. h = [s \in SUBSET S |-> Step(f, h, s)]
        BY <1>3
    <1> QED  BY <1>4 DEF PartialSums

LEMMA SumIsPartial ==
    ASSUME NEW f, NEW S, IsFiniteSet(S)
    PROVE  \E g : PartialSums(f, S, g) /\ SumFunctionOnSet(f, S) = g[S]
    <1> DEFINE iter[s \in SUBSET S] == IF s = {} THEN 0 ELSE f[Pick(s)] + iter[s \ {Pick(s)}]
    <1>1. PartialSums(f, S, iter)
        <2> DEFINE P(h) == h = [s \in SUBSET S |-> IF s = {} THEN 0
                                                   ELSE f[Pick(s)] + h[s \ {Pick(s)}]]
        <2>1. PICK g : PartialSums(f, S, g)
            BY PartialSumsExist
        <2>2. P(g)
            BY <2>1 DEF PartialSums, Step
        <2>3. \E x : P(x)
            BY <2>2
        <2>4. iter = CHOOSE h : P(h)
            OBVIOUS
        <2>5. P(iter)
            BY <2>3, <2>4
        <2> QED  BY <2>5 DEF PartialSums, Step
    <1>2. SumFunctionOnSet(f, S) = iter[S]
        BY DEF SumFunctionOnSet, FoldFunctionOnSet, MapThenFoldSet, Pick
    <1> QED  BY <1>1, <1>2

LEMMA PartialSumsAgree ==
    ASSUME NEW f, NEW S, IsFiniteSet(S), NEW g, PartialSums(f, S, g),
           NEW R \in SUBSET S, NEW h, PartialSums(f, R, h)
    PROVE  \A s \in SUBSET R : g[s] = h[s]
    <1> DEFINE Bad == {s \in SUBSET R : g[s] # h[s]}
    <1> SUFFICES ASSUME Bad # {} PROVE FALSE
        OBVIOUS
    <1>1. PICK m \in Bad : \A u \in SUBSET m : u \in Bad => u = m
        <2>1. IsFiniteSet(R)
            BY FS_Subset
        <2>2. Bad \in SUBSET SUBSET R
            OBVIOUS
        <2> HIDE DEF Bad
        <2> QED  BY <2>1, <2>2, MinimalSubset
    <1>2. g[m] = Step(f, g, m) /\ h[m] = Step(f, h, m)
        BY DEF PartialSums
    <1>3. m # {} => g[m \ {Pick(m)}] = h[m \ {Pick(m)}]
        BY <1>1 DEF Pick
    <1> QED  BY <1>2, <1>3 DEF Step

LEMMA SumStep ==
    ASSUME NEW f, NEW S, IsFiniteSet(S)
    PROVE  SumFunctionOnSet(f, S) =
               IF S = {} THEN 0
               ELSE f[Pick(S)] + SumFunctionOnSet(f, S \ {Pick(S)})
    <1>1. PICK g : PartialSums(f, S, g) /\ SumFunctionOnSet(f, S) = g[S]
        BY SumIsPartial
    <1> DEFINE R == S \ {Pick(S)}
    <1>2. IsFiniteSet(R)
        BY FS_RemoveElement
    <1>3. PICK h : PartialSums(f, R, h) /\ SumFunctionOnSet(f, R) = h[R]
        BY <1>2, SumIsPartial
    <1>4. g[R] = h[R]
        BY <1>1, <1>3, PartialSumsAgree
    <1>5. g[S] = Step(f, g, S)
        BY <1>1 DEF PartialSums
    <1> QED  BY <1>1, <1>3, <1>4, <1>5 DEF Step

-----------------------------------------------------------------------------
(* What the proofs use.                                                    *)

LEMMA SumEmpty == \A f : SumFunctionOnSet(f, {}) = 0
    BY SumStep, FS_EmptySet

LEMMA SumType ==
    ASSUME NEW S, IsFiniteSet(S), NEW f, \A x \in S : f[x] \in Int
    PROVE  SumFunctionOnSet(f, S) \in Int
    <1> DEFINE Bad == {s \in SUBSET S : SumFunctionOnSet(f, s) \notin Int}
    <1> SUFFICES ASSUME Bad # {} PROVE FALSE
        BY DEF Bad
    <1>1. Bad \in SUBSET SUBSET S
        OBVIOUS
    <1>2. PICK m \in Bad : \A u \in SUBSET m : u \in Bad => u = m
        <2> HIDE DEF Bad
        <2> QED  BY <1>1, MinimalSubset
    <1>3. IsFiniteSet(m)
        BY FS_Subset
    <1>4. m # {}
        BY SumEmpty
    <1>5. Pick(m) \in m /\ m \ {Pick(m)} \notin Bad
        BY <1>2, <1>4 DEF Pick
    <1> QED  BY <1>3, <1>4, <1>5, SumStep

(* The order in which a sum is taken does not matter. *)
LEMMA SumTakesOut ==
    ASSUME NEW S, IsFiniteSet(S), NEW f, \A x \in S : f[x] \in Int
    PROVE  \A x \in S : SumFunctionOnSet(f, S) = f[x] + SumFunctionOnSet(f, S \ {x})
    <1> DEFINE Out(s, x) == SumFunctionOnSet(f, s) = f[x] + SumFunctionOnSet(f, s \ {x})
               Bad == {s \in SUBSET S : \E x \in s : ~Out(s, x)}
    <1> SUFFICES ASSUME Bad # {} PROVE FALSE
        OBVIOUS
    <1>1. Bad \in SUBSET SUBSET S
        OBVIOUS
    <1>2. PICK m \in Bad : \A u \in SUBSET m : u \in Bad => u = m
        <2> HIDE DEF Bad
        <2> QED  BY <1>1, MinimalSubset
    <1>3. PICK x \in m : ~Out(m, x)
        OBVIOUS
    <1>4. m # {} /\ m \in SUBSET S
        BY <1>3
    <1> DEFINE p == Pick(m)
    <1>5. p \in m
        BY <1>4 DEF Pick
    <1>6. SumFunctionOnSet(f, m) = f[p] + SumFunctionOnSet(f, m \ {p})
        BY <1>4, SumStep, FS_Subset
    <1>7. p # x
        BY <1>3, <1>6
    <1> DEFINE r == (m \ {p}) \ {x}
    <1>8. m \ {p} \notin Bad /\ m \ {x} \notin Bad
        <2> HIDE DEF Bad, p
        <2> QED  BY <1>2, <1>3, <1>5
    <1>9. Out(m \ {p}, x) /\ Out(m \ {x}, p)
        BY <1>3, <1>4, <1>5, <1>7, <1>8
    <1>10. (m \ {x}) \ {p} = r
        OBVIOUS
    <1>11. IsFiniteSet(r) /\ r \in SUBSET S
        BY <1>4, FS_Subset
    <1>12. SumFunctionOnSet(f, r) \in Int /\ f[p] \in Int /\ f[x] \in Int
        BY <1>3, <1>4, <1>5, <1>11, SumType
    <1>13. /\ SumFunctionOnSet(f, m \ {p}) = f[x] + SumFunctionOnSet(f, r)
           /\ SumFunctionOnSet(f, m \ {x}) = f[p] + SumFunctionOnSet(f, r)
        BY <1>9, <1>10
    <1>14. SumFunctionOnSet(f, m) # f[x] + SumFunctionOnSet(f, m \ {x})
        BY <1>3
    <1> HIDE DEF r, p, Bad
    <1> QED  BY <1>6, <1>12, <1>13, <1>14

LEMMA SumAdds ==
    ASSUME NEW S, IsFiniteSet(S), NEW c, c \notin S, NEW f, \A x \in S \cup {c} : f[x] \in Int
    PROVE  SumFunctionOnSet(f, S \cup {c}) = f[c] + SumFunctionOnSet(f, S)
    <1>1. IsFiniteSet(S \cup {c}) /\ (S \cup {c}) \ {c} = S
        BY FS_AddElement
    <1> QED  BY <1>1, SumTakesOut

LEMMA SumIsOfValues ==
    ASSUME NEW S, IsFiniteSet(S), NEW f, NEW g, \A x \in S : f[x] = g[x]
    PROVE  SumFunctionOnSet(f, S) = SumFunctionOnSet(g, S)
    <1> DEFINE Bad == {s \in SUBSET S : SumFunctionOnSet(f, s) # SumFunctionOnSet(g, s)}
    <1> SUFFICES ASSUME Bad # {} PROVE FALSE
        BY DEF Bad
    <1>1. Bad \in SUBSET SUBSET S
        OBVIOUS
    <1>2. PICK m \in Bad : \A u \in SUBSET m : u \in Bad => u = m
        <2> HIDE DEF Bad
        <2> QED  BY <1>1, MinimalSubset
    <1>3. IsFiniteSet(m)
        BY FS_Subset
    <1>4. m # {}
        BY SumEmpty
    <1>5. Pick(m) \in m /\ m \ {Pick(m)} \notin Bad
        BY <1>2, <1>4 DEF Pick
    <1> QED  BY <1>3, <1>4, <1>5, SumStep

-----------------------------------------------------------------------------
(* Sums of the same numbers, by induction over subsets.                    *)

LEMMA SumStepped ==
    ASSUME NEW S, IsFiniteSet(S), NEW f, \A x \in S : f[x] \in Int,
           NEW u \in SUBSET S, NEW x \in S \ u
    PROVE  /\ f[x] \in Int /\ SumFunctionOnSet(f, u) \in Int
           /\ SumFunctionOnSet(f, u \cup {x}) = f[x] + SumFunctionOnSet(f, u)
    <1>1. IsFiniteSet(u)
        BY FS_Subset
    <1> QED  BY <1>1, SumType, SumAdds

LEMMA SumLeq ==
    ASSUME NEW S, IsFiniteSet(S), NEW f, NEW g,
           \A x \in S : f[x] \in Int /\ g[x] \in Int /\ f[x] <= g[x]
    PROVE  SumFunctionOnSet(f, S) <= SumFunctionOnSet(g, S)
    <1> DEFINE T == {u \in SUBSET S : SumFunctionOnSet(f, u) <= SumFunctionOnSet(g, u)}
    <1>1. {} \in T
        BY SumEmpty
    <1>2. ASSUME NEW u \in SUBSET S, NEW x \in S \ u, u \in T
          PROVE  u \cup {x} \in T
        BY <1>2, SumStepped
    <1> HIDE DEF T
    <1>3. S \in T
        BY <1>1, <1>2, SubsetInduction
    <1> QED  BY <1>3 DEF T

LEMMA SumIsNatural ==
    ASSUME NEW S, IsFiniteSet(S), NEW f, \A x \in S : f[x] \in Nat
    PROVE  SumFunctionOnSet(f, S) \in Nat
    <1> DEFINE T == {u \in SUBSET S : SumFunctionOnSet(f, u) \in Nat}
    <1>1. {} \in T
        BY SumEmpty
    <1>2. ASSUME NEW u \in SUBSET S, NEW x \in S \ u, u \in T
          PROVE  u \cup {x} \in T
        BY <1>2, SumStepped
    <1> HIDE DEF T
    <1>3. S \in T
        BY <1>1, <1>2, SubsetInduction
    <1> QED  BY <1>3 DEF T

LEMMA SumPlus ==
    ASSUME NEW S, IsFiniteSet(S), NEW f, NEW g, NEW h,
           \A x \in S : f[x] \in Int /\ g[x] \in Int /\ h[x] = f[x] + g[x]
    PROVE  SumFunctionOnSet(h, S) = SumFunctionOnSet(f, S) + SumFunctionOnSet(g, S)
    <1> DEFINE T == {u \in SUBSET S : SumFunctionOnSet(h, u)
                                          = SumFunctionOnSet(f, u) + SumFunctionOnSet(g, u)}
    <1>1. {} \in T
        BY SumEmpty
    <1>2. ASSUME NEW u \in SUBSET S, NEW x \in S \ u, u \in T
          PROVE  u \cup {x} \in T
        <2>1. h[x] = f[x] + g[x] /\ \A y \in S : h[y] \in Int
            OBVIOUS
        <2> QED  BY <1>2, <2>1, SumStepped
    <1> HIDE DEF T
    <1>3. S \in T
        BY <1>1, <1>2, SubsetInduction
    <1> QED  BY <1>3 DEF T

LEMMA SumTimes ==
    ASSUME NEW S, IsFiniteSet(S), NEW f, NEW g, NEW k \in Int,
           \A x \in S : f[x] \in Int /\ g[x] = k * f[x]
    PROVE  SumFunctionOnSet(g, S) = k * SumFunctionOnSet(f, S)
    <1> DEFINE T == {u \in SUBSET S : SumFunctionOnSet(g, u) = k * SumFunctionOnSet(f, u)}
    <1>1. {} \in T
        BY SumEmpty
    <1>2. ASSUME NEW u \in SUBSET S, NEW x \in S \ u, u \in T
          PROVE  u \cup {x} \in T
        <2>1. g[x] = k * f[x] /\ \A y \in S : g[y] \in Int
            OBVIOUS
        <2>2. /\ SumFunctionOnSet(g, u \cup {x}) = k * f[x] + k * SumFunctionOnSet(f, u)
              /\ SumFunctionOnSet(f, u \cup {x}) = f[x] + SumFunctionOnSet(f, u)
              /\ f[x] \in Int /\ SumFunctionOnSet(f, u) \in Int
            BY <1>2, <2>1, SumStepped
        <2>3. \A a, b \in Int : k * a + k * b = k * (a + b)
            OBVIOUS
        <2> QED  BY <2>2, <2>3
    <1> HIDE DEF T
    <1>3. S \in T
        BY <1>1, <1>2, SubsetInduction
    <1> QED  BY <1>3 DEF T

LEMMA SumOfConstant ==
    ASSUME NEW S, IsFiniteSet(S), NEW k \in Int, NEW f, \A x \in S : f[x] = k
    PROVE  SumFunctionOnSet(f, S) = k * Cardinality(S)
    <1> DEFINE T == {u \in SUBSET S : SumFunctionOnSet(f, u) = k * Cardinality(u)}
    <1>1. {} \in T
        BY SumEmpty, FS_EmptySet
    <1>2. ASSUME NEW u \in SUBSET S, NEW x \in S \ u, u \in T
          PROVE  u \cup {x} \in T
        <2>1. IsFiniteSet(u)
            BY FS_Subset
        <2>2. Cardinality(u) \in Nat /\ Cardinality(u \cup {x}) = Cardinality(u) + 1
            BY <2>1, FS_CardinalityType, FS_AddElement
        <2>3. SumFunctionOnSet(f, u \cup {x}) = k + k * Cardinality(u)
            BY <1>2, SumStepped
        <2>4. \A n \in Nat : k + k * n = k * (n + 1)
            OBVIOUS
        <2> QED  BY <2>2, <2>3, <2>4
    <1> HIDE DEF T
    <1>3. S \in T
        BY <1>1, <1>2, SubsetInduction
    <1> QED  BY <1>3 DEF T

(* What is zero may be left out. *)
LEMMA SumOfSupport ==
    ASSUME NEW S, IsFiniteSet(S), NEW f, \A x \in S : f[x] \in Int,
           NEW R \in SUBSET S, \A x \in S \ R : f[x] = 0
    PROVE  SumFunctionOnSet(f, S) = SumFunctionOnSet(f, R)
    <1> DEFINE T == {u \in SUBSET S : SumFunctionOnSet(f, u) = SumFunctionOnSet(f, u \cap R)}
    <1>1. {} \in T
        <2>1. {} \cap R = {}
            OBVIOUS
        <2> QED  BY <2>1
    <1>2. ASSUME NEW u \in SUBSET S, NEW x \in S \ u, u \in T
          PROVE  u \cup {x} \in T
        <2>1. SumFunctionOnSet(f, u \cup {x}) = f[x] + SumFunctionOnSet(f, u)
              /\ SumFunctionOnSet(f, u) \in Int
            BY SumStepped
        <2>2. CASE x \in R
            <3>1. (u \cup {x}) \cap R = (u \cap R) \cup {x} /\ x \in S \ (u \cap R)
                BY <2>2
            <3>2. SumFunctionOnSet(f, (u \cap R) \cup {x}) = f[x] + SumFunctionOnSet(f, u \cap R)
                BY <3>1, SumStepped
            <3>3. SumFunctionOnSet(f, u \cup {x}) = SumFunctionOnSet(f, (u \cup {x}) \cap R)
                BY <1>2, <2>1, <3>1, <3>2
            <3> QED  BY <3>3
        <2>3. CASE x \notin R
            <3>1. (u \cup {x}) \cap R = u \cap R /\ f[x] = 0
                BY <2>3
            <3>2. SumFunctionOnSet(f, u \cup {x}) = SumFunctionOnSet(f, u)
                BY <2>1, <3>1
            <3> QED  BY <1>2, <3>1, <3>2
        <2> QED  BY <2>2, <2>3
    <1> HIDE DEF T
    <1>3. S \in T
        BY <1>1, <1>2, SubsetInduction
    <1>4. S \cap R = R
        OBVIOUS
    <1> QED  BY <1>3, <1>4 DEF T

(* The members of I of the kind s: a sum can be taken kind by kind. *)
OfKind(I, key, s) == {i \in I : key[i] = s}

LEMMA SumByKind ==
    ASSUME NEW I, IsFiniteSet(I), NEW S, IsFiniteSet(S), NEW key, \A i \in I : key[i] \in S,
           NEW f, \A i \in I : f[i] \in Int,
           NEW g, \A s \in S : g[s] = SumFunctionOnSet(f, OfKind(I, key, s))
    PROVE  SumFunctionOnSet(f, I) = SumFunctionOnSet(g, S)
    <1> DEFINE by(u) == [s \in S |-> SumFunctionOnSet(f, OfKind(u, key, s))]
               T == {u \in SUBSET I : SumFunctionOnSet(f, u) = SumFunctionOnSet(by(u), S)}
    <1>0. ASSUME NEW u \in SUBSET I
          PROVE  \A s \in S : by(u)[s] \in Int
        <2> TAKE s \in S
        <2>1. OfKind(u, key, s) \in SUBSET I
            BY DEF OfKind
        <2> QED  BY <2>1, FS_Subset, SumType
    <1>1. {} \in T
        <2>1. \A s \in S : by({})[s] = 0 * 0
            BY SumEmpty DEF OfKind
        <2>2. SumFunctionOnSet(by({}), S) = 0 * Cardinality(S)
            <3> HIDE DEF by
            <3> QED  BY <2>1, SumOfConstant
        <2> HIDE DEF by
        <2> QED  BY <2>2, SumEmpty, FS_CardinalityType
    <1>2. ASSUME NEW u \in SUBSET I, NEW i \in I \ u, u \in T
          PROVE  u \cup {i} \in T
        <2> DEFINE w == u \cup {i}
                   k == key[i]
                   R == S \ {k}
        <2>1. SumFunctionOnSet(f, w) = f[i] + SumFunctionOnSet(f, u) /\ f[i] \in Int
            BY SumStepped
        <2>2. \A s \in R : by(w)[s] = by(u)[s]
            <3>1. \A s \in R : OfKind(w, key, s) = OfKind(u, key, s)
                BY DEF OfKind
            <3> QED  BY <3>1
        <2>3. by(w)[k] = f[i] + by(u)[k] /\ k \in S
            <3>1. OfKind(w, key, k) = OfKind(u, key, k) \cup {i}
                BY DEF OfKind
            <3>2. OfKind(u, key, k) \in SUBSET I /\ i \in I \ OfKind(u, key, k)
                BY DEF OfKind
            <3>3. SumFunctionOnSet(f, OfKind(u, key, k) \cup {i})
                    = f[i] + SumFunctionOnSet(f, OfKind(u, key, k))
                BY <3>2, SumStepped
            <3> QED  BY <3>1, <3>3
        <2>4. \A s \in S : by(w)[s] \in Int /\ by(u)[s] \in Int
            BY <1>0
        <2> HIDE DEF by
        <2>5. IsFiniteSet(R)
            BY FS_Subset
        <2>6. /\ SumFunctionOnSet(by(w), S) = by(w)[k] + SumFunctionOnSet(by(w), R)
              /\ SumFunctionOnSet(by(u), S) = by(u)[k] + SumFunctionOnSet(by(u), R)
            BY <2>3, <2>4, SumTakesOut
        <2>7. SumFunctionOnSet(by(w), R) = SumFunctionOnSet(by(u), R)
            BY <2>2, <2>5, SumIsOfValues
        <2>8. SumFunctionOnSet(by(u), R) \in Int
            BY <2>4, <2>5, SumType
        <2>9. SumFunctionOnSet(f, u) = SumFunctionOnSet(by(u), S)
            BY <1>2
        <2>10. SumFunctionOnSet(f, w) = SumFunctionOnSet(by(w), S)
            <3> HIDE DEF w, k, R
            <3> QED  BY <2>1, <2>3, <2>4, <2>6, <2>7, <2>8, <2>9
        <2> QED  BY <2>10
    <1>3. I \in T
        <2> HIDE DEF T
        <2> QED  BY <1>1, <1>2, SubsetInduction
    <1>4. SumFunctionOnSet(by(I), S) = SumFunctionOnSet(g, S)
        <2>1. \A s \in S : by(I)[s] = g[s]
            OBVIOUS
        <2> HIDE DEF by
        <2> QED  BY <2>1, SumIsOfValues
    <1> QED  BY <1>3, <1>4
=============================================================================
