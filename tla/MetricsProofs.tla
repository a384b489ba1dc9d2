------------------------------ MODULE MetricsProofs ------------------------------
(***************************************************************************)
(* Lemmas about the operators of Metrics: the sums of SumFunction, which   *)
(* adds in an unspecified order, the windows, and the parity groups.       *)
(***************************************************************************)
EXTENDS Metrics, FiniteSetTheorems, WellFoundedInduction, TLAPS

-----------------------------------------------------------------------------
(* Induction, of sets instead of predicates *)

LEMMA NatSetInduction ==
    ASSUME NEW T \in SUBSET Nat, 0 \in T, \A n \in T : n + 1 \in T
    PROVE  T = Nat
<1>1. SUFFICES ASSUME Nat \ T # {} PROVE FALSE
  OBVIOUS
<1>2. PICK x \in Nat \ T : \A y \in Nat \ T : ~ (<< y, x >> \in OpToRel(<, Nat))
  BY <1>1, NatLessThanWellFounded, WFMin
<1>3. \A y \in Nat \ T : ~ (y < x)
  BY <1>2 DEF OpToRel
<1>4. x \in Nat /\ x \notin T
  OBVIOUS
<1>5. x - 1 \in Nat
  BY <1>4
<1>6. x - 1 \in T
  BY <1>3, <1>5
<1>. QED
  BY <1>4, <1>6

LEMMA SubsetInduction ==
    ASSUME NEW S, IsFiniteSet(S), NEW T \in SUBSET (SUBSET S), {} \in T,
           \A s \in SUBSET S : s # {} /\ (\A x \in s : s \ {x} \in T) => s \in T
    PROVE  T = SUBSET S
<1>. DEFINE U == (SUBSET S) \ T
<1>1. SUFFICES ASSUME U # {} PROVE FALSE
  OBVIOUS
<1>2. IsWellFoundedOn(StrictSubsetOrdering(S), SUBSET S)
  BY FS_StrictSubsetOrderingWellFounded, FS_FiniteSubsetsOfFinite
<1>3. PICK s \in U : \A t \in U : ~ (<< t, s >> \in StrictSubsetOrdering(S))
  <2>1. U \subseteq SUBSET S
    OBVIOUS
  <2>. HIDE DEF U
  <2>. QED
    BY <1>1, <1>2, <2>1, WFMin
<1>4. ASSUME NEW x \in s PROVE s \ {x} \in T
  <2>1. s \ {x} \in SUBSET S /\ s \in SUBSET S /\ s \ {x} \subseteq s /\ s \ {x} # s
    BY <1>4
  <2>2. << s \ {x}, s >> \in StrictSubsetOrdering(S)
    BY <2>1 DEF StrictSubsetOrdering
  <2>. QED
    BY <1>3, <2>1, <2>2
<1>. QED
  BY <1>3, <1>4

-----------------------------------------------------------------------------
(* Sums *)

\* The recursive function that SumFunction(F) applies to the domain of F.
PartSum(F) ==
    CHOOSE iter : iter = [s \in SUBSET DOMAIN F |->
        IF s = {} THEN 0
        ELSE LET x == CHOOSE x \in s : TRUE
             IN  F[x] + iter[s \ {x}]]

LEMMA SumIsPartSum == ASSUME NEW F PROVE SumFunction(F) = PartSum(F)[DOMAIN F]
  BY DEF SumFunction, SumFunctionOnSet, FoldFunctionOnSet, MapThenFoldSet, PartSum

\* The equation that defines it has a solution, for a finite domain.
LEMMA PartSumExists ==
    ASSUME NEW F, IsFiniteSet(DOMAIN F)
    PROVE  PartSum(F) = [s \in SUBSET DOMAIN F |->
             IF s = {} THEN 0
             ELSE LET x == CHOOSE x \in s : TRUE
                  IN  F[x] + PartSum(F)[s \ {x}]]
<1>. DEFINE S == DOMAIN F
            pick(s) == CHOOSE x \in s : TRUE
            Small(n) == {s \in SUBSET S : Cardinality(s) <= n}
            Body(g, D) == [s \in D |-> IF s = {} THEN 0 ELSE F[pick(s)] + g[s \ {pick(s)}]]
            T == {n \in Nat : \E g : g = Body(g, Small(n))}
<1>1. \A s \in SUBSET S : /\ IsFiniteSet(s) /\ Cardinality(s) \in Nat
                          /\ Cardinality(s) <= Cardinality(S)
                          /\ Cardinality(s) = 0 <=> s = {}
  BY FS_Subset, FS_CardinalityType, FS_EmptySet
<1>2. \A s \in SUBSET S : s # {} =>
         /\ pick(s) \in s /\ s \ {pick(s)} \in SUBSET S
         /\ Cardinality(s \ {pick(s)}) = Cardinality(s) - 1
  <2>1. \A s \in SUBSET S : s # {} => pick(s) \in s /\ s \ {pick(s)} \in SUBSET S
    OBVIOUS
  <2>. HIDE DEF pick
  <2>. QED
    BY <1>1, <2>1, FS_RemoveElement
<1>. HIDE DEF pick
<1>3. 0 \in T
  <2>1. \A s \in Small(0) : s = {}
    BY <1>1
  <2>2. [s \in Small(0) |-> 0] = Body([s \in Small(0) |-> 0], Small(0))
    BY <2>1
  <2>. QED
    BY <2>2
<1>4. ASSUME NEW n \in T PROVE n + 1 \in T
  <2>1. PICK g : g = Body(g, Small(n))
    BY <1>4
  <2>. DEFINE h == Body(g, Small(n + 1))
  <2>2. ASSUME NEW s \in Small(n + 1), s # {}
        PROVE  h[s \ {pick(s)}] = g[s \ {pick(s)}]
    <3>. DEFINE t == s \ {pick(s)}
    <3>1. t \in Small(n) /\ t \in Small(n + 1)
      BY <1>1, <1>2, <2>2
    <3>2. g[t] = IF t = {} THEN 0 ELSE F[pick(t)] + g[t \ {pick(t)}]
      BY <2>1, <3>1
    <3>3. h[t] = IF t = {} THEN 0 ELSE F[pick(t)] + g[t \ {pick(t)}]
      BY <3>1
    <3>. QED
      BY <3>2, <3>3
  <2>3. h = Body(h, Small(n + 1))
    <3>1. \A s \in Small(n + 1) :
             s # {} => F[pick(s)] + h[s \ {pick(s)}] = F[pick(s)] + g[s \ {pick(s)}]
      BY <2>2
    <3>. HIDE DEF Small
    <3>2. DOMAIN h = Small(n + 1)
      OBVIOUS
    <3>. QED
      BY <3>1
  <2>4. n \in Nat /\ n + 1 \in Nat
    BY <1>4
  <2>. HIDE DEF h, Body, Small
  <2>. QED
    BY <2>3, <2>4
<1>5. T = Nat
  <2>1. T \in SUBSET Nat
    OBVIOUS
  <2>. HIDE DEF T
  <2>. QED
    BY <1>3, <1>4, <2>1, NatSetInduction
<1>6. Cardinality(S) \in T
  BY <1>1, <1>5
<1>7. Small(Cardinality(S)) = SUBSET S
  BY <1>1
<1>8. \E g : g = Body(g, SUBSET S)
  BY <1>6, <1>7
<1>. QED
  BY <1>8 DEF PartSum, pick


\* The sums of the parts of a domain: any element may be added last, and each is
\* the sum of the function's restriction.
LEMMA PartSums ==
    ASSUME NEW F, IsFiniteSet(DOMAIN F), \A x \in DOMAIN F : F[x] \in Nat
    PROVE  /\ \A s \in SUBSET DOMAIN F : PartSum(F)[s] \in Nat
           /\ PartSum(F)[{}] = 0
           /\ \A s \in SUBSET DOMAIN F : \A x \in s :
                 PartSum(F)[s] = F[x] + PartSum(F)[s \ {x}]
<1>. DEFINE S == DOMAIN F
            pick(s) == CHOOSE x \in s : TRUE
            G == PartSum(F)
            T == {s \in SUBSET S : G[s] \in Nat}
            U == {s \in SUBSET S : \A x \in s : G[s] = F[x] + G[s \ {x}]}
<1>1. \A s \in SUBSET S : G[s] = IF s = {} THEN 0 ELSE F[pick(s)] + G[s \ {pick(s)}]
  BY PartSumExists
<1>2. \A s \in SUBSET S : s # {} => pick(s) \in s
  OBVIOUS
<1>. HIDE DEF pick, G
<1>3. G[{}] = 0 /\ {} \in T /\ {} \in U
  <2>1. {} \in SUBSET S
    OBVIOUS
  <2>2. G[{}] = 0
    BY <1>1, <2>1
  <2>. QED
    BY <2>1, <2>2
<1>4. T = SUBSET S
  <2>1. ASSUME NEW s \in SUBSET S, s # {}, \A x \in s : s \ {x} \in T
        PROVE  s \in T
    <3>1. pick(s) \in s /\ G[s] = F[pick(s)] + G[s \ {pick(s)}] /\ G[s \ {pick(s)}] \in Nat
      BY <1>1, <1>2, <2>1
    <3>2. F[pick(s)] \in Nat
      BY <3>1
    <3>. QED
      BY <3>1, <3>2
  <2>2. T \in SUBSET (SUBSET S)
    OBVIOUS
  <2>. HIDE DEF T
  <2>. QED
    BY <1>3, <2>1, <2>2, SubsetInduction
<1>5. U = SUBSET S
  <2>1. ASSUME NEW s \in SUBSET S, s # {}, \A x \in s : s \ {x} \in U
        PROVE  s \in U
    <3>. DEFINE p == pick(s)
    <3>1. p \in s /\ G[s] = F[p] + G[s \ {p}]
      BY <1>1, <1>2, <2>1
    <3>. HIDE DEF p
    <3>2. ASSUME NEW x \in s, x # p PROVE G[s] = F[x] + G[s \ {x}]
      <4>. DEFINE rest == (s \ {p}) \ {x}
      <4>1. /\ x \in s \ {p} /\ p \in s \ {x}
            /\ rest = (s \ {x}) \ {p} /\ rest \in SUBSET S
        BY <3>1, <3>2
      <4>2. G[s \ {p}] = F[x] + G[rest]
        BY <2>1, <3>1, <4>1
      <4>3. G[s \ {x}] = F[p] + G[rest]
        BY <2>1, <4>1
      <4>4. F[x] \in Nat /\ F[p] \in Nat /\ G[rest] \in Nat
        BY <1>4, <3>1, <4>1
      <4>. HIDE DEF rest
      <4>. QED
        BY <3>1, <4>2, <4>3, <4>4
    <3>. QED
      BY <3>1, <3>2
  <2>2. U \in SUBSET (SUBSET S)
    OBVIOUS
  <2>. HIDE DEF U
  <2>. QED
    BY <1>3, <2>1, <2>2, SubsetInduction
<1>. QED
  BY <1>3, <1>4, <1>5 DEF G

LEMMA PartSumIsSum ==
    ASSUME NEW F, IsFiniteSet(DOMAIN F), \A x \in DOMAIN F : F[x] \in Nat
    PROVE  \A s \in SUBSET DOMAIN F : SumFunction([x \in s |-> F[x]]) = PartSum(F)[s]
<1>. DEFINE S == DOMAIN F
            G == PartSum(F)
            Part(s) == [x \in s |-> F[x]]
<1>1. SUFFICES ASSUME NEW s \in SUBSET S
               PROVE  PartSum(Part(s))[s] = G[s]
  <2>1. \A s \in SUBSET S : DOMAIN Part(s) = s
    OBVIOUS
  <2>. HIDE DEF Part
  <2>2. \A s \in SUBSET S : SumFunction(Part(s)) = PartSum(Part(s))[s]
    BY <2>1, SumIsPartSum
  <2>3. \A s \in SUBSET S : PartSum(Part(s))[s] = G[s]
    BY <1>1
  <2>. QED
    BY <2>2, <2>3 DEF Part
<1>. DEFINE H == PartSum(Part(s))
            T == {t \in SUBSET s : H[t] = G[t]}
<1>2. /\ G[{}] = 0
      /\ \A t \in SUBSET s : \A x \in t : G[t] = F[x] + G[t \ {x}]
  BY PartSums
<1>3. IsFiniteSet(s)
  BY FS_Subset
<1>4. /\ H[{}] = 0
      /\ \A t \in SUBSET s : \A x \in t : H[t] = F[x] + H[t \ {x}]
  <2>1. DOMAIN Part(s) = s /\ \A x \in s : Part(s)[x] = F[x] /\ F[x] \in Nat
    OBVIOUS
  <2>. HIDE DEF Part
  <2>. QED
    BY <1>3, <2>1, PartSums
<1>. HIDE DEF G, H
<1>5. T = SUBSET s
  <2>1. {} \in T
    BY <1>2, <1>4
  <2>2. \A t \in SUBSET s : t # {} /\ (\A x \in t : t \ {x} \in T) => t \in T
    BY <1>2, <1>4
  <2>3. T \in SUBSET (SUBSET s)
    OBVIOUS
  <2>. HIDE DEF T
  <2>. QED
    BY <1>3, <2>1, <2>2, <2>3, SubsetInduction
<1>. QED
  BY <1>5 DEF H, G

\* G has the sums of F over the subsets of S.
IsSums(G, F, S) ==
    /\ \A s \in SUBSET S : G[s] \in Nat
    /\ G[{}] = 0
    /\ \A s \in SUBSET S : \A x \in s : G[s] = F[x] + G[s \ {x}]
    /\ \A s \in SUBSET S : SumFunction([x \in s |-> F[x]]) = G[s]
    /\ SumFunction(F) = G[S]

LEMMA SumOfParts ==
    ASSUME NEW S, IsFiniteSet(S), NEW F \in [S -> Nat]
    PROVE  IsSums(PartSum(F), F, S)
<1>. DEFINE H == PartSum(F)
<1>1. DOMAIN F = S /\ \A x \in S : F[x] \in Nat
  OBVIOUS
<1>2. SumFunction(F) = H[S]
  BY <1>1, SumIsPartSum
<1>3. /\ \A s \in SUBSET S : H[s] \in Nat
      /\ H[{}] = 0
      /\ \A s \in SUBSET S : \A x \in s : H[s] = F[x] + H[s \ {x}]
  BY <1>1, PartSums
<1>4. \A s \in SUBSET S : SumFunction([x \in s |-> F[x]]) = H[s]
  BY <1>1, PartSumIsSum
<1>. HIDE DEF H
<1>5. IsSums(H, F, S)
  BY <1>2, <1>3, <1>4 DEF IsSums
<1>. QED
  BY <1>5 DEF H

\* The order of summands does not matter.
LEMMA SumBijection ==
    ASSUME NEW S, IsFiniteSet(S), NEW T, IsFiniteSet(T),
           NEW F \in [S -> Nat], NEW b \in Bijection(T, S)
    PROVE  SumFunction(F) = SumFunction([t \in T |-> F[b[t]]])
<1>. DEFINE H == [t \in T |-> F[b[t]]]
            G == PartSum(F)
            K == PartSum(H)
            Image(t) == {b[x] : x \in t}
            U == {t \in SUBSET T : K[t] = G[Image(t)]}
<1>0. /\ b \in [T -> S] /\ \A t, u \in T : b[t] = b[u] => t = u
      /\ \A s \in S : \E t \in T : b[t] = s
  BY DEF Bijection, Injection, Surjection, IsInjective
<1>1. H \in [T -> Nat] /\ \A t \in T : H[t] = F[b[t]]
  BY <1>0
<1>. HIDE DEF H
<1>2. IsSums(G, F, S) /\ IsSums(K, H, T)
  BY <1>1, SumOfParts
<1>. HIDE DEF G, K
<1>3. {} \in U
  <2>1. Image({}) = {}
    OBVIOUS
  <2>. QED
    BY <1>2, <2>1 DEF IsSums
<1>4. ASSUME NEW t \in SUBSET T, t # {}, \A x \in t : t \ {x} \in U
      PROVE  t \in U
  <2>1. PICK x \in t : TRUE
    BY <1>4
  <2>. DEFINE image == Image(t)
              rest == Image(t \ {x})
  <2>2. image \ {b[x]} = rest /\ image \in SUBSET S /\ b[x] \in image
    BY <1>0, <2>1
  <2>3. K[t \ {x}] = G[rest]
    BY <1>4, <2>1
  <2>. HIDE DEF image, rest
  <2>4. G[image] = F[b[x]] + G[rest]
    BY <1>2, <2>2 DEF IsSums
  <2>5. K[t] = H[x] + K[t \ {x}]
    BY <1>2, <2>1 DEF IsSums
  <2>6. K[t] = G[image]
    BY <1>1, <2>1, <2>3, <2>4, <2>5
  <2>. QED
    BY <2>6 DEF image
<1>5. U = SUBSET T
  <2>1. U \in SUBSET (SUBSET T)
    OBVIOUS
  <2>2. \A t \in SUBSET T : t # {} /\ (\A x \in t : t \ {x} \in U) => t \in U
    BY <1>4
  <2>. HIDE DEF U
  <2>. QED
    BY <1>3, <2>1, <2>2, SubsetInduction
<1>6. Image(T) = S
  BY <1>0
<1>7. K[T] = G[Image(T)]
  BY <1>5
<1>8. SumFunction(F) = SumFunction(H)
  BY <1>2, <1>6, <1>7 DEF IsSums
<1>. QED
  BY <1>8 DEF H

\* Sums are linear.
LEMMA SumLinear ==
    ASSUME NEW S, IsFiniteSet(S), NEW c \in Nat, NEW F \in [S -> Nat], NEW H \in [S -> Nat]
    PROVE  SumFunction([x \in S |-> F[x] + c * H[x]]) = SumFunction(F) + c * SumFunction(H)
<1>. DEFINE K == [x \in S |-> F[x] + c * H[x]]
            FS == PartSum(F)
            HS == PartSum(H)
            KS == PartSum(K)
            U == {s \in SUBSET S : KS[s] = FS[s] + c * HS[s]}
<1>1. K \in [S -> Nat] /\ \A x \in S : K[x] = F[x] + c * H[x]
  <2>1. \A x \in S : F[x] + c * H[x] \in Nat
    <3>1. ASSUME NEW x \in S PROVE F[x] + c * H[x] \in Nat
      <4>1. F[x] \in Nat /\ H[x] \in Nat
        OBVIOUS
      <4>2. c * H[x] \in Nat
        BY <4>1
      <4>. QED
        BY <4>1, <4>2
    <3>. QED
      BY <3>1
  <2>. QED
    BY <2>1
<1>. HIDE DEF K
<1>2. IsSums(FS, F, S) /\ IsSums(HS, H, S) /\ IsSums(KS, K, S)
  BY <1>1, SumOfParts
<1>. HIDE DEF FS, HS, KS
<1>3. {} \in U
  BY <1>2 DEF IsSums
<1>4. ASSUME NEW s \in SUBSET S, s # {}, \A x \in s : s \ {x} \in U
      PROVE  s \in U
  <2>1. PICK x \in s : TRUE
    BY <1>4
  <2>. DEFINE rest == s \ {x}
  <2>2. KS[s] = K[x] + KS[rest] /\ FS[s] = F[x] + FS[rest] /\ HS[s] = H[x] + HS[rest]
    BY <1>2, <2>1 DEF IsSums
  <2>3. KS[rest] = FS[rest] + c * HS[rest] /\ K[x] = F[x] + c * H[x]
    BY <1>1, <1>4, <2>1
  <2>4. F[x] \in Nat /\ H[x] \in Nat /\ FS[rest] \in Nat /\ HS[rest] \in Nat
    BY <1>2, <2>1 DEF IsSums
  <2>. HIDE DEF rest
  <2>5. c * (H[x] + HS[rest]) = c * H[x] + c * HS[rest]
    BY <2>4
  <2>6. c * H[x] \in Nat /\ c * HS[rest] \in Nat
    BY <2>4
  <2>7. KS[s] = FS[s] + c * HS[s]
    BY <2>2, <2>3, <2>4, <2>5, <2>6
  <2>. QED
    BY <2>7
<1>5. U = SUBSET S
  <2>1. U \in SUBSET (SUBSET S)
    OBVIOUS
  <2>2. \A s \in SUBSET S : s # {} /\ (\A x \in s : s \ {x} \in U) => s \in U
    BY <1>4
  <2>. HIDE DEF U
  <2>. QED
    BY <1>3, <2>1, <2>2, SubsetInduction
<1>6. KS[S] = FS[S] + c * HS[S]
  BY <1>5
<1>7. SumFunction(K) = SumFunction(F) + c * SumFunction(H)
  BY <1>2, <1>6 DEF IsSums
<1>. QED
  BY <1>7 DEF K

\* The elements of P by their keys: those with a key in S, counted key by key.
LEMMA SumCounts ==
    ASSUME NEW S, IsFiniteSet(S), NEW P, IsFiniteSet(P), NEW key
    PROVE  SumFunction([f \in S |-> Cardinality({i \in P : key[i] = f})])
             = Cardinality({i \in P : key[i] \in S})
<1>. DEFINE One(f) == {i \in P : key[i] = f}
            F == [f \in S |-> Cardinality(One(f))]
            G == PartSum(F)
            Keyed(s) == {i \in P : key[i] \in s}
            U == {s \in SUBSET S : G[s] = Cardinality(Keyed(s))}
<1>0. \A f : One(f) \in SUBSET P
  OBVIOUS
<1>1. \A s : Keyed(s) \in SUBSET P
  OBVIOUS
<1>2. \A s : \A f \in s : /\ Keyed(s) = Keyed(s \ {f}) \cup One(f)
                          /\ Keyed(s \ {f}) \cap One(f) = {}
  OBVIOUS
<1>3. Keyed({}) = {}
  OBVIOUS
<1>. HIDE DEF One, Keyed
<1>4. \A f : IsFiniteSet(One(f)) /\ Cardinality(One(f)) \in Nat
  BY <1>0, FS_Subset, FS_CardinalityType
<1>5. \A s : IsFiniteSet(Keyed(s)) /\ Cardinality(Keyed(s)) \in Nat
  BY <1>1, FS_Subset, FS_CardinalityType
<1>6. \A s : \A f \in s : Cardinality(Keyed(s)) = Cardinality(Keyed(s \ {f})) + Cardinality(One(f))
  <2>1. ASSUME NEW s, NEW f \in s
        PROVE  Cardinality(Keyed(s)) = Cardinality(Keyed(s \ {f})) + Cardinality(One(f))
    <3>1. Cardinality(Keyed(s \ {f}) \cup One(f)) =
            Cardinality(Keyed(s \ {f})) + Cardinality(One(f))
              - Cardinality(Keyed(s \ {f}) \cap One(f))
      BY <1>4, <1>5, FS_Union
    <3>2. Keyed(s) = Keyed(s \ {f}) \cup One(f) /\ Keyed(s \ {f}) \cap One(f) = {}
      BY <1>2
    <3>3. Cardinality(Keyed(s)) = Cardinality(Keyed(s \ {f})) + Cardinality(One(f)) - 0
      BY <3>1, <3>2, FS_EmptySet
    <3>4. Cardinality(Keyed(s \ {f})) \in Nat /\ Cardinality(One(f)) \in Nat
      BY <1>4, <1>5
    <3>. QED
      BY <3>3, <3>4
  <2>. QED
    BY <2>1
<1>7. F \in [S -> Nat] /\ \A f \in S : F[f] = Cardinality(One(f))
  BY <1>4
<1>. HIDE DEF F
<1>8. IsSums(G, F, S)
  BY <1>7, SumOfParts
<1>. HIDE DEF G
<1>9. {} \in U
  BY <1>3, <1>8, FS_EmptySet DEF IsSums
<1>10. ASSUME NEW s \in SUBSET S, s # {}, \A f \in s : s \ {f} \in U
       PROVE  s \in U
  <2>1. PICK f \in s : TRUE
    BY <1>10
  <2>2. G[s] = F[f] + G[s \ {f}]
    BY <1>8, <2>1 DEF IsSums
  <2>3. G[s \ {f}] = Cardinality(Keyed(s \ {f}))
    BY <1>10, <2>1
  <2>4. Cardinality(Keyed(s)) = Cardinality(Keyed(s \ {f})) + Cardinality(One(f))
    BY <1>6, <2>1
  <2>5. F[f] = Cardinality(One(f)) /\ F[f] \in Nat /\ Cardinality(Keyed(s \ {f})) \in Nat
    BY <1>4, <1>5, <1>7, <2>1
  <2>6. G[s] = Cardinality(Keyed(s))
    BY <2>2, <2>3, <2>4, <2>5
  <2>. QED
    BY <2>6
<1>11. U = SUBSET S
  <2>1. U \in SUBSET (SUBSET S)
    OBVIOUS
  <2>2. \A s \in SUBSET S : s # {} /\ (\A f \in s : s \ {f} \in U) => s \in U
    BY <1>10
  <2>. HIDE DEF U
  <2>. QED
    BY <1>9, <2>1, <2>2, SubsetInduction
<1>12. G[S] = Cardinality(Keyed(S))
  BY <1>11
<1>13. SumFunction(F) = Cardinality(Keyed(S))
  BY <1>8, <1>12 DEF IsSums
<1>. QED
  BY <1>13 DEF F, Keyed, One

\* A sum over two parts of its domain.
LEMMA SumDisjoint ==
    ASSUME NEW S, IsFiniteSet(S), NEW F \in [S -> Nat], NEW G, IsSums(G, F, S),
           NEW a \in SUBSET S, NEW b \in SUBSET S, a \cap b = {}
    PROVE  G[a \cup b] = G[a] + G[b]
<1>. DEFINE U == {s \in SUBSET a : G[s \cup b] = G[s] + G[b]}
<1>0. \A s \in SUBSET S : G[s] \in Nat
  BY DEF IsSums
<1>1. {} \in U
  <2>1. {} \cup b = b /\ G[{}] = 0 /\ G[b] \in Nat
    BY <1>0 DEF IsSums
  <2>. QED
    BY <2>1
<1>2. ASSUME NEW s \in SUBSET a, s # {}, \A x \in s : s \ {x} \in U
      PROVE  s \in U
  <2>1. PICK x \in s : TRUE
    BY <1>2
  <2>. DEFINE both == s \cup b
              rest == s \ {x}
              other == rest \cup b
  <2>2. both \ {x} = other /\ both \in SUBSET S /\ x \in both /\ x \in S
        /\ rest \in SUBSET S /\ s \in SUBSET S
    BY <2>1
  <2>3. G[other] = G[rest] + G[b]
    BY <1>2, <2>1
  <2>. HIDE DEF both, rest, other
  <2>4. G[both] = F[x] + G[other]
    BY <2>2 DEF IsSums
  <2>5. G[s] = F[x] + G[rest]
    BY <2>1, <2>2 DEF IsSums, rest
  <2>6. G[both] = G[s] + G[b]
    BY <1>0, <2>2, <2>3, <2>4, <2>5
  <2>. QED
    BY <2>6 DEF both
<1>3. U = SUBSET a
  <2>1. U \in SUBSET (SUBSET a) /\ IsFiniteSet(a)
    BY FS_Subset
  <2>. HIDE DEF U
  <2>. QED
    BY <1>1, <1>2, <2>1, SubsetInduction
<1>. QED
  BY <1>3

\* A sum is between as many times the least and the greatest summand.
LEMMA SumBounds ==
    ASSUME NEW S, IsFiniteSet(S), NEW F \in [S -> Nat], NEW lo \in Int, NEW hi \in Int
    PROVE  /\ SumFunction(F) \in Nat /\ Cardinality(S) \in Nat
           /\ (\A x \in S : lo <= F[x]) => lo * Cardinality(S) <= SumFunction(F)
           /\ (\A x \in S : F[x] <= hi) => SumFunction(F) <= hi * Cardinality(S)
<1>. DEFINE G == PartSum(F)
            low == \A x \in S : lo <= F[x]
            high == \A x \in S : F[x] <= hi
            U == {s \in SUBSET S : /\ low => lo * Cardinality(s) <= G[s]
                                   /\ high => G[s] <= hi * Cardinality(s)}
<1>1. IsSums(G, F, S)
  BY SumOfParts
<1>. HIDE DEF G
<1>2. \A s \in SUBSET S : G[s] \in Nat /\ IsFiniteSet(s) /\ Cardinality(s) \in Nat
  BY <1>1, FS_Subset, FS_CardinalityType DEF IsSums
<1>3. {} \in U
  <2>1. Cardinality({}) = 0 /\ G[{}] = 0 /\ lo * 0 = 0 /\ hi * 0 = 0
    BY <1>1, FS_EmptySet DEF IsSums
  <2>. QED
    BY <2>1
<1>4. ASSUME NEW s \in SUBSET S, s # {}, \A x \in s : s \ {x} \in U
      PROVE  s \in U
  <2>1. PICK x \in s : TRUE
    BY <1>4
  <2>. DEFINE rest == s \ {x}
              n == Cardinality(rest)
  <2>2. /\ G[s] = F[x] + G[rest] /\ (low => lo * n <= G[rest]) /\ (high => G[rest] <= hi * n)
        /\ Cardinality(s) = n + 1 /\ n \in Nat /\ G[rest] \in Nat
    <3>1. rest \in SUBSET S /\ s \in SUBSET S
      OBVIOUS
    <3>2. Cardinality(rest) = Cardinality(s) - 1
      BY <1>2, <2>1, FS_RemoveElement
    <3>. QED
      BY <1>1, <1>2, <1>4, <2>1, <3>1, <3>2 DEF IsSums
  <2>. HIDE DEF rest, n
  <2>3. lo * (n + 1) = lo * n + lo /\ hi * (n + 1) = hi * n + hi
        /\ lo * n \in Int /\ hi * n \in Int
    BY <2>2
  <2>4. F[x] \in Nat /\ (low => lo <= F[x]) /\ (high => F[x] <= hi)
    BY <2>1
  <2>5. (low => lo * Cardinality(s) <= G[s]) /\ (high => G[s] <= hi * Cardinality(s))
    <3>. HIDE DEF low, high
    <3>. QED
      BY <2>2, <2>3, <2>4
  <2>. QED
    BY <2>5
<1>5. U = SUBSET S
  <2>1. U \in SUBSET (SUBSET S)
    OBVIOUS
  <2>. HIDE DEF U
  <2>. QED
    BY <1>3, <1>4, <2>1, SubsetInduction
<1>6. S \in U
  BY <1>5
<1>. QED
  BY <1>1, <1>2, <1>6 DEF IsSums

-----------------------------------------------------------------------------
(* Sets of numbers and of events *)

LEMMA Extremes ==
    ASSUME NEW S \in SUBSET Int, IsFiniteSet(S), S # {}
    PROVE  /\ Max(S) \in S /\ \A y \in S : y <= Max(S)
           /\ Min(S) \in S /\ \A y \in S : Min(S) <= y
<1>. DEFINE Both(s) == /\ \E x \in s : \A y \in s : x >= y
                       /\ \E x \in s : \A y \in s : x <= y
            U == {s \in SUBSET S : s # {} => Both(s)}
<1>1. ASSUME NEW s \in SUBSET S, s # {}, \A x \in s : s \ {x} \in U
      PROVE  s \in U
  <2>1. PICK z \in s : TRUE
    BY <1>1
  <2>2. z \in Int /\ s \subseteq Int
    BY <2>1
  <2>3. CASE s \ {z} = {}
    <3>1. \A y \in s : y = z
      BY <2>3
    <3>. QED
      BY <2>1, <2>2, <3>1
  <2>4. CASE s \ {z} # {}
    <3>1. PICK x \in s \ {z} : \A y \in s \ {z} : x >= y
      BY <1>1, <2>1, <2>4
    <3>2. PICK w \in s \ {z} : \A y \in s \ {z} : w <= y
      BY <1>1, <2>1, <2>4
    <3>3. \A y \in s : (IF x >= z THEN x ELSE z) >= y
      BY <2>2, <3>1
    <3>4. \A y \in s : (IF w <= z THEN w ELSE z) <= y
      BY <2>2, <3>2
    <3>. QED
      BY <2>1, <3>3, <3>4
  <2>. QED
    BY <2>3, <2>4
<1>2. U = SUBSET S
  <2>1. U \in SUBSET (SUBSET S) /\ {} \in U
    OBVIOUS
  <2>2. \A s \in SUBSET S : s # {} /\ (\A x \in s : s \ {x} \in U) => s \in U
    BY <1>1
  <2>. HIDE DEF U
  <2>. QED
    BY <2>1, <2>2, SubsetInduction
<1>3. Both(S)
  BY <1>2
<1>. QED
  BY <1>3 DEF Max, Min

LEMMA PairMin ==
    ASSUME NEW a \in Int, NEW b \in Int
    PROVE  Min({a, b}) \in {a, b} /\ Min({a, b}) <= a /\ Min({a, b}) <= b
<1>. DEFINE pair == {a, b}
<1>1. IsFiniteSet({a}) /\ pair = {a} \cup {b}
  BY FS_Singleton
<1>2. IsFiniteSet(pair) /\ pair \in SUBSET Int /\ pair # {}
  BY <1>1, FS_AddElement
<1>3. Min(pair) \in pair /\ \A y \in pair : Min(pair) <= y
  BY <1>2, Extremes
<1>. QED
  BY <1>3

\* Events that name different frames are as many as the frames they name.
LEMMA NamesCounted ==
    ASSUME NEW l, NEW P, IsFiniteSet(P), \A i, j \in P : l[i].fid = l[j].fid => i = j
    PROVE  LET names == {l[i].fid : i \in P}
           IN  /\ IsFiniteSet(names) /\ Cardinality(names) = Cardinality(P)
               /\ [i \in P |-> l[i].fid] \in Bijection(P, names)
<1>. DEFINE names == {l[i].fid : i \in P}
            b == [i \in P |-> l[i].fid]
<1>1. b \in Bijection(P, names)
  BY DEF Bijection, Injection, Surjection, IsInjective
<1>2. ExistsBijection(P, names)
  BY <1>1 DEF ExistsBijection
<1>. HIDE DEF b, names
<1>3. IsFiniteSet(names) /\ Cardinality(names) = Cardinality(P)
  BY <1>2, FS_Bijection
<1>. QED
  BY <1>1, <1>3 DEF b, names

\* The log's own window has all the frames sent.
LEMMA WindowCovers ==
    ASSUME NEW l, IsFiniteSet(Of("FRAME_SENT", l)), Of("FRAME_SENT", l) \subseteq Nat,
           \A i \in Of("FRAME_SENT", l) : l[i].ts \in Nat /\ l[i].interval \in Nat \ {0},
           \A i, j \in Of("FRAME_SENT", l) : i <= j => l[i].ts <= l[j].ts,
           NEW i \in Of("FRAME_SENT", l)
    PROVE  Window(l)[1] <= l[i].ts /\ l[i].ts < Window(l)[2]
<1>. DEFINE sent == Of("FRAME_SENT", l)
            b == [j \in sent |-> l[j].ts + l[j].interval]
            ends == {l[j].ts + l[j].interval : j \in sent}
<1>1. Min(sent) \in sent /\ Min(sent) <= i
  <2>1. sent \in SUBSET Int /\ sent # {}
    OBVIOUS
  <2>. HIDE DEF sent
  <2>. QED
    BY <2>1, Extremes DEF sent
<1>2. Max(ends) \in Int /\ \A y \in ends : y <= Max(ends)
  <2>1. b \in Surjection(sent, ends) /\ ends # {} /\ ends \in SUBSET Int
    BY DEF Surjection
  <2>. HIDE DEF b, sent, ends
  <2>2. IsFiniteSet(ends)
    BY <2>1, FS_Surjection DEF sent
  <2>. QED
    BY <2>1, <2>2, Extremes
<1>3. l[i].ts + l[i].interval \in ends /\ l[i].ts \in Nat /\ l[i].interval \in Nat \ {0}
  OBVIOUS
<1>4. l[Min(sent)].ts <= l[i].ts
  BY <1>1
<1>5. Window(l) = << l[Min(sent)].ts, Max(ends) >>
  BY DEF Window
<1>. HIDE DEF sent, ends
<1>6. l[i].ts + l[i].interval <= Max(ends)
  BY <1>2, <1>3
<1>. QED
  BY <1>2, <1>3, <1>4, <1>5, <1>6

-----------------------------------------------------------------------------
(* The payload equivalent to a capacity *)

\* A quotient rounded up is the least number of b's that hold a.
LEMMA Ceilings ==
    ASSUME NEW a \in Nat, NEW b \in Nat \ {0}
    PROVE  /\ Ceiling(a, b) \in Nat
           /\ \A n \in Nat : Ceiling(a, b) <= n <=> a <= b * n
<1>. DEFINE q == (a + b - 1) \div b
            r == (a + b - 1) % b
<1>1. q \in Nat /\ r \in 0..b - 1 /\ a + b - 1 = b * q + r
  OBVIOUS
<1>. HIDE DEF q, r
<1>2. ASSUME NEW n \in Nat, q <= n PROVE a <= b * n
  <2>1. b * q <= b * n /\ b * q \in Nat /\ b * n \in Nat
    BY <1>1, <1>2
  <2>. QED
    BY <1>1, <2>1
<1>3. ASSUME NEW n \in Nat, n < q PROVE b * n < a
  <2>1. n + 1 <= q
    BY <1>1, <1>3
  <2>2. b * (n + 1) <= b * q /\ b * (n + 1) = b * n + b
    BY <1>1, <2>1
  <2>3. b * q \in Nat /\ b * n \in Nat
    BY <1>1
  <2>. QED
    BY <1>1, <2>2, <2>3
<1>4. \A n \in Nat : b * n \in Nat
  OBVIOUS
<1>5. q \in Nat /\ \A n \in Nat : q <= n <=> a <= b * n
  BY <1>1, <1>2, <1>3, <1>4
<1>. QED
  BY <1>5 DEF Ceiling, q

\* More bytes in coarser units are no fewer; the same bytes in halves of the unit are as
\* many; and a sum is at most the sum of its parts.
LEMMA CeilingsMove ==
    ASSUME NEW a \in Nat, NEW c \in Nat, NEW b \in Nat \ {0}
    PROVE  /\ a <= c => Ceiling(a, b) <= Ceiling(c, b)
           /\ Ceiling(2 * a, 2 * b) = Ceiling(a, b)
           /\ Ceiling(a + c, b) <= Ceiling(a, b) + Ceiling(c, b)
<1>. DEFINE x == Ceiling(a, b)
            y == Ceiling(c, b)
            z == Ceiling(2 * a, 2 * b)
            w == Ceiling(a + c, b)
<1>1. /\ x \in Nat /\ \A n \in Nat : x <= n <=> a <= b * n
      /\ y \in Nat /\ \A n \in Nat : y <= n <=> c <= b * n
      /\ z \in Nat /\ \A n \in Nat : z <= n <=> 2 * a <= (2 * b) * n
      /\ w \in Nat /\ \A n \in Nat : w <= n <=> a + c <= b * n
  <2>1. 2 * a \in Nat /\ 2 * b \in Nat \ {0} /\ a + c \in Nat
    OBVIOUS
  <2>. QED
    BY <2>1, Ceilings
<1>. HIDE DEF x, y, z, w
<1>2. a <= c => x <= y
  <2>1. c <= b * y /\ b * y \in Nat
    BY <1>1
  <2>. QED
    BY <1>1, <2>1
<1>3. z = x
  <2>1. \A n \in Nat : (2 * b) * n = 2 * (b * n) /\ b * n \in Nat
    OBVIOUS
  <2>2. \A n \in Nat : z <= n <=> x <= n
    BY <1>1, <2>1
  <2>. QED
    BY <1>1, <2>2
<1>4. w <= x + y
  <2>1. a <= b * x /\ c <= b * y
    BY <1>1
  <2>2. b * (x + y) = b * x + b * y /\ b * x \in Nat /\ b * y \in Nat /\ x + y \in Nat
    BY <1>1
  <2>3. a + c <= b * (x + y)
    BY <2>1, <2>2
  <2>. QED
    BY <1>1, <2>2, <2>3
<1>. QED
  BY <1>2, <1>3, <1>4 DEF x, y, z, w

\* More payload costs no fewer bytes on the wire, and always more than itself.
LEMMA WireGrows ==
    /\ \A a, c \in Nat : a <= c => FrameWireBytes(a) <= FrameWireBytes(c)
    /\ \A a \in Nat : FrameWireBytes(a) \in Nat
    /\ \A a \in Nat \ {0} : FrameWireBytes(a) > a
<1>. DEFINE groups(n) == Cardinality(ParityGroups(n))
            probes == Probes * (Header + IpUdp)
<1>1. /\ Load \in Nat \ {0} /\ PacketBytes \in Nat /\ PacketBytes > Load
      /\ probes \in Nat
  <2>1. {Header, Load, FecK, IpUdp} \subseteq Nat \ {0} /\ Probes \in Nat
    BY WireFormat
  <2>2. Header + IpUdp \in Nat
    BY <2>1
  <2>3. Probes * (Header + IpUdp) \in Nat
    BY <2>1, <2>2
  <2>. QED
    BY <2>1, <2>3 DEF PacketBytes
<1>2. \A a \in Nat : Packets(a) = Ceiling(a, Load)
  BY DEF Packets, Ceiling
<1>3. \A a \in Nat : Packets(a) \in Nat /\ a <= Load * Packets(a)
  BY <1>1, <1>2, Ceilings
<1>4. \A a, c \in Nat : a <= c => Packets(a) <= Packets(c)
  BY <1>1, <1>2, CeilingsMove
<1>5. \A n, m \in Nat : n <= m => groups(n) <= groups(m) /\ groups(n) \in Nat
  <2>1. ASSUME NEW n \in Nat, NEW m \in Nat, n <= m
        PROVE  groups(n) <= groups(m) /\ groups(n) \in Nat
    <3>1. IsFiniteSet(ParityGroups(m))
      <4>1. ParityGroups(m) \in SUBSET (0..m - 1) /\ IsFiniteSet(0..m - 1)
        BY FS_Interval DEF ParityGroups
      <4>. QED
        BY <4>1, FS_Subset
    <3>2. ParityGroups(n) \in SUBSET ParityGroups(m)
      <4>1. ASSUME NEW i \in 0..n - 1, Min({FecK, n - i}) > 1
            PROVE  i \in 0..m - 1 /\ Min({FecK, m - i}) > 1
        <5>1. FecK \in Nat /\ n - i \in Int /\ m - i \in Int /\ n - i <= m - i
          BY WireFormat, <2>1
        <5>2. \A x \in Int : /\ Min({FecK, x}) \in {FecK, x}
                             /\ Min({FecK, x}) <= FecK /\ Min({FecK, x}) <= x
          BY <5>1, PairMin
        <5>. QED
          BY <2>1, <4>1, <5>1, <5>2
      <4>. QED
        BY <4>1 DEF ParityGroups
    <3>. QED
      BY <3>1, <3>2, FS_Subset, FS_CardinalityType
  <2>. QED
    BY <2>1
<1>6. \A a \in Nat : FrameWireBytes(a) = (Packets(a) + groups(Packets(a))) * PacketBytes + probes
  BY DEF FrameWireBytes
<1>. HIDE DEF groups, probes
<1>7. ASSUME NEW a \in Nat, NEW c \in Nat, a <= c
      PROVE  /\ FrameWireBytes(a) <= FrameWireBytes(c)
             /\ FrameWireBytes(a) \in Nat
  <2>. DEFINE x == Packets(a) + groups(Packets(a))
              y == Packets(c) + groups(Packets(c))
  <2>1. x \in Nat /\ y \in Nat /\ x <= y
    BY <1>3, <1>4, <1>5, <1>7
  <2>2. FrameWireBytes(a) = x * PacketBytes + probes /\ FrameWireBytes(c) = y * PacketBytes + probes
    BY <1>6
  <2>. HIDE DEF x, y
  <2>3. x * PacketBytes \in Nat /\ y * PacketBytes \in Nat /\ x * PacketBytes <= y * PacketBytes
    BY <1>1, <2>1
  <2>. QED
    BY <1>1, <2>2, <2>3
<1>8. ASSUME NEW a \in Nat \ {0} PROVE FrameWireBytes(a) > a
  <2>. DEFINE p == Packets(a)
              g == groups(Packets(a))
  <2>1. p \in Nat /\ a <= Load * p /\ g \in Nat
    BY <1>3, <1>5
  <2>2. FrameWireBytes(a) = (p + g) * PacketBytes + probes
    BY <1>6
  <2>. HIDE DEF p, g
  <2>3. p >= 1
    BY <1>1, <2>1
  <2>4. Load * p < PacketBytes * p /\ Load * p \in Nat /\ PacketBytes * p \in Nat
    BY <1>1, <2>1, <2>3
  <2>5. (p + g) * PacketBytes = PacketBytes * p + g * PacketBytes /\ g * PacketBytes \in Nat
    BY <1>1, <2>1
  <2>. QED
    BY <1>1, <2>1, <2>2, <2>4, <2>5
<1>9. \A a \in Nat : FrameWireBytes(a) \in Nat
  BY <1>7
<1>. QED
  BY <1>7, <1>8, <1>9

\* A halving of the bisection's range.
Halve(range, capacity) ==
    LET unit == 2 * range.unit
        mid == range.low + range.high
    IN  IF FitsIn(Ceiling(mid, unit), capacity)
        THEN [low |-> mid, high |-> 2 * range.high, unit |-> unit]
        ELSE [low |-> 2 * range.low, high |-> mid, unit |-> unit]

\* The bisection halves its range one time after the other.
LEMMA Halves ==
    ASSUME NEW capacity
    PROVE  \E f : /\ f[0] = [low |-> 0, high |-> capacity, unit |-> 1]
                  /\ \A i \in 1..Halvings : f[i] = Halve(f[i - 1], capacity)
                  /\ PayloadEquivalent(capacity) = f[Halvings]
<1>. DEFINE start == [low |-> 0, high |-> capacity, unit |-> 1]
            next1(r) == Halve(r, capacity)
            Ok(m) == \E f : f = [i \in 0..m |-> IF i = 0 THEN start ELSE next1(f[i - 1])]
            T == {m \in Nat : Ok(m)}
            halved == CHOOSE f : f = [i \in 0..Halvings |->
                         IF i = 0 THEN start ELSE next1(f[i - 1])]
<1>0. PayloadEquivalent(capacity) = halved[Halvings]
  BY DEF PayloadEquivalent, Halve
<1>. HIDE DEF start, next1
<1>1. Ok(0)
  <2>1. [i \in 0..0 |-> start] =
           [i \in 0..0 |-> IF i = 0 THEN start ELSE next1([j \in 0..0 |-> start][i - 1])]
    OBVIOUS
  <2>. QED
    BY <2>1
<1>2. ASSUME NEW m \in Nat, Ok(m)
      PROVE  Ok(m + 1)
  <2>1. PICK f : f = [i \in 0..m |-> IF i = 0 THEN start ELSE next1(f[i - 1])]
    BY <1>2
  <2>. DEFINE g == [i \in 0..m + 1 |-> IF i \in 0..m THEN f[i] ELSE next1(f[m])]
              h == [i \in 0..m + 1 |-> IF i = 0 THEN start ELSE next1(g[i - 1])]
  <2>2. \A i \in 0..m + 1 : g[i] = h[i]
    <3>1. /\ \A i \in 0..m + 1 : i # m + 1 => i \in 0..m
          /\ \A i \in 1..m + 1 : i - 1 \in 0..m
      OBVIOUS
    <3>. QED
      BY <2>1, <3>1
  <2>3. g = [i \in 0..m + 1 |-> g[i]] /\ h = [i \in 0..m + 1 |-> h[i]]
    OBVIOUS
  <2>. HIDE DEF g, h
  <2>4. g = h
    BY <2>2, <2>3
  <2>. QED
    BY <2>4 DEF h
<1>3. Halvings \in T
  <2>. HIDE DEF Ok
  <2>1. T \in SUBSET Nat /\ 0 \in T
    BY <1>1
  <2>2. \A m \in T : m + 1 \in T
    BY <1>2
  <2>. HIDE DEF T
  <2>. QED
    BY <2>1, <2>2, NatSetInduction, WireFormat
<1>4. halved = [i \in 0..Halvings |-> IF i = 0 THEN start ELSE next1(halved[i - 1])]
  BY <1>3
<1>. HIDE DEF halved
<1>5. halved[0] = start /\ \A i \in 1..Halvings : halved[i] = next1(halved[i - 1])
  <2>1. 0 \in 0..Halvings /\ \A i \in 1..Halvings : i \in 0..Halvings /\ i # 0
    BY WireFormat
  <2>. QED
    BY <1>4, <2>1
<1>. QED
  BY <1>0, <1>5 DEF start, next1

\* The range is always of the capacity's width in its unit, its low end fits and its high
\* end does not.
Bisects(r, capacity) ==
    /\ r.low \in Nat /\ r.unit \in Nat \ {0} /\ r.high = r.low + capacity
    /\ r.low = 0 \/ FitsIn(Ceiling(r.low, r.unit), capacity)
    /\ ~FitsIn(Ceiling(r.high, r.unit), capacity)

LEMMA BisectionHolds ==
    ASSUME NEW capacity \in Nat \ {0}
    PROVE  Bisects(PayloadEquivalent(capacity), capacity)
<1>1. PICK f : /\ f[0] = [low |-> 0, high |-> capacity, unit |-> 1]
               /\ \A i \in 1..Halvings : f[i] = Halve(f[i - 1], capacity)
               /\ PayloadEquivalent(capacity) = f[Halvings]
  BY Halves
<1>. DEFINE T == {i \in Nat : i <= Halvings => Bisects(f[i], capacity)}
<1>2. 0 \in T
  <2>1. Ceiling(capacity, 1) = capacity
    BY DEF Ceiling
  <2>2. ~FitsIn(capacity, capacity)
    BY WireGrows DEF FitsIn
  <2>. QED
    BY <1>1, <2>1, <2>2 DEF Bisects
<1>3. ASSUME NEW i \in T PROVE i + 1 \in T
  <2>1. SUFFICES ASSUME i + 1 <= Halvings PROVE Bisects(f[i + 1], capacity)
    BY <1>3
  <2>. DEFINE r == f[i]
              unit == 2 * r.unit
              mid == r.low + r.high
  <2>2. /\ r.low \in Nat /\ r.unit \in Nat \ {0} /\ r.high = r.low + capacity
        /\ r.low = 0 \/ FitsIn(Ceiling(r.low, r.unit), capacity)
        /\ ~FitsIn(Ceiling(r.high, r.unit), capacity)
    BY <1>3, <2>1, WireFormat DEF Bisects
  <2>3. f[i + 1] = Halve(r, capacity)
    <3>1. i + 1 \in 1..Halvings /\ (i + 1) - 1 = i
      BY <1>3, <2>1, WireFormat
    <3>. QED
      BY <1>1, <3>1
  <2>. HIDE DEF r
  <2>4. /\ Ceiling(2 * r.low, unit) = Ceiling(r.low, r.unit)
        /\ Ceiling(2 * r.high, unit) = Ceiling(r.high, r.unit)
    <3>1. r.high \in Nat
      BY <2>2
    <3>2. Ceiling(2 * r.low, 2 * r.unit) = Ceiling(r.low, r.unit)
      BY <2>2, CeilingsMove
    <3>3. Ceiling(2 * r.high, 2 * r.unit) = Ceiling(r.high, r.unit)
      BY <2>2, <3>1, CeilingsMove
    <3>. QED
      BY <3>2, <3>3
  <2>5. unit \in Nat \ {0} /\ mid \in Nat /\ 2 * r.low \in Nat
        /\ 2 * r.high = mid + capacity /\ mid = 2 * r.low + capacity
        /\ (2 * r.low = 0 <=> r.low = 0)
    BY <2>2
  <2>6. CASE FitsIn(Ceiling(mid, unit), capacity)
    <3>1. f[i + 1] = [low |-> mid, high |-> 2 * r.high, unit |-> unit]
      BY <2>3, <2>6 DEF Halve
    <3>. HIDE DEF mid, unit
    <3>. QED
      BY <2>2, <2>4, <2>5, <2>6, <3>1 DEF Bisects
  <2>7. CASE ~FitsIn(Ceiling(mid, unit), capacity)
    <3>1. f[i + 1] = [low |-> 2 * r.low, high |-> mid, unit |-> unit]
      BY <2>3, <2>7 DEF Halve
    <3>. DEFINE low == 2 * r.low
    <3>. HIDE DEF mid, unit, low
    <3>2. low \in Nat /\ mid = low + capacity /\ (low = 0 <=> r.low = 0)
          /\ Ceiling(low, unit) = Ceiling(r.low, r.unit)
      BY <2>4, <2>5 DEF low
    <3>3. f[i + 1] = [low |-> low, high |-> mid, unit |-> unit]
      BY <3>1 DEF low
    <3>. QED
      BY <2>2, <2>5, <2>7, <3>2, <3>3 DEF Bisects
  <2>. QED
    BY <2>6, <2>7
<1>4. T = Nat
  <2>1. T \in SUBSET Nat
    OBVIOUS
  <2>. HIDE DEF T
  <2>. QED
    BY <1>2, <1>3, <2>1, NatSetInduction
<1>. QED
  BY <1>1, <1>4, WireFormat

\* What the bisection finds fits, and what is more by its resolution does not.
LEMMA EquivalentFound ==
    ASSUME NEW capacity \in Nat \ {0}
    PROVE  LET found == PayloadEquivalent(capacity)
               payload == Ceiling(found.low, found.unit)
           IN  /\ payload = 0 \/ FrameWireBytes(payload) <= capacity
               /\ ~(FrameWireBytes(payload + Ceiling(capacity, found.unit)) <= capacity)
<1>. DEFINE found == PayloadEquivalent(capacity)
            payload == Ceiling(found.low, found.unit)
            more == Ceiling(capacity, found.unit)
            high == Ceiling(found.high, found.unit)
<1>1. /\ found.low \in Nat /\ found.unit \in Nat \ {0} /\ found.high = found.low + capacity
      /\ found.low = 0 \/ FrameWireBytes(payload) <= capacity
      /\ ~(FrameWireBytes(high) <= capacity)
  BY BisectionHolds DEF Bisects, FitsIn
<1>. HIDE DEF found
<1>2. payload \in Nat /\ more \in Nat /\ high \in Nat /\ high <= payload + more
  <2>1. capacity \in Nat /\ found.high \in Nat
    BY <1>1
  <2>2. payload \in Nat /\ more \in Nat /\ high \in Nat
    BY <1>1, <2>1, Ceilings
  <2>3. Ceiling(found.low + capacity, found.unit) <= payload + more
    BY <1>1, <2>1, CeilingsMove
  <2>. QED
    BY <1>1, <2>2, <2>3
<1>3. found.low = 0 => payload = 0
  <2>1. 0 <= found.unit * 0
    BY <1>1
  <2>2. found.low = 0 => payload <= 0
    BY <1>1, <2>1, Ceilings
  <2>. QED
    BY <1>2, <2>2
<1>. HIDE DEF payload, more, high
<1>4. /\ FrameWireBytes(high) \in Nat /\ FrameWireBytes(payload + more) \in Nat
      /\ FrameWireBytes(high) <= FrameWireBytes(payload + more)
  BY <1>2, WireGrows
<1>. QED
  BY <1>1, <1>3, <1>4 DEF found, payload, more

-----------------------------------------------------------------------------
(* The means of a series *)

\* A slide of the trailing window to the next point.
Slide(last, series, i, smooth) ==
    LET start == Min({j \in last.start..i : InTrail(series[j].time, series[i].time, smooth)})
        dropped == SumFunction([j \in last.start..start - 1 |-> series[j].value])
    IN  [start |-> start, total |-> last.total + series[i].value - dropped]

\* f gives the window kept at each point, and the means are those of these windows.
KeepsWindow(f, series, smooth) ==
    /\ f[0] = [start |-> 1, total |-> 0]
    /\ \A i \in 1..Len(series) : f[i] = Slide(f[i - 1], series, i, smooth)
    /\ Smoothed(series, smooth) =
         [i \in DOMAIN series |-> [sum |-> f[i].total, count |-> i - f[i].start + 1]]

\* The window slides from point to point.
LEMMA Slides ==
    ASSUME NEW series, Len(series) \in Nat, NEW smooth
    PROVE  \E f : KeepsWindow(f, series, smooth)
<1>. DEFINE n == Len(series)
            begin == [start |-> 1, total |-> 0]
            next1(r, i) == Slide(r, series, i, smooth)
            Ok(m) == \E f : f = [i \in 0..m |-> IF i = 0 THEN begin ELSE next1(f[i - 1], i)]
            T == {m \in Nat : Ok(m)}
            slid == CHOOSE f : f = [i \in 0..n |-> IF i = 0 THEN begin ELSE next1(f[i - 1], i)]
<1>0. Smoothed(series, smooth) =
        [i \in DOMAIN series |-> [sum |-> slid[i].total, count |-> i - slid[i].start + 1]]
  BY DEF Smoothed, Slide
<1>. HIDE DEF begin, next1, n
<1>1. Ok(0)
  <2>1. [i \in 0..0 |-> begin] =
           [i \in 0..0 |-> IF i = 0 THEN begin ELSE next1([j \in 0..0 |-> begin][i - 1], i)]
    OBVIOUS
  <2>. QED
    BY <2>1
<1>2. ASSUME NEW m \in Nat, Ok(m)
      PROVE  Ok(m + 1)
  <2>1. PICK f : f = [i \in 0..m |-> IF i = 0 THEN begin ELSE next1(f[i - 1], i)]
    BY <1>2
  <2>. DEFINE g == [i \in 0..m + 1 |-> IF i \in 0..m THEN f[i] ELSE next1(f[m], m + 1)]
              h == [i \in 0..m + 1 |-> IF i = 0 THEN begin ELSE next1(g[i - 1], i)]
  <2>2. \A i \in 0..m + 1 : g[i] = h[i]
    <3>1. /\ \A i \in 0..m + 1 : i # m + 1 => i \in 0..m
          /\ \A i \in 1..m + 1 : i - 1 \in 0..m
      OBVIOUS
    <3>. QED
      BY <2>1, <3>1
  <2>3. g = [i \in 0..m + 1 |-> g[i]] /\ h = [i \in 0..m + 1 |-> h[i]]
    OBVIOUS
  <2>. HIDE DEF g, h
  <2>4. g = h
    BY <2>2, <2>3
  <2>. QED
    BY <2>4 DEF h
<1>3. n \in T
  <2>. HIDE DEF Ok
  <2>1. T \in SUBSET Nat /\ 0 \in T
    BY <1>1
  <2>2. \A m \in T : m + 1 \in T
    BY <1>2
  <2>. HIDE DEF T
  <2>. QED
    BY <2>1, <2>2, NatSetInduction DEF n
<1>4. slid = [i \in 0..n |-> IF i = 0 THEN begin ELSE next1(slid[i - 1], i)]
  BY <1>3
<1>. HIDE DEF slid
<1>5. slid[0] = begin /\ \A i \in 1..n : slid[i] = next1(slid[i - 1], i)
  <2>1. 0 \in 0..n /\ \A i \in 1..n : i \in 0..n /\ i # 0
    BY DEF n
  <2>. QED
    BY <1>4, <2>1
<1>6. KeepsWindow(slid, series, smooth)
  BY <1>0, <1>5 DEF begin, next1, n, KeepsWindow
<1>. QED
  BY <1>6

\* A series: values at times that do not go back.
IsSeries(series) ==
    /\ Len(series) \in Nat /\ DOMAIN series = 1..Len(series)
    /\ \A i \in 1..Len(series) : series[i].time \in Int /\ series[i].value \in Nat
    /\ \A i, j \in 1..Len(series) : i <= j => series[i].time <= series[j].time

Trail(series, i, smooth) == {j \in 1..i : InTrail(series[j].time, series[i].time, smooth)}

\* The window kept from point to point is the trail of the point, and its total the sum.
LEMMA SmoothedMeans ==
    ASSUME NEW series, IsSeries(series), NEW smooth \in Nat \ {0}
    PROVE  Smoothed(series, smooth) =
             [i \in DOMAIN series |->
                [sum |-> SumFunction([j \in Trail(series, i, smooth) |-> series[j].value]),
                 count |-> Cardinality(Trail(series, i, smooth))]]
<1>a. PICK f : KeepsWindow(f, series, smooth)
  <2>1. Len(series) \in Nat
    BY DEF IsSeries
  <2>2. \E f : KeepsWindow(f, series, smooth)
    BY <2>1, Slides
  <2>. QED
    BY <2>2
<1>. DEFINE n == Len(series)
            F == [j \in 1..n |-> series[j].value]
            G == PartSum(F)
<1>0. /\ n \in Nat /\ DOMAIN series = 1..n
      /\ \A i \in 1..n : series[i].time \in Int /\ F[i] = series[i].value /\ F[i] \in Nat
      /\ \A i, j \in 1..n : i <= j => series[i].time <= series[j].time
  BY DEF IsSeries
<1>1. /\ f[0] = [start |-> 1, total |-> 0]
      /\ \A i \in 1..n : f[i] = Slide(f[i - 1], series, i, smooth)
      /\ Smoothed(series, smooth) =
           [i \in DOMAIN series |-> [sum |-> f[i].total, count |-> i - f[i].start + 1]]
  BY <1>a DEF KeepsWindow
<1>2. IsFiniteSet(1..n) /\ F \in [1..n -> Nat]
  <2>1. F \in [1..n -> Nat]
    BY <1>0
  <2>. HIDE DEF n, F
  <2>2. IsFiniteSet(1..n)
    BY <1>0, FS_Interval
  <2>. QED
    BY <2>1, <2>2
<1>3. \A s \in SUBSET (1..n) : [j \in s |-> F[j]] = [j \in s |-> series[j].value]
  OBVIOUS
<1>. HIDE DEF n, F
<1>4. IsSums(G, F, 1..n)
  BY <1>2, SumOfParts
<1>. HIDE DEF G
<1>5. \A s \in SUBSET (1..n) : SumFunction([j \in s |-> series[j].value]) = G[s] /\ G[s] \in Nat
  BY <1>3, <1>4 DEF IsSums
<1>. DEFINE Kept(i) == /\ f[i].start \in Nat \ {0} /\ f[i].start <= i + 1
                       /\ f[i].total = G[f[i].start..i]
                       /\ i > 0 => f[i].start..i = Trail(series, i, smooth) /\ f[i].start <= i
            T == {i \in Nat : i <= n => Kept(i)}
<1>6. 0 \in T
  <2>1. 1..0 = {} /\ G[{}] = 0
    BY <1>4 DEF IsSums
  <2>. QED
    BY <1>1, <2>1
<1>7. ASSUME NEW p \in T PROVE p + 1 \in T
  <2>1. SUFFICES ASSUME p + 1 <= n PROVE Kept(p + 1)
    BY <1>7
  <2>. DEFINE i == p + 1
              s == f[p].start
              near == {j \in s..i : InTrail(series[j].time, series[i].time, smooth)}
              start == Min(near)
  <2>2. /\ s \in Nat \ {0} /\ s <= i /\ f[p].total = G[s..p] /\ p \in Nat /\ i \in 1..n
        /\ p > 0 => s..p = Trail(series, p, smooth)
    BY <1>0, <1>7, <2>1
  <2>3. f[i] = [start |-> start,
                total |-> f[p].total + series[i].value
                            - SumFunction([j \in s..start - 1 |-> series[j].value])]
    <3>1. i - 1 = p
      BY <2>2
    <3>. QED
      BY <1>1, <2>2, <3>1 DEF Slide
  <2>4. i \in near /\ start \in near /\ \A j \in near : start <= j
    <3>1. i \in near
      BY <1>0, <2>2 DEF InTrail
    <3>2. near \in SUBSET (s..i) /\ IsFiniteSet(s..i) /\ s..i \in SUBSET Int
      <4>1. near \in SUBSET (s..i)
        OBVIOUS
      <4>2. s \in Int /\ i \in Int
        BY <2>2
      <4>. HIDE DEF near, s, i
      <4>3. IsFiniteSet(s..i)
        BY <4>2, FS_Interval
      <4>. QED
        BY <4>1, <4>2, <4>3
    <3>. HIDE DEF near
    <3>3. near \in SUBSET Int /\ IsFiniteSet(near) /\ near # {}
      BY <3>1, <3>2, FS_Subset
    <3>. QED
      BY <3>1, <3>3, Extremes
  <2>5. start \in s..i /\ InTrail(series[start].time, series[i].time, smooth)
        /\ \A j \in s..i : j < start => ~InTrail(series[j].time, series[i].time, smooth)
    <3>1. start \in s..i /\ InTrail(series[start].time, series[i].time, smooth)
      BY <2>4
    <3>2. ASSUME NEW j \in s..i, InTrail(series[j].time, series[i].time, smooth)
          PROVE  ~(j < start)
      <4>1. start <= j
        BY <2>4, <3>2
      <4>2. start \in Int /\ j \in Int
        BY <3>1
      <4>. HIDE DEF start
      <4>. QED
        BY <4>1, <4>2
    <3>. QED
      BY <3>1, <3>2
  <2>. HIDE DEF start, near
  <2>6. \A j \in 1..i : j < s => ~InTrail(series[j].time, series[i].time, smooth)
    <3>1. ASSUME NEW j \in 1..i, j < s
          PROVE  ~InTrail(series[j].time, series[i].time, smooth)
      <4>1. p > 0 /\ j \in 1..p /\ p \in 1..n /\ j \in 1..n /\ j \notin s..p
        BY <1>0, <2>2, <3>1
      <4>2. ~InTrail(series[j].time, series[p].time, smooth)
        BY <2>2, <4>1 DEF Trail
      <4>3. series[p].time <= series[i].time
        BY <1>0, <2>2, <4>1
      <4>. QED
        BY <1>0, <2>2, <4>1, <4>2, <4>3 DEF InTrail
    <3>. QED
      BY <3>1
  <2>7. \A j \in 1..i : j >= start => InTrail(series[j].time, series[i].time, smooth)
    <3>1. ASSUME NEW j \in 1..i, j >= start
          PROVE  InTrail(series[j].time, series[i].time, smooth)
      <4>1. start \in 1..n /\ j \in 1..n /\ series[start].time <= series[j].time
        BY <1>0, <2>2, <2>5, <3>1
      <4>. QED
        BY <1>0, <2>2, <2>5, <4>1 DEF InTrail
    <3>. QED
      BY <3>1
  <2>8. start..i = Trail(series, i, smooth)
    <3>1. \A j \in 1..i : InTrail(series[j].time, series[i].time, smooth) <=> j >= start
      <4>1. ASSUME NEW j \in 1..i, j < start
            PROVE  ~InTrail(series[j].time, series[i].time, smooth)
        <5>1. CASE j < s
          BY <2>6, <5>1
        <5>2. CASE j >= s
          BY <2>2, <2>5, <4>1, <5>2
        <5>. QED
          BY <2>2, <5>1, <5>2
      <4>2. \A j \in 1..i : j < start \/ j >= start
        BY <2>2, <2>5
      <4>3. \A j \in 1..i : ~(j < start /\ j >= start)
        BY <2>2, <2>5
      <4>. QED
        BY <2>7, <4>1, <4>2, <4>3
    <3>2. start..i = {j \in 1..i : j >= start}
      BY <2>2, <2>5
    <3>. QED
      BY <3>1, <3>2 DEF Trail
  <2>9. f[p].total + series[i].value - G[s..start - 1] = G[start..i]
    <3>. DEFINE all == s..i
                old == s..p
                gone == s..start - 1
                kept == start..i
    <3>1. /\ all \in SUBSET (1..n) /\ i \in all /\ all \ {i} = old
          /\ gone \in SUBSET (1..n) /\ kept \in SUBSET (1..n) /\ old \in SUBSET (1..n)
          /\ gone \cup kept = all /\ gone \cap kept = {}
      BY <1>0, <2>2, <2>5
    <3>. HIDE DEF all, old, gone, kept
    <3>2. G[all] = F[i] + G[old]
      BY <1>4, <3>1 DEF IsSums
    <3>3. G[gone \cup kept] = G[gone] + G[kept]
      <4>. DEFINE S == 1..n
      <4>1. IsFiniteSet(S) /\ F \in [S -> Nat] /\ IsSums(G, F, S)
            /\ gone \in SUBSET S /\ kept \in SUBSET S /\ gone \cap kept = {}
        BY <1>2, <1>4, <3>1
      <4>. HIDE DEF S
      <4>. QED
        BY <4>1, SumDisjoint
    <3>4. G[gone] \in Nat /\ G[kept] \in Nat /\ G[old] \in Nat /\ F[i] \in Nat
          /\ series[i].value = F[i]
      BY <1>0, <1>5, <2>2, <3>1
    <3>5. f[p].total = G[old]
      BY <2>2 DEF old
    <3>6. G[gone] + G[kept] = F[i] + G[old]
      BY <3>1, <3>2, <3>3
    <3>7. G[old] + F[i] - G[gone] = G[kept]
      BY <3>4, <3>6
    <3>. QED
      BY <3>4, <3>5, <3>7 DEF gone, kept
  <2>10. SumFunction([j \in s..start - 1 |-> series[j].value]) = G[s..start - 1]
    <3>1. s..start - 1 \in SUBSET (1..n)
      BY <1>0, <2>2, <2>5
    <3>. QED
      BY <1>5, <3>1
  <2>11. f[i].start = start /\ f[i].total = G[start..i]
    BY <2>3, <2>9, <2>10
  <2>12. start \in Nat \ {0} /\ start <= i /\ start <= i + 1
    BY <2>2, <2>5
  <2>. QED
    BY <2>8, <2>11, <2>12
<1>8. T = Nat
  <2>1. T \in SUBSET Nat
    OBVIOUS
  <2>. HIDE DEF T
  <2>. QED
    BY <1>6, <1>7, <2>1, NatSetInduction
<1>9. ASSUME NEW i \in 1..n
      PROVE  /\ f[i].total = SumFunction([j \in Trail(series, i, smooth) |-> series[j].value])
             /\ i - f[i].start + 1 = Cardinality(Trail(series, i, smooth))
  <2>1. /\ f[i].start \in Nat \ {0} /\ f[i].start <= i /\ f[i].total = G[f[i].start..i]
        /\ f[i].start..i = Trail(series, i, smooth) /\ i \in Nat
    BY <1>0, <1>8
  <2>2. Cardinality(f[i].start..i) = i - f[i].start + 1
    <3>. DEFINE s == f[i].start
    <3>1. s \in Int /\ i \in Int /\ s <= i
      BY <2>1
    <3>. HIDE DEF s
    <3>2. Cardinality(s..i) = i - s + 1
      BY <3>1, FS_Interval
    <3>. QED
      BY <3>2 DEF s
  <2>3. f[i].start..i \in SUBSET (1..n)
    BY <1>0, <2>1
  <2>. QED
    BY <1>5, <2>1, <2>2, <2>3
<1>. QED
  BY <1>0, <1>1, <1>9

\* The bounds of the rates in a point's trail bound its mean.
LEMMA TrailMean ==
    ASSUME NEW series, IsSeries(series), NEW smooth \in Nat \ {0}, NEW lo \in Int, NEW hi \in Int,
           NEW i \in 1..Len(series)
    PROVE  LET mean == Smoothed(series, smooth)[i]
               trail == Trail(series, i, smooth)
           IN  /\ mean.sum \in Nat /\ mean.count \in Nat \ {0}
               /\ (\A j \in trail : lo <= series[j].value) => lo * mean.count <= mean.sum
               /\ (\A j \in trail : series[j].value <= hi) => mean.sum <= hi * mean.count
<1>. DEFINE trail == Trail(series, i, smooth)
            F == [j \in trail |-> series[j].value]
<1>1. /\ DOMAIN series = 1..Len(series) /\ i \in Int /\ i \in 1..i
      /\ \A j \in 1..i : series[j].time \in Int /\ series[j].value \in Nat
  BY DEF IsSeries
<1>2. Smoothed(series, smooth)[i] = [sum |-> SumFunction(F), count |-> Cardinality(trail)]
  <2>1. Smoothed(series, smooth) =
          [m \in DOMAIN series |->
             [sum |-> SumFunction([j \in Trail(series, m, smooth) |-> series[j].value]),
              count |-> Cardinality(Trail(series, m, smooth))]]
    BY SmoothedMeans
  <2>. QED
    BY <1>1, <2>1
<1>3. trail \in SUBSET (1..i) /\ i \in trail
  BY <1>1 DEF Trail, InTrail
<1>. HIDE DEF trail
<1>4. IsFiniteSet(trail) /\ Cardinality(trail) # 0
  <2>1. IsFiniteSet(1..i)
    BY <1>1, FS_Interval
  <2>2. IsFiniteSet(trail)
    BY <1>3, <2>1, FS_Subset
  <2>. QED
    BY <1>3, <2>2, FS_EmptySet
<1>5. F \in [trail -> Nat] /\ \A j \in trail : F[j] = series[j].value
  BY <1>1, <1>3
<1>. HIDE DEF F
<1>6. /\ SumFunction(F) \in Nat /\ Cardinality(trail) \in Nat
      /\ (\A j \in trail : lo <= F[j]) => lo * Cardinality(trail) <= SumFunction(F)
      /\ (\A j \in trail : F[j] <= hi) => SumFunction(F) <= hi * Cardinality(trail)
  BY <1>4, <1>5, SumBounds
<1>. QED
  BY <1>2, <1>4, <1>5, <1>6 DEF trail

\* The band around a target, of its twentieth part, is that of whole rates from one that is
\* too low to one that is too high.
LEMMA Band ==
    ASSUME NEW target \in Nat, NEW rate \in Nat
    PROVE  LET slack == target \div 20
           IN  /\ slack \in Nat
               /\ 20 * (rate - target) > target <=> target + slack + 1 <= rate
               /\ 20 * (target - rate) > target <=> rate <= target - slack - 1
  OBVIOUS

\* Of a mean it holds likewise.
LEMMA MeanInBand ==
    ASSUME NEW target \in Nat, NEW mean, mean.sum \in Nat, mean.count \in Nat \ {0}
    PROVE  LET slack == target \div 20
           IN  /\ (target - slack) * mean.count <= mean.sum
                  /\ mean.sum <= (target + slack) * mean.count
                  => Within(mean, target, 20)
               /\ (target + slack + 1) * mean.count <= mean.sum => ~Within(mean, target, 20)
               /\ mean.sum <= (target - slack - 1) * mean.count => ~Within(mean, target, 20)
<1>. DEFINE slack == target \div 20
            sum == mean.sum
            count == mean.count
            base == target * count
            extra == slack * count
<1>1. slack \in Nat /\ 20 * slack <= target /\ target + 1 <= 20 * slack + 20
  OBVIOUS
<1>. HIDE DEF slack, sum, count
<1>2. sum \in Nat /\ count \in Nat \ {0}
  BY DEF sum, count
<1>3. /\ base \in Nat /\ extra \in Nat
      /\ (target - slack) * count = base - extra
      /\ (target + slack) * count = base + extra
      /\ (target + slack + 1) * count = base + extra + count
      /\ (target - slack - 1) * count = base - extra - count
  BY <1>1, <1>2
<1>4. 20 * extra <= base
  <2>1. (20 * slack) * count <= target * count
    BY <1>1, <1>2
  <2>2. (20 * slack) * count = 20 * extra
    BY <1>1, <1>2
  <2>. QED
    BY <2>1, <2>2
<1>5. base + count <= 20 * extra + 20 * count
  <2>1. (target + 1) * count <= (20 * slack + 20) * count
    BY <1>1, <1>2
  <2>2. /\ (target + 1) * count = base + count
        /\ (20 * slack + 20) * count = 20 * extra + 20 * count
    BY <1>1, <1>2
  <2>. QED
    BY <2>1, <2>2
<1>6. Within(mean, target, 20) <=> 20 * (sum - base) <= base /\ 20 * (base - sum) <= base
  BY DEF Within, sum, count
<1>. HIDE DEF base, extra
<1>7. /\ base - extra <= sum /\ sum <= base + extra => Within(mean, target, 20)
      /\ base + extra + count <= sum => ~Within(mean, target, 20)
      /\ sum <= base - extra - count => ~Within(mean, target, 20)
  BY <1>2, <1>3, <1>4, <1>5, <1>6
<1>8. /\ (target - slack) * count <= sum /\ sum <= (target + slack) * count => Within(mean, target, 20)
      /\ (target + slack + 1) * count <= sum => ~Within(mean, target, 20)
      /\ sum <= (target - slack - 1) * count => ~Within(mean, target, 20)
  BY <1>3, <1>7
<1>. QED
  BY <1>8 DEF slack, sum, count

\* A window of points that fits into the series is found if the rates it is smoothed from are
\* in the band, and is not if those of one of its points are all too high or all too low.
LEMMA WindowsFound ==
    ASSUME NEW series, IsSeries(series), NEW smooth \in Nat \ {0}, NEW target \in Nat,
           NEW end \in Int, \A j \in 1..Len(series) : 0 <= series[j].time,
           NEW i \in 1..Len(series), NEW window \in 1..Len(series)
    PROVE  LET last == i + window - 1
               found == i \in Converged(series, 0, target, 20, window, end, smooth)
               fits == last <= Len(series) /\ series[last].time < end
               TooHigh(rate) == 20 * (rate - target) > target
               TooLow(rate) == 20 * (target - rate) > target
           IN  /\ found => fits
               /\ found => \A m \in i..last :
                     /\ \E j \in Trail(series, m, smooth) : ~TooHigh(series[j].value)
                     /\ \E j \in Trail(series, m, smooth) : ~TooLow(series[j].value)
               /\ /\ fits
                  /\ \A m \in i..last : \A j \in Trail(series, m, smooth) :
                        ~TooHigh(series[j].value) /\ ~TooLow(series[j].value)
                  => found
<1>. DEFINE last == i + window - 1
            found == i \in Converged(series, 0, target, 20, window, end, smooth)
            fits == last <= Len(series) /\ series[last].time < end
            means == Smoothed(series, smooth)
            TooHigh(rate) == 20 * (rate - target) > target
            TooLow(rate) == 20 * (target - rate) > target
            slack == target \div 20
<1>1. /\ Len(series) \in Nat /\ DOMAIN series = 1..Len(series)
      /\ \A j \in 1..Len(series) : series[j].value \in Nat
  BY DEF IsSeries
<1>2. found <=> fits /\ \A m \in i..last : Within(means[m], target, 20)
  BY <1>1 DEF Converged, Fills
<1>3. last <= Len(series) => i..last \subseteq 1..Len(series)
  BY <1>1
<1>4. slack \in Nat
  OBVIOUS
<1>5. ASSUME NEW m \in 1..Len(series)
      PROVE  LET trail == Trail(series, m, smooth)
             IN  /\ (\A j \in trail : TooHigh(series[j].value)) => ~Within(means[m], target, 20)
                 /\ (\A j \in trail : TooLow(series[j].value)) => ~Within(means[m], target, 20)
                 /\ (\A j \in trail : ~TooHigh(series[j].value) /\ ~TooLow(series[j].value))
                    => Within(means[m], target, 20)
  <2>. DEFINE trail == Trail(series, m, smooth)
              mean == means[m]
  <2>1. \A j \in trail : series[j].value \in Nat
    BY <1>1 DEF Trail
  <2>. HIDE DEF trail, slack
  <2>2. \A j \in trail : /\ TooHigh(series[j].value) <=> target + slack + 1 <= series[j].value
                         /\ TooLow(series[j].value) <=> series[j].value <= target - slack - 1
    BY <2>1, Band DEF slack
  <2>. HIDE DEF TooHigh, TooLow, means
  <2>3. /\ mean.sum \in Nat /\ mean.count \in Nat \ {0}
        /\ (\A j \in trail : target - slack <= series[j].value) =>
              (target - slack) * mean.count <= mean.sum
        /\ (\A j \in trail : series[j].value <= target + slack) =>
              mean.sum <= (target + slack) * mean.count
        /\ (\A j \in trail : target + slack + 1 <= series[j].value) =>
              (target + slack + 1) * mean.count <= mean.sum
        /\ (\A j \in trail : series[j].value <= target - slack - 1) =>
              mean.sum <= (target - slack - 1) * mean.count
    <3>1. /\ target - slack \in Int /\ target + slack \in Int
          /\ target + slack + 1 \in Int /\ target - slack - 1 \in Int
      BY <1>4
    <3>. QED
      BY <3>1, TrailMean DEF means, trail
  <2>4. /\ (target - slack) * mean.count <= mean.sum
           /\ mean.sum <= (target + slack) * mean.count => Within(mean, target, 20)
        /\ (target + slack + 1) * mean.count <= mean.sum => ~Within(mean, target, 20)
        /\ mean.sum <= (target - slack - 1) * mean.count => ~Within(mean, target, 20)
    <3>. HIDE DEF mean
    <3>. QED
      BY <2>3, MeanInBand DEF slack
  <2>5. \A j \in trail :
          ~(target + slack + 1 <= series[j].value) /\ ~(series[j].value <= target - slack - 1)
          => target - slack <= series[j].value /\ series[j].value <= target + slack
    BY <1>4, <2>1
  <2>. QED
    BY <2>2, <2>3, <2>4, <2>5 DEF trail
<1>. HIDE DEF last, found, means, TooHigh, TooLow
<1>. QED
  BY <1>2, <1>3, <1>5 DEF last, found, TooHigh, TooLow

\* The places in order.
LEMMA NthInOrder ==
    ASSUME NEW places \in SUBSET Nat, IsFiniteSet(places)
    PROVE  /\ Cardinality(places) \in Nat
           /\ \A n \in 1..Cardinality(places) : Nth(places, n) \in places
           /\ \A n, m \in 1..Cardinality(places) : n <= m => Nth(places, n) <= Nth(places, m)
<1>. DEFINE N == Cardinality(places)
            upto(i) == {j \in places : j <= i}
            rank(i) == Cardinality(upto(i))
            rank1 == [i \in places |-> rank(i)]
<1>1. N \in Nat
  BY FS_CardinalityType
<1>2. ASSUME NEW i \in places
      PROVE  rank(i) \in 1..N /\ rank(i) \in Nat /\ IsFiniteSet(upto(i))
  <2>1. upto(i) \in SUBSET places /\ i \in upto(i)
    OBVIOUS
  <2>. HIDE DEF upto
  <2>2. IsFiniteSet(upto(i)) /\ rank(i) \in Nat /\ rank(i) <= N
    BY <2>1, FS_Subset, FS_CardinalityType
  <2>3. rank(i) # 0
    BY <2>1, <2>2, FS_EmptySet
  <2>. QED
    BY <1>1, <2>2, <2>3
<1>3. ASSUME NEW i \in places, NEW j \in places, i < j
      PROVE  rank(i) < rank(j)
  <2>1. upto(i) \in SUBSET upto(j) /\ j \in upto(j) /\ j \notin upto(i)
    <3>1. i \in Nat /\ j \in Nat /\ \A x \in places : x \in Nat
      OBVIOUS
    <3>2. \A x \in places : x <= i => x <= j
      BY <1>3, <3>1
    <3>3. ~(j <= i) /\ j <= j
      BY <1>3, <3>1
    <3>. QED
      BY <3>2, <3>3
  <2>2. IsFiniteSet(upto(j)) /\ rank(i) \in Nat /\ rank(j) \in Nat
    BY <1>1, <1>2
  <2>. HIDE DEF upto
  <2>3. upto(i) # upto(j)
    BY <2>1
  <2>. QED
    BY <2>1, <2>2, <2>3, FS_Subset
<1>. HIDE DEF rank, N
<1>4. \A i, j \in places : rank(i) = rank(j) => i = j
  <2>1. ASSUME NEW i \in places, NEW j \in places, rank(i) = rank(j), i # j PROVE FALSE
    <3>1. i < j \/ j < i
      BY <2>1
    <3>. HIDE DEF upto
    <3>2. rank(i) \in Nat /\ rank(j) \in Nat
      BY <1>2
    <3>. QED
      BY <1>3, <2>1, <3>1, <3>2
  <2>. QED
    BY <2>1
<1>5. rank1 \in Injection(places, 1..N)
  BY <1>2, <1>4 DEF Injection, IsInjective
<1>6. IsFiniteSet(1..N) /\ Cardinality(1..N) = N
  BY <1>1, FS_Interval
<1>7. rank1 \in Surjection(places, 1..N)
  BY <1>5, <1>6, FS_Injection DEF N
<1>8. \A n \in 1..N : Nth(places, n) \in places /\ rank(Nth(places, n)) = n
  <2>1. \A n \in 1..N : \E i \in places : rank(i) = n
    BY <1>7 DEF Surjection
  <2>. QED
    BY <2>1 DEF Nth, rank
<1>9. ASSUME NEW n \in 1..N, NEW m \in 1..N, n <= m
      PROVE  Nth(places, n) <= Nth(places, m)
  <2>. DEFINE a == Nth(places, n)
              b == Nth(places, m)
  <2>1. a \in places /\ b \in places /\ rank(a) = n /\ rank(b) = m
    BY <1>8
  <2>. HIDE DEF a, b
  <2>2. ~(b < a)
    BY <1>1, <1>3, <1>9, <2>1
  <2>3. a <= b
    BY <2>1, <2>2
  <2>. QED
    BY <2>3 DEF a, b
<1>. QED
  BY <1>1, <1>8, <1>9 DEF N

\* The rates of a log are a series, over the times of its frames since the first.
LEMMA RatesAreSeries ==
    ASSUME NEW l, IsFiniteSet(Of("FRAME_SENT", l)), Of("FRAME_SENT", l) \subseteq Nat,
           \A i \in Of("FRAME_SENT", l) : l[i].ts \in Nat /\ l[i].bytes \in Nat,
           \A i, j \in Of("FRAME_SENT", l) : i <= j => l[i].ts <= l[j].ts
    PROVE  LET series == BitrateSeries(l)
           IN  /\ IsSeries(series)
               /\ \A n \in 1..Len(series) :
                     /\ 0 <= series[n].time
                     /\ \E i \in Of("FRAME_SENT", l) : series[n].time <= l[i].ts
<1>. DEFINE sent == Of("FRAME_SENT", l)
            N == Cardinality(sent)
            series == BitrateSeries(l)
            origin == l[Min(sent)].ts
<1>1. /\ N \in Nat
      /\ \A n \in 1..N : Nth(sent, n) \in sent
      /\ \A n, m \in 1..N : n <= m => Nth(sent, n) <= Nth(sent, m)
  BY NthInOrder
<1>2. /\ DOMAIN series = 1..N /\ Len(series) = N
      /\ \A n \in 1..N : /\ series[n].time = l[Nth(sent, n)].ts - origin
                         /\ series[n].value \in {l[Nth(sent, n)].bytes, 0}
  BY <1>1 DEF BitrateSeries
<1>3. \A i \in sent : origin <= l[i].ts /\ origin \in Nat
  <2>1. ASSUME NEW i \in sent PROVE origin <= l[i].ts /\ origin \in Nat
    <3>1. sent \in SUBSET Int /\ sent # {} /\ IsFiniteSet(sent)
      OBVIOUS
    <3>. HIDE DEF sent
    <3>2. Min(sent) \in sent /\ Min(sent) <= i
      BY <3>1, Extremes
    <3>. QED
      BY <3>2 DEF sent
  <2>. QED
    BY <2>1
<1>4. \A i \in sent : l[i].ts \in Nat /\ l[i].bytes \in Nat
  OBVIOUS
<1>5. \A i, j \in sent : i <= j => l[i].ts <= l[j].ts
  OBVIOUS
<1>. HIDE DEF series, origin, sent, N
<1>6. ASSUME NEW n \in 1..N
      PROVE  /\ series[n].time \in Int /\ series[n].value \in Nat /\ 0 <= series[n].time
             /\ series[n].time <= l[Nth(sent, n)].ts
  BY <1>1, <1>2, <1>3, <1>4
<1>7. ASSUME NEW n \in 1..N, NEW m \in 1..N, n <= m
      PROVE  series[n].time <= series[m].time
  <2>1. /\ l[Nth(sent, n)].ts <= l[Nth(sent, m)].ts
        /\ l[Nth(sent, n)].ts \in Nat /\ l[Nth(sent, m)].ts \in Nat /\ origin \in Nat
    BY <1>1, <1>3, <1>4, <1>5, <1>7
  <2>. QED
    BY <1>2, <2>1
<1>8. IsSeries(series)
  BY <1>1, <1>2, <1>6, <1>7 DEF IsSeries
<1>9. \A n \in 1..Len(series) : 0 <= series[n].time /\ \E i \in sent : series[n].time <= l[i].ts
  BY <1>1, <1>2, <1>6
<1>. QED
  BY <1>8, <1>9 DEF series, sent

===============================================================================
