---------------------------- MODULE CardsProofs ----------------------------
(***************************************************************************)
(* The lemmas the other proofs share: induction over data, sums over       *)
(* finite sets, and what drawing, stealing, discarding and scoring return  *)
(* for every hand and every hand size.                                     *)
(*                                                                         *)
(* Induction is stated for a set of good cases, which is an ordinary value *)
(* the provers can instantiate, and rests on the least element of a        *)
(* well-founded order (WFMin).                                             *)
(***************************************************************************)
EXTENDS Cards, FiniteSets, FiniteSetTheorems, SequenceTheorems, WellFoundedInduction, TLAPS

-----------------------------------------------------------------------------
(* Induction and recursion.                                                *)

(* Induction over the subsets of a finite set: a set that holds T whenever *)
(* it holds all smaller sets holds them all.                               *)
LEMMA SubsetInduction ==
  ASSUME NEW S, IsFiniteSet(S), NEW Good,
         \A T \in SUBSET S : (\A U \in SUBSET T : U # T => U \in Good) => T \in Good
  PROVE  SUBSET S \subseteq Good
<1> DEFINE Bad == {T \in SUBSET S : T \notin Good}
           R == StrictSubsetOrdering(S)
<1>1. SUFFICES ASSUME Bad # {} PROVE FALSE
  OBVIOUS
<1>2. IsWellFoundedOn(R, SUBSET S)
  BY FS_StrictSubsetOrderingWellFounded, FS_FiniteSubsetsOfFinite
<1>3. Bad \subseteq SUBSET S
  OBVIOUS
<1> HIDE DEF Bad, R
<1>4. PICK T \in Bad : \A U \in Bad : ~(<<U, T>> \in R)
  BY <1>1, <1>2, <1>3, WFMin
<1>5. ASSUME NEW U \in SUBSET T, U # T PROVE U \in Good
  BY <1>4, <1>5 DEF Bad, R, StrictSubsetOrdering
<1> QED BY <1>4, <1>5 DEF Bad

(* Induction over the naturals, for a set.                                 *)
LEMMA NatSetInduction ==
  ASSUME NEW Good, 0 \in Good, \A n \in Nat : n \in Good => n + 1 \in Good
  PROVE  Nat \subseteq Good
<1> DEFINE Bad == {n \in Nat : n \notin Good}
<1>1. SUFFICES ASSUME Bad # {} PROVE FALSE
  OBVIOUS
<1>2. Bad \subseteq Nat
  OBVIOUS
<1> HIDE DEF Bad
<1>3. \E n \in Bad : \A m \in Bad : ~(<<m, n>> \in OpToRel(<, Nat))
  BY <1>1, <1>2, NatLessThanWellFounded, WFMin
<1>4. PICK n \in Bad : \A m \in Bad : ~(m < n)
  BY <1>2, <1>3 DEF OpToRel
<1>5. n \in Nat /\ n # 0 /\ n - 1 \in Nat
  BY <1>4 DEF Bad
<1>6. n - 1 \in Good
  BY <1>4, <1>5 DEF Bad
<1> QED BY <1>4, <1>5, <1>6 DEF Bad

(* A set of numbers that is not empty has a least one.                     *)
LEMMA LeastNatural ==
  ASSUME NEW S \in SUBSET Nat, S # {}
  PROVE  \E m \in S : \A k \in S : m <= k
<1>1. IsWellFoundedOn(OpToRel(<, Nat), Nat)
  BY NatLessThanWellFounded
<1>2. PICK m \in S : \A k \in Nat : <<k, m>> \in OpToRel(<, Nat) => k \notin S
  BY <1>1, WFMin
<1>3. \A k \in S : ~(k < m)
  BY <1>2 DEF OpToRel
<1> QED BY <1>3

(* A recursion over the subsets of a finite set that takes away one chosen *)
(* element at a time has a solution.                                       *)
IsFold(it, g, b, f, ch, S) ==
  \A s \in SUBSET S : it[s] = IF s = {} THEN b ELSE g[<<f[ch[s]], it[s \ {ch[s]}]>>]

(* Two folds that choose alike agree on every subset.                      *)
LEMMA FoldAgrees ==
  ASSUME NEW S, IsFiniteSet(S), NEW g, NEW b, NEW f, NEW ch,
         \A s \in SUBSET S : s # {} => ch[s] \in s,
         NEW T \in SUBSET S
  PROVE  \A U \in SUBSET T : \A i, j :
           IsFold(i, g, b, f, ch, T) /\ IsFold(j, g, b, f, ch, U) => i[U] = j[U]
<1> TAKE U \in SUBSET T
<1> TAKE i, j
<1> HAVE IsFold(i, g, b, f, ch, T) /\ IsFold(j, g, b, f, ch, U)
<1> DEFINE Good == {s \in SUBSET U : i[s] = j[s]}
<1>1. IsFiniteSet(U)
  BY FS_Subset
<1>2. ASSUME NEW s \in SUBSET U, \A u \in SUBSET s : u # s => u \in Good
      PROVE  s \in Good
  <2>1. CASE s = {}
    BY <2>1 DEF IsFold
  <2>2. CASE s # {}
    <3> DEFINE c == ch[s]
               r == s \ {c}
    <3>1. c \in s /\ r \in SUBSET s /\ r # s
      BY <2>2
    <3>2. i[r] = j[r]
      BY <1>2, <3>1
    <3>3. i[s] = g[<<f[c], i[r]>>] /\ j[s] = g[<<f[c], j[r]>>]
      BY <2>2 DEF IsFold
    <3> QED BY <3>2, <3>3
  <2> QED BY <2>1, <2>2
<1> HIDE DEF Good
<1>3. U \in Good
  BY <1>1, <1>2, SubsetInduction
<1> QED BY <1>3 DEF Good

(* A fold over a finite set has a value at every subset.                   *)
LEMMA FoldExists ==
  ASSUME NEW S, IsFiniteSet(S), NEW A, NEW B, NEW g \in [A \X B -> B], NEW b \in B,
         NEW f, \A x \in S : f[x] \in A,
         NEW ch, \A s \in SUBSET S : s # {} => ch[s] \in s
  PROVE  \E it \in [SUBSET S -> B] : IsFold(it, g, b, f, ch, S)
<1> DEFINE Good == {T \in SUBSET S : \E it \in [SUBSET T -> B] : IsFold(it, g, b, f, ch, T)}
<1>1. ASSUME NEW T \in SUBSET S, \A U \in SUBSET T : U # T => U \in Good
      PROVE  T \in Good
  <2> DEFINE F == [U \in SUBSET T |-> CHOOSE i \in [SUBSET U -> B] : IsFold(i, g, b, f, ch, U)]
             it == [s \in SUBSET T |-> IF s = {} THEN b
                                       ELSE g[<<f[ch[s]], F[s \ {ch[s]}][s \ {ch[s]}]>>]]
  <2>1. ASSUME NEW U \in SUBSET T, U # T
        PROVE  F[U] \in [SUBSET U -> B] /\ IsFold(F[U], g, b, f, ch, U)
    BY <1>1, <2>1
  <2> HIDE DEF F
  <2>2. ASSUME NEW s \in SUBSET T, s # {}
        PROVE  /\ ch[s] \in s /\ s \ {ch[s]} \in SUBSET T /\ s \ {ch[s]} # T
               /\ F[s \ {ch[s]}][s \ {ch[s]}] \in B
    <3> DEFINE r == s \ {ch[s]}
    <3>1. ch[s] \in s /\ r \in SUBSET T /\ r # T
      BY <2>2
    <3> HIDE DEF r
    <3>2. F[r] \in [SUBSET r -> B] /\ r \in SUBSET r
      BY <2>1, <3>1
    <3>3. F[r][r] \in B
      BY <3>2
    <3> QED BY <3>1, <3>3 DEF r
  <2>3. it \in [SUBSET T -> B]
    <3>1. ASSUME NEW s \in SUBSET T PROVE it[s] \in B
      <4>1. CASE s # {}
        <5>1. f[ch[s]] \in A
          BY <2>2, <4>1
        <5> QED BY <2>2, <4>1, <5>1
      <4> QED BY <4>1
    <3> QED BY <3>1
  <2>4. ASSUME NEW u \in SUBSET T, u # T PROVE it[u] = F[u][u]
    <3>1. CASE u = {}
      BY <2>1, <2>4, <3>1 DEF IsFold
    <3>2. CASE u # {}
      <4> DEFINE c == ch[u]
                 r == u \ {c}
      <4>1. r \in SUBSET u /\ r \in SUBSET T /\ r # T /\ u \in SUBSET S /\ r \in SUBSET S
        BY <2>2, <3>2
      <4>2. F[u][u] = g[<<f[c], F[u][r]>>]
        BY <2>1, <2>4, <3>2 DEF IsFold
      <4>3. F[u][r] = F[r][r]
        <5>1. IsFold(F[u], g, b, f, ch, u) /\ IsFold(F[r], g, b, f, ch, r)
          BY <2>1, <2>4, <4>1
        <5> HIDE DEF r
        <5>2. \A v \in SUBSET u : \A i, j :
                IsFold(i, g, b, f, ch, u) /\ IsFold(j, g, b, f, ch, v) => i[v] = j[v]
          BY <4>1, FoldAgrees
        <5> QED BY <4>1, <5>1, <5>2
      <4> QED BY <3>2, <4>2, <4>3
    <3> QED BY <3>1, <3>2
  <2>5. IsFold(it, g, b, f, ch, T)
    <3>1. ASSUME NEW s \in SUBSET T, s # {}
          PROVE  it[s] = g[<<f[ch[s]], it[s \ {ch[s]}]>>]
      <4>1. it[s \ {ch[s]}] = F[s \ {ch[s]}][s \ {ch[s]}]
        BY <2>2, <2>4, <3>1
      <4> QED BY <3>1, <4>1
    <3>2. it[{}] = b
      OBVIOUS
    <3> HIDE DEF it
    <3> QED BY <3>1, <3>2 DEF IsFold
  <2> QED BY <2>3, <2>5
<1> HIDE DEF Good
<1>2. S \in Good
  BY <1>1, SubsetInduction
<1> QED BY <1>2 DEF Good

-----------------------------------------------------------------------------
(* Sums over a set.                                                        *)

SumOver(f, S) == MapThenSumSet(LAMBDA x : f[x], S)

AnyOf(s) == CHOOSE x \in s : TRUE

(* The sums over the subsets of S, taken out one element at a time.        *)
AreSums(it, f, S) ==
  /\ \A s \in SUBSET S : it[s] = IF s = {} THEN 0 ELSE f[AnyOf(s)] + it[s \ {AnyOf(s)}]
  /\ \A T \in SUBSET S : SumOver(f, T) = it[T]

(* The sums over the subsets of a finite set come from one recursion.      *)
LEMMA SumRecursion ==
  ASSUME NEW S, IsFiniteSet(S), NEW f, \A x \in S : f[x] \in Int
  PROVE  \E it \in [SUBSET S -> Int] : AreSums(it, f, S)
<1> DEFINE g == [p \in Int \X Int |-> p[1] + p[2]]
           ch == [s \in SUBSET S |-> AnyOf(s)]
<1>0. \A s : s # {} => AnyOf(s) \in s
  BY DEF AnyOf
<1>1. g \in [Int \X Int -> Int] /\ \A m, n \in Int : g[<<m, n>>] = m + n
  OBVIOUS
<1>2. \A s \in SUBSET S : ch[s] = AnyOf(s)
  OBVIOUS
<1>3. \A s \in SUBSET S : s # {} => ch[s] \in s
  BY <1>0, <1>2
<1> HIDE DEF g, ch
<1>4. PICK it \in [SUBSET S -> Int] : IsFold(it, g, 0, f, ch, S)
  <2>1. 0 \in Int
    OBVIOUS
  <2> QED BY <1>1, <1>3, <2>1, FoldExists, Zenon
<1>5. ASSUME NEW s \in SUBSET S
      PROVE  it[s] = IF s = {} THEN 0 ELSE f[AnyOf(s)] + it[s \ {AnyOf(s)}]
  <2>1. CASE s = {}
    BY <1>4, <2>1 DEF IsFold
  <2>2. CASE s # {}
    <3>1. it[s] = g[<<f[AnyOf(s)], it[s \ {AnyOf(s)}]>>]
      BY <1>2, <1>4, <2>2 DEF IsFold
    <3>2. f[AnyOf(s)] \in Int /\ it[s \ {AnyOf(s)}] \in Int
      BY <1>0, <2>2
    <3> QED BY <1>1, <2>2, <3>1, <3>2
  <2> QED BY <2>1, <2>2
<1>6. ASSUME NEW T \in SUBSET S
      PROVE  SumOver(f, T) = it[T]
  <2> DEFINE Solves(k) == k = [s \in SUBSET T |-> IF s = {} THEN 0
                                                   ELSE f[AnyOf(s)] + k[s \ {AnyOf(s)}]]
             part == [s \in SUBSET T |-> it[s]]
             sum == CHOOSE k : Solves(k)
             Good == {s \in SUBSET T : sum[s] = it[s]}
  <2>1. Solves(part)
    <3>1. ASSUME NEW s \in SUBSET T
          PROVE  part[s] = IF s = {} THEN 0 ELSE f[AnyOf(s)] + part[s \ {AnyOf(s)}]
      <4>1. s \in SUBSET S /\ s \ {AnyOf(s)} \in SUBSET T
        OBVIOUS
      <4> QED BY <1>5, <4>1
    <3> QED BY <3>1
  <2>2. Solves(sum)
    BY <2>1
  <2>3. SumOver(f, T) = sum[T]
    BY DEF SumOver, MapThenSumSet, MapThenFoldSet, AnyOf
  <2> HIDE DEF sum
  <2>4. IsFiniteSet(T)
    BY FS_Subset
  <2>5. ASSUME NEW s \in SUBSET T, \A u \in SUBSET s : u # s => u \in Good
        PROVE  s \in Good
    <3>1. sum[s] = IF s = {} THEN 0 ELSE f[AnyOf(s)] + sum[s \ {AnyOf(s)}]
      BY <2>2
    <3>2. it[s] = IF s = {} THEN 0 ELSE f[AnyOf(s)] + it[s \ {AnyOf(s)}]
      BY <1>5
    <3>3. s # {} => sum[s \ {AnyOf(s)}] = it[s \ {AnyOf(s)}]
      BY <1>0, <2>5
    <3> QED BY <3>1, <3>2, <3>3
  <2> HIDE DEF Good
  <2>6. T \in Good
    BY <2>4, <2>5, SubsetInduction
  <2> QED BY <2>3, <2>6 DEF Good
<1> QED BY <1>5, <1>6 DEF AreSums

(* A sum is a number, and any element can be taken out of it.              *)
LEMMA SumTakeOut ==
  ASSUME NEW S, IsFiniteSet(S), NEW f, \A x \in S : f[x] \in Int
  PROVE  /\ SumOver(f, {}) = 0
         /\ SumOver(f, S) \in Int
         /\ \A x \in S : SumOver(f, S) = f[x] + SumOver(f, S \ {x})
<1>0. PICK it \in [SUBSET S -> Int] : AreSums(it, f, S)
  BY SumRecursion
<1>1. /\ \A s \in SUBSET S : it[s] = IF s = {} THEN 0 ELSE f[AnyOf(s)] + it[s \ {AnyOf(s)}]
      /\ \A T \in SUBSET S : SumOver(f, T) = it[T]
  BY <1>0 DEF AreSums
<1> DEFINE Good == {s \in SUBSET S : \A x \in s : it[s] = f[x] + it[s \ {x}]}
<1>2. ASSUME NEW s \in SUBSET S, \A u \in SUBSET s : u # s => u \in Good
      PROVE  s \in Good
  <2>1. SUFFICES ASSUME NEW x \in s PROVE it[s] = f[x] + it[s \ {x}]
    OBVIOUS
  <2> DEFINE c == AnyOf(s)
  <2>2. c \in s
    BY <2>1 DEF AnyOf
  <2>3. it[s] = f[c] + it[s \ {c}]
    BY <1>1, <2>1
  <2> HIDE DEF c
  <2>4. CASE x = c
    BY <2>3, <2>4
  <2>5. CASE x # c
    <3>1. it[s \ {c}] = f[x] + it[(s \ {c}) \ {x}]
      BY <1>2, <2>2, <2>5
    <3>2. it[s \ {x}] = f[c] + it[(s \ {x}) \ {c}]
      BY <1>2, <2>2, <2>5
    <3>3. (s \ {c}) \ {x} = (s \ {x}) \ {c}
      OBVIOUS
    <3>4. f[x] \in Int /\ f[c] \in Int /\ it[(s \ {c}) \ {x}] \in Int
      BY <2>2
    <3>5. \A k, m, n \in Int : k + (m + n) = m + (k + n)
      OBVIOUS
    <3>6. f[c] + (f[x] + it[(s \ {c}) \ {x}]) = f[x] + (f[c] + it[(s \ {c}) \ {x}])
      BY <3>4, <3>5
    <3> QED BY <2>3, <3>1, <3>2, <3>3, <3>6, Zenon
  <2> QED BY <2>4, <2>5
<1> HIDE DEF Good
<1>3. S \in Good
  BY <1>2, SubsetInduction, SMTT(30)
<1>4. \A x \in S : it[S] = f[x] + it[S \ {x}]
  BY <1>3 DEF Good
<1>5. \A T \in SUBSET S : SumOver(f, T) = it[T] /\ it[T] \in Int
  BY <1>1
<1>6. it[{}] = 0
  BY <1>1
<1>7. S \in SUBSET S /\ {} \in SUBSET S /\ \A x \in S : S \ {x} \in SUBSET S
  OBVIOUS
<1> HIDE DEF Good
<1> QED BY <1>4, <1>5, <1>6, <1>7, Zenon

(* Sums of the same numbers are the same, and larger numbers have a larger *)
(* sum.                                                                    *)
LEMMA SumMonotone ==
  ASSUME NEW S, IsFiniteSet(S), NEW f, NEW g,
         \A x \in S : f[x] \in Int /\ g[x] \in Int /\ f[x] <= g[x]
  PROVE  SumOver(f, S) <= SumOver(g, S)
<1> DEFINE Good == {T \in SUBSET S : SumOver(f, T) <= SumOver(g, T)}
<1>1. ASSUME NEW T \in SUBSET S, \A U \in SUBSET T : U # T => U \in Good
      PROVE  T \in Good
  <2>1. IsFiniteSet(T) /\ \A x \in T : f[x] \in Int /\ g[x] \in Int
    BY FS_Subset
  <2>2. CASE T = {}
    BY <2>1, <2>2, SumTakeOut
  <2>3. CASE T # {}
    <3>1. PICK x \in T : TRUE
      BY <2>3
    <3>2. T \ {x} \in Good
      BY <1>1, <3>1
    <3>3. IsFiniteSet(T \ {x}) /\ \A y \in T \ {x} : f[y] \in Int /\ g[y] \in Int
      BY <2>1, FS_Subset
    <3>4. SumOver(f, T \ {x}) \in Int /\ SumOver(g, T \ {x}) \in Int
      BY <3>3, SumTakeOut
    <3>5. /\ SumOver(f, T) = f[x] + SumOver(f, T \ {x})
          /\ SumOver(g, T) = g[x] + SumOver(g, T \ {x})
      BY <2>1, <3>1, SumTakeOut
    <3>6. f[x] \in Int /\ g[x] \in Int /\ f[x] <= g[x]
      OBVIOUS
    <3> QED BY <3>2, <3>4, <3>5, <3>6
  <2> QED BY <2>2, <2>3
<1> HIDE DEF Good
<1>2. S \in Good
  BY <1>1, SubsetInduction
<1> QED BY <1>2 DEF Good

(* Functions that agree on a set have the same sum over it.                *)
LEMMA SumSame ==
  ASSUME NEW S, IsFiniteSet(S), NEW f, NEW g, \A x \in S : f[x] \in Int /\ g[x] = f[x]
  PROVE  SumOver(g, S) = SumOver(f, S)
<1>1. SumOver(f, S) \in Int /\ SumOver(g, S) \in Int
  BY SumTakeOut
<1>2. \A x \in S : f[x] \in Int /\ g[x] \in Int /\ f[x] <= g[x] /\ g[x] <= f[x]
  OBVIOUS
<1>3. SumOver(f, S) <= SumOver(g, S) /\ SumOver(g, S) <= SumOver(f, S)
  BY <1>2, SumMonotone
<1> QED BY <1>1, <1>3

(* A sum in which one number changes changes by as much.                   *)
LEMMA SumChange ==
  ASSUME NEW S, IsFiniteSet(S), NEW f, NEW g, NEW p \in S,
         \A x \in S : f[x] \in Int /\ g[x] \in Int,
         \A x \in S : x # p => g[x] = f[x]
  PROVE  SumOver(g, S) = SumOver(f, S) + (g[p] - f[p])
<1>1. IsFiniteSet(S \ {p})
  BY FS_RemoveElement
<1>2. SumOver(f, S \ {p}) \in Int
  BY <1>1, SumTakeOut
<1>3. SumOver(g, S \ {p}) = SumOver(f, S \ {p})
  BY <1>1, SumSame
<1>4. SumOver(f, S) = f[p] + SumOver(f, S \ {p}) /\ SumOver(g, S) = g[p] + SumOver(g, S \ {p})
  BY SumTakeOut, ZenonT(30)
<1> QED BY <1>2, <1>3, <1>4

(* An entry that grows by no more than n, with no other that grows, adds   *)
(* no more than n to the sum.                                              *)
LEMMA SumGrows ==
  ASSUME NEW S, IsFiniteSet(S), NEW f, NEW g, NEW p \in S, NEW n \in Int,
         \A x \in S : f[x] \in Int /\ g[x] \in Int,
         \A x \in S : x # p => g[x] <= f[x],
         g[p] <= f[p] + n
  PROVE  SumOver(g, S) <= SumOver(f, S) + n
<1> DEFINE h == [x \in S |-> IF x = p THEN f[x] + n ELSE f[x]]
<1>1. /\ \A x \in S : h[x] \in Int /\ g[x] <= h[x]
      /\ \A x \in S : x # p => h[x] = f[x]
      /\ h[p] = f[p] + n
  OBVIOUS
<1> HIDE DEF h
<1>2. SumOver(g, S) <= SumOver(h, S)
  <2>1. \A x \in S : g[x] \in Int /\ h[x] \in Int /\ g[x] <= h[x]
    BY <1>1
  <2> QED BY <2>1, SumMonotone
<1>3. SumOver(h, S) = SumOver(f, S) + (h[p] - f[p])
  <2>1. \A x \in S : f[x] \in Int /\ h[x] \in Int
    BY <1>1
  <2>2. \A x \in S : x # p => h[x] = f[x]
    BY <1>1
  <2> QED BY <2>1, <2>2, SumChange
<1>4. SumOver(f, S) \in Int /\ SumOver(g, S) \in Int
  BY SumTakeOut
<1>5. h[p] - f[p] = n
  BY <1>1
<1> QED BY <1>2, <1>3, <1>4, <1>5

(* An entry that gives e to another, which grows by no more than n beyond  *)
(* it, with no other that grows, adds no more than n to the sum.           *)
LEMMA SumMoves ==
  ASSUME NEW S, IsFiniteSet(S), NEW f, NEW g, NEW p \in S, NEW t \in S, p # t,
         NEW n \in Int, NEW e \in Int,
         \A x \in S : f[x] \in Int /\ g[x] \in Int,
         \A x \in S : x # p /\ x # t => g[x] <= f[x],
         g[t] <= f[t] - e, g[p] <= f[p] + e + n
  PROVE  SumOver(g, S) <= SumOver(f, S) + n
<1> DEFINE h == [x \in S |-> IF x = t THEN f[x] - e ELSE f[x]]
<1>1. /\ \A x \in S : h[x] \in Int
      /\ \A x \in S : x # t => h[x] = f[x]
      /\ h[t] = f[t] - e /\ h[p] = f[p]
  OBVIOUS
<1> HIDE DEF h
<1>2. SumOver(h, S) = SumOver(f, S) + (h[t] - f[t])
  <2>1. \A x \in S : f[x] \in Int /\ h[x] \in Int
    BY <1>1
  <2>2. \A x \in S : x # t => h[x] = f[x]
    BY <1>1
  <2> QED BY <2>1, <2>2, SumChange
<1>3. SumOver(g, S) <= SumOver(h, S) + (e + n)
  <2>1. \A x \in S : h[x] \in Int /\ g[x] \in Int
    BY <1>1
  <2>2. \A x \in S : x # p => g[x] <= h[x]
    BY <1>1
  <2>3. e + n \in Int /\ g[p] <= h[p] + (e + n)
    BY <1>1
  <2> QED BY <2>1, <2>2, <2>3, SumGrows
<1>4. SumOver(f, S) \in Int /\ SumOver(g, S) \in Int
  BY SumTakeOut
<1>5. h[t] - f[t] = 0 - e
  BY <1>1
<1> QED BY <1>2, <1>3, <1>4, <1>5

(* The sum of one number for each element.                                 *)
LEMMA SumConstant ==
  ASSUME NEW S, IsFiniteSet(S), NEW f, NEW n \in Int, \A x \in S : f[x] = n
  PROVE  SumOver(f, S) = Cardinality(S) * n
<1> DEFINE Good == {T \in SUBSET S : SumOver(f, T) = Cardinality(T) * n}
<1>1. ASSUME NEW T \in SUBSET S, \A U \in SUBSET T : U # T => U \in Good
      PROVE  T \in Good
  <2>1. IsFiniteSet(T) /\ \A x \in T : f[x] \in Int
    BY FS_Subset
  <2>2. CASE T = {}
    BY <2>1, <2>2, SumTakeOut, FS_EmptySet
  <2>3. CASE T # {}
    <3>1. PICK x \in T : TRUE
      BY <2>3
    <3>2. SumOver(f, T \ {x}) = Cardinality(T \ {x}) * n
      BY <1>1, <3>1
    <3>3. SumOver(f, T) = n + SumOver(f, T \ {x})
      BY <2>1, <3>1, SumTakeOut
    <3>4. Cardinality(T \ {x}) = Cardinality(T) - 1 /\ Cardinality(T) \in Int
      BY <2>1, <3>1, FS_RemoveElement, FS_CardinalityType
    <3>5. \A k \in Int : n + (k - 1) * n = k * n
      OBVIOUS
    <3> QED BY <3>2, <3>3, <3>4, <3>5
  <2> QED BY <2>2, <2>3
<1> HIDE DEF Good
<1>2. S \in Good
  BY <1>1, SubsetInduction
<1> QED BY <1>2 DEF Good

ProductOver(f, S) == FoldFunctionOnSet(LAMBDA m, n : m * n, 1, f, S)

(* The products over the subsets of S: any factor can be taken out.        *)
AreProducts(it, f, S) ==
  /\ it[{}] = 1
  /\ it[S] = ProductOver(f, S)
  /\ \A s \in SUBSET S : \A x \in s : it[s] = f[x] * it[s \ {x}]

(* The products over the subsets of a finite set.                          *)
LEMMA ProductTakeOut ==
  ASSUME NEW S, IsFiniteSet(S), NEW f, \A x \in S : f[x] \in Int
  PROVE  \E it \in [SUBSET S -> Int] : AreProducts(it, f, S)
<1> DEFINE g == [p \in Int \X Int |-> p[1] * p[2]]
           ch == [s \in SUBSET S |-> AnyOf(s)]
           Solves(k) == k = [s \in SUBSET S |-> IF s = {} THEN 1
                                                 ELSE f[AnyOf(s)] * k[s \ {AnyOf(s)}]]
           iter == CHOOSE k : Solves(k)
<1>0. \A s : s # {} => AnyOf(s) \in s
  BY DEF AnyOf
<1>1. g \in [Int \X Int -> Int] /\ \A m, n \in Int : g[<<m, n>>] = m * n
  OBVIOUS
<1>2. \A s \in SUBSET S : ch[s] = AnyOf(s)
  OBVIOUS
<1>3. \A s \in SUBSET S : s # {} => ch[s] \in s
  BY <1>0, <1>2
<1> HIDE DEF g, ch
<1>4. PICK it \in [SUBSET S -> Int] : IsFold(it, g, 1, f, ch, S)
  <2>1. 1 \in Int /\ g \in [Int \X Int -> Int]
    BY <1>1
  <2> QED BY <1>3, <2>1, FoldExists
<1>5. ASSUME NEW s \in SUBSET S, s # {}
      PROVE  it[s] = f[AnyOf(s)] * it[s \ {AnyOf(s)}]
  <2>1. it[s] = g[<<f[AnyOf(s)], it[s \ {AnyOf(s)}]>>]
    BY <1>2, <1>4, <1>5 DEF IsFold
  <2>2. f[AnyOf(s)] \in Int /\ it[s \ {AnyOf(s)}] \in Int
    BY <1>0, <1>5
  <2> QED BY <1>1, <2>1, <2>2
<1>6. it[{}] = 1
  BY <1>4 DEF IsFold
<1>7. Solves(it)
  BY <1>5, <1>6
<1>8. Solves(iter)
  BY <1>7
<1>9. ProductOver(f, S) = iter[S]
  BY DEF ProductOver, FoldFunctionOnSet, MapThenFoldSet, AnyOf
<1> HIDE DEF iter
<1> DEFINE Same == {s \in SUBSET S : iter[s] = it[s]}
           Good == {s \in SUBSET S : \A x \in s : it[s] = f[x] * it[s \ {x}]}
<1>10. ASSUME NEW s \in SUBSET S, \A u \in SUBSET s : u # s => u \in Same
       PROVE  s \in Same
  <2>1. CASE s = {}
    BY <1>6, <1>8, <2>1
  <2>2. CASE s # {}
    <3>1. iter[s \ {AnyOf(s)}] = it[s \ {AnyOf(s)}]
      BY <1>0, <1>10, <2>2
    <3>2. iter[s] = f[AnyOf(s)] * iter[s \ {AnyOf(s)}]
      BY <1>8, <2>2
    <3> QED BY <1>5, <2>2, <3>1, <3>2
  <2> QED BY <2>1, <2>2
<1>11. ASSUME NEW s \in SUBSET S, \A u \in SUBSET s : u # s => u \in Good
       PROVE  s \in Good
  <2>1. SUFFICES ASSUME NEW x \in s PROVE it[s] = f[x] * it[s \ {x}]
    OBVIOUS
  <2> DEFINE c == AnyOf(s)
  <2>2. c \in s
    BY <1>0, <2>1
  <2>3. it[s] = f[c] * it[s \ {c}]
    BY <1>5, <2>1
  <2> HIDE DEF c
  <2>4. CASE x = c
    BY <2>3, <2>4
  <2>5. CASE x # c
    <3>1. it[s \ {c}] = f[x] * it[(s \ {c}) \ {x}]
      BY <1>11, <2>2, <2>5
    <3>2. it[s \ {x}] = f[c] * it[(s \ {x}) \ {c}]
      BY <1>11, <2>2, <2>5
    <3>3. (s \ {c}) \ {x} = (s \ {x}) \ {c}
      OBVIOUS
    <3>4. f[x] \in Int /\ f[c] \in Int /\ it[(s \ {c}) \ {x}] \in Int
      BY <2>2
    <3>5. \A k, m, n \in Int : k * (m * n) = m * (k * n)
      OBVIOUS
    <3>6. f[c] * (f[x] * it[(s \ {c}) \ {x}]) = f[x] * (f[c] * it[(s \ {c}) \ {x}])
      BY <3>4, <3>5
    <3> QED BY <2>3, <3>1, <3>2, <3>3, <3>6, Zenon
  <2> QED BY <2>4, <2>5
<1> HIDE DEF Same, Good
<1>12. S \in Same
  BY <1>10, SubsetInduction, SMTT(30)
<1>13. SUBSET S \subseteq Good
  BY <1>11, SubsetInduction, SMTT(30)
<1>14. it[S] = ProductOver(f, S)
  BY <1>9, <1>12 DEF Same
<1>15. \A s \in SUBSET S : \A x \in s : it[s] = f[x] * it[s \ {x}]
  BY <1>13 DEF Good
<1> QED BY <1>6, <1>14, <1>15 DEF AreProducts

-----------------------------------------------------------------------------
(* Folds over a sequence.                                                  *)

(* A set of positions has a last one.                                      *)
LEMMA MaxOfPositions ==
  ASSUME NEW n \in Nat, NEW S \in SUBSET (1..n), S # {}
  PROVE  Max(S) \in S /\ \A x \in S : x <= Max(S)
<1> DEFINE D == {n - x : x \in S}
<1>1. D \in SUBSET Nat
  OBVIOUS
<1>0. D # {}
  <2>1. PICK x \in S : TRUE
    OBVIOUS
  <2> QED BY <2>1
<1> HIDE DEF D
<1>2. PICK m \in D : \A k \in D : m <= k
  BY <1>0, <1>1, LeastNatural
<1>3. PICK x \in S : m = n - x
  BY <1>2 DEF D
<1>4. \A y \in S : n - y \in D
  BY DEF D
<1>5. \A y \in S : x >= y
  BY <1>2, <1>3, <1>4
<1> QED BY <1>5 DEF Max

(* The last of the first k positions, and the positions before it.         *)
LEMMA MaxOfFirst ==
  ASSUME NEW k \in Nat, k > 0
  PROVE  Max(1..k) = k /\ (1..k) \ {Max(1..k)} = 1..(k - 1)
<1>1. k \in 1..k /\ 1..k \in SUBSET (1..k)
  OBVIOUS
<1>2. Max(1..k) \in 1..k /\ \A x \in 1..k : x <= Max(1..k)
  BY <1>1, MaxOfPositions
<1>3. Max(1..k) = k
  BY <1>1, <1>2
<1> QED BY <1>3

(* The recursion over the sets of positions that FoldLeft runs.            *)
IsFoldLeft(it, g, b, s) ==
  \A S \in SUBSET (DOMAIN s) :
    it[S] = IF S = {} THEN b ELSE g[<<s[Max(S)], it[S \ {Max(S)}]>>]

(* A fold over a sequence has a value: the recursion has a solution.       *)
LEMMA FoldLeftExists ==
  ASSUME NEW A, NEW B, NEW g \in [A \X B -> B], NEW b \in B, NEW s \in Seq(A)
  PROVE  \E it \in [SUBSET (DOMAIN s) -> B] : IsFoldLeft(it, g, b, s)
<1> DEFINE D == DOMAIN s
           ch == [S \in SUBSET D |-> Max(S)]
<1>1. IsFiniteSet(D) /\ \A x \in D : s[x] \in A
  BY FS_Interval
<1>2. \A S \in SUBSET D : S # {} => Max(S) \in S
  <2>1. Len(s) \in Nat /\ D = 1..Len(s)
    OBVIOUS
  <2> QED BY <2>1, MaxOfPositions
<1> HIDE DEF D
<1>3. \A S \in SUBSET D : ch[S] = Max(S)
  OBVIOUS
<1> HIDE DEF ch
<1>4. \A S \in SUBSET D : S # {} => ch[S] \in S
  BY <1>2, <1>3
<1>5. \E it \in [SUBSET D -> B] : IsFold(it, g, b, s, ch, D)
  BY <1>1, <1>4, FoldExists
<1> PICK it \in [SUBSET D -> B] : IsFold(it, g, b, s, ch, D)
  BY <1>5
<1>6. \A S \in SUBSET D :
        it[S] = IF S = {} THEN b ELSE g[<<s[Max(S)], it[S \ {Max(S)}]>>]
  BY <1>3 DEF IsFold
<1> QED BY <1>6 DEF D, IsFoldLeft

-----------------------------------------------------------------------------
(* Sequences and hands.                                                    *)

(* calculate_hand_score never leaves its u64.                              *)
LEMMA ScoreType ==
  ASSUME NEW h
  PROVE  CalculateHandScore(h) \in 0..MaxU64
BY U64Assumption DEF CalculateHandScore, Saturate

(* push_card on a hand with a free slot.                                   *)
LEMMA AppendType ==
  ASSUME NEW h \in Hand, Len(h) < MaxHandSize, NEW c \in Card
  PROVE  Append(h, c) \in Hand
BY HandSizeAssumption, AppendProperties DEF Hand

(* The prefixes and suffixes a removal is made of.                         *)
LEMMA PrefixOf ==
  ASSUME NEW S, NEW s \in Seq(S), NEW n \in Nat, n <= Len(s)
  PROVE  /\ SubSeq(s, 1, n) \in Seq(S)
         /\ Len(SubSeq(s, 1, n)) = n
         /\ \A j \in 1..n : SubSeq(s, 1, n)[j] = s[j]
<1>1. CASE n = 0
  BY <1>1, SubSeqEmpty
<1>2. CASE n > 0
  BY <1>2
<1> QED BY <1>1, <1>2

(* The part of a sequence after a removed card is a sequence over the same *)
(* set.                                                                    *)
LEMMA SuffixOf ==
  ASSUME NEW S, NEW s \in Seq(S), NEW n \in Nat, n <= Len(s)
  PROVE  /\ SubSeq(s, n + 1, Len(s)) \in Seq(S)
         /\ Len(SubSeq(s, n + 1, Len(s))) = Len(s) - n
         /\ \A j \in 1..(Len(s) - n) : SubSeq(s, n + 1, Len(s))[j] = s[n + j]
<1>1. CASE n = Len(s)
  BY <1>1, SubSeqEmpty
<1>2. CASE n < Len(s)
  <2>1. \A j \in 1..(Len(s) - n) : SubSeq(s, n + 1, Len(s))[j] = s[n + j]
    BY <1>2
  <2> QED BY <1>2, <2>1
<1> QED BY <1>1, <1>2

(* Removing a card shifts the later ones down and keeps the order.         *)
LEMMA RemoveAtType ==
  ASSUME NEW S, NEW s \in Seq(S), NEW i \in 1..Len(s)
  PROVE  /\ RemoveAt(s, i) \in Seq(S)
         /\ Len(RemoveAt(s, i)) = Len(s) - 1
         /\ \A j \in 1..(Len(s) - 1) :
              RemoveAt(s, i)[j] = IF j < i THEN s[j] ELSE s[j + 1]
<1> DEFINE m == i - 1
           a == SubSeq(s, 1, i - 1)
           b == SubSeq(s, i + 1, Len(s))
<1>1. /\ a \in Seq(S) /\ Len(a) = i - 1
      /\ \A j \in 1..(i - 1) : a[j] = s[j]
  <2>1. m \in Nat /\ m <= Len(s)
    OBVIOUS
  <2>2. SubSeq(s, 1, m) = a
    OBVIOUS
  <2> HIDE DEF m
  <2>3. /\ SubSeq(s, 1, m) \in Seq(S) /\ Len(SubSeq(s, 1, m)) = m
        /\ \A j \in 1..m : SubSeq(s, 1, m)[j] = s[j]
    BY <2>1, PrefixOf
  <2> QED BY <2>2, <2>3 DEF m
<1>2. /\ b \in Seq(S) /\ Len(b) = Len(s) - i
      /\ \A j \in 1..(Len(s) - i) : b[j] = s[i + j]
  BY SuffixOf
<1> HIDE DEF a, b
<1>3. /\ a \o b \in Seq(S)
      /\ Len(a \o b) = Len(a) + Len(b)
      /\ \A j \in 1..Len(a) : (a \o b)[j] = a[j]
      /\ \A j \in 1..Len(b) : (a \o b)[Len(a) + j] = b[j]
  <2>1. a \o b \in Seq(S) /\ Len(a \o b) = Len(a) + Len(b)
    BY <1>1, <1>2, ConcatProperties
  <2>2. \A j \in 1..Len(a) : (a \o b)[j] = a[j]
    BY <1>1, <1>2
  <2>3. ASSUME NEW j \in 1..Len(b) PROVE (a \o b)[Len(a) + j] = b[j]
    BY <1>1, <1>2
  <2> QED BY <2>1, <2>2, <2>3
<1>4. Len(a \o b) = Len(s) - 1
  BY <1>1, <1>2, <1>3
<1>5. ASSUME NEW j \in 1..(Len(s) - 1)
      PROVE  (a \o b)[j] = IF j < i THEN s[j] ELSE s[j + 1]
  <2>1. CASE j < i
    BY <1>1, <1>3, <2>1
  <2>2. CASE ~(j < i)
    <3>1. j = Len(a) + (j - (i - 1)) /\ j - (i - 1) \in 1..Len(b)
      BY <1>1, <1>2, <2>2
    <3>2. (a \o b)[j] = b[j - (i - 1)]
      BY <1>3, <3>1
    <3>3. b[j - (i - 1)] = s[i + (j - (i - 1))]
      BY <1>2, <3>1
    <3>4. i + (j - (i - 1)) = j + 1
      OBVIOUS
    <3> QED BY <2>2, <3>2, <3>3, <3>4
  <2> QED BY <2>1, <2>2
<1> QED BY <1>3, <1>4, <1>5 DEF RemoveAt, a, b

(* pop_card on a hand that holds a card.                                   *)
LEMMA FrontType ==
  ASSUME NEW S, NEW s \in Seq(S), s # << >>
  PROVE  /\ Front(s) \in Seq(S) /\ Len(Front(s)) = Len(s) - 1
         /\ Last(s) \in S
<1> DEFINE n == Len(s) - 1
<1>1. n \in Nat /\ n <= Len(s)
  OBVIOUS
<1>2. Last(s) \in S
  BY DEF Last
<1> HIDE DEF n
<1>3. SubSeq(s, 1, n) \in Seq(S) /\ Len(SubSeq(s, 1, n)) = n
  BY <1>1, PrefixOf
<1> QED BY <1>2, <1>3 DEF Front, n

(* The removals as the instructions use them: they leave a hand.           *)
LEMMA RemoveAtHand ==
  ASSUME NEW h \in Hand, NEW i \in 1..Len(h)
  PROVE  RemoveAt(h, i) \in Hand
<1>1. h \in Seq(Card) /\ Len(h) \in Nat /\ Len(h) <= MaxHandSize
  BY DEF Hand
<1>2. RemoveAt(h, i) \in Seq(Card) /\ Len(RemoveAt(h, i)) = Len(h) - 1
  BY <1>1, RemoveAtType
<1> QED BY <1>1, <1>2, HandSizeAssumption DEF Hand

(* What a theft takes and leaves: the last card, and a hand without it.    *)
LEMMA FrontHand ==
  ASSUME NEW h \in Hand, h # << >>
  PROVE  Front(h) \in Hand /\ Last(h) \in Card
<1>1. h \in Seq(Card) /\ Len(h) \in Nat /\ Len(h) <= MaxHandSize
  BY DEF Hand
<1>2. Front(h) \in Seq(Card) /\ Len(Front(h)) = Len(h) - 1 /\ Last(h) \in Card
  BY <1>1, FrontType
<1> QED BY <1>1, <1>2, HandSizeAssumption DEF Hand

-----------------------------------------------------------------------------
(* How often a card occurs among the first n of a sequence.                *)

CopiesOf(s, n, c) == Cardinality({i \in 1..n : s[i] = c})

(* Among none there is no copy; each further card adds one when it is one. *)
LEMMA CopiesCount ==
  ASSUME NEW s, NEW c, NEW n \in Nat
  PROVE  /\ CopiesOf(s, 0, c) = 0
         /\ CopiesOf(s, n, c) \in Nat
         /\ CopiesOf(s, n + 1, c) = CopiesOf(s, n, c) + (IF s[n + 1] = c THEN 1 ELSE 0)
<1> DEFINE at(m) == {i \in 1..m : s[i] = c}
<1>0. \A m : CopiesOf(s, m, c) = Cardinality(at(m))
  BY DEF CopiesOf
<1>1. at(0) = {}
  OBVIOUS
<1>2. IsFiniteSet(at(n))
  <2>1. IsFiniteSet(1..n) /\ at(n) \in SUBSET (1..n)
    BY FS_Interval
  <2> HIDE DEF at
  <2> QED BY <2>1, FS_Subset
<1>3. Cardinality(at(n)) \in Nat
  BY <1>2, FS_CardinalityType
<1>4. CASE s[n + 1] = c
  <2>1. at(n + 1) = at(n) \cup {n + 1} /\ n + 1 \notin at(n)
    BY <1>4
  <2> HIDE DEF at
  <2>2. Cardinality(at(n + 1)) = Cardinality(at(n)) + 1
    BY <1>2, <2>1, FS_AddElement
  <2> QED BY <1>0, <1>1, <1>3, <1>4, <2>2, FS_EmptySet
<1>5. CASE s[n + 1] # c
  <2>1. at(n + 1) = at(n)
    BY <1>5
  <2> HIDE DEF at
  <2> QED BY <1>0, <1>1, <1>3, <1>5, <2>1, FS_EmptySet
<1> QED BY <1>4, <1>5

(* Only the first n cards matter.                                          *)
LEMMA CopiesSame ==
  ASSUME NEW s, NEW t, NEW c, NEW n \in Nat, \A i \in 1..n : s[i] = t[i]
  PROVE  CopiesOf(s, n, c) = CopiesOf(t, n, c)
<1>1. {i \in 1..n : s[i] = c} = {i \in 1..n : t[i] = c}
  OBVIOUS
<1> QED BY <1>1 DEF CopiesOf

(* push_card adds a copy of the card it pushes.                            *)
LEMMA CopiesAppend ==
  ASSUME NEW S, NEW s \in Seq(S), NEW d \in S, NEW c
  PROVE  CopiesOf(Append(s, d), Len(Append(s, d)), c)
           = CopiesOf(s, Len(s), c) + (IF d = c THEN 1 ELSE 0)
<1> DEFINE r == Append(s, d)
<1>1. /\ Len(s) \in Nat /\ Len(r) = Len(s) + 1 /\ r[Len(s) + 1] = d
      /\ \A i \in 1..Len(s) : r[i] = s[i]
  BY AppendProperties
<1> HIDE DEF r
<1>2. CopiesOf(r, Len(s), c) = CopiesOf(s, Len(s), c)
  BY <1>1, CopiesSame
<1>3. CopiesOf(r, Len(s) + 1, c) = CopiesOf(r, Len(s), c) + (IF r[Len(s) + 1] = c THEN 1 ELSE 0)
  BY <1>1, CopiesCount
<1> QED BY <1>1, <1>2, <1>3 DEF r

(* pop_card takes the copy that was last.                                  *)
LEMMA CopiesFront ==
  ASSUME NEW S, NEW s \in Seq(S), s # << >>, NEW c
  PROVE  CopiesOf(s, Len(s), c)
           = CopiesOf(Front(s), Len(Front(s)), c) + (IF Last(s) = c THEN 1 ELSE 0)
<1> DEFINE n == Len(s) - 1
           r == Front(s)
<1>1. n \in Nat /\ Len(s) = n + 1
  OBVIOUS
<1>2. Len(r) = n /\ \A i \in 1..n : r[i] = s[i]
  BY <1>1, PrefixOf DEF Front
<1>3. Last(s) = s[n + 1]
  BY <1>1 DEF Last
<1> HIDE DEF n, r
<1>4. CopiesOf(r, n, c) = CopiesOf(s, n, c)
  BY <1>1, <1>2, CopiesSame
<1>5. CopiesOf(s, n + 1, c) = CopiesOf(s, n, c) + (IF s[n + 1] = c THEN 1 ELSE 0)
  BY <1>1, CopiesCount
<1> QED BY <1>1, <1>2, <1>3, <1>4, <1>5 DEF r

(* A removal adds no copy.                                                 *)
LEMMA CopiesRemoveAt ==
  ASSUME NEW S, NEW s \in Seq(S), NEW i \in 1..Len(s), NEW c
  PROVE  CopiesOf(RemoveAt(s, i), Len(RemoveAt(s, i)), c) <= CopiesOf(s, Len(s), c)
<1> DEFINE r == RemoveAt(s, i)
           from == {j \in 1..(Len(s) - 1) : r[j] = c}
           to == {k \in 1..Len(s) : s[k] = c}
           f == [j \in from |-> IF j < i THEN j ELSE j + 1]
<1>1. /\ Len(s) \in Nat /\ Len(r) = Len(s) - 1
      /\ \A j \in 1..(Len(s) - 1) : r[j] = IF j < i THEN s[j] ELSE s[j + 1]
  BY RemoveAtType
<1> HIDE DEF r
<1>2. \A j \in from : f[j] \in to
  BY <1>1
<1>3. \A j, k \in from : f[j] = f[k] => j = k
  OBVIOUS
<1>4. f \in Injection(from, to)
  <2> f \in [from -> to]
    BY <1>2
  <2> HIDE DEF f, from, to
  <2> QED BY <1>3 DEF Injection, IsInjective
<1>5. IsFiniteSet(to)
  <2>1. IsFiniteSet(1..Len(s)) /\ to \in SUBSET (1..Len(s))
    BY <1>1, FS_Interval
  <2> HIDE DEF to
  <2> QED BY <2>1, FS_Subset
<1>6. Cardinality(from) <= Cardinality(to)
  <2> HIDE DEF f, from, to
  <2> QED BY <1>4, <1>5, FS_Injection
<1> QED BY <1>1, <1>6 DEF CopiesOf, r
=============================================================================
