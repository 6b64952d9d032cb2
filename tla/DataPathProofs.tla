---------------------------- MODULE DataPathProofs ----------------------------
(***************************************************************************)
(* Proofs about the simulated venue, the tick bridges, the composite and   *)
(* backtests (replays among the providers, a run over a series, and the    *)
(* pipeline its candles go through), for every value of their constants.   *)
(***************************************************************************)
EXTENDS SimulatedVenue, TickBridge, MarketComposite, ReplayGuards, ReplayRun, ReplayPipeline,
  FiniteSetTheorems, SequenceTheorems, NaturalsInduction, WellFoundedInduction, TLAPS

LEMMA LeastNumber ==
  ASSUME NEW S \in SUBSET Nat, S # {}
  PROVE  \E m \in S : \A n \in S : m <= n
<1> DEFINE R == {pair \in Nat \X Nat : pair[1] < pair[2]}
<1>1. IsWellFoundedOn(R, Nat)
  BY NatLessThanWellFounded DEF OpToRel
<1>2. \A m, n \in Nat : <<n, m>> \in R <=> n < m
  OBVIOUS
<1> HIDE DEF R
<1>3. PICK m \in S : \A n \in S : ~(<<n, m>> \in R)
  BY <1>1, WFMin
<1>4. ASSUME NEW n \in S PROVE m <= n
  <2>1. m \in Nat /\ n \in Nat /\ ~(n < m)
    BY <1>2, <1>3
  <2> QED BY <2>1
<1> QED BY <1>4

LEMMA LeastOfFinite ==
  ASSUME NEW S \in SUBSET Int, IsFiniteSet(S), S # {}
  PROVE  (\E m \in S : \A n \in S : m <= n) /\ (\E m \in S : \A n \in S : m >= n)
<1> DEFINE Bounded(T) == (\E m \in T : \A n \in T : m <= n) /\ (\E m \in T : \A n \in T : m >= n)
           Failing == {k \in Nat : \E T \in SUBSET Int :
                         IsFiniteSet(T) /\ T # {} /\ Cardinality(T) = k /\ ~Bounded(T)}
<1>1. SUFFICES ASSUME ~Bounded(S) PROVE FALSE
  OBVIOUS
<1>2. Cardinality(S) \in Failing
  BY <1>1, FS_CardinalityType
<1>3. PICK k \in Failing : \A j \in Failing : k <= j
  <2>1. Failing \in SUBSET Nat /\ Failing # {}
    BY <1>2
  <2> HIDE DEF Failing
  <2> QED BY <2>1, LeastNumber
<1>4. PICK T \in SUBSET Int : IsFiniteSet(T) /\ T # {} /\ Cardinality(T) = k /\ ~Bounded(T)
  <2> HIDE DEF Bounded
  <2> QED BY <1>3
<1>5. PICK x \in T : TRUE
  BY <1>4
<1> DEFINE U == T \ {x}
<1>6. IsFiniteSet(U) /\ Cardinality(U) = k - 1 /\ U \in SUBSET Int /\ T = U \cup {x} /\ k \in Nat
      /\ Cardinality(U) \in Nat
  BY <1>3, <1>4, <1>5, FS_RemoveElement, FS_CardinalityType
<1> HIDE DEF U
<1>7. CASE U = {}
  <2>1. T = {x} /\ x \in Int
    BY <1>5, <1>6, <1>7
  <2>2. Bounded(T)
    BY <2>1
  <2> HIDE DEF Bounded
  <2> QED BY <1>4, <2>2
<1>8. CASE U # {}
  <2>1. Bounded(U)
    <3> HIDE DEF Bounded
    <3>1. SUFFICES ASSUME ~Bounded(U) PROVE FALSE
      OBVIOUS
    <3>2. Cardinality(U) \in Failing
      BY <1>6, <1>8, <3>1
    <3> HIDE DEF Failing
    <3>3. k <= Cardinality(U)
      BY <1>3, <3>2
    <3> QED BY <1>6, <3>3
  <2>2. PICK low \in U : \A n \in U : low <= n
    BY <2>1
  <2>3. PICK high \in U : \A n \in U : high >= n
    BY <2>1
  <2>4. x \in Int /\ low \in Int /\ high \in Int /\ \A n \in U : n \in Int
    BY <1>5, <1>6, <2>2, <2>3
  <2>5. \E m \in T : \A n \in T : m <= n
    <3>1. CASE x <= low
      BY <1>6, <2>2, <2>4, <3>1
    <3>2. CASE low <= x
      BY <1>6, <2>2, <2>4, <3>2
    <3> QED BY <2>4, <3>1, <3>2
  <2>6. \E m \in T : \A n \in T : m >= n
    <3>1. CASE x >= high
      BY <1>6, <2>3, <2>4, <3>1
    <3>2. CASE high >= x
      BY <1>6, <2>3, <2>4, <3>2
    <3> QED BY <2>4, <3>1, <3>2
  <2> QED BY <1>4, <2>5, <2>6
<1> QED BY <1>7, <1>8

LEMMA MinAndMax ==
  ASSUME NEW S \in SUBSET Int, IsFiniteSet(S), S # {}
  PROVE  /\ Min(S) \in S /\ \A n \in S : Min(S) <= n
         /\ Max(S) \in S /\ \A n \in S : Max(S) >= n
<1>1. \E m \in S : \A n \in S : m <= n
  BY LeastOfFinite
<1>2. \E m \in S : \A n \in S : m >= n
  BY LeastOfFinite
<1>3. Min(S) \in S /\ \A n \in S : Min(S) <= n
  BY <1>1 DEF Min
<1>4. Max(S) \in S /\ \A n \in S : Max(S) >= n
  BY <1>2 DEF Max
<1> QED BY <1>3, <1>4

(***************************************************************************)
(* Sums.  The folds of the community modules are functions on subsets      *)
(* defined by recursion: the sums exist, whichever element is chosen next, *)
(* by induction over the number of elements.                               *)
(***************************************************************************)
Choice(t) == CHOOSE x \in t : TRUE
SumUp(W, it, t) == IF t = {} THEN 0 ELSE W[Choice(t)] + it[t \ {Choice(t)}]
IsSum(D, W, it) == it = [t \in SUBSET D |-> SumUp(W, it, t)]
SumLaws(D, W, it) ==
  /\ it[{}] = 0
  /\ \A t \in SUBSET D : it[t] \in Int
  /\ \A t \in SUBSET D : \A x \in t : it[t] = W[x] + it[t \ {x}]
Alike(D, W, V) == \A x \in D : W[x] = V[x]
Weights(D, W) == \A x \in D : W[x] \in Int
SumOf(D, W) == (CHOOSE it : IsSum(D, W, it))[D]

LEMMA SmallerSubset ==
  ASSUME NEW D, IsFiniteSet(D), NEW t \in SUBSET D, NEW x \in t
  PROVE  /\ IsFiniteSet(t) /\ IsFiniteSet(t \ {x}) /\ t \ {x} \in SUBSET D
         /\ Cardinality(t) \in Nat /\ Cardinality(t \ {x}) \in Nat
         /\ Cardinality(t \ {x}) = Cardinality(t) - 1
<1>1. IsFiniteSet(t)
  BY FS_Subset
<1> QED BY <1>1, FS_RemoveElement, FS_CardinalityType

LEMMA SumsExist ==
  ASSUME NEW D, IsFiniteSet(D), NEW W
  PROVE  \E it : IsSum(D, W, it)
<1> DEFINE Stage(n) == {t \in SUBSET D : Cardinality(t) <= n}
           Staged(n, f) == f = [t \in Stage(n) |-> SumUp(W, f, t)]
           Failing == {n \in Nat : ~\E f : Staged(n, f)}
<1>1. \A t \in SUBSET D : t # {} =>
         /\ Choice(t) \in t /\ t \ {Choice(t)} \in SUBSET D
         /\ Cardinality(t) \in Nat \ {0} /\ Cardinality(t \ {Choice(t)}) = Cardinality(t) - 1
  <2> SUFFICES ASSUME NEW t \in SUBSET D, t # {}
               PROVE  /\ Choice(t) \in t /\ t \ {Choice(t)} \in SUBSET D
                      /\ Cardinality(t) \in Nat \ {0} /\ Cardinality(t \ {Choice(t)}) = Cardinality(t) - 1
    OBVIOUS
  <2>1. Choice(t) \in t
    BY DEF Choice
  <2>2. /\ IsFiniteSet(t) /\ Cardinality(t) \in Nat /\ Cardinality(t \ {Choice(t)}) \in Nat
        /\ Cardinality(t \ {Choice(t)}) = Cardinality(t) - 1
    BY <2>1, SmallerSubset
  <2> QED BY <2>1, <2>2
<1>2. Failing = {}
  <2>1. SUFFICES ASSUME Failing # {} PROVE FALSE
    OBVIOUS
  <2>2. PICK n \in Failing : \A k \in Failing : n <= k
    <3>1. Failing \in SUBSET Nat
      OBVIOUS
    <3> HIDE DEF Failing
    <3> QED BY <2>1, <3>1, LeastNumber
  <2>3. CASE n = 0
    <3> DEFINE f == [t \in Stage(0) |-> 0]
    <3>1. \A t \in Stage(0) : t = {}
      <4> SUFFICES ASSUME NEW t \in SUBSET D, Cardinality(t) <= 0, t # {} PROVE FALSE
        OBVIOUS
      <4>1. Cardinality(t) \in Nat \ {0}
        BY <1>1
      <4> QED BY <4>1
    <3>2. Staged(0, f)
      BY <3>1 DEF SumUp
    <3> HIDE DEF f, Staged
    <3> QED BY <2>2, <2>3, <3>2
  <2>4. CASE n # 0
    <3>1. n \in Nat /\ n - 1 \in Nat /\ n - 1 \notin Failing
      <4>1. n \in Nat
        BY <2>2
      <4>2. n - 1 \in Nat /\ ~(n <= n - 1)
        BY <4>1, <2>4
      <4> HIDE DEF Failing
      <4> QED BY <2>2, <4>1, <4>2
    <3>2. PICK f : Staged(n - 1, f)
      BY <3>1
    <3> DEFINE g == [t \in Stage(n) |-> SumUp(W, f, t)]
    <3>3. \A t \in Stage(n) : t # {} => t \ {Choice(t)} \in Stage(n - 1) /\ t \ {Choice(t)} \in Stage(n)
      BY <1>1, <3>1
    <3>4. \A t \in Stage(n - 1) : f[t] = SumUp(W, f, t) /\ t \in Stage(n)
      <4>1. \A t \in Stage(n - 1) : t \in Stage(n)
        <5> TAKE t \in Stage(n - 1)
        <5>1. IsFiniteSet(t)
          BY FS_Subset
        <5>2. Cardinality(t) \in Nat
          BY <5>1, FS_CardinalityType
        <5> QED BY <5>2, <3>1
      <4> HIDE DEF Stage
      <4> QED BY <3>2, <4>1
    <3>5. \A t \in Stage(n) : SumUp(W, f, t) = SumUp(W, g, t)
      <4> TAKE t \in Stage(n)
      <4> HIDE DEF Stage
      <4> QED BY <3>3, <3>4 DEF SumUp
    <3>6. Staged(n, g)
      <4> HIDE DEF Stage
      <4> QED BY <3>5
    <3> HIDE DEF g, Staged
    <3> QED BY <2>2, <3>6
  <2> QED BY <2>3, <2>4
<1>3. IsFiniteSet(D) /\ Cardinality(D) \in Nat
  BY FS_CardinalityType
<1>4. Stage(Cardinality(D)) = SUBSET D
  BY FS_Subset
<1>5. PICK f : Staged(Cardinality(D), f)
  BY <1>2, <1>3
<1> QED BY <1>4, <1>5 DEF IsSum

(* Any element may be taken out first.                                     *)
LEMMA SumsShape ==
  ASSUME NEW D, IsFiniteSet(D), NEW W, Weights(D, W), NEW it, IsSum(D, W, it)
  PROVE  SumLaws(D, W, it)
<1> DEFINE Odd == {n \in Nat : \E t \in SUBSET D : Cardinality(t) = n /\ it[t] \notin Int}
           Wrong == {n \in Nat : \E t \in SUBSET D : Cardinality(t) = n
                                    /\ \E x \in t : it[t] # W[x] + it[t \ {x}]}
<1>1. \A t \in SUBSET D : it[t] = SumUp(W, it, t)
  BY DEF IsSum
<1>2. it[{}] = 0
  BY <1>1 DEF SumUp
<1>3. \A t \in SUBSET D : t # {} => Choice(t) \in t /\ it[t] = W[Choice(t)] + it[t \ {Choice(t)}]
  BY <1>1 DEF SumUp, Choice
<1>4. \A t \in SUBSET D : it[t] \in Int
  <2>1. Odd = {}
    <3>1. SUFFICES ASSUME Odd # {} PROVE FALSE
      OBVIOUS
    <3>2. PICK n \in Odd : \A k \in Odd : n <= k
      <4>1. Odd \in SUBSET Nat
        OBVIOUS
      <4> HIDE DEF Odd
      <4> QED BY <3>1, <4>1, LeastNumber
    <3>3. PICK t \in SUBSET D : Cardinality(t) = n /\ it[t] \notin Int
      BY <3>2
    <3>4. t # {}
      BY <3>3, <1>2
    <3>5. /\ t \ {Choice(t)} \in SUBSET D /\ Cardinality(t \ {Choice(t)}) = n - 1
          /\ n \in Nat /\ n - 1 \in Nat
      <4>1. Choice(t) \in t
        BY <3>4, <1>3
      <4>2. /\ t \ {Choice(t)} \in SUBSET D /\ Cardinality(t) \in Nat
            /\ Cardinality(t \ {Choice(t)}) \in Nat
            /\ Cardinality(t \ {Choice(t)}) = Cardinality(t) - 1
        BY ONLY <4>1, t \in SUBSET D, IsFiniteSet(D), SmallerSubset
      <4> QED BY <3>3, <4>2
    <3>6. it[t \ {Choice(t)}] \in Int
      <4>1. n - 1 \notin Odd
        <5> HIDE DEF Odd
        <5> QED BY <3>2, <3>5
      <4> QED BY <3>5, <4>1
    <3>7. W[Choice(t)] \in Int
      BY <3>4, <1>3 DEF Weights
    <3>8. it[t] = W[Choice(t)] + it[t \ {Choice(t)}]
      BY <3>4, <1>3
    <3> QED BY ONLY <3>3, <3>6, <3>7, <3>8
  <2> SUFFICES ASSUME NEW t \in SUBSET D, it[t] \notin Int PROVE FALSE
    OBVIOUS
  <2>2. IsFiniteSet(t)
    BY FS_Subset
  <2>3. Cardinality(t) \in Nat
    BY <2>2, FS_CardinalityType
  <2> QED BY <2>1, <2>3
<1>5. Wrong = {}
  <2>1. SUFFICES ASSUME Wrong # {} PROVE FALSE
    OBVIOUS
  <2>2. PICK n \in Wrong : \A k \in Wrong : n <= k
    <3>1. Wrong \in SUBSET Nat
      OBVIOUS
    <3> HIDE DEF Wrong
    <3> QED BY <2>1, <3>1, LeastNumber
  <2>31. PICK t \in SUBSET D : Cardinality(t) = n /\ \E x \in t : it[t] # W[x] + it[t \ {x}]
    BY <2>2
  <2>3. PICK x \in t : Cardinality(t) = n /\ it[t] # W[x] + it[t \ {x}]
    BY <2>31
  <2> DEFINE c == Choice(t)
             u == t \ {c}
             v == t \ {x}
             both == u \ {x}
  <2>4. c \in t /\ it[t] = W[c] + it[u]
    BY <2>3, <1>3
  <2>5. c # x
    BY <2>3, <2>4
  <2>6. /\ u \in SUBSET D /\ v \in SUBSET D /\ x \in u /\ c \in v /\ both = v \ {c}
        /\ both \in SUBSET D
    BY <2>3, <2>4, <2>5
  <2>7. Cardinality(u) = n - 1 /\ Cardinality(v) = n - 1 /\ n \in Nat /\ n - 1 \in Nat
    <3>1. c \in t
      BY <2>4
    <3>2. x \in t
      OBVIOUS
    <3> HIDE DEF c
    <3>3. Cardinality(u) \in Nat /\ Cardinality(u) = Cardinality(t) - 1 /\ Cardinality(t) \in Nat
      BY ONLY <3>1, t \in SUBSET D, IsFiniteSet(D), SmallerSubset
    <3>4. Cardinality(v) = Cardinality(t) - 1
      BY ONLY <3>2, t \in SUBSET D, IsFiniteSet(D), SmallerSubset
    <3> QED BY <2>3, <3>3, <3>4
  <2> HIDE DEF c, u, v, both
  <2>8. n - 1 \notin Wrong
    <3> HIDE DEF Wrong
    <3> QED BY <2>2, <2>7
  <2>9. it[u] = W[x] + it[u \ {x}] /\ it[v] = W[c] + it[v \ {c}]
    BY <2>6, <2>7, <2>8
  <2>10. it[u] = W[x] + it[both] /\ it[v] = W[c] + it[both]
    BY <2>6, <2>9 DEF both
  <2>11. it[t] # W[x] + it[v]
    BY <2>3 DEF v
  <2>12. W[x] \in Int /\ W[c] \in Int /\ it[both] \in Int
    BY <1>4, <2>4, <2>6, <2>3 DEF Weights
  <2> QED BY ONLY <2>4, <2>10, <2>11, <2>12
<1>6. \A t \in SUBSET D : \A x \in t : it[t] = W[x] + it[t \ {x}]
  <2> SUFFICES ASSUME NEW t \in SUBSET D, NEW x \in t, it[t] # W[x] + it[t \ {x}] PROVE FALSE
    OBVIOUS
  <2>2. Cardinality(t) \in Nat
    BY SmallerSubset
  <2> QED BY <1>5, <2>2
<1> QED BY <1>2, <1>4, <1>6 DEF SumLaws

(* A sum depends on what is summed up only.                                *)
LEMMA SumsAgree ==
  ASSUME NEW D, IsFiniteSet(D), NEW W, Weights(D, W), NEW it, IsSum(D, W, it),
         NEW E, IsFiniteSet(E), NEW V, Weights(E, V), NEW jt, IsSum(E, V, jt),
         NEW T, T \in SUBSET D, T \in SUBSET E, \A x \in T : W[x] = V[x]
  PROVE  it[T] = jt[T]
<1> DEFINE Wrong == {n \in Nat : \E t \in SUBSET T : Cardinality(t) = n /\ it[t] # jt[t]}
<1>1. /\ it[{}] = 0 /\ \A t \in SUBSET D : \A x \in t : it[t] = W[x] + it[t \ {x}]
      /\ jt[{}] = 0 /\ \A t \in SUBSET E : \A x \in t : jt[t] = V[x] + jt[t \ {x}]
  <2>1. SumLaws(D, W, it) /\ SumLaws(E, V, jt)
    BY SumsShape
  <2> QED BY <2>1 DEF SumLaws
<1>2. Wrong = {}
  <2>1. SUFFICES ASSUME Wrong # {} PROVE FALSE
    OBVIOUS
  <2>2. PICK n \in Wrong : \A k \in Wrong : n <= k
    <3>1. Wrong \in SUBSET Nat
      OBVIOUS
    <3> HIDE DEF Wrong
    <3> QED BY <2>1, <3>1, LeastNumber
  <2>3. PICK t \in SUBSET T : Cardinality(t) = n /\ it[t] # jt[t]
    BY <2>2
  <2>4. PICK x \in t : TRUE
    BY <1>1, <2>3
  <2>5. t \ {x} \in SUBSET T /\ Cardinality(t \ {x}) = n - 1 /\ n \in Nat /\ n - 1 \in Nat
    <3>1. t \in SUBSET D
      BY <2>3
    <3>2. /\ Cardinality(t) \in Nat /\ Cardinality(t \ {x}) \in Nat
          /\ Cardinality(t \ {x}) = Cardinality(t) - 1
      BY ONLY <3>1, <2>4, IsFiniteSet(D), SmallerSubset
    <3> QED BY <2>3, <3>2
  <2>6. n - 1 \notin Wrong
    <3> HIDE DEF Wrong
    <3> QED BY <2>2, <2>5
  <2>7. it[t \ {x}] = jt[t \ {x}]
    BY <2>5, <2>6
  <2>8. t \in SUBSET D /\ t \in SUBSET E /\ W[x] = V[x]
    BY <2>3, <2>4
  <2>9. it[t] = W[x] + it[t \ {x}] /\ jt[t] = V[x] + jt[t \ {x}]
    BY ONLY <1>1, <2>4, <2>8
  <2> QED BY ONLY <2>3, <2>7, <2>8, <2>9
<1>3. IsFiniteSet(T)
  BY FS_Subset
<1>4. Cardinality(T) \in Nat
  BY <1>3, FS_CardinalityType
<1>5. T \in SUBSET T
  OBVIOUS
<1> QED BY <1>2, <1>4, <1>5

LEMMA TotalSums ==
  ASSUME NEW D, IsFiniteSet(D), NEW W
  PROVE  \E it : IsSum(D, W, it) /\ SumOf(D, W) = it[D]
<1>1. PICK jt : IsSum(D, W, jt)
  BY SumsExist
<1>2. IsSum(D, W, CHOOSE it : IsSum(D, W, it))
  <2> HIDE DEF IsSum
  <2> QED BY <1>1
<1> QED BY <1>2 DEF SumOf

LEMMA TotalSame ==
  ASSUME NEW D, IsFiniteSet(D), NEW W, NEW V, Weights(D, W), Alike(D, W, V)
  PROVE  SumOf(D, W) = SumOf(D, V)
<1>1. PICK it : IsSum(D, W, it) /\ SumOf(D, W) = it[D]
  BY TotalSums
<1>2. PICK jt : IsSum(D, V, jt) /\ SumOf(D, V) = jt[D]
  BY TotalSums
<1>3. Weights(D, W) /\ Weights(D, V) /\ (\A x \in D : W[x] = V[x]) /\ D \in SUBSET D
  BY DEF Weights, Alike
<1>4. it[D] = jt[D]
  BY ONLY <1>1, <1>2, <1>3, IsFiniteSet(D), SumsAgree
<1> QED BY <1>1, <1>2, <1>4

LEMMA TotalWithout ==
  ASSUME NEW D, IsFiniteSet(D), NEW W, Weights(D, W), NEW x \in D
  PROVE  /\ SumOf(D, W) \in Int /\ SumOf(D \ {x}, W) \in Int
         /\ SumOf(D, W) = W[x] + SumOf(D \ {x}, W)
<1> DEFINE U == D \ {x}
<1>1. IsFiniteSet(U) /\ U \in SUBSET D /\ D \in SUBSET D /\ U \in SUBSET U /\ x \in D
  BY FS_Subset
<1>2. PICK it : IsSum(D, W, it) /\ SumOf(D, W) = it[D]
  BY TotalSums
<1>3. PICK jt : IsSum(U, W, jt) /\ SumOf(U, W) = jt[U]
  BY <1>1, TotalSums
<1>4. Weights(U, W) /\ Weights(D, W) /\ \A y \in U : W[y] = W[y]
  BY DEF Weights
<1> HIDE DEF U
<1>5. it[U] = jt[U]
  BY ONLY <1>1, <1>2, <1>3, <1>4, IsFiniteSet(D), SumsAgree
<1>6. /\ \A t \in SUBSET D : it[t] \in Int
      /\ \A t \in SUBSET D : \A y \in t : it[t] = W[y] + it[t \ {y}]
  <2>1. SumLaws(D, W, it)
    BY <1>2, <1>4, SumsShape
  <2> QED BY <2>1 DEF SumLaws
<1>7. it[D] = W[x] + it[D \ {x}]
  BY ONLY <1>1, <1>6
<1> QED BY ONLY <1>1, <1>2, <1>3, <1>5, <1>6, <1>7 DEF U

LEMMA TotalOfNone ==
  ASSUME NEW W
  PROVE  SumOf({}, W) = 0
<1>1. IsFiniteSet({})
  BY FS_EmptySet
<1>2. PICK it : IsSum({}, W, it) /\ SumOf({}, W) = it[{}]
  BY <1>1, TotalSums
<1> QED BY <1>2 DEF IsSum, SumUp

LEMMA TotalInt ==
  ASSUME NEW D, IsFiniteSet(D), NEW W, Weights(D, W)
  PROVE  SumOf(D, W) \in Int
<1>1. CASE D = {}
  BY <1>1, TotalOfNone
<1>2. CASE D # {}
  BY <1>2, TotalWithout
<1> QED BY <1>1, <1>2

LEMMA SumChanged ==
  ASSUME NEW D, IsFiniteSet(D), NEW W, Weights(D, W), NEW V, Weights(D, V), NEW x \in D,
         Alike(D \ {x}, W, V)
  PROVE  SumOf(D, V) = SumOf(D, W) - W[x] + V[x]
<1> DEFINE U == D \ {x}
<1>1. IsFiniteSet(U) /\ Weights(U, W) /\ Alike(U, W, V)
  BY FS_Subset DEF Weights
<1>2. SumOf(U, W) = SumOf(U, V)
  <2> HIDE DEF U
  <2> QED BY ONLY <1>1, TotalSame
<1>3. SumOf(D, W) = W[x] + SumOf(U, W) /\ SumOf(U, W) \in Int
  BY TotalWithout
<1>4. SumOf(D, V) = V[x] + SumOf(U, V)
  BY TotalWithout
<1>5. W[x] \in Int /\ V[x] \in Int
  BY DEF Weights
<1> QED BY ONLY <1>2, <1>3, <1>4, <1>5

LEMMA SumGrows ==
  ASSUME NEW U, IsFiniteSet(U), NEW x \in U, NEW V, Weights(U, V), NEW W, Alike(U \ {x}, W, V)
  PROVE  SumOf(U, V) = SumOf(U \ {x}, W) + V[x] /\ SumOf(U \ {x}, W) \in Int
<1> DEFINE D == U \ {x}
<1>1. IsFiniteSet(D)
  BY FS_RemoveElement
<1>2. Weights(D, V) /\ Weights(D, W) /\ Alike(D, W, V)
  BY DEF Weights, Alike
<1> HIDE DEF D
<1>3. SumOf(D, W) = SumOf(D, V) /\ SumOf(D, W) \in Int
  BY ONLY <1>1, <1>2, TotalSame, TotalInt
<1>4. V[x] \in Int
  BY DEF Weights
<1>5. SumOf(U, V) = V[x] + SumOf(U \ {x}, V)
  BY TotalWithout
<1>6. SumOf(U, V) = V[x] + SumOf(D, V)
  BY <1>5 DEF D
<1>7. SumOf(U, V) = SumOf(D, W) + V[x]
  BY ONLY <1>3, <1>4, <1>6
<1> QED BY <1>3, <1>7 DEF D

---------------------------------------------------------------------------
(* The simulated venue                                                     *)

(***************************************************************************)
(* What Keep returns: the elements kept, each as often as the sequence has *)
(* it.  The ranks of the kept positions are distinct and within their      *)
(* number, so every rank is taken: no induction over the sequence.         *)
(***************************************************************************)
LEMMA RanksDistinct ==
  ASSUME NEW A, NEW s \in Seq(A), NEW S
  PROVE  /\ IsFiniteSet(KeptAt(s, S)) /\ Cardinality(KeptAt(s, S)) \in Nat
         /\ \A i \in KeptAt(s, S) : Rank(s, S, i) \in 1..Cardinality(KeptAt(s, S))
         /\ \A i, j \in KeptAt(s, S) : Rank(s, S, i) = Rank(s, S, j) => i = j
<1> DEFINE K == KeptAt(s, S)
           upTo(x) == {m \in K : m <= x}
<1>1. IsFiniteSet(K) /\ Cardinality(K) \in Nat /\ K \subseteq Nat
  <2>1. K \subseteq 1..Len(s) /\ Len(s) \in Nat
    BY DEF KeptAt
  <2>2. IsFiniteSet(1..Len(s))
    BY <2>1, FS_Interval
  <2>3. IsFiniteSet(K)
    BY <2>1, <2>2, FS_Subset
  <2> QED BY <2>1, <2>3, FS_CardinalityType
<1> HIDE DEF K
<1>2. \A i \in K : IsFiniteSet(upTo(i)) /\ Cardinality(upTo(i)) \in 1..Cardinality(K)
  <2> TAKE i \in K
  <2>1. upTo(i) \subseteq K /\ i \in upTo(i)
    BY <1>1
  <2>2. IsFiniteSet(upTo(i)) /\ Cardinality(upTo(i)) <= Cardinality(K)
    BY <1>1, <2>1, FS_Subset
  <2>3. Cardinality(upTo(i)) \in Nat /\ Cardinality(upTo(i)) # 0
    BY <2>1, <2>2, FS_CardinalityType, FS_EmptySet
  <2> QED BY <1>1, <2>2, <2>3
<1>3. ASSUME NEW i \in K, NEW j \in K, i < j
      PROVE  Cardinality(upTo(i)) # Cardinality(upTo(j))
  <2>0. i \in Nat /\ j \in Nat /\ \A k \in K : k \in Nat
    BY <1>1
  <2>1. upTo(i) \subseteq upTo(j)
    <3> SUFFICES ASSUME NEW k \in K, k <= i
                 PROVE  k <= j
      OBVIOUS
    <3> QED BY <2>0, <1>3
  <2>2. j \in upTo(j) /\ j \notin upTo(i)
    <3>1. j <= j /\ ~(j <= i)
      BY <2>0, <1>3
    <3> QED BY <3>1
  <2>3. IsFiniteSet(upTo(j))
    BY <1>2
  <2> HIDE DEF upTo
  <2> QED BY <2>1, <2>2, <2>3, FS_Subset
<1>4. \A i \in K : Rank(s, S, i) = Cardinality(upTo(i))
  BY DEF Rank, K
<1>5. ASSUME NEW i \in K, NEW j \in K, Rank(s, S, i) = Rank(s, S, j)
      PROVE  i = j
  <2>1. i \in Nat /\ j \in Nat
    BY <1>1
  <2>2. ~(i < j) /\ ~(j < i)
    BY <1>3, <1>4, <1>5
  <2> QED BY <2>1, <2>2
<1> QED BY <1>1, <1>2, <1>4, <1>5 DEF K

LEMMA RanksTaken ==
  ASSUME NEW A, NEW s \in Seq(A), NEW S
  PROVE  \A k \in 1..Cardinality(KeptAt(s, S)) :
           \E i \in KeptAt(s, S) : Rank(s, S, i) = k
<1> DEFINE K == KeptAt(s, S)
           rank == [i \in K |-> Rank(s, S, i)]
           T == 1..Cardinality(K)
<1>1. IsFiniteSet(K) /\ Cardinality(K) \in Nat
  BY RanksDistinct
<1>2. rank \in Injection(K, T)
  BY RanksDistinct DEF Injection, IsInjective
<1>3. IsFiniteSet(T) /\ Cardinality(T) = Cardinality(K)
  BY <1>1, FS_Interval
<1> HIDE DEF T
<1>4. rank \in Surjection(K, T)
  BY <1>2, <1>3, FS_Injection
<1> QED BY <1>4 DEF Surjection, T

NoDuplicates(s) == \A i, j \in DOMAIN s : s[i] = s[j] => i = j
Holds(s, x) == \E i \in DOMAIN s : s[i] = x

LEMMA KeepShape ==
  ASSUME NEW A, NEW s \in Seq(A), NEW S
  PROVE  /\ Keep(s, S) \in Seq(A)
         /\ \A x : Holds(Keep(s, S), x) <=> Holds(s, x) /\ x \in S
         /\ NoDuplicates(s) => NoDuplicates(Keep(s, S))
<1> DEFINE K == KeptAt(s, S)
           n == Cardinality(K)
           at(k) == CHOOSE i \in K : Rank(s, S, i) = k
<1>1. n \in Nat /\ \A k \in 1..n : at(k) \in K /\ Rank(s, S, at(k)) = k
  BY RanksDistinct, RanksTaken
<1>2. \A i \in K : i \in DOMAIN s /\ s[i] \in S /\ s[i] \in A
  BY DEF KeptAt
<1>3. \A i \in K : \E k \in 1..n : at(k) = i
  BY RanksDistinct, <1>1
<1>4. Keep(s, S) = [k \in 1..n |-> s[at(k)]]
  BY DEF Keep
<1> HIDE DEF K, n, at
<1>5. Keep(s, S) \in Seq(A)
  BY <1>1, <1>2, <1>4
<1>6. DOMAIN Keep(s, S) = 1..n
  BY <1>4
<1>7. ASSUME NEW x
      PROVE  Holds(Keep(s, S), x) <=> Holds(s, x) /\ x \in S
  <2>1. Holds(Keep(s, S), x) => Holds(s, x) /\ x \in S
    BY <1>1, <1>2, <1>4, <1>6 DEF Holds
  <2>2. ASSUME NEW i \in DOMAIN s, s[i] = x, x \in S
        PROVE  Holds(Keep(s, S), x)
    <3>1. i \in K
      BY <2>2 DEF K, KeptAt
    <3>2. PICK k \in 1..n : at(k) = i
      BY <1>3, <3>1
    <3> QED BY <1>4, <1>6, <2>2, <3>2 DEF Holds
  <2> QED BY <2>1, <2>2 DEF Holds
<1>8. NoDuplicates(s) => NoDuplicates(Keep(s, S))
  BY <1>1, <1>2, <1>4, <1>6 DEF NoDuplicates
<1> QED BY <1>5, <1>7, <1>8

(* A sequence without duplicates is as long as the set of its elements.    *)
LEMMA CountNoDuplicates ==
  ASSUME NEW A, NEW s \in Seq(A), NoDuplicates(s), NEW T,
         \A x : x \in T <=> Holds(s, x)
  PROVE  Cardinality(T) = Len(s)
<1>1. s \in [1..Len(s) -> T] /\ Len(s) \in Nat /\ DOMAIN s = 1..Len(s)
  BY DEF Holds
<1>2. s \in Bijection(1..Len(s), T)
  BY <1>1 DEF Bijection, Injection, Surjection, IsInjective, NoDuplicates, Holds
<1> QED BY <1>1, <1>2, FS_CountingElements DEF ExistsBijection

(***************************************************************************)
(* The inductive invariant: how an order's status and its fills hang       *)
(* together, and the pending list with the statuses.  Both are needed for  *)
(* either property: a tick fills what is pending, and a fill of an order   *)
(* that is not open would break the book.                                  *)
(***************************************************************************)
OrderSound(o) ==
  /\ o.status = "none" => o = NoSimOrder
  /\ o.status # "none" => o.qty > 0
  /\ o.status \in {"submitted", "rejected"} => Len(o.fillTs) = 0
  /\ o.status = "partially_filled" => Len(o.fillTs) \in 1 .. o.qty - 1
  /\ o.status = "filled" => Len(o.fillTs) = o.qty
  /\ o.status = "cancelled" => Len(o.fillTs) < o.qty

PendingSound(p) ==
  /\ NoDuplicates(waiting[p])
  /\ \A n \in Legs : Holds(waiting[p], n) <=> book[p][n].status \in Open

VenueInv ==
  /\ TypeOK
  /\ \A p \in Trades : PendingSound(p) /\ \A n \in Legs : OrderSound(book[p][n])

(* An order with open lots takes one more fill.                            *)
LEMMA FillOneSound ==
  ASSUME NEW o \in SimOrders, OrderSound(o), o.status \in Open, NEW ts \in Stamps
  PROVE  /\ FillOne(o, ts) \in SimOrders
         /\ OrderSound(FillOne(o, ts))
         /\ FillOne(o, ts).qty = o.qty
         /\ FillOne(o, ts).fillTs = Append(o.fillTs, ts)
         /\ FillOne(o, ts).status # "none"
         /\ Len(o.fillTs) < o.qty
<1> DEFINE u == FillOne(o, ts)
           s == IF Len(o.fillTs) + 1 = o.qty THEN "filled" ELSE "partially_filled"
<1>1. /\ o.qty \in 0..MaxLots /\ o.fillTs \in Seq(Stamps) /\ Len(o.fillTs) \in Nat
      /\ MaxLots \in Nat
  BY VenueAssumption DEF SimOrders
<1>2. Len(o.fillTs) < o.qty /\ o.qty > 0
  BY <1>1 DEF OrderSound, Open
<1>3. /\ u.status = s /\ u.qty = o.qty /\ u.fillTs = Append(o.fillTs, ts)
      /\ u = [o EXCEPT !.fillTs = Append(o.fillTs, ts), !.status = s]
  BY DEF FillOne, SimOrders
<1>4. Append(o.fillTs, ts) \in Seq(Stamps) /\ Len(Append(o.fillTs, ts)) = Len(o.fillTs) + 1
  BY <1>1
<1>5. s \in {"filled", "partially_filled"}
  OBVIOUS
<1>6. u \in SimOrders
  BY <1>3, <1>4, <1>5 DEF SimOrders, Open, Closed
<1>7. OrderSound(u)
  BY <1>1, <1>2, <1>3, <1>4 DEF OrderSound
<1> QED BY <1>2, <1>3, <1>5, <1>6, <1>7

(***************************************************************************)
(* The steps.  A placement, a cancellation and a tick change the orders of *)
(* one trade; ChangesOf says what the trade they change must satisfy.      *)
(***************************************************************************)
LEMMA PlaceStep ==
  ASSUME VenueInv, NEW p \in Trades, NEW n \in Legs, NEW q \in 1..MaxLots,
         NEW r \in BOOLEAN, PlaceOrder(p, n, q, r)
  PROVE  VenueInv'
<1>1. CASE Known(book[p][n])
  BY <1>1 DEF PlaceOrder, venueVars, VenueInv, TypeOK, PendingSound, Holds, NoDuplicates
<1>2. CASE ~Known(book[p][n])
  <2> DEFINE o == NewSimOrder(q, r)
  <2>1. /\ book \in [Trades -> [Legs -> SimOrders]]
        /\ waiting \in [Trades -> Seq(Legs)]
        /\ book[p][n] = NoSimOrder
        /\ book' = [book EXCEPT ![p][n] = o]
        /\ waiting' = IF connected /\ r THEN [waiting EXCEPT ![p] = Append(@, n)] ELSE waiting
        /\ UNCHANGED <<connected, listening, dispatched>>
    BY <1>2 DEF VenueInv, TypeOK, OrderSound, PlaceOrder, Known
  <2>2. /\ o \in SimOrders /\ OrderSound(o)
        /\ o.status = IF connected /\ r THEN "submitted" ELSE "rejected"
    <3> DEFINE s == IF connected /\ r THEN "submitted" ELSE "rejected"
    <3>1. o = [status |-> s, qty |-> q, fillTs |-> <<>>]
      <4>1. o = [NoSimOrder EXCEPT !.qty = q, !.status = s]
        BY DEF NewSimOrder
      <4> HIDE DEF s, o
      <4> QED BY <4>1 DEF NoSimOrder
    <3>2. s \in {"submitted", "rejected"} /\ q \in 0..MaxLots /\ q > 0
      BY VenueAssumption
    <3>3. <<>> \in Seq(Stamps) /\ Len(<<>>) = 0
      OBVIOUS
    <3> HIDE DEF s, o
    <3>4. o \in SimOrders
      BY <3>1, <3>2, <3>3 DEF SimOrders, Open, Closed
    <3>5. OrderSound(o)
      BY <3>1, <3>2, <3>3 DEF OrderSound
    <3> QED BY <3>1, <3>4, <3>5 DEF s
  <2> HIDE DEF o
  <2>3. book' \in [Trades -> [Legs -> SimOrders]]
    BY <2>1, <2>2
  <2>4. waiting' \in [Trades -> Seq(Legs)]
    BY <2>1
  <2>5. ASSUME NEW x \in Trades
        PROVE  PendingSound(x)' /\ \A m \in Legs : OrderSound(book'[x][m])
    <3>1. CASE x # p
      <4>1. book'[x] = book[x] /\ waiting'[x] = waiting[x]
        BY <2>1, <3>1
      <4> QED BY <4>1 DEF VenueInv, PendingSound
    <3>2. CASE x = p
      <4>1. book'[p][n] = o /\ \A m \in Legs \ {n} : book'[p][m] = book[p][m]
        BY <2>1
      <4>2. \A m \in Legs : OrderSound(book'[p][m])
        BY <2>2, <4>1 DEF VenueInv
      <4>3. PendingSound(p) /\ ~Holds(waiting[p], n)
        <5>1. book[p][n].status \notin Open
          BY <2>1 DEF NoSimOrder, Open
        <5>2. PendingSound(p)
          BY DEF VenueInv
        <5> QED BY <5>1, <5>2 DEF PendingSound
      <4>4. CASE connected /\ r
        <5>1. waiting'[p] = Append(waiting[p], n) /\ waiting[p] \in Seq(Legs)
          BY <2>1, <4>4
        <5>2. \A m : Holds(waiting'[p], m) <=> Holds(waiting[p], m) \/ m = n
          BY <5>1 DEF Holds
        <5>3. NoDuplicates(waiting'[p])
          BY <4>3, <5>1 DEF NoDuplicates, PendingSound, Holds
        <5>4. book'[p][n].status \in Open
          BY <2>2, <4>1, <4>4 DEF Open
        <5> QED BY <3>2, <4>1, <4>2, <4>3, <5>2, <5>3, <5>4 DEF PendingSound
      <4>5. CASE ~(connected /\ r)
        <5>1. waiting'[p] = waiting[p] /\ book'[p][n].status \notin Open
          BY <2>1, <2>2, <4>1, <4>5 DEF Open
        <5> QED BY <3>2, <4>1, <4>2, <4>3, <5>1 DEF PendingSound
      <4> QED BY <4>4, <4>5
    <3> QED BY <3>1, <3>2
  <2> QED BY <2>1, <2>3, <2>4, <2>5 DEF VenueInv, TypeOK
<1> QED BY <1>1, <1>2

(* What a callback is called with has the type of an update.               *)
LEMMA DispatchType ==
  ASSUME TypeOK, NEW us \in Seq(Updates), Dispatch(us)
  PROVE  dispatched' \in Seq(Updates)
BY DEF TypeOK, Dispatch

LEMMA CancelStep ==
  ASSUME VenueInv, NEW p \in Trades, NEW n \in Legs, CancelOrder(p, n)
  PROVE  VenueInv'
<1>1. CASE book[p][n].status \notin Open
  BY <1>1 DEF CancelOrder, venueVars, VenueInv, TypeOK, PendingSound
<1>2. CASE book[p][n].status \in Open
  <2> DEFINE o == [book[p][n] EXCEPT !.status = "cancelled"]
  <2>1. /\ book \in [Trades -> [Legs -> SimOrders]]
        /\ waiting \in [Trades -> Seq(Legs)]
        /\ book' = [book EXCEPT ![p][n] = o]
        /\ waiting' = [waiting EXCEPT ![p] = Without(@, n)]
        /\ Dispatch(<<Update(p, n, 0, 0)>>)
        /\ UNCHANGED <<connected, listening>>
    BY <1>2 DEF VenueInv, TypeOK, CancelOrder
  <2>2. o \in SimOrders /\ OrderSound(o) /\ o.status = "cancelled"
    <3>1. book[p][n] \in SimOrders /\ OrderSound(book[p][n])
      BY DEF VenueInv, TypeOK
    <3>2. /\ o.status = "cancelled" /\ o.qty = book[p][n].qty
          /\ o.fillTs = book[p][n].fillTs /\ o \in SimOrders
      BY <3>1 DEF SimOrders, Closed
    <3>3. Len(o.fillTs) < o.qty /\ o.qty > 0
      BY <1>2, <3>1, <3>2 DEF SimOrders, OrderSound, Open
    <3> QED BY <3>2, <3>3 DEF OrderSound
  <2> HIDE DEF o
  <2>3. book' \in [Trades -> [Legs -> SimOrders]]
    BY <2>1, <2>2
  <2>4. /\ Without(waiting[p], n) \in Seq(Legs)
        /\ \A m \in Legs : Holds(Without(waiting[p], n), m) <=> Holds(waiting[p], m) /\ m # n
        /\ NoDuplicates(Without(waiting[p], n))
    BY <2>1, KeepShape DEF Without, VenueInv, PendingSound
  <2>5. waiting' \in [Trades -> Seq(Legs)]
    BY <2>1, <2>4
  <2>6. dispatched' \in Seq(Updates)
    <3>1. <<Update(p, n, 0, 0)>> \in Seq(Updates)
      BY VenueAssumption DEF Update, Updates
    <3> QED BY <2>1, <3>1, DispatchType DEF VenueInv
  <2>7. ASSUME NEW x \in Trades
        PROVE  PendingSound(x)' /\ \A m \in Legs : OrderSound(book'[x][m])
    <3>1. CASE x # p
      <4>1. book'[x] = book[x] /\ waiting'[x] = waiting[x]
        BY <2>1, <3>1
      <4> QED BY <4>1 DEF VenueInv, PendingSound
    <3>2. CASE x = p
      <4>1. book'[p][n] = o /\ \A m \in Legs \ {n} : book'[p][m] = book[p][m]
        BY <2>1
      <4>2. \A m \in Legs : OrderSound(book'[p][m])
        BY <2>2, <4>1 DEF VenueInv
      <4>3. waiting'[p] = Without(waiting[p], n) /\ PendingSound(p)
        BY <2>1 DEF VenueInv
      <4> QED BY <2>2, <2>4, <3>2, <4>1, <4>2, <4>3 DEF PendingSound, Open
    <3> QED BY <3>1, <3>2
  <2> QED BY <2>1, <2>3, <2>5, <2>6, <2>7 DEF VenueInv, TypeOK
<1> QED BY <1>1, <1>2

LEMMA TickStep ==
  ASSUME VenueInv, NEW p \in Trades, NEW ts \in Stamps, IngestTick(p, ts)
  PROVE  /\ VenueInv'
         /\ \A n \in Legs :
              \/ book[p][n].status \notin Open /\ book'[p][n] = book[p][n]
              \/ book[p][n].status \in Open /\ book'[p][n] = FillOne(book[p][n], ts)
         /\ \A x \in Trades \ {p} : book'[x] = book[x]
<1> DEFINE hit == {waiting[p][i] : i \in DOMAIN waiting[p]}
           after == [n \in Legs |-> IF n \in hit THEN FillOne(book[p][n], ts)
                                                 ELSE book[p][n]]
           open == {n \in Legs : after[n].status \in Open}
           us == [i \in DOMAIN waiting[p] |->
                    Update(p, waiting[p][i], Filled(p, waiting[p][i]) + 1, ts)]
<1>1. /\ book \in [Trades -> [Legs -> SimOrders]]
      /\ waiting \in [Trades -> Seq(Legs)]
      /\ book' = [book EXCEPT ![p] = after]
      /\ waiting' = [waiting EXCEPT ![p] = Keep(@, open)]
      /\ Dispatch(us)
      /\ UNCHANGED <<connected, listening>>
  BY DEF VenueInv, TypeOK, IngestTick
<1>2. PendingSound(p) /\ \A n \in Legs : book[p][n] \in SimOrders /\ OrderSound(book[p][n])
  BY <1>1 DEF VenueInv
<1>3. \A n \in Legs : n \in hit <=> book[p][n].status \in Open
  BY <1>2 DEF PendingSound, Holds
<1>4. \A n \in Legs :
        \/ book[p][n].status \notin Open /\ after[n] = book[p][n]
        \/ book[p][n].status \in Open /\ after[n] = FillOne(book[p][n], ts)
  BY <1>3
<1>5. \A n \in Legs : after[n] \in SimOrders /\ OrderSound(after[n])
  BY <1>2, <1>4, FillOneSound
<1>6. us \in Seq(Updates)
  <2>1. waiting[p] \in Seq(Legs)
    BY <1>1
  <2>2. ASSUME NEW i \in 1..Len(waiting[p])
        PROVE  us[i] \in Updates
    <3>1. waiting[p][i] \in Legs /\ waiting[p][i] \in hit
      BY <2>1
    <3>2. book[p][waiting[p][i]].status \in Open
      BY <1>3, <3>1
    <3>3. /\ Len(book[p][waiting[p][i]].fillTs) < book[p][waiting[p][i]].qty
          /\ book[p][waiting[p][i]] \in SimOrders
      BY <1>2, <3>1, <3>2, FillOneSound
    <3>4. Filled(p, waiting[p][i]) + 1 \in 0..MaxLots
      BY <3>3, VenueAssumption DEF Filled, SimOrders
    <3> QED BY <2>1, <3>1, <3>4 DEF Update, Updates
  <2>3. DOMAIN waiting[p] = 1..Len(waiting[p]) /\ Len(waiting[p]) \in Nat
    BY <2>1
  <2>4. us = [i \in 1..Len(waiting[p]) |-> us[i]]
    BY <2>3
  <2> HIDE DEF us
  <2>5. us \in [1..Len(waiting[p]) -> Updates]
    BY <2>2, <2>4
  <2> QED BY <2>3, <2>5
<1> HIDE DEF after, us, hit
<1>7. book' \in [Trades -> [Legs -> SimOrders]] /\ book'[p] = after
      /\ \A x \in Trades \ {p} : book'[x] = book[x]
  <2>1. after \in [Legs -> SimOrders]
    BY <1>5 DEF after
  <2> QED BY <1>1, <2>1
<1>8. /\ Keep(waiting[p], open) \in Seq(Legs)
      /\ \A m \in Legs : Holds(Keep(waiting[p], open), m) <=> Holds(waiting[p], m) /\ m \in open
      /\ NoDuplicates(Keep(waiting[p], open))
  <2> HIDE DEF open
  <2>1. waiting[p] \in Seq(Legs) /\ NoDuplicates(waiting[p])
    BY <1>1, <1>2 DEF PendingSound
  <2> QED BY <2>1, KeepShape
<1>9. waiting' \in [Trades -> Seq(Legs)]
  BY <1>1, <1>8
<1>10. dispatched' \in Seq(Updates)
  BY <1>1, <1>6, DispatchType DEF VenueInv
<1>11. ASSUME NEW x \in Trades
       PROVE  PendingSound(x)' /\ \A m \in Legs : OrderSound(book'[x][m])
  <2>1. CASE x # p
    <3>1. book'[x] = book[x] /\ waiting'[x] = waiting[x]
      BY <1>1, <1>7, <2>1
    <3> QED BY <3>1 DEF VenueInv, PendingSound
  <2>2. CASE x = p
    <3>1. \A m \in Legs : after[m].status \in Open => Holds(waiting[p], m)
      BY <1>2, <1>4 DEF PendingSound
    <3>2. waiting'[p] = Keep(waiting[p], open)
      BY <1>1
    <3> QED BY <1>5, <1>7, <1>8, <2>2, <3>1, <3>2 DEF PendingSound
  <2> QED BY <2>1, <2>2
<1>12. VenueInv'
  BY <1>1, <1>7, <1>9, <1>10, <1>11 DEF VenueInv, TypeOK
<1> QED BY <1>4, <1>7, <1>12

LEMMA VenueStep == VenueInv /\ [Next]_venueVars => VenueInv'
<1> SUFFICES ASSUME VenueInv, [Next]_venueVars
             PROVE  VenueInv'
  OBVIOUS
<1>1. CASE UNCHANGED venueVars
  BY <1>1 DEF venueVars, VenueInv, TypeOK, PendingSound
<1>2. CASE Connect \/ Register \/ Disconnect
  BY <1>2 DEF Connect, Register, Disconnect, VenueInv, TypeOK, PendingSound
<1> QED BY <1>1, <1>2, PlaceStep, CancelStep, TickStep DEF Next

(* The statuses, the fills and the pending lists agree after any sequence  *)
(* of calls and ticks.                                                     *)
THEOREM VenueInductive == Spec => []VenueInv
<1>1. Init => VenueInv
  <2> SUFFICES ASSUME Init
               PROVE  VenueInv
    OBVIOUS
  <2>1. NoSimOrder \in SimOrders /\ OrderSound(NoSimOrder)
    BY VenueAssumption DEF NoSimOrder, SimOrders, OrderSound
  <2>2. TypeOK
    <3>1. book \in [Trades -> [Legs -> SimOrders]]
      BY <2>1 DEF Init
    <3>2. waiting \in [Trades -> Seq(Legs)] /\ dispatched \in Seq(Updates)
      BY DEF Init
    <3> QED BY <3>1, <3>2 DEF Init, TypeOK
  <2>3. ASSUME NEW p \in Trades
        PROVE  PendingSound(p) /\ \A n \in Legs : OrderSound(book[p][n])
    <3>1. waiting[p] = <<>> /\ \A n \in Legs : book[p][n] = NoSimOrder
      BY DEF Init
    <3> QED BY <2>1, <3>1 DEF PendingSound, NoDuplicates, Holds, NoSimOrder, Open
  <2> QED BY <2>2, <2>3 DEF VenueInv
<1> QED BY <1>1, VenueStep, PTL DEF Spec

(* Every record of the venue has its type: no order gets more lots than it *)
(* asked for.                                                              *)
THEOREM VenueTypeTheorem == Spec => []TypeOK
<1>1. VenueInv => TypeOK
  BY DEF VenueInv
<1> QED BY <1>1, VenueInductive, PTL

(* The pending lists hold the open orders, each once, and the orders whose *)
(* lots are all filled are the filled ones.                                *)
THEOREM PendingTheorem == Spec => []PendingAgrees
<1>1. VenueInv => PendingAgrees
  <2> SUFFICES ASSUME VenueInv, NEW p \in Trades
               PROVE  /\ {waiting[p][i] : i \in DOMAIN waiting[p]} =
                            {n \in Legs : book[p][n].status \in Open}
                      /\ Len(waiting[p]) = Cardinality({n \in Legs : book[p][n].status \in Open})
                      /\ \A n \in Legs :
                           /\ Filled(p, n) <= book[p][n].qty
                           /\ book[p][n].status = "filled" <=>
                                (book[p][n].qty > 0 /\ Filled(p, n) = book[p][n].qty)
                           /\ book[p][n].status = "partially_filled" => Filled(p, n) > 0
    BY DEF PendingAgrees
  <2> DEFINE T == {n \in Legs : book[p][n].status \in Open}
  <2>1. waiting[p] \in Seq(Legs) /\ PendingSound(p)
    BY DEF VenueInv, TypeOK
  <2>2. \A x : x \in T <=> Holds(waiting[p], x)
    BY <2>1 DEF PendingSound, Holds
  <2>3. {waiting[p][i] : i \in DOMAIN waiting[p]} = T
    BY <2>2 DEF Holds
  <2>4. Len(waiting[p]) = Cardinality(T)
    <3> HIDE DEF T
    <3> QED BY <2>1, <2>2, CountNoDuplicates DEF PendingSound
  <2>5. ASSUME NEW n \in Legs
        PROVE  /\ Filled(p, n) <= book[p][n].qty
               /\ book[p][n].status = "filled" <=>
                    (book[p][n].qty > 0 /\ Filled(p, n) = book[p][n].qty)
               /\ book[p][n].status = "partially_filled" => Filled(p, n) > 0
    <3> DEFINE o == book[p][n]
    <3>1. o \in SimOrders /\ OrderSound(o)
      BY DEF VenueInv, TypeOK
    <3>2. o.qty \in Nat /\ Len(o.fillTs) \in Nat
          /\ o.status \in {"none"} \cup Open \cup Closed
          /\ Filled(p, n) = Len(o.fillTs)
      BY <3>1 DEF SimOrders, Filled
    <3>3. o.status = "none" => o.qty = 0 /\ Len(o.fillTs) = 0
      BY <3>1 DEF OrderSound, NoSimOrder
    <3> HIDE DEF o
    <3>4. /\ Len(o.fillTs) <= o.qty
          /\ o.status = "filled" <=> (o.qty > 0 /\ Len(o.fillTs) = o.qty)
          /\ o.status = "partially_filled" => Len(o.fillTs) > 0
      BY <3>1, <3>2, <3>3 DEF OrderSound, Open, Closed
    <3> QED BY <3>2, <3>4 DEF o
  <2> QED BY <2>3, <2>4, <2>5
<1> QED BY <1>1, VenueInductive, PTL

(***************************************************************************)
(* What a step does to the book and to the receiver, seen from one order.  *)
(***************************************************************************)
OrderGrows(old, new) ==
  /\ old.status # "none" => new.qty = old.qty
  /\ old.status \in Closed => new = old
  /\ Len(old.fillTs) <= Len(new.fillTs)
  /\ \A k \in 1..Len(old.fillTs) : new.fillTs[k] = old.fillTs[k]

BookGrows == \A p \in Trades, n \in Legs : OrderGrows(book[p][n], book'[p][n])

(* A new update is about an order that was open: its next fill, which the  *)
(* new book has, or its cancellation, which the new book has too.          *)
Tells(u) ==
  /\ book[u.trade][u.leg].status \in Open
  /\ u.lot > 0 =>
       /\ u.lot = Len(book[u.trade][u.leg].fillTs) + 1
       /\ u.lot <= Len(book'[u.trade][u.leg].fillTs)
       /\ book'[u.trade][u.leg].fillTs[u.lot] = u.ts
  /\ u.lot = 0 => book'[u.trade][u.leg].status = "cancelled"

Tell(us) ==
  /\ us \in Seq(Updates)
  /\ \A i \in DOMAIN us : Tells(us[i])
  /\ \A i, j \in DOMAIN us :
       (us[i].trade = us[j].trade /\ us[i].leg = us[j].leg) => i = j

LEMMA SameOrderGrows ==
  ASSUME NEW o \in SimOrders
  PROVE  OrderGrows(o, o)
BY DEF OrderGrows, SimOrders

LEMMA PlaceGrows ==
  ASSUME VenueInv, NEW p \in Trades, NEW n \in Legs, NEW q \in 1..MaxLots,
         NEW r \in BOOLEAN, PlaceOrder(p, n, q, r)
  PROVE  BookGrows /\ dispatched' = dispatched
<1>1. CASE Known(book[p][n])
  <2>1. book' = book /\ dispatched' = dispatched
    BY <1>1 DEF PlaceOrder, venueVars
  <2> QED BY <2>1, SameOrderGrows DEF BookGrows, VenueInv, TypeOK
<1>2. CASE ~Known(book[p][n])
  <2> DEFINE o == NewSimOrder(q, r)
  <2>1. /\ book \in [Trades -> [Legs -> SimOrders]]
        /\ book[p][n] = NoSimOrder
        /\ book' = [book EXCEPT ![p][n] = o]
        /\ dispatched' = dispatched
    BY <1>2 DEF VenueInv, TypeOK, OrderSound, PlaceOrder, Known
  <2>2. o.fillTs = <<>>
    BY DEF NewSimOrder, NoSimOrder
  <2>3. OrderGrows(NoSimOrder, o)
    <3>1. NoSimOrder.status = "none" /\ NoSimOrder.fillTs = <<>> /\ Len(<<>>) = 0
      BY DEF NoSimOrder
    <3> QED BY <2>2, <3>1 DEF OrderGrows, Closed
  <2> HIDE DEF o
  <2>4. ASSUME NEW x \in Trades, NEW m \in Legs
        PROVE  OrderGrows(book[x][m], book'[x][m])
    <3>1. CASE x = p /\ m = n
      BY <2>1, <2>3, <3>1
    <3>2. CASE ~(x = p /\ m = n)
      <4>1. book'[x][m] = book[x][m]
        BY <2>1, <3>2
      <4> QED BY <2>1, <4>1, SameOrderGrows
    <3> QED BY <3>1, <3>2
  <2> QED BY <2>1, <2>4 DEF BookGrows
<1> QED BY <1>1, <1>2

(* One more timestamp comes after those that were there.                   *)
LEMMA AppendStamp ==
  ASSUME NEW f \in Seq(Stamps), NEW ts \in Stamps
  PROVE  /\ Len(Append(f, ts)) = Len(f) + 1
         /\ Append(f, ts)[Len(f) + 1] = ts
         /\ \A k \in 1..Len(f) : Append(f, ts)[k] = f[k]
<1>1. Len(Append(f, ts)) = Len(f) + 1
  BY AppendProperties
<1>2. Append(f, ts)[Len(f) + 1] = ts
  BY AppendProperties
<1>3. \A k \in 1..Len(f) : Append(f, ts)[k] = f[k]
  BY AppendProperties
<1> QED BY <1>1, <1>2, <1>3

LEMMA CancelGrows ==
  ASSUME VenueInv, NEW p \in Trades, NEW n \in Legs, CancelOrder(p, n)
  PROVE  /\ BookGrows
         /\ dispatched' = dispatched \/ \E us : Tell(us) /\ dispatched' = dispatched \o us
<1>1. CASE book[p][n].status \notin Open
  <2>1. book' = book /\ dispatched' = dispatched
    BY <1>1 DEF CancelOrder, venueVars
  <2> QED BY <2>1, SameOrderGrows DEF BookGrows, VenueInv, TypeOK
<1>2. CASE book[p][n].status \in Open
  <2> DEFINE o == [book[p][n] EXCEPT !.status = "cancelled"]
             u == Update(p, n, 0, 0)
  <2>1. /\ book \in [Trades -> [Legs -> SimOrders]]
        /\ book' = [book EXCEPT ![p][n] = o]
        /\ Dispatch(<<u>>)
    BY <1>2 DEF VenueInv, TypeOK, CancelOrder
  <2>2. OrderGrows(book[p][n], o) /\ o.status = "cancelled"
    <3>1. book[p][n] \in SimOrders
      BY <2>1
    <3>2. o.qty = book[p][n].qty /\ o.fillTs = book[p][n].fillTs /\ o.status = "cancelled"
      BY <3>1 DEF SimOrders
    <3>3. Len(book[p][n].fillTs) \in Nat
      BY <3>1 DEF SimOrders
    <3> QED BY <1>2, <3>2, <3>3 DEF OrderGrows, Open, Closed
  <2> HIDE DEF o
  <2>3. ASSUME NEW x \in Trades, NEW m \in Legs
        PROVE  OrderGrows(book[x][m], book'[x][m])
    <3>1. CASE x = p /\ m = n
      BY <2>1, <2>2, <3>1
    <3>2. CASE ~(x = p /\ m = n)
      <4>1. book'[x][m] = book[x][m]
        BY <2>1, <3>2
      <4> QED BY <2>1, <4>1, SameOrderGrows
    <3> QED BY <3>1, <3>2
  <2>4. Tell(<<u>>)
    <3>1. u \in Updates /\ u.trade = p /\ u.leg = n /\ u.lot = 0
      BY VenueAssumption DEF Update, Updates
    <3>2. book'[p][n].status = "cancelled"
      BY <2>1, <2>2
    <3>3. Tells(u)
      BY <1>2, <3>1, <3>2 DEF Tells
    <3> HIDE DEF u
    <3>4. <<u>> \in Seq(Updates) /\ DOMAIN <<u>> = {1} /\ <<u>>[1] = u
      BY <3>1
    <3> QED BY <3>3, <3>4 DEF Tell
  <2> QED BY <2>1, <2>3, <2>4 DEF BookGrows, Dispatch
<1> QED BY <1>1, <1>2

LEMMA TickGrows ==
  ASSUME VenueInv, NEW p \in Trades, NEW ts \in Stamps, IngestTick(p, ts)
  PROVE  /\ BookGrows
         /\ dispatched' = dispatched \/ \E us : Tell(us) /\ dispatched' = dispatched \o us
<1> DEFINE us == [i \in DOMAIN waiting[p] |->
                    Update(p, waiting[p][i], Filled(p, waiting[p][i]) + 1, ts)]
<1>1. /\ book \in [Trades -> [Legs -> SimOrders]]
      /\ waiting[p] \in Seq(Legs) /\ PendingSound(p)
      /\ Dispatch(us)
  BY DEF VenueInv, TypeOK, IngestTick
<1>2. \A n \in Legs : OrderSound(book[p][n])
  BY DEF VenueInv
<1>3. ASSUME NEW n \in Legs, book[p][n].status \in Open
      PROVE  /\ OrderGrows(book[p][n], book'[p][n])
             /\ Len(book'[p][n].fillTs) = Len(book[p][n].fillTs) + 1
             /\ book'[p][n].fillTs[Len(book[p][n].fillTs) + 1] = ts
             /\ Len(book[p][n].fillTs) + 1 \in 1..MaxLots
  <2>1. book'[p][n] = FillOne(book[p][n], ts)
    BY <1>3, TickStep
  <2>2. book[p][n] \in SimOrders /\ OrderSound(book[p][n])
    BY <1>1, <1>2
  <2>3. /\ book'[p][n].qty = book[p][n].qty
        /\ book'[p][n].fillTs = Append(book[p][n].fillTs, ts)
        /\ Len(book[p][n].fillTs) < book[p][n].qty
    BY <1>3, <2>1, <2>2, FillOneSound
  <2>4. book[p][n].fillTs \in Seq(Stamps) /\ book[p][n].qty \in 0..MaxLots
        /\ MaxLots \in Nat
    BY <2>2, VenueAssumption DEF SimOrders
  <2>5. Len(book[p][n].fillTs) + 1 \in 1..MaxLots
    BY <2>3, <2>4
  <2> DEFINE f == book[p][n].fillTs
  <2> HIDE DEF f
  <2>6. /\ Len(Append(f, ts)) = Len(f) + 1 /\ Append(f, ts)[Len(f) + 1] = ts
        /\ \A k \in 1..Len(f) : Append(f, ts)[k] = f[k]
        /\ Len(f) <= Len(f) + 1
    <3>1. f \in Seq(Stamps)
      BY <2>4 DEF f
    <3>2. Len(f) \in Nat
      BY <3>1, LenProperties
    <3>3. /\ Len(Append(f, ts)) = Len(f) + 1 /\ Append(f, ts)[Len(f) + 1] = ts
          /\ \A k \in 1..Len(f) : Append(f, ts)[k] = f[k]
      BY <3>1, AppendStamp
    <3> QED BY <3>2, <3>3
  <2>7. OrderGrows(book[p][n], book'[p][n])
    BY <1>3, <2>3, <2>6 DEF OrderGrows, Open, Closed, f
  <2> QED BY <2>3, <2>5, <2>6, <2>7 DEF f
<1>4. BookGrows
  <2> SUFFICES ASSUME NEW x \in Trades, NEW m \in Legs
               PROVE  OrderGrows(book[x][m], book'[x][m])
    BY DEF BookGrows
  <2>1. CASE x = p /\ book[p][m].status \in Open
    BY <1>3, <2>1
  <2>2. CASE ~(x = p /\ book[p][m].status \in Open)
    <3>1. book'[x][m] = book[x][m]
      BY <2>2, TickStep
    <3> QED BY <1>1, <3>1, SameOrderGrows
  <2> QED BY <2>1, <2>2
<1>5. Tell(us)
  <2>1. ASSUME NEW i \in DOMAIN waiting[p]
        PROVE  us[i] \in Updates /\ Tells(us[i])
               /\ us[i].trade = p /\ us[i].leg = waiting[p][i]
    <3> DEFINE n == waiting[p][i]
    <3>1. n \in Legs /\ book[p][n].status \in Open
      BY <1>1, <2>1 DEF PendingSound, Holds
    <3>2. us[i] = Update(p, n, Len(book[p][n].fillTs) + 1, ts)
      BY DEF Filled
    <3> HIDE DEF n, us
    <3>3. /\ us[i].trade = p /\ us[i].leg = n /\ us[i].ts = ts
          /\ us[i].lot = Len(book[p][n].fillTs) + 1
      BY <3>2 DEF Update
    <3>4. Len(book[p][n].fillTs) + 1 \in 1..MaxLots /\ MaxLots \in Nat
      BY <1>3, <3>1, VenueAssumption
    <3>5. us[i] \in Updates
      BY <3>1, <3>2, <3>4 DEF Update, Updates
    <3>6. Tells(us[i])
      BY <1>3, <3>1, <3>3, <3>4 DEF Tells
    <3> QED BY <3>3, <3>5, <3>6 DEF n
  <2>2. DOMAIN us = DOMAIN waiting[p] /\ DOMAIN waiting[p] = 1..Len(waiting[p])
        /\ Len(waiting[p]) \in Nat
    BY <1>1
  <2>3. us = [i \in 1..Len(waiting[p]) |-> us[i]]
    BY <2>2
  <2> HIDE DEF us
  <2>4. us \in Seq(Updates)
    <3>1. us \in [1..Len(waiting[p]) -> Updates]
      BY <2>1, <2>2, <2>3
    <3> QED BY <2>2, <3>1
  <2> QED BY <1>1, <2>1, <2>2, <2>4 DEF Tell, PendingSound, NoDuplicates
<1> QED BY <1>1, <1>4, <1>5 DEF Dispatch

LEMMA EveryStepGrows ==
  ASSUME VenueInv, [Next]_venueVars
  PROVE  /\ BookGrows
         /\ dispatched' = dispatched \/ \E us : Tell(us) /\ dispatched' = dispatched \o us
<1>1. book' = book => BookGrows
  BY SameOrderGrows DEF BookGrows, VenueInv, TypeOK
<1>2. CASE UNCHANGED venueVars
  BY <1>1, <1>2 DEF venueVars
<1>3. CASE Connect \/ Register \/ Disconnect
  BY <1>1, <1>3 DEF Connect, Register, Disconnect
<1> QED BY <1>2, <1>3, PlaceGrows, CancelGrows, TickGrows DEF Next

(* The receiver's past stays true when the book grows.                     *)
LEMMA ToldStays ==
  ASSUME VenueInv, VenueInv', BookGrows, UpdatesTellTheBook,
         NEW i \in DOMAIN dispatched
  PROVE  LET u == dispatched[i] IN
         /\ u.lot > 0 => /\ u.lot <= Len(book'[u.trade][u.leg].fillTs)
                         /\ book'[u.trade][u.leg].fillTs[u.lot] = u.ts
         /\ u.lot = 0 => book'[u.trade][u.leg].status = "cancelled"
         /\ u.lot <= Len(book[u.trade][u.leg].fillTs)
<1> DEFINE u == dispatched[i]
           old == book[u.trade][u.leg]
           new == book'[u.trade][u.leg]
<1>1. u \in Updates
  BY DEF VenueInv, TypeOK
<1>2. u.trade \in Trades /\ u.leg \in Legs /\ u.lot \in Nat
  BY <1>1, VenueAssumption DEF Updates
<1>3. OrderGrows(old, new) /\ Len(old.fillTs) \in Nat /\ Len(new.fillTs) \in Nat
  BY <1>2, SMTT(30) DEF BookGrows, VenueInv, TypeOK, SimOrders
<1>4. /\ u.lot > 0 => u.lot <= Len(old.fillTs) /\ old.fillTs[u.lot] = u.ts
      /\ u.lot = 0 => old.status = "cancelled"
  BY DEF UpdatesTellTheBook, Filled
<1> HIDE DEF u, old, new
<1>5. u.lot > 0 => u.lot \in 1..Len(old.fillTs)
  BY <1>2, <1>3, <1>4
<1>6. /\ u.lot > 0 => u.lot <= Len(new.fillTs) /\ new.fillTs[u.lot] = u.ts
      /\ u.lot = 0 => new.status = "cancelled"
      /\ u.lot <= Len(old.fillTs)
  BY <1>2, <1>3, <1>4, <1>5 DEF OrderGrows, Closed
<1> QED BY <1>6 DEF u, old, new

LEMMA ToldStep ==
  ASSUME VenueInv, VenueInv', UpdatesTellTheBook, [Next]_venueVars
  PROVE  UpdatesTellTheBook'
<1> DEFINE d == dispatched
           e == dispatched'
           Same(u, v) == v.trade = u.trade /\ v.leg = u.leg
<1>0. BookGrows
  BY EveryStepGrows
<1>1. d \in Seq(Updates) /\ e \in Seq(Updates)
  BY DEF VenueInv, TypeOK
<1>2. SUFFICES ASSUME NEW i \in DOMAIN e
               PROVE  /\ e[i].lot > 0 =>
                           /\ e[i].lot <= Len(book'[e[i].trade][e[i].leg].fillTs)
                           /\ book'[e[i].trade][e[i].leg].fillTs[e[i].lot] = e[i].ts
                      /\ e[i].lot = 0 => book'[e[i].trade][e[i].leg].status = "cancelled"
                      /\ \A j \in i + 1 .. Len(e) :
                           Same(e[i], e[j]) =>
                             /\ e[i].lot > 0
                             /\ e[j].lot = 0 \/ e[j].lot > e[i].lot
  BY DEF UpdatesTellTheBook, Filled
<1>3. \A x, y \in DOMAIN d :
        (x < y /\ Same(d[x], d[y])) => d[x].lot > 0 /\ (d[y].lot = 0 \/ d[y].lot > d[x].lot)
  <2> SUFFICES ASSUME NEW x \in DOMAIN d, NEW y \in DOMAIN d, x < y, Same(d[x], d[y])
               PROVE  d[x].lot > 0 /\ (d[y].lot = 0 \/ d[y].lot > d[x].lot)
    OBVIOUS
  <2>1. y \in x + 1 .. Len(d)
    BY <1>1
  <2> QED BY <2>1 DEF UpdatesTellTheBook
<1>4. CASE e = d
  <2>1. i \in DOMAIN d /\ \A j \in i + 1 .. Len(e) : j \in DOMAIN d /\ i < j
    BY <1>1, <1>2, <1>4
  <2> QED BY <1>0, <1>3, <1>4, <2>1, ToldStays
<1>5. ASSUME NEW us, Tell(us), e = d \o us
      PROVE  /\ e[i].lot > 0 =>
                  /\ e[i].lot <= Len(book'[e[i].trade][e[i].leg].fillTs)
                  /\ book'[e[i].trade][e[i].leg].fillTs[e[i].lot] = e[i].ts
             /\ e[i].lot = 0 => book'[e[i].trade][e[i].leg].status = "cancelled"
             /\ \A j \in i + 1 .. Len(e) :
                  Same(e[i], e[j]) =>
                    /\ e[i].lot > 0
                    /\ e[j].lot = 0 \/ e[j].lot > e[i].lot
  <2>1. /\ us \in Seq(Updates) /\ Len(d) \in Nat /\ Len(us) \in Nat
        /\ Len(e) = Len(d) + Len(us) /\ DOMAIN e = 1..Len(e)
        /\ DOMAIN d = 1..Len(d) /\ DOMAIN us = 1..Len(us)
        /\ \A x \in 1..Len(d) : e[x] = d[x]
        /\ \A x \in Len(d) + 1 .. Len(e) : e[x] = us[x - Len(d)] /\ x - Len(d) \in 1..Len(us)
    BY <1>1, <1>5 DEF Tell
  <2>2. \A x \in 1..Len(e) : e[x].lot \in Nat /\ e[x].trade \in Trades /\ e[x].leg \in Legs
    <3>1. \A u \in Updates : u.lot \in Nat /\ u.trade \in Trades /\ u.leg \in Legs
      BY VenueAssumption DEF Updates
    <3>2. \A x \in 1..Len(e) : e[x] \in Updates
      BY <1>1
    <3> QED BY <3>1, <3>2
  <2> HIDE DEF d, e
  <2>3. CASE i \in 1..Len(d)
    <3>1. /\ e[i].lot > 0 =>
               /\ e[i].lot <= Len(book'[e[i].trade][e[i].leg].fillTs)
               /\ book'[e[i].trade][e[i].leg].fillTs[e[i].lot] = e[i].ts
          /\ e[i].lot = 0 => book'[e[i].trade][e[i].leg].status = "cancelled"
          /\ e[i].lot <= Len(book[e[i].trade][e[i].leg].fillTs)
          /\ e[i].lot = 0 => book[e[i].trade][e[i].leg].status = "cancelled"
      BY <1>0, <2>1, <2>3, ToldStays DEF d, UpdatesTellTheBook
    <3>2. ASSUME NEW j \in i + 1 .. Len(e), Same(e[i], e[j])
          PROVE  e[i].lot > 0 /\ (e[j].lot = 0 \/ e[j].lot > e[i].lot)
      <4>1. CASE j \in 1..Len(d)
        <5>1. i < j /\ e[j] = d[j] /\ e[i] = d[i]
          BY <2>1, <2>3, <4>1
        <5> QED BY <1>3, <2>1, <2>3, <3>2, <4>1, <5>1
      <4>2. CASE j \in Len(d) + 1 .. Len(e)
        <5>1. Tells(e[j])
          BY <1>5, <2>1, <4>2 DEF Tell
        <5>2. book[e[i].trade][e[i].leg].status \in Open
          BY <3>2, <5>1 DEF Tells
        <5>3. e[i].lot > 0
          BY <2>1, <2>2, <2>3, <3>1, <5>2 DEF Open
        <5>4. e[j].lot > 0 => e[j].lot = Len(book[e[i].trade][e[i].leg].fillTs) + 1
          BY <3>2, <5>1 DEF Tells
        <5>5. e[j].lot \in Nat /\ e[i].lot \in Nat
              /\ Len(book[e[i].trade][e[i].leg].fillTs) \in Nat
          <6>1. i \in 1..Len(e) /\ j \in 1..Len(e)
            BY <2>1, <2>3, <4>2
          <6>2. \A x \in Trades, m \in Legs : Len(book[x][m].fillTs) \in Nat
            BY DEF VenueInv, TypeOK, SimOrders
          <6> QED BY <2>2, <6>1, <6>2
        <5>6. e[j].lot = 0 \/ e[j].lot > e[i].lot
          <6> DEFINE heard == e[i].lot
                     next == e[j].lot
                     n == Len(book[e[i].trade][e[i].leg].fillTs)
          <6>1. heard <= n /\ (next > 0 => next = n + 1)
                /\ heard \in Nat /\ next \in Nat /\ n \in Nat
            BY <3>1, <5>4, <5>5
          <6> HIDE DEF heard, next, n
          <6>2. next = 0 \/ next > heard
            BY <6>1
          <6> QED BY <6>2 DEF heard, next
        <5> QED BY <5>3, <5>6
      <4> QED BY <2>1, <2>3, <4>1, <4>2
    <3> QED BY <3>1, <3>2
  <2>4. CASE i \in Len(d) + 1 .. Len(e)
    <3>1. Tells(e[i])
      BY <1>5, <2>1, <2>4 DEF Tell
    <3>2. ASSUME NEW j \in i + 1 .. Len(e), Same(e[i], e[j])
          PROVE  FALSE
      <4>1. /\ j \in Len(d) + 1 .. Len(e) /\ j # i
            /\ e[j] = us[j - Len(d)] /\ j - Len(d) \in DOMAIN us
            /\ e[i] = us[i - Len(d)] /\ i - Len(d) \in DOMAIN us
        BY <2>1, <2>4
      <4>2. j - Len(d) = i - Len(d)
        BY <1>5, <3>2, <4>1 DEF Tell
      <4> QED BY <2>1, <2>4, <4>1, <4>2
    <3> QED BY <3>1, <3>2 DEF Tells
  <2> QED BY <1>2, <2>1, <2>3, <2>4
<1> QED BY <1>4, <1>5, EveryStepGrows

(* What a receiver was heard is what the book holds: each order's fills     *)
(* once and in order, and nothing after its cancellation.                  *)
THEOREM UpdatesTheorem == Spec => []UpdatesTellTheBook
<1>1. Init => UpdatesTellTheBook
  BY DEF Init, UpdatesTellTheBook
<1>2. VenueInv /\ VenueInv' /\ UpdatesTellTheBook /\ [Next]_venueVars => UpdatesTellTheBook'
  BY ToldStep
<1> QED BY <1>1, <1>2, VenueInductive, PTL DEF Spec

(* The book is only added to: the terms and the recorded fills of an order *)
(* stand, and a terminal order stays as it is.                             *)
THEOREM BookTheorem == Spec => BookStands
<1> DEFINE Stands == \A p \in Trades, n \in Legs :
                       LET old == book[p][n]
                           new == book'[p][n]
                       IN /\ old.status # "none" => new.qty = old.qty
                          /\ old.status \in Closed => new = old
                          /\ SubSeq(new.fillTs, 1, Len(old.fillTs)) = old.fillTs
<1>1. VenueInv /\ VenueInv' /\ [Next]_venueVars => [Stands]_venueVars
  <2> SUFFICES ASSUME VenueInv, VenueInv', BookGrows, NEW p \in Trades, NEW n \in Legs
               PROVE  LET old == book[p][n]
                          new == book'[p][n]
                      IN /\ old.status # "none" => new.qty = old.qty
                         /\ old.status \in Closed => new = old
                         /\ SubSeq(new.fillTs, 1, Len(old.fillTs)) = old.fillTs
    BY EveryStepGrows DEF Stands
  <2> DEFINE old == book[p][n]
             new == book'[p][n]
  <2>1. old.fillTs \in Seq(Stamps) /\ new.fillTs \in Seq(Stamps) /\ OrderGrows(old, new)
    BY DEF VenueInv, TypeOK, SimOrders, BookGrows
  <2> HIDE DEF old, new
  <2>2. SubSeq(new.fillTs, 1, Len(old.fillTs)) = old.fillTs
    BY <2>1 DEF OrderGrows
  <2>3. /\ old.status # "none" => new.qty = old.qty
        /\ old.status \in Closed => new = old
    BY <2>1 DEF OrderGrows
  <2> QED BY <2>2, <2>3 DEF old, new
<1> QED BY <1>1, VenueInductive, PTL DEF Spec, BookStands, Stands

---------------------------------------------------------------------------
(* The tick bridges                                                        *)

LEMMA TicksInSum ==
  ASSUME NEW closed
  PROVE  TicksIn(closed) = SumOf(DOMAIN closed, [i \in DOMAIN closed |-> closed[i].n])
<1> DEFINE D == DOMAIN closed
           W == [i \in D |-> closed[i].n]
           Body(it, t) == IF t = {} THEN 0
                          ELSE closed[CHOOSE y \in t : TRUE].n + it[t \ {CHOOSE y \in t : TRUE}]
<1>1. TicksIn(closed) = (CHOOSE it : it = [t \in SUBSET D |-> Body(it, t)])[D]
  BY DEF TicksIn, FoldSeq, FoldFunction, FoldFunctionOnSet, MapThenFoldSet
<1>2. ASSUME NEW it, NEW t \in SUBSET D
      PROVE  SumUp(W, it, t) = Body(it, t)
  BY DEF SumUp, Choice
<1>3. \A it : (it = [t \in SUBSET D |-> Body(it, t)]) <=> IsSum(D, W, it)
  <2> HIDE DEF Body, W, D
  <2> QED BY <1>2 DEF IsSum
<1>4. (CHOOSE it : it = [t \in SUBSET D |-> Body(it, t)]) = (CHOOSE it : IsSum(D, W, it))
  <2> HIDE DEF Body, W, D
  <2> QED BY <1>3
<1> QED BY <1>1, <1>4 DEF SumOf

ClosedCandles == [minute : Nat, n : Nat]

LEMMA TicksInAppend ==
  ASSUME NEW closed \in Seq(ClosedCandles), NEW c \in ClosedCandles
  PROVE  TicksIn(closed) \in Int /\ TicksIn(Append(closed, c)) = TicksIn(closed) + c.n
<1> DEFINE D == DOMAIN closed
           W == [i \in D |-> closed[i].n]
           x == Len(closed) + 1
           more == Append(closed, c)
           V == [i \in DOMAIN more |-> more[i].n]
<1>1. /\ D = 1 .. Len(closed) /\ Len(closed) \in Nat /\ DOMAIN more = D \cup {x} /\ x \notin D
      /\ \A i \in D : more[i] = closed[i] /\ closed[i].n \in Nat
      /\ more[x] = c /\ c.n \in Nat
  <2>1. D = 1 .. Len(closed) /\ Len(closed) \in Nat /\ x \notin D
    OBVIOUS
  <2>2. Len(more) = x /\ DOMAIN more = 1 .. x /\ more[x] = c /\ \A i \in D : more[i] = closed[i]
    BY <2>1
  <2>3. \A i \in D : closed[i] \in ClosedCandles
    OBVIOUS
  <2>4. DOMAIN more = D \cup {x}
    BY <2>1, <2>2
  <2> QED BY <2>1, <2>2, <2>3, <2>4 DEF ClosedCandles
<1>2. IsFiniteSet(D)
  BY <1>1, FS_Interval
<1> HIDE DEF more, D, x
<1>3. (\A i \in D : W[i] = V[i]) /\ V[x] = c.n /\ (\A i \in D \cup {x} : V[i] \in Int) /\ (\A i \in D : W[i] \in Int)
  BY <1>1
<1> HIDE DEF V, W
<1>4. Weights(D, W) /\ Weights(D \cup {x}, V)
  BY <1>3 DEF Weights
<1>5. SumOf(DOMAIN more, V) = SumOf(D, W) + V[x] /\ SumOf(D, W) \in Int
  <2>1. (DOMAIN more) \ {x} = D /\ x \in DOMAIN more /\ IsFiniteSet(DOMAIN more)
    BY <1>1, <1>2, FS_AddElement
  <2>2. Weights(DOMAIN more, V) /\ Alike(D, W, V)
    BY <1>1, <1>3, <1>4 DEF Alike
  <2>3. PICK U : U = DOMAIN more
    OBVIOUS
  <2>4. IsFiniteSet(U) /\ x \in U /\ Weights(U, V) /\ Alike(U \ {x}, W, V)
    BY <2>1, <2>2, <2>3
  <2>5. SumOf(U, V) = SumOf(U \ {x}, W) + V[x] /\ SumOf(U \ {x}, W) \in Int
    BY ONLY <2>4, SumGrows
  <2> QED BY <2>1, <2>3, <2>5
<1>6. TicksIn(closed) = SumOf(D, W)
  BY TicksInSum DEF D, W
<1>7. TicksIn(more) = SumOf(DOMAIN more, V)
  BY TicksInSum DEF V
<1>8. TicksIn(more) = TicksIn(closed) + c.n
  BY <1>3, <1>5, <1>6, <1>7
<1> QED BY <1>5, <1>6, <1>8 DEF more

LEMMA TicksInNone == TicksIn(<<>>) = 0
<1>1. DOMAIN <<>> = {}
  OBVIOUS
<1>2. TicksIn(<<>>) = SumOf(DOMAIN <<>>, [i \in DOMAIN <<>> |-> <<>>[i].n])
  BY TicksInSum
<1>3. SumOf({}, [i \in DOMAIN <<>> |-> <<>>[i].n]) = 0
  BY TotalOfNone
<1> QED BY <1>1, <1>2, <1>3

BridgeStates == {"unborn", "active", "retiring", "retired"}
InHand == {"disconnect", "settle"}
TickTasks == [id : 0 .. ticks - 1, of : Bridges, minute : Nat, at : {"lock", "closing"}]

TickTypes ==
  /\ bridge \in [Bridges -> BridgeStates]
  /\ takeover \in [Bridges -> {"none", "failed", "installed"} \cup InHand]
  /\ registered \in Bridges \cup {NoBridge}
  /\ minute \in Nat /\ ticks \in Nat /\ overlapped \in BOOLEAN
  /\ tasks \subseteq TickTasks
  /\ holder \in [Bridges -> (0 .. ticks - 1) \cup {Free, Flusher}]
  /\ bucket \in [Bridges -> ClosedCandles \cup {Empty}]
  /\ lastClosed \in [Bridges -> Nat \cup {-1}]
  /\ excluded \in [Bridges -> Nat] /\ handled \in [Bridges -> Nat]
  /\ candles \in [Bridges -> Seq(ClosedCandles)]

TasksApart == \A t, u \in tasks : t.id = u.id => t = u

(* A bridge that was never connected has done nothing.                     *)
UnbornStill ==
  \A b \in Bridges : bridge[b] = "unborn" =>
    /\ takeover[b] = "none" /\ ~Busy(b)
    /\ bucket[b] = Empty /\ lastClosed[b] = -1 /\ candles[b] = <<>>
    /\ excluded[b] = 0 /\ handled[b] = 0

RetiredStill == \A b \in Bridges : bridge[b] = "retired" => ~Busy(b)

(* Who closes a bucket keeps the lock until it is replaced: its candle is  *)
(* the newest, and nothing else is closed meanwhile.                       *)
ClosingHolds ==
  \A t \in tasks : bridge[t.of] = "active" /\ t.at = "closing" =>
    /\ holder[t.of] = t.id /\ bucket[t.of] # Empty /\ bucket[t.of].minute < t.minute

HeldIsClosed ==
  \A b \in Bridges : bridge[b] = "active" /\ holder[b] # Free =>
    /\ bucket[b] # Empty
    /\ candles[b] # <<>> /\ candles[b][Len(candles[b])].minute = bucket[b].minute

BucketAhead ==
  \A b \in Bridges : bridge[b] = "active" =>
    /\ bucket[b] # Empty => lastClosed[b] < bucket[b].minute
    /\ holder[b] = Free /\ candles[b] # <<>> =>
         candles[b][Len(candles[b])].minute <= lastClosed[b]

(* Without two take-overs at a time only the registered bridge and the one *)
(* that takes over admit ticks, and only the latter once it is settling.   *)
OneAtATime ==
  ~overlapped =>
    /\ \A b, c \in Bridges : takeover[b] \in InHand /\ takeover[c] \in InHand => b = c
    /\ \A b \in Bridges : bridge[b] = "active" => b = registered \/ takeover[b] \in InHand
    /\ \A b, c \in Bridges : takeover[b] = "settle" /\ bridge[c] = "active" => c = b

TickInv ==
  /\ TickTypes /\ TasksApart /\ UnbornStill /\ RetiredStill
  /\ ClosingHolds /\ HeldIsClosed /\ BucketAhead
  /\ CandlesInOrder /\ TicksAccounted /\ OneAtATime

LEMMA TickStart == TickInit => TickInv
<1> SUFFICES ASSUME TickInit PROVE TickInv
  OBVIOUS
<1> USE TickAssumption DEF TickInit
<1>1. TickTypes
  <2>1. candles \in [Bridges -> Seq(ClosedCandles)]
    OBVIOUS
  <2> QED BY <2>1 DEF TickTypes, BridgeStates, InHand, TickTasks, Free, Flusher, Empty
<1>2. TasksApart /\ UnbornStill /\ RetiredStill
  BY DEF TasksApart, UnbornStill, RetiredStill, Busy
<1>3. ClosingHolds /\ HeldIsClosed /\ BucketAhead /\ CandlesInOrder /\ TicksAccounted
  BY DEF ClosingHolds, HeldIsClosed, BucketAhead, CandlesInOrder, TicksAccounted
<1>4. OneAtATime
  BY DEF OneAtATime, InHand
<1> QED BY <1>1, <1>2, <1>3, <1>4 DEF TickInv

LEMMA TickTyped ==
  ASSUME TickTypes, NEW b \in Bridges
  PROVE  /\ bucket[b].minute \in Int /\ bucket[b].n \in Nat
         /\ bucket[b] # Empty => bucket[b] \in ClosedCandles /\ bucket[b].minute \in Nat
         /\ lastClosed[b] \in Int /\ holder[b] \in Int /\ excluded[b] \in Nat /\ handled[b] \in Nat
         /\ candles[b] \in Seq(ClosedCandles) /\ Len(candles[b]) \in Nat
         /\ \A i \in 1 .. Len(candles[b]) : candles[b][i].minute \in Nat
         /\ candles[b] # <<>> => Len(candles[b]) \in 1 .. Len(candles[b])
         /\ \A t \in tasks : t.of \in Bridges /\ t.id \in Nat /\ t.id # Free /\ t.id # Flusher /\ t.minute \in Nat
<1>1. bucket[b] \in ClosedCandles \cup {Empty} /\ candles[b] \in Seq(ClosedCandles)
  BY DEF TickTypes
<1>2. /\ bucket[b].minute \in Int /\ bucket[b].n \in Nat
      /\ bucket[b] # Empty => bucket[b] \in ClosedCandles /\ bucket[b].minute \in Nat
  BY <1>1 DEF ClosedCandles, Empty
<1>3. lastClosed[b] \in Int /\ holder[b] \in Int /\ excluded[b] \in Nat /\ handled[b] \in Nat
  BY DEF TickTypes, Free, Flusher
<1>4. /\ Len(candles[b]) \in Nat
      /\ \A i \in 1 .. Len(candles[b]) : candles[b][i] \in ClosedCandles
      /\ candles[b] # <<>> => Len(candles[b]) \in 1 .. Len(candles[b])
  BY <1>1
<1>5. \A i \in 1 .. Len(candles[b]) : candles[b][i].minute \in Nat
  BY <1>4 DEF ClosedCandles
<1>6. \A t \in tasks : t.of \in Bridges /\ t.id \in Nat /\ t.id # Free /\ t.id # Flusher /\ t.minute \in Nat
  BY DEF TickTypes, TickTasks, Free, Flusher
<1> QED BY <1>1, <1>2, <1>3, <1>4, <1>5, <1>6

(* A candle closed is a candle later than the one before.                  *)
LEMMA CloseInOrder ==
  ASSUME TickInv, NEW b \in Bridges, Close(b), bucket[b] # Empty, bridge[b] = "active", holder[b] = Free
  PROVE  /\ candles' \in [Bridges -> Seq(ClosedCandles)]
         /\ \A c \in Bridges \ {b} : candles'[c] = candles[c]
         /\ candles'[b] # <<>> /\ candles'[b][Len(candles'[b])] = bucket[b]
         /\ CandlesInOrder'
         /\ TicksIn(candles'[b]) = TicksIn(candles[b]) + bucket[b].n
         /\ TicksIn(candles[b]) \in Int /\ bucket[b].n \in Nat
<1> USE DEF TickInv, Close
<1>1. /\ bucket[b].minute \in Nat /\ bucket[b].n \in Nat /\ bucket[b] \in ClosedCandles
      /\ lastClosed[b] \in Int /\ candles[b] \in Seq(ClosedCandles) /\ Len(candles[b]) \in Nat
      /\ \A i \in 1 .. Len(candles[b]) : candles[b][i].minute \in Nat
      /\ candles[b] # <<>> => Len(candles[b]) \in 1 .. Len(candles[b])
  BY TickTyped
<1>2. /\ candles \in [Bridges -> Seq(ClosedCandles)]
      /\ candles' = [candles EXCEPT ![b] = Append(@, bucket[b])]
  BY DEF TickTypes
<1>3. /\ candles' \in [Bridges -> Seq(ClosedCandles)]
      /\ \A c \in Bridges \ {b} : candles'[c] = candles[c]
      /\ candles'[b] = Append(candles[b], bucket[b])
  BY <1>1, <1>2
<1>4. Len(candles'[b]) = Len(candles[b]) + 1 /\ candles'[b] # <<>>
      /\ candles'[b][Len(candles'[b])] = bucket[b]
      /\ \A i \in 1 .. Len(candles[b]) : candles'[b][i] = candles[b][i]
  BY <1>1, <1>3
<1>5. candles[b] # <<>> => candles[b][Len(candles[b])].minute < bucket[b].minute
  <2>1. /\ candles[b] # <<>> => candles[b][Len(candles[b])].minute <= lastClosed[b]
        /\ lastClosed[b] < bucket[b].minute
    BY DEF BucketAhead
  <2> QED BY <1>1, <2>1
<1>6. ASSUME NEW i \in 2 .. Len(candles'[b])
      PROVE  candles'[b][i - 1].minute < candles'[b][i].minute
  <2>1. CASE i = Len(candles'[b])
    <3>1. candles[b] # <<>> /\ i - 1 = Len(candles[b])
      BY <1>1, <1>4, <2>1
    <3>2. candles'[b][i - 1] = candles[b][Len(candles[b])] /\ candles'[b][i] = bucket[b]
      BY <1>1, <1>4, <2>1, <3>1
    <3> QED BY <1>5, <3>1, <3>2
  <2>2. CASE i # Len(candles'[b])
    <3>1. i \in 2 .. Len(candles[b]) /\ i - 1 \in 1 .. Len(candles[b]) /\ i \in 1 .. Len(candles[b])
      BY <1>1, <1>4, <2>2
    <3> QED BY <1>4, <3>1 DEF CandlesInOrder
  <2> QED BY <2>1, <2>2
<1>7. CandlesInOrder'
  BY <1>3, <1>6 DEF CandlesInOrder
<1>8. TicksIn(candles'[b]) = TicksIn(candles[b]) + bucket[b].n /\ TicksIn(candles[b]) \in Int
  BY <1>1, <1>3, TicksInAppend
<1> QED BY <1>1, <1>3, <1>4, <1>7, <1>8

(* What concerns the minutes and counts of a bridge changes with its lock, *)
(* bucket and candles only.                                                *)
LEMMA AdmitKeeps ==
  ASSUME TickInv, NEW b \in Bridges, Admit(b)
  PROVE  TickInv'
<1> USE TickAssumption DEF TickInv, Admit, RegistryStill
<1>1. PICK m \in {minute, minute - 1} \cap Nat :
        tasks' = tasks \cup {[id |-> ticks, of |-> b, minute |-> m, at |-> "lock"]}
  OBVIOUS
<1>2. /\ ticks \in Nat /\ ticks' = ticks + 1 /\ tasks \subseteq TickTasks
      /\ [id |-> ticks, of |-> b, minute |-> m, at |-> "lock"] \in TickTasks'
      /\ TickTasks \subseteq TickTasks'
  BY <1>1 DEF TickTypes, TickTasks
<1>3. TickTypes'
  <2>1. tasks' \subseteq TickTasks'
    BY <1>1, <1>2
  <2>2. holder' \in [Bridges -> (0 .. ticks' - 1) \cup {Free, Flusher}]
    BY <1>2 DEF TickTypes
  <2> QED BY <1>2, <2>1, <2>2 DEF TickTypes
<1>4. TasksApart'
  <2>1. \A t \in tasks : t.id # ticks
    BY <1>2 DEF TickTasks
  <2> QED BY <1>1, <2>1 DEF TasksApart
<1>5. UnbornStill' /\ RetiredStill'
  BY <1>1 DEF UnbornStill, RetiredStill, Busy
<1>6. ClosingHolds'
  BY <1>1 DEF ClosingHolds
<1>7. HeldIsClosed' /\ BucketAhead' /\ CandlesInOrder' /\ TicksAccounted' /\ OneAtATime'
  BY DEF HeldIsClosed, BucketAhead, CandlesInOrder, TicksAccounted, OneAtATime
<1> QED BY <1>3, <1>4, <1>5, <1>6, <1>7

LEMMA FlushKeeps ==
  ASSUME TickInv, NEW b \in Bridges, Flush(b)
  PROVE  TickInv'
<1> USE TickAssumption DEF TickInv, Flush, RegistryStill
<1>1. /\ candles' \in [Bridges -> Seq(ClosedCandles)]
      /\ \A c \in Bridges \ {b} : candles'[c] = candles[c]
      /\ candles'[b] # <<>> /\ candles'[b][Len(candles'[b])] = bucket[b]
      /\ CandlesInOrder'
      /\ TicksIn(candles'[b]) = TicksIn(candles[b]) + bucket[b].n
      /\ TicksIn(candles[b]) \in Int /\ bucket[b].n \in Nat
  BY CloseInOrder
<1>2. /\ \A c \in Bridges \ {b} : holder'[c] = holder[c]
      /\ holder'[b] = Flusher /\ Flusher # Free
  BY DEF TickTypes, Free, Flusher
<1>3. TickTypes'
  <2>1. holder' \in [Bridges -> (0 .. ticks - 1) \cup {Free, Flusher}]
    BY DEF TickTypes
  <2> QED BY <1>1, <2>1 DEF TickTypes, TickTasks
<1>4. TasksApart'
  BY DEF TasksApart
<1>5. UnbornStill' /\ RetiredStill'
  BY <1>1, <1>2 DEF UnbornStill, RetiredStill, Busy
<1>6. ClosingHolds'
  <2>1. \A t \in tasks : t.of = b => ~(bridge[b] = "active" /\ t.at = "closing")
    <3>1. \A t \in tasks : t.id # Free
      BY TickTyped
    <3> QED BY <3>1 DEF ClosingHolds
  <2>2. \A t \in tasks : t.of \in Bridges
    BY TickTyped
  <2> QED BY <1>2, <2>1, <2>2 DEF ClosingHolds
<1>7. HeldIsClosed'
  BY <1>1, <1>2 DEF HeldIsClosed
<1>8. BucketAhead'
  BY <1>1, <1>2 DEF BucketAhead
<1>9. TicksAccounted'
  <2>1. /\ bridge[b] = "active" => handled[b] = excluded[b] + TicksIn(candles[b]) + bucket[b].n
        /\ excluded[b] \in Nat
    BY TickTyped DEF TicksAccounted
  <2>2. bridge[b] = "active" => handled[b] = excluded[b] + TicksIn(candles'[b]) + 0
    BY <1>1, <2>1
  <2> QED BY <1>1, <1>2, <2>2 DEF TicksAccounted
<1>10. OneAtATime'
  BY DEF OneAtATime
<1> QED BY <1>1, <1>3, <1>4, <1>5, <1>6, <1>7, <1>8, <1>9, <1>10

LEMMA FlushedKeeps ==
  ASSUME TickInv, NEW b \in Bridges, Flushed(b)
  PROVE  TickInv'
<1> USE TickAssumption DEF TickInv, Flushed, RegistryStill
<1>1. /\ holder' = [holder EXCEPT ![b] = Free] /\ holder[b] = Flusher
      /\ \A c \in Bridges \ {b} : holder'[c] = holder[c] /\ bucket'[c] = bucket[c] /\ lastClosed'[c] = lastClosed[c]
      /\ holder'[b] = Free
  BY DEF TickTypes
<1>2. bridge[b] = "active" => bucket'[b] = Empty /\ lastClosed'[b] = bucket[b].minute
                              /\ bucket[b] \in ClosedCandles
  BY DEF TickTypes, HeldIsClosed, Free, Flusher
<1>3. TickTypes'
  <2>1. holder' \in [Bridges -> (0 .. ticks - 1) \cup {Free, Flusher}]
    BY DEF TickTypes
  <2>2. bucket' \in [Bridges -> ClosedCandles \cup {Empty}] /\ lastClosed' \in [Bridges -> Nat \cup {-1}]
    <3>1. CASE bridge[b] = "active"
      <4>1. bucket[b].minute \in Nat
        BY <1>2, <3>1 DEF ClosedCandles
      <4> QED BY <3>1, <4>1 DEF TickTypes
    <3>2. CASE bridge[b] # "active"
      BY <3>2 DEF TickTypes
    <3> QED BY <3>1, <3>2
  <2> QED BY <2>1, <2>2 DEF TickTypes, TickTasks
<1>4. TasksApart'
  BY DEF TasksApart
<1>5. UnbornStill' /\ RetiredStill'
  BY <1>1 DEF UnbornStill, RetiredStill, Busy, Free, Flusher
<1>6. ClosingHolds'
  BY <1>1 DEF ClosingHolds, Free, Flusher, TickTypes, TickTasks
<1>7. HeldIsClosed' /\ BucketAhead'
  <2>1. HeldIsClosed'
    BY <1>1 DEF HeldIsClosed
  <2>2. bridge[b] = "active" => candles[b] # <<>> /\ candles[b][Len(candles[b])].minute = bucket[b].minute
    BY <1>1 DEF HeldIsClosed, Free, Flusher
  <2>3. bucket[b].minute \in Int
    BY TickTyped
  <2> QED BY <1>1, <1>2, <2>1, <2>2, <2>3 DEF BucketAhead
<1>8. CandlesInOrder' /\ OneAtATime'
  BY DEF CandlesInOrder, OneAtATime
<1>9. TicksAccounted'
  BY <1>1, <1>2 DEF TicksAccounted, Free, Flusher, Empty
<1> QED BY <1>3, <1>4, <1>5, <1>6, <1>7, <1>8, <1>9

LEMMA HandleKeeps ==
  ASSUME TickInv, NEW t \in tasks, Handle(t)
  PROVE  TickInv'
<1> DEFINE b == t.of
<1> USE TickAssumption DEF TickInv, RegistryStill
<1>1. /\ b \in Bridges /\ t.id \in Nat /\ t.minute \in Nat /\ t.id # Free /\ t.id # Flusher
      /\ t \in TickTasks /\ t.at = "lock" /\ holder[b] = Free /\ bridge[b] = "active"
      /\ UNCHANGED <<bridge, lastClosed, ticks, registered, takeover, minute, overlapped>>
  <2>1. \E c \in Bridges : c = t.of
    BY DEF TickTypes, TickTasks
  <2> QED BY <2>1, TickTyped DEF Handle, TickTypes
<1>2. /\ bucket[b].minute \in Int /\ bucket[b].n \in Nat
      /\ bucket[b] # Empty => bucket[b] \in ClosedCandles /\ bucket[b].minute \in Nat
      /\ lastClosed[b] \in Int /\ excluded[b] \in Nat /\ handled[b] \in Nat
      /\ candles[b] \in Seq(ClosedCandles) /\ TicksIn(candles[b]) \in Int
  <2>1. TicksIn(candles[b]) \in Int
    <3>1. Empty.n = 0 /\ [minute |-> 0, n |-> 0] \in ClosedCandles
      BY DEF Empty, ClosedCandles
    <3>2. candles[b] \in Seq(ClosedCandles)
      BY <1>1, TickTyped
    <3> QED BY <3>1, <3>2, TicksInAppend
  <2> QED BY <1>1, <2>1, TickTyped
<1>3. /\ bucket \in [Bridges -> ClosedCandles \cup {Empty}] /\ holder \in [Bridges -> (0 .. ticks - 1) \cup {Free, Flusher}]
      /\ excluded \in [Bridges -> Nat] /\ handled \in [Bridges -> Nat] /\ tasks \subseteq TickTasks
  BY DEF TickTypes
<1>4. handled[b] = excluded[b] + TicksIn(candles[b]) + bucket[b].n
  BY <1>1 DEF TicksAccounted
<1>9. \A c \in Bridges \ {b} : holder'[c] = holder[c] /\ (Busy(c)' => Busy(c))
  <2>1. \A c \in Bridges \ {b} : holder'[c] = holder[c]
    BY <1>1, <1>3 DEF Handle
  <2>2. \A v \in tasks' : v \in tasks \/ v = [t EXCEPT !.at = "closing"]
    BY DEF Handle, Done
  <2>3. [t EXCEPT !.at = "closing"].of = b
    BY <1>1 DEF TickTasks
  <2>4. \A v \in tasks' : v \in tasks \/ v.of = b
    BY <2>2, <2>3
  <2> HIDE DEF b
  <2> QED BY <2>1, <2>4 DEF Busy
<1>5. RetiredStill' /\ OneAtATime'
  <2>1. OneAtATime'
    BY <1>1 DEF OneAtATime
  <2>2. \A c \in Bridges : bridge[c] = "retired" => c # b
    BY <1>1
  <2> QED BY <1>1, <1>9, <2>1, <2>2 DEF RetiredStill
<1>6. CASE /\ TooOld(b, t.minute)
           /\ excluded' = [excluded EXCEPT ![b] = @ + 1]
           /\ handled' = [handled EXCEPT ![b] = @ + 1]
           /\ Done(t) /\ UNCHANGED <<holder, bucket, candles>>
  <2> USE <1>6 DEF Done
  <2>1. /\ excluded'[b] = excluded[b] + 1 /\ handled'[b] = handled[b] + 1
        /\ \A c \in Bridges \ {b} : excluded'[c] = excluded[c] /\ handled'[c] = handled[c]
    BY <1>1, <1>3
  <2>2. TickTypes'
    <3>1. excluded[b] + 1 \in Nat /\ handled[b] + 1 \in Nat
      BY ONLY <1>2
    <3>2. excluded' \in [Bridges -> Nat] /\ handled' \in [Bridges -> Nat]
      BY ONLY <1>3, <1>6, <3>1
    <3> QED BY <1>1, <1>3, <3>2 DEF TickTypes, TickTasks
  <2>3. TasksApart' /\ ClosingHolds' /\ HeldIsClosed' /\ BucketAhead' /\ CandlesInOrder'
    BY <1>1 DEF TasksApart, ClosingHolds, HeldIsClosed, BucketAhead, CandlesInOrder
  <2>4. UnbornStill'
    <3>1. \A c \in Bridges : bridge[c] = "unborn" => c \in Bridges \ {b}
      BY <1>1
    <3> HIDE DEF b
    <3> QED BY <1>1, <1>9, <2>1, <3>1 DEF UnbornStill
  <2>5. handled'[b] = excluded'[b] + TicksIn(candles[b]) + bucket[b].n
    BY <1>2, <1>4, <2>1
  <2>6. TicksAccounted'
    BY <1>1, <2>1, <2>5 DEF TicksAccounted
  <2> QED BY <1>5, <2>2, <2>3, <2>4, <2>6
<1>7. CASE /\ ~TooOld(b, t.minute) /\ bucket[b] # Empty /\ t.minute > bucket[b].minute
           /\ Close(b) /\ holder' = [holder EXCEPT ![b] = t.id]
           /\ tasks' = (tasks \ {t}) \cup {[t EXCEPT !.at = "closing"]}
           /\ UNCHANGED <<bucket, excluded, handled>>
  <2> USE <1>7
  <2> DEFINE u == [t EXCEPT !.at = "closing"]
  <2>1. /\ candles' \in [Bridges -> Seq(ClosedCandles)]
        /\ \A c \in Bridges \ {b} : candles'[c] = candles[c]
        /\ candles'[b] # <<>> /\ candles'[b][Len(candles'[b])] = bucket[b]
        /\ CandlesInOrder'
        /\ TicksIn(candles'[b]) = TicksIn(candles[b]) + bucket[b].n
    BY <1>1, CloseInOrder
  <2>2. holder'[b] = t.id /\ \A c \in Bridges \ {b} : holder'[c] = holder[c]
    BY <1>1, <1>3
  <2>3. u \in TickTasks /\ u.id = t.id /\ u.of = b /\ u.minute = t.minute /\ u.at = "closing"
    BY <1>1 DEF TickTasks
  <2> HIDE DEF u
  <2>4. tasks' = (tasks \ {t}) \cup {u}
    BY DEF u
  <2>5. TickTypes'
    <3>1. t.id \in 0 .. ticks - 1
      BY <1>1 DEF TickTasks
    <3>2. holder' \in [Bridges -> (0 .. ticks - 1) \cup {Free, Flusher}]
      BY <1>3, <3>1
    <3>3. tasks' \subseteq TickTasks
      BY <1>3, <2>3, <2>4
    <3> QED BY <1>1, <2>1, <3>2, <3>3 DEF TickTypes, TickTasks
  <2>6. TasksApart'
    BY <2>3, <2>4 DEF TasksApart
  <2>7. UnbornStill'
    BY <1>1, <1>9, <2>1 DEF UnbornStill
  <2>8. ClosingHolds'
    <3>1. \A v \in tasks : v.of = b => ~(bridge[b] = "active" /\ v.at = "closing")
      <4>1. \A v \in tasks : v.id # Free
        BY <1>1, TickTyped
      <4> QED BY <1>1, <4>1 DEF ClosingHolds
    <3>2. \A v \in tasks : v.of \in Bridges
      BY <1>1, TickTyped
    <3>3. \A v \in tasks : bridge[v.of] = "active" /\ v.at = "closing" =>
            /\ v.of # b /\ holder'[v.of] = v.id /\ bucket[v.of] # Empty /\ bucket[v.of].minute < v.minute
      BY <2>2, <3>1, <3>2 DEF ClosingHolds
    <3>4. holder'[u.of] = u.id /\ bucket[u.of] # Empty /\ bucket[u.of].minute < u.minute
      BY <1>2, <2>2, <2>3
    <3>5. \A v \in tasks' : v \in tasks \/ v = u
      BY <2>4
    <3>6. bridge' = bridge /\ bucket' = bucket
      BY <1>1
    <3> QED BY ONLY <3>3, <3>4, <3>5, <3>6 DEF ClosingHolds
  <2>9. HeldIsClosed' /\ BucketAhead'
    <3>1. HeldIsClosed'
      BY <1>1, <2>1, <2>2 DEF HeldIsClosed
    <3>2. BucketAhead'
      BY <1>1, <2>1, <2>2 DEF BucketAhead
    <3> QED BY <3>1, <3>2
  <2>10. TicksAccounted'
    <3>1. handled[b] = excluded[b] + TicksIn(candles'[b]) + 0
      BY <1>2, <1>4, <2>1
    <3> QED BY <1>1, <2>1, <2>2, <3>1 DEF TicksAccounted
  <2> QED BY <1>5, <2>1, <2>5, <2>6, <2>7, <2>8, <2>9, <2>10
<1>8. CASE /\ ~TooOld(b, t.minute) /\ bucket[b].minute \in {-1, t.minute}
           /\ bucket' = [bucket EXCEPT ![b] = [minute |-> t.minute, n |-> @.n + 1]]
           /\ handled' = [handled EXCEPT ![b] = @ + 1]
           /\ Done(t) /\ UNCHANGED <<holder, excluded, candles>>
  <2> USE <1>8 DEF Done
  <2>1. /\ bucket'[b] = [minute |-> t.minute, n |-> bucket[b].n + 1] /\ handled'[b] = handled[b] + 1
        /\ \A c \in Bridges \ {b} : bucket'[c] = bucket[c] /\ handled'[c] = handled[c]
    BY <1>1, <1>3
  <2>2. bucket'[b] \in ClosedCandles /\ bucket'[b].minute = t.minute /\ bucket'[b].n = bucket[b].n + 1
    <3>1. bucket[b].n + 1 \in Nat /\ t.minute \in Nat
      <4>1. bucket[b].n \in Nat /\ t.minute \in Nat
        BY ONLY <1>1, <1>2, Zenon
      <4> QED BY ONLY <4>1
    <3>2. [minute |-> t.minute, n |-> bucket[b].n + 1] \in ClosedCandles
      BY ONLY <3>1 DEF ClosedCandles
    <3> QED BY ONLY <2>1, <3>2
  <2>3. lastClosed[b] < t.minute
    BY <1>1, <1>2 DEF TooOld
  <2>4. TickTypes'
    <3>1. bucket' \in [Bridges -> ClosedCandles \cup {Empty}] /\ handled' \in [Bridges -> Nat]
      BY <1>1, <1>2, <1>3, <2>1, <2>2
    <3> QED BY <1>1, <1>3, <3>1 DEF TickTypes, TickTasks
  <2>5. TasksApart' /\ CandlesInOrder'
    BY DEF TasksApart, CandlesInOrder
  <2>6. UnbornStill'
    BY <1>1, <1>9, <2>1 DEF UnbornStill
  <2>7. ClosingHolds'
    <3>1. \A v \in tasks : v.of = b => ~(bridge[b] = "active" /\ v.at = "closing")
      <4>1. \A v \in tasks : v.id # Free
        BY <1>1, TickTyped
      <4> QED BY <1>1, <4>1 DEF ClosingHolds
    <3>2. \A v \in tasks : v.of \in Bridges
      BY <1>1, TickTyped
    <3> QED BY <1>1, <2>1, <3>1, <3>2 DEF ClosingHolds
  <2>8. HeldIsClosed' /\ BucketAhead'
    <3>1. HeldIsClosed'
      BY <1>1, <2>1 DEF HeldIsClosed
    <3>2. BucketAhead'
      BY <1>1, <2>1, <2>2, <2>3 DEF BucketAhead
    <3> QED BY <3>1, <3>2
  <2>9. TicksAccounted'
    <3>1. handled'[b] = excluded[b] + TicksIn(candles[b]) + bucket'[b].n
      BY <1>2, <1>4, <2>1, <2>2
    <3> QED BY <1>1, <2>1, <3>1 DEF TicksAccounted
  <2> QED BY <1>5, <2>4, <2>5, <2>6, <2>7, <2>8, <2>9
<1> QED BY <1>6, <1>7, <1>8 DEF Handle

LEMMA ReopenKeeps ==
  ASSUME TickInv, NEW t \in tasks, Reopen(t)
  PROVE  TickInv'
<1> DEFINE b == t.of
<1> USE TickAssumption DEF TickInv, RegistryStill, Done
<1>1. /\ b \in Bridges /\ t.id \in Nat /\ t.minute \in Nat
      /\ t.at = "closing" /\ bridge[b] = "active"
      /\ UNCHANGED <<bridge, excluded, candles, ticks, registered, takeover, minute, overlapped>>
      /\ tasks' = tasks \ {t}
  <2>1. \E c \in Bridges : c = t.of
    BY DEF TickTypes, TickTasks
  <2> QED BY <2>1, TickTyped DEF Reopen
<1>2. /\ holder[b] = t.id /\ bucket[b] # Empty /\ bucket[b].minute < t.minute /\ holder[b] # Free
      /\ candles[b] # <<>> /\ candles[b][Len(candles[b])].minute = bucket[b].minute
      /\ bucket[b].minute \in Nat /\ handled[b] \in Nat /\ excluded[b] \in Nat
  <2>1. t.id # Free
    BY <1>1, TickTyped
  <2>2. holder[b] = t.id /\ bucket[b] # Empty /\ bucket[b].minute < t.minute
    BY <1>1 DEF ClosingHolds
  <2> QED BY <1>1, <2>1, <2>2, TickTyped DEF HeldIsClosed
<1>3. /\ bucket \in [Bridges -> ClosedCandles \cup {Empty}] /\ holder \in [Bridges -> (0 .. ticks - 1) \cup {Free, Flusher}]
      /\ lastClosed \in [Bridges -> Nat \cup {-1}] /\ handled \in [Bridges -> Nat] /\ tasks \subseteq TickTasks
  BY DEF TickTypes
<1>4. /\ lastClosed' = [lastClosed EXCEPT ![b] = bucket[b].minute]
      /\ bucket' = [bucket EXCEPT ![b] = [minute |-> t.minute, n |-> 1]]
      /\ holder' = [holder EXCEPT ![b] = Free]
      /\ handled' = [handled EXCEPT ![b] = @ + 1]
  BY DEF Reopen
<1>5. /\ lastClosed'[b] = bucket[b].minute /\ bucket'[b] = [minute |-> t.minute, n |-> 1]
      /\ holder'[b] = Free /\ handled'[b] = handled[b] + 1
      /\ \A c \in Bridges \ {b} : /\ lastClosed'[c] = lastClosed[c] /\ bucket'[c] = bucket[c]
                                  /\ holder'[c] = holder[c] /\ handled'[c] = handled[c]
  BY <1>1, <1>3, <1>4
<1>6. [minute |-> t.minute, n |-> 1] \in ClosedCandles
  BY <1>1 DEF ClosedCandles
<1>7. TickTypes'
  <2>1. lastClosed' \in [Bridges -> Nat \cup {-1}] /\ handled' \in [Bridges -> Nat]
    BY <1>1, <1>2, <1>3, <1>4
  <2>2. bucket' \in [Bridges -> ClosedCandles \cup {Empty}]
    BY <1>3, <1>4, <1>6
  <2>3. holder' \in [Bridges -> (0 .. ticks - 1) \cup {Free, Flusher}]
    BY <1>3, <1>4
  <2> HIDE DEF b
  <2> QED BY <1>1, <1>3, <2>1, <2>2, <2>3 DEF TickTypes, TickTasks
<1>8. TasksApart' /\ CandlesInOrder' /\ OneAtATime'
  BY <1>1 DEF TasksApart, CandlesInOrder, OneAtATime
<1>9. UnbornStill' /\ RetiredStill'
  <2>1. \A c \in Bridges : bridge[c] \in {"unborn", "retired"} => c \in Bridges \ {b}
    BY <1>1
  <2> HIDE DEF b
  <2> QED BY <1>1, <1>5, <2>1 DEF UnbornStill, RetiredStill, Busy
<1>10. ClosingHolds'
  <2>1. \A v \in tasks' : v.of = b => ~(bridge[b] = "active" /\ v.at = "closing")
    BY <1>1, <1>2 DEF ClosingHolds, TasksApart
  <2>2. \A v \in tasks' : v \in tasks /\ v.of \in Bridges
    BY <1>1, TickTyped
  <2> HIDE DEF b
  <2> QED BY <1>1, <1>5, <2>1, <2>2 DEF ClosingHolds
<1>11. HeldIsClosed' /\ BucketAhead'
  <2>1. lastClosed'[b] < bucket'[b].minute /\ candles[b][Len(candles[b])].minute <= lastClosed'[b]
    BY <1>1, <1>2, <1>5
  <2> HIDE DEF b
  <2>2. HeldIsClosed'
    BY <1>1, <1>5 DEF HeldIsClosed
  <2>3. BucketAhead'
    BY <1>1, <1>5, <2>1 DEF BucketAhead
  <2> QED BY <2>2, <2>3
<1>12. TicksAccounted'
  <2>1. handled[b] = excluded[b] + TicksIn(candles[b]) + 0
    BY <1>1, <1>2 DEF TicksAccounted
  <2>2. TicksIn(candles[b]) \in Int
    <3>1. candles[b] \in Seq(ClosedCandles)
      BY <1>1, TickTyped
    <3> QED BY <1>6, <3>1, TicksInAppend
  <2>3. handled'[b] = excluded[b] + TicksIn(candles[b]) + bucket'[b].n
    BY <1>2, <1>5, <2>1, <2>2
  <2> HIDE DEF b
  <2> QED BY <1>1, <1>5, <2>3 DEF TicksAccounted
<1> QED BY <1>7, <1>8, <1>9, <1>10, <1>11, <1>12

LEMMA UnwindKeeps ==
  ASSUME TickInv, NEW t \in tasks, Unwind(t)
  PROVE  TickInv'
<1> DEFINE b == t.of
<1> USE TickAssumption DEF TickInv, RegistryStill, Done
<1>1. /\ b \in Bridges /\ bridge[b] # "active" /\ tasks' = tasks \ {t}
      /\ UNCHANGED <<bridge, bucket, lastClosed, excluded, candles, ticks, handled, registered, takeover,
                     minute, overlapped>>
      /\ holder' = [holder EXCEPT ![b] = IF @ = t.id THEN Free ELSE @]
  <2>1. \E c \in Bridges : c = t.of
    BY DEF TickTypes, TickTasks
  <2> QED BY <2>1 DEF Unwind
<1>2. holder \in [Bridges -> (0 .. ticks - 1) \cup {Free, Flusher}] /\ tasks \subseteq TickTasks
  BY DEF TickTypes
<1>3. /\ holder'[b] \in {holder[b], Free}
      /\ \A c \in Bridges \ {b} : holder'[c] = holder[c]
  BY <1>1, <1>2
<1>4. TickTypes'
  <2>1. holder' \in [Bridges -> (0 .. ticks - 1) \cup {Free, Flusher}]
    BY <1>1, <1>2
  <2> HIDE DEF b
  <2> QED BY <1>1, <1>2, <2>1 DEF TickTypes, TickTasks
<1>5. TasksApart' /\ CandlesInOrder' /\ OneAtATime'
  BY <1>1 DEF TasksApart, CandlesInOrder, OneAtATime
<1>6. \A c \in Bridges : bridge[c] = "active" => holder'[c] = holder[c]
  BY <1>1, <1>3
<1>7. \A c \in Bridges : Busy(c)' => Busy(c)
  BY <1>1, <1>3 DEF Busy
<1> HIDE DEF b
<1>8. UnbornStill' /\ RetiredStill'
  BY <1>1, <1>7 DEF UnbornStill, RetiredStill
<1>9. ClosingHolds'
  <2>1. \A v \in tasks' : v \in tasks /\ v.of \in Bridges
    BY <1>1, TickTyped
  <2> QED BY <1>1, <1>6, <2>1 DEF ClosingHolds
<1>10. HeldIsClosed' /\ BucketAhead' /\ TicksAccounted'
  BY <1>1, <1>6 DEF HeldIsClosed, BucketAhead, TicksAccounted
<1> QED BY <1>4, <1>5, <1>8, <1>9, <1>10

(* A bridge that is stopped, or retired, or none.                          *)
LEMMA LessIsKept ==
  ASSUME TickInv, TicksStill,
         bridge' \in [Bridges -> BridgeStates],
         takeover' \in [Bridges -> {"none", "failed", "installed"} \cup InHand],
         registered' \in Bridges \cup {NoBridge}, overlapped' \in BOOLEAN,
         bucket' \in [Bridges -> ClosedCandles \cup {Empty}], lastClosed' \in [Bridges -> Nat \cup {-1}],
         \A c \in Bridges : bridge'[c] = "active" =>
           bridge[c] = "active" /\ bucket'[c] = bucket[c] /\ lastClosed'[c] = lastClosed[c],
         \A c \in Bridges : bridge'[c] = "unborn" =>
           bridge[c] = "unborn" /\ takeover'[c] = takeover[c]
           /\ bucket'[c] = bucket[c] /\ lastClosed'[c] = lastClosed[c],
         \A c \in Bridges : bridge'[c] = "retired" => ~Busy(c)
  PROVE  /\ TickTypes' /\ TasksApart' /\ UnbornStill' /\ RetiredStill'
         /\ ClosingHolds' /\ HeldIsClosed' /\ BucketAhead' /\ CandlesInOrder' /\ TicksAccounted'
<1> USE TickAssumption DEF TickInv, TicksStill
<1>1. TickTypes'
  BY DEF TickTypes, TickTasks
<1>2. TasksApart' /\ CandlesInOrder'
  BY DEF TasksApart, CandlesInOrder
<1>3. UnbornStill' /\ RetiredStill'
  BY DEF UnbornStill, RetiredStill, Busy
<1>4. ClosingHolds'
  <2>1. \A t \in tasks : t.of \in Bridges
    BY DEF TickTypes, TickTasks
  <2> QED BY <2>1 DEF ClosingHolds
<1>5. HeldIsClosed' /\ BucketAhead' /\ TicksAccounted'
  BY DEF HeldIsClosed, BucketAhead, TicksAccounted
<1> QED BY <1>1, <1>2, <1>3, <1>4, <1>5

LEMMA ConnectKeeps ==
  ASSUME TickInv, NEW b \in Bridges, ConnectBridge(b)
  PROVE  TickInv'
<1> USE TickAssumption DEF TickInv, ConnectBridge, TicksStill
<1>1. /\ bridge' \in [Bridges -> BridgeStates] /\ bridge'[b] = "active"
      /\ takeover' \in [Bridges -> {"none", "failed", "installed"} \cup InHand] /\ takeover'[b] = "disconnect"
      /\ \A c \in Bridges \ {b} : bridge'[c] = bridge[c] /\ takeover'[c] = takeover[c]
  BY DEF TickTypes, BridgeStates, InHand
<1>2. /\ ~Busy(b) /\ bucket[b] = Empty /\ lastClosed[b] = -1 /\ candles[b] = <<>>
      /\ excluded[b] = 0 /\ handled[b] = 0
  BY DEF UnbornStill
<1>3. overlapped' \in BOOLEAN
  OBVIOUS
<1>4. TickTypes'
  BY <1>1, <1>3 DEF TickTypes, TickTasks
<1>5. TasksApart' /\ CandlesInOrder'
  BY DEF TasksApart, CandlesInOrder
<1>6. UnbornStill' /\ RetiredStill'
  BY <1>1 DEF UnbornStill, RetiredStill, Busy
<1>7. ClosingHolds'
  <2>1. \A t \in tasks : t.of \in Bridges \ {b}
    BY <1>2 DEF TickTypes, TickTasks, Busy
  <2> QED BY <1>1, <2>1 DEF ClosingHolds
<1>8. HeldIsClosed' /\ BucketAhead'
  BY <1>1, <1>2 DEF HeldIsClosed, BucketAhead, Busy
<1>9. TicksAccounted'
  <2>1. handled[b] = excluded[b] + TicksIn(candles[b]) + bucket[b].n
    BY <1>2, TicksInNone DEF Empty
  <2>2. holder[b] = Free
    BY <1>2 DEF Busy
  <2> QED BY <1>1, <2>1, <2>2 DEF TicksAccounted
<1>10. OneAtATime'
  <2>1. ASSUME ~overlapped' PROVE ~overlapped /\ \A c \in Bridges : takeover[c] \notin InHand
    BY <2>1 DEF InHand
  <2> QED BY <1>1, <2>1 DEF OneAtATime, InHand
<1> QED BY <1>4, <1>5, <1>6, <1>7, <1>8, <1>9, <1>10

(* stop() of one bridge.                                                   *)
LEMMA StopIsLess ==
  ASSUME TickInv, NEW r \in Bridges, bridge' = Stopped(r, bridge), Dropped(r)
  PROVE  /\ bridge' \in [Bridges -> BridgeStates] /\ bridge'[r] # "active"
         /\ bucket' \in [Bridges -> ClosedCandles \cup {Empty}]
         /\ lastClosed' \in [Bridges -> Nat \cup {-1}]
         /\ \A c \in Bridges : bridge'[c] = "active" =>
              bridge[c] = "active" /\ bucket'[c] = bucket[c] /\ lastClosed'[c] = lastClosed[c]
         /\ \A c \in Bridges : bridge'[c] = "unborn" =>
              bridge[c] = "unborn" /\ bucket'[c] = bucket[c] /\ lastClosed'[c] = lastClosed[c]
         /\ \A c \in Bridges : bridge'[c] = "retired" => bridge[c] = "retired"
<1>1. /\ bridge \in [Bridges -> BridgeStates] /\ bucket \in [Bridges -> ClosedCandles \cup {Empty}]
      /\ lastClosed \in [Bridges -> Nat \cup {-1}] /\ r # NoBridge
  BY TickAssumption DEF TickInv, TickTypes
<1>2. CASE bridge[r] = "active"
  <2>1. /\ bridge' = [bridge EXCEPT ![r] = "retiring"]
        /\ bucket' = [bucket EXCEPT ![r] = Empty] /\ lastClosed' = [lastClosed EXCEPT ![r] = -1]
    BY <1>1, <1>2 DEF Stopped, Dropped
  <2>2. bridge' \in [Bridges -> BridgeStates] /\ bucket' \in [Bridges -> ClosedCandles \cup {Empty}]
        /\ lastClosed' \in [Bridges -> Nat \cup {-1}]
    BY <1>1, <2>1 DEF BridgeStates
  <2> QED BY <1>1, <2>1, <2>2
<1>3. CASE bridge[r] # "active"
  BY <1>1, <1>3 DEF Stopped, Dropped
<1> QED BY <1>2, <1>3

LEMMA DisconnectedKeeps ==
  ASSUME TickInv, NEW b \in Bridges, Disconnected(b)
  PROVE  TickInv'
<1> USE TickAssumption DEF TickInv, Disconnected
<1>1. /\ registered' \in Bridges \cup {NoBridge} /\ overlapped' \in BOOLEAN
      /\ takeover \in [Bridges -> {"none", "failed", "installed"} \cup InHand]
      /\ registered' = registered /\ overlapped' = overlapped /\ TicksStill
  BY DEF TickTypes
<1>2. bridge[b] # "unborn"
  BY DEF UnbornStill
<1>3. CASE /\ Retire(b) /\ takeover' = [takeover EXCEPT ![b] = "settle"]
           /\ registered \notin {NoBridge, b}
  <2>1. registered \in Bridges /\ registered # b
    BY <1>3 DEF TickTypes
  <2>2. bridge' = Stopped(registered, bridge) /\ Dropped(registered)
    BY <1>3, <2>1 DEF Retire
  <2>3. /\ bridge' \in [Bridges -> BridgeStates] /\ bridge'[registered] # "active"
        /\ bucket' \in [Bridges -> ClosedCandles \cup {Empty}]
        /\ lastClosed' \in [Bridges -> Nat \cup {-1}]
        /\ \A c \in Bridges : bridge'[c] = "active" =>
             bridge[c] = "active" /\ bucket'[c] = bucket[c] /\ lastClosed'[c] = lastClosed[c]
        /\ \A c \in Bridges : bridge'[c] = "unborn" =>
             bridge[c] = "unborn" /\ bucket'[c] = bucket[c] /\ lastClosed'[c] = lastClosed[c]
        /\ \A c \in Bridges : bridge'[c] = "retired" => bridge[c] = "retired"
    BY ONLY <2>1, <2>2, TickInv, StopIsLess
  <2>4. /\ takeover' \in [Bridges -> {"none", "failed", "installed"} \cup InHand]
        /\ takeover'[b] = "settle" /\ \A c \in Bridges \ {b} : takeover'[c] = takeover[c]
    BY <1>1, <1>3 DEF InHand
  <2>5. /\ TickTypes' /\ TasksApart' /\ UnbornStill' /\ RetiredStill'
        /\ ClosingHolds' /\ HeldIsClosed' /\ BucketAhead' /\ CandlesInOrder' /\ TicksAccounted'
    <3>1. \A c \in Bridges : bridge'[c] = "retired" => ~Busy(c)
      BY <2>3 DEF RetiredStill
    <3>2. \A c \in Bridges : bridge'[c] = "unborn" => takeover'[c] = takeover[c]
      BY <1>2, <2>3, <2>4
    <3> QED BY <1>1, <2>3, <2>4, <3>1, <3>2, LessIsKept
  <2>6. OneAtATime'
    BY <1>1, <2>1, <2>3, <2>4 DEF OneAtATime, InHand
  <2> QED BY <2>5, <2>6
<1>4. CASE /\ Retire(b) /\ takeover' = [takeover EXCEPT ![b] = "settle"]
           /\ registered \in {NoBridge, b}
  <2>1. bridge' = bridge /\ UNCHANGED <<bucket, lastClosed>>
    BY <1>4 DEF Retire, Dropped
  <2>2. /\ takeover' \in [Bridges -> {"none", "failed", "installed"} \cup InHand]
        /\ takeover'[b] = "settle" /\ \A c \in Bridges \ {b} : takeover'[c] = takeover[c]
    BY <1>1, <1>4 DEF InHand
  <2>3. /\ TickTypes' /\ TasksApart' /\ UnbornStill' /\ RetiredStill'
        /\ ClosingHolds' /\ HeldIsClosed' /\ BucketAhead' /\ CandlesInOrder' /\ TicksAccounted'
    <3>1. /\ bridge' \in [Bridges -> BridgeStates] /\ bucket' \in [Bridges -> ClosedCandles \cup {Empty}]
          /\ lastClosed' \in [Bridges -> Nat \cup {-1}]
      BY <2>1 DEF TickTypes
    <3>2. \A c \in Bridges : bridge'[c] = "retired" => ~Busy(c)
      BY <2>1 DEF RetiredStill
    <3>3. \A c \in Bridges : bridge'[c] = "unborn" => takeover'[c] = takeover[c]
      BY <1>2, <2>1, <2>2
    <3> QED BY <1>1, <2>1, <2>2, <3>1, <3>2, <3>3, LessIsKept
  <2>4. OneAtATime'
    <3>1. \A c \in Bridges : c = registered => c = b
      BY <1>4
    <3> QED BY <1>1, <2>1, <2>2, <3>1 DEF OneAtATime, InHand
  <2> QED BY <2>3, <2>4
<1>5. CASE bridge' = Stopped(b, bridge) /\ Dropped(b) /\ takeover' = [takeover EXCEPT ![b] = "failed"]
  <2>1. /\ bridge' \in [Bridges -> BridgeStates] /\ bridge'[b] # "active"
        /\ bucket' \in [Bridges -> ClosedCandles \cup {Empty}]
        /\ lastClosed' \in [Bridges -> Nat \cup {-1}]
        /\ \A c \in Bridges : bridge'[c] = "active" =>
             bridge[c] = "active" /\ bucket'[c] = bucket[c] /\ lastClosed'[c] = lastClosed[c]
        /\ \A c \in Bridges : bridge'[c] = "unborn" =>
             bridge[c] = "unborn" /\ bucket'[c] = bucket[c] /\ lastClosed'[c] = lastClosed[c]
        /\ \A c \in Bridges : bridge'[c] = "retired" => bridge[c] = "retired"
    BY ONLY <1>5, TickInv, StopIsLess
  <2>2. /\ takeover' \in [Bridges -> {"none", "failed", "installed"} \cup InHand]
        /\ takeover'[b] = "failed" /\ \A c \in Bridges \ {b} : takeover'[c] = takeover[c]
    BY <1>1, <1>5 DEF InHand
  <2>3. /\ TickTypes' /\ TasksApart' /\ UnbornStill' /\ RetiredStill'
        /\ ClosingHolds' /\ HeldIsClosed' /\ BucketAhead' /\ CandlesInOrder' /\ TicksAccounted'
    <3>1. \A c \in Bridges : bridge'[c] = "retired" => ~Busy(c)
      BY <2>1 DEF RetiredStill
    <3>2. \A c \in Bridges : bridge'[c] = "unborn" => takeover'[c] = takeover[c]
      BY <1>2, <2>1, <2>2
    <3> QED BY <1>1, <2>1, <2>2, <3>1, <3>2, LessIsKept
  <2>4. OneAtATime'
    BY <1>1, <2>1, <2>2 DEF OneAtATime, InHand
  <2> QED BY <2>3, <2>4
<1> QED BY <1>3, <1>4, <1>5

LEMMA InstallKeeps ==
  ASSUME TickInv, NEW b \in Bridges, Install(b)
  PROVE  TickInv'
<1> USE TickAssumption DEF TickInv, Install
<1>1. /\ bridge' = [c \in Bridges |-> IF bridge[c] = "retiring" THEN "retired" ELSE bridge[c]]
      /\ bridge \in [Bridges -> BridgeStates] /\ bucket' = bucket /\ lastClosed' = lastClosed
      /\ registered' = b /\ overlapped' = overlapped /\ TicksStill
  BY DEF TickTypes
<1>2. bridge' \in [Bridges -> BridgeStates]
  BY <1>1 DEF BridgeStates
<1>3. /\ takeover' \in [Bridges -> {"none", "failed", "installed"} \cup InHand]
      /\ takeover'[b] = "installed" /\ \A c \in Bridges \ {b} : takeover'[c] = takeover[c]
  BY DEF TickTypes, InHand
<1>4. bridge[b] # "unborn"
  BY DEF UnbornStill
<1>5. \A c \in Bridges : bridge'[c] = "retired" => ~Busy(c)
  BY <1>1 DEF RetiredStill, BridgesSettled
<1>6. /\ TickTypes' /\ TasksApart' /\ UnbornStill' /\ RetiredStill'
      /\ ClosingHolds' /\ HeldIsClosed' /\ BucketAhead' /\ CandlesInOrder' /\ TicksAccounted'
  <2>1. /\ registered' \in Bridges \cup {NoBridge} /\ overlapped' \in BOOLEAN
        /\ bucket' \in [Bridges -> ClosedCandles \cup {Empty}] /\ lastClosed' \in [Bridges -> Nat \cup {-1}]
    BY <1>1 DEF TickTypes
  <2>2. \A c \in Bridges : bridge'[c] = "active" => bridge[c] = "active"
    BY <1>1
  <2>3. \A c \in Bridges : bridge'[c] = "unborn" => bridge[c] = "unborn" /\ takeover'[c] = takeover[c]
    BY <1>1, <1>3, <1>4
  <2> QED BY <1>1, <1>2, <1>3, <1>5, <2>1, <2>2, <2>3, LessIsKept
<1>7. OneAtATime'
  BY <1>1, <1>3 DEF OneAtATime, InHand
<1> QED BY <1>6, <1>7

LEMMA ClearKeeps ==
  ASSUME TickInv, Clear
  PROVE  TickInv'
<1> USE TickAssumption DEF TickInv, Clear
<1>1. registered \in Bridges /\ bridge' = Stopped(registered, bridge) /\ Dropped(registered)
  BY DEF TickTypes
<1>2. /\ bridge' \in [Bridges -> BridgeStates] /\ bridge'[registered] # "active"
      /\ bucket' \in [Bridges -> ClosedCandles \cup {Empty}]
      /\ lastClosed' \in [Bridges -> Nat \cup {-1}]
      /\ \A c \in Bridges : bridge'[c] = "active" =>
           bridge[c] = "active" /\ bucket'[c] = bucket[c] /\ lastClosed'[c] = lastClosed[c]
      /\ \A c \in Bridges : bridge'[c] = "unborn" =>
           bridge[c] = "unborn" /\ bucket'[c] = bucket[c] /\ lastClosed'[c] = lastClosed[c]
      /\ \A c \in Bridges : bridge'[c] = "retired" => bridge[c] = "retired"
  BY ONLY <1>1, TickInv, StopIsLess
<1>3. /\ TickTypes' /\ TasksApart' /\ UnbornStill' /\ RetiredStill'
      /\ ClosingHolds' /\ HeldIsClosed' /\ BucketAhead' /\ CandlesInOrder' /\ TicksAccounted'
  <2>1. /\ takeover' \in [Bridges -> {"none", "failed", "installed"} \cup InHand]
        /\ registered' \in Bridges \cup {NoBridge} /\ overlapped' \in BOOLEAN
        /\ takeover' = takeover /\ TicksStill
    BY DEF TickTypes
  <2>2. \A c \in Bridges : bridge'[c] = "retired" => ~Busy(c)
    BY <1>2 DEF RetiredStill
  <2> QED BY <1>2, <2>1, <2>2, LessIsKept
<1>4. OneAtATime'
  BY <1>1, <1>2 DEF OneAtATime
<1> QED BY <1>3, <1>4

LEMMA MinuteKeeps ==
  ASSUME TickInv, NextMinute
  PROVE  TickInv'
<1> USE TickAssumption DEF TickInv, NextMinute
<1>1. TickTypes'
  BY DEF TickTypes, TickTasks
<1>2. TasksApart' /\ CandlesInOrder'
  BY DEF TasksApart, CandlesInOrder
<1>3. UnbornStill' /\ RetiredStill'
  BY DEF UnbornStill, RetiredStill, Busy
<1>4. ClosingHolds' /\ HeldIsClosed' /\ BucketAhead' /\ TicksAccounted'
  BY DEF ClosingHolds, HeldIsClosed, BucketAhead, TicksAccounted
<1>5. OneAtATime'
  BY DEF OneAtATime
<1> QED BY <1>1, <1>2, <1>3, <1>4, <1>5

LEMMA BridgeIdle ==
  ASSUME TickInv, UNCHANGED tickVars
  PROVE  TickInv'
<1> USE DEF TickInv, tickVars
<1>1. TickTypes' /\ TasksApart' /\ CandlesInOrder'
  BY DEF TickTypes, TickTasks, TasksApart, CandlesInOrder
<1>2. UnbornStill' /\ RetiredStill'
  BY DEF UnbornStill, RetiredStill, Busy
<1>3. ClosingHolds' /\ HeldIsClosed' /\ BucketAhead' /\ TicksAccounted'
  BY DEF ClosingHolds, HeldIsClosed, BucketAhead, TicksAccounted
<1>4. OneAtATime'
  BY DEF OneAtATime
<1> QED BY <1>1, <1>2, <1>3, <1>4

LEMMA BridgeStep ==
  ASSUME TickInv, [TickNext]_tickVars
  PROVE  TickInv'
<1>1. ASSUME NEW b \in Bridges,
             Admit(b) \/ Flush(b) \/ Flushed(b) \/ ConnectBridge(b) \/ Disconnected(b) \/ Install(b)
      PROVE  TickInv'
  BY ONLY <1>1, TickInv, AdmitKeeps, FlushKeeps, FlushedKeeps, ConnectKeeps, DisconnectedKeeps, InstallKeeps
<1>2. ASSUME NEW t \in tasks, Handle(t) \/ Reopen(t) \/ Unwind(t)
      PROVE  TickInv'
  BY ONLY <1>2, TickInv, HandleKeeps, ReopenKeeps, UnwindKeeps
<1>3. CASE Clear
  BY ONLY <1>3, TickInv, ClearKeeps
<1>4. CASE NextMinute
  BY ONLY <1>4, TickInv, MinuteKeeps
<1>5. CASE UNCHANGED tickVars
  BY ONLY <1>5, TickInv, BridgeIdle
<1> QED BY <1>1, <1>2, <1>3, <1>4, <1>5 DEF TickNext

LEMMA TicksAreTrue ==
  ASSUME TickInv
  PROVE  TickTypeOK /\ CandlesInOrder /\ TicksAccounted /\ OneSource
<1> USE DEF TickInv
<1>1. TickTypeOK
  BY DEF TickTypes, TickTypeOK, BridgeStates, RetiredStill
<1>2. OneSource
  BY DEF OneSource, OneAtATime, InHand
<1> QED BY <1>1, <1>2

---------------------------------------------------------------------------
(* The composite of the index funds                                        *)

LEMMA NewestOfAll ==
  ASSUME NEW f \in [CrossTickers -> 0 .. LastComposed]
  PROVE  /\ Max({f[t] : t \in CrossTickers}) \in Nat
         /\ \A t \in CrossTickers : f[t] <= Max({f[u] : u \in CrossTickers})
         /\ \E t \in CrossTickers : f[t] = Max({f[u] : u \in CrossTickers})
<1> DEFINE S == {f[t] : t \in CrossTickers}
<1>1. S \subseteq 0 .. LastComposed /\ S # {} /\ S \in SUBSET Int
  BY CompositeAssumption
<1>2. IsFiniteSet(S)
  <2>1. IsFiniteSet(0 .. LastComposed)
    BY CompositeAssumption, FS_Interval
  <2> HIDE DEF S
  <2> QED BY <1>1, <2>1, FS_Subset
<1>3. Max(S) \in S /\ \A n \in S : Max(S) >= n
  <2> HIDE DEF S
  <2> QED BY <1>1, <1>2, MinAndMax
<1>4. \A t \in CrossTickers : f[t] \in S /\ f[t] \in Nat
  OBVIOUS
<1>5. Max(S) \in Nat /\ \E t \in CrossTickers : f[t] = Max(S)
  <2>1. PICK m : m = Max(S)
    OBVIOUS
  <2>2. m \in S
    BY <1>3, <2>1
  <2>3. m \in Nat /\ \E t \in CrossTickers : f[t] = m
    BY <1>4, <2>2
  <2> QED BY <2>1, <2>3
<1>6. \A t \in CrossTickers : f[t] <= Max(S)
  <2> HIDE DEF S
  <2> QED BY <1>3, <1>4, <1>5
<1> QED BY <1>5, <1>6

Composites == [ts : Nat, parts : [CrossTickers -> Nat]]

ComposeTypes ==
  /\ latestOf \in [CrossTickers -> 0 .. LastComposed]
  /\ heldOf \in [CrossTickers -> BOOLEAN]
  /\ stateWork \in Seq(CrossTickers)
  /\ composing \in [step : {"idle", "state", "compose", "write"}, of : CrossTickers, candle : Nat,
                    composite : Composites]
  /\ stateOf \in [CrossTickers -> Nat] /\ trendOf \in [CrossTickers -> Nat]
  /\ composite \in Composites /\ composites \in Seq(Composites)
  /\ leftOut \subseteq CrossTickers

Queued(t) == \E i \in 1 .. Len(stateWork) : stateWork[i] = t
InHandOf(t) == composing.step = "state" /\ composing.of = t

(* What waits for the worker is of a candle; what it has in hand is not    *)
(* older than what it made before.                                         *)
QueuedHasCandle ==
  /\ \A t \in CrossTickers : heldOf[t] = TRUE \/ Queued(t) => latestOf[t] > 0
  /\ composing.step # "idle" => composing.candle > 0 /\ composing.candle <= latestOf[composing.of]
  /\ composing.step = "state" => stateOf[composing.of] <= composing.candle
  /\ composing.step = "compose" =>
       stateOf[composing.of] = composing.candle /\ trendOf[composing.of] <= composing.candle

TrendFollows ==
  \A t \in CrossTickers :
    /\ stateOf[t] <= latestOf[t]
    /\ ~(composing.step = "compose" /\ composing.of = t) => trendOf[t] = stateOf[t]

(* A ticker whose newest candle has no state yet is waited for, or its     *)
(* state could not be written.                                             *)
Awaited(t) == heldOf[t] = TRUE \/ Queued(t) \/ (InHandOf(t) /\ composing.candle = latestOf[t])
NewestKnown ==
  \A t \in CrossTickers :
    latestOf[t] = 0 \/ Awaited(t) \/ stateOf[t] = latestOf[t] \/ (t \in leftOut /\ ~InHandOf(t))

(* What is composed, and the last composite                                *)
Newest == Max({latestOf[t] : t \in CrossTickers})
CompositeBefore(a, b) == a.ts <= b.ts /\ \A t \in CrossTickers : a.parts[t] <= b.parts[t]
CompositeKnown(c) == \A t \in CrossTickers : c.parts[t] \in 1 .. c.ts

ComposedNow ==
  composing.step = "write" =>
    /\ composing.composite.parts = trendOf /\ CompositeKnown(composing.composite)
    /\ composing.composite.ts <= Newest
    /\ composites # <<>> => CompositeBefore(composites[Len(composites)], composing.composite)
ComposedLast ==
  /\ composites = <<>> => composite = NoComposite
  /\ composites # <<>> => composite = composites[Len(composites)]
  /\ composite.ts <= Newest /\ \A t \in CrossTickers : composite.parts[t] <= trendOf[t]
ComposedSoFar ==
  \A i \in 1 .. Len(composites) :
    CompositeKnown(composites[i]) /\ (i > 1 => CompositeBefore(composites[i - 1], composites[i]))

Quiet == stateWork = <<>> /\ \A t \in CrossTickers : heldOf[t] = FALSE
Composed ==
  composing.step \in {"idle", "state"} /\ AllReported(trendOf) /\ leftOut = {} =>
    /\ composite.parts = trendOf
    /\ composing.step = "idle" /\ Quiet => composite.ts = Newest
ComposedQuiet == composing.step = "write" /\ Quiet => composing.composite.ts = Newest

CompositeInv ==
  /\ ComposeTypes /\ QueuedHasCandle /\ TrendFollows /\ NewestKnown
  /\ ComposedNow /\ ComposedLast /\ ComposedSoFar /\ Composed /\ ComposedQuiet

LEMMA IdleTyped ==
  /\ NoComposite \in Composites
  /\ WorkerIdle \in [step : {"idle", "state", "compose", "write"}, of : CrossTickers, candle : Nat,
                     composite : Composites]
  /\ WorkerIdle.step = "idle"
<1>1. NoComposite \in Composites
  BY DEF NoComposite, Composites
<1>2. (CHOOSE t \in CrossTickers : TRUE) \in CrossTickers
  BY CompositeAssumption
<1> QED BY <1>1, <1>2 DEF WorkerIdle

LEMMA CompositeStart == CompositeInit => CompositeInv
<1> SUFFICES ASSUME CompositeInit PROVE CompositeInv
  OBVIOUS
<1> USE CompositeAssumption DEF CompositeInit
<1>1. ComposeTypes
  BY IdleTyped DEF ComposeTypes
<1>2. composing.step = "idle" /\ Len(stateWork) = 0 /\ \A t \in CrossTickers : trendOf[t] = 0 /\ latestOf[t] = 0
  BY IdleTyped
<1>3. QueuedHasCandle /\ TrendFollows /\ NewestKnown
  <2>1. \A t \in CrossTickers : ~Queued(t) /\ heldOf[t] = FALSE
    BY <1>2 DEF Queued
  <2> QED BY <1>2, <2>1 DEF QueuedHasCandle, TrendFollows, NewestKnown
<1>4. Newest \in Nat
  BY <1>1, NewestOfAll DEF ComposeTypes, Newest
<1>5. ~AllReported(trendOf)
  BY <1>2 DEF AllReported
<1>6. ComposedNow /\ ComposedLast /\ Composed /\ ComposedQuiet
  BY <1>2, <1>4, <1>5 DEF ComposedNow, ComposedLast, NoComposite, Composed, ComposedQuiet
<1>7. ComposedSoFar
  BY DEF ComposedSoFar
<1> QED BY <1>1, <1>3, <1>6, <1>7 DEF CompositeInv

LEMMA AppendQueued ==
  ASSUME stateWork \in Seq(CrossTickers), NEW t \in CrossTickers, stateWork' = Append(stateWork, t)
  PROVE  /\ stateWork' \in Seq(CrossTickers) /\ stateWork' # <<>>
         /\ \A u \in CrossTickers : Queued(u)' <=> Queued(u) \/ u = t
<1>1. /\ stateWork' \in Seq(CrossTickers) /\ Len(stateWork') = Len(stateWork) + 1 /\ Len(stateWork) \in Nat
      /\ stateWork'[Len(stateWork) + 1] = t
      /\ \A i \in 1 .. Len(stateWork) : stateWork'[i] = stateWork[i]
  OBVIOUS
<1>2. stateWork' # <<>>
  BY <1>1
<1>3. ASSUME NEW u \in CrossTickers PROVE Queued(u)' <=> Queued(u) \/ u = t
  <2>1. Queued(u)' => Queued(u) \/ u = t
    BY <1>1 DEF Queued
  <2>2. Queued(u) => Queued(u)'
    BY <1>1 DEF Queued
  <2>3. Queued(t)'
    BY <1>1 DEF Queued
  <2> QED BY <2>1, <2>2, <2>3
<1> QED BY <1>1, <1>2, <1>3

LEMMA TailQueued ==
  ASSUME stateWork \in Seq(CrossTickers), stateWork # <<>>, stateWork' = Tail(stateWork)
  PROVE  /\ stateWork' \in Seq(CrossTickers)
         /\ Head(stateWork) \in CrossTickers /\ Queued(Head(stateWork))
         /\ \A u \in CrossTickers : Queued(u)' => Queued(u)
         /\ \A u \in CrossTickers : Queued(u) => Queued(u)' \/ u = Head(stateWork)
<1>1. /\ stateWork' \in Seq(CrossTickers) /\ Len(stateWork') = Len(stateWork) - 1 /\ Len(stateWork) \in Nat
      /\ Len(stateWork) > 0 /\ Head(stateWork) = stateWork[1] /\ stateWork[1] \in CrossTickers
      /\ \A i \in 1 .. Len(stateWork) - 1 : stateWork'[i] = stateWork[i + 1]
  OBVIOUS
<1>2. Queued(Head(stateWork))
  BY <1>1 DEF Queued
<1>3. ASSUME NEW u \in CrossTickers, Queued(u)' PROVE Queued(u)
  <2>1. PICK i \in 1 .. Len(stateWork) - 1 : stateWork'[i] = u
    BY <1>1, <1>3 DEF Queued
  <2>2. i + 1 \in 1 .. Len(stateWork) /\ stateWork[i + 1] = u
    BY <1>1, <2>1
  <2> QED BY <2>2 DEF Queued
<1>4. ASSUME NEW u \in CrossTickers, Queued(u), u # Head(stateWork) PROVE Queued(u)'
  <2>1. PICK i \in 1 .. Len(stateWork) : stateWork[i] = u
    BY <1>4 DEF Queued
  <2>2. i - 1 \in 1 .. Len(stateWork) - 1 /\ stateWork'[i - 1] = u
    <3>1. i # 1
      BY <1>1, <1>4, <2>1
    <3>2. i - 1 \in 1 .. Len(stateWork) - 1 /\ (i - 1) + 1 = i
      BY <1>1, <3>1
    <3> QED BY <1>1, <2>1, <3>2
  <2> QED BY <1>1, <2>2 DEF Queued
<1> QED BY <1>1, <1>2, <1>3, <1>4

LEMMA NewestGrows ==
  ASSUME latestOf \in [CrossTickers -> 0 .. LastComposed], latestOf' \in [CrossTickers -> 0 .. LastComposed],
         \A t \in CrossTickers : latestOf[t] <= latestOf'[t]
  PROVE  /\ Newest \in Nat /\ Newest' \in Nat /\ Newest <= Newest'
         /\ \A t \in CrossTickers : latestOf[t] <= Newest
<1>1. Newest \in Nat /\ (\A t \in CrossTickers : latestOf[t] <= Newest) /\ \E t \in CrossTickers : latestOf[t] = Newest
  BY NewestOfAll DEF Newest
<1>2. Newest' \in Nat /\ (\A t \in CrossTickers : latestOf'[t] <= Newest') /\ \E t \in CrossTickers : latestOf'[t] = Newest'
  BY NewestOfAll DEF Newest
<1>3. \A t \in CrossTickers : latestOf[t] \in Nat /\ latestOf'[t] \in Nat
  BY CompositeAssumption
<1>4. PICK t \in CrossTickers : latestOf[t] = Newest
  BY <1>1
<1> QED BY <1>1, <1>2, <1>3, <1>4

LEMMA ArrivalKeeps ==
  ASSUME CompositeInv, NEW t \in CrossTickers, FeaturesOf(t) \/ HeldRuns(t)
  PROVE  CompositeInv'
<1> USE CompositeAssumption DEF CompositeInv
<1>1. /\ latestOf' \in [CrossTickers -> 0 .. LastComposed]
      /\ \A u \in CrossTickers \ {t} : latestOf'[u] = latestOf[u]
      /\ latestOf[t] <= latestOf'[t] /\ latestOf'[t] > 0
      /\ UNCHANGED <<composing, stateOf, trendOf, composite, composites, leftOut>>
  <2>1. latestOf \in [CrossTickers -> 0 .. LastComposed] /\ latestOf[t] \in 0 .. LastComposed
    BY DEF ComposeTypes
  <2>2. CASE FeaturesOf(t)
    BY <2>1, <2>2 DEF FeaturesOf
  <2>3. CASE HeldRuns(t)
    <3>1. heldOf[t] = TRUE
      BY <2>3 DEF HeldRuns, ComposeTypes
    <3>2. latestOf[t] > 0
      BY <3>1 DEF QueuedHasCandle
    <3> QED BY <2>1, <2>3, <3>2 DEF HeldRuns
  <2> QED BY <2>2, <2>3
<1>2. /\ heldOf' \in [CrossTickers -> BOOLEAN] /\ heldOf'[t] \in BOOLEAN
      /\ \A u \in CrossTickers \ {t} : heldOf'[u] = heldOf[u]
  BY DEF ComposeTypes, FeaturesOf, HeldRuns
<1>3. stateWork' = Append(stateWork, t) \/ (stateWork' = stateWork /\ heldOf'[t] = TRUE)
  BY DEF ComposeTypes, FeaturesOf, HeldRuns
<1>4. /\ stateWork' \in Seq(CrossTickers)
      /\ \A u \in CrossTickers \ {t} : Queued(u)' <=> Queued(u)
      /\ heldOf'[t] = TRUE \/ Queued(t)'
      /\ ~Quiet'
  <2>1. CASE stateWork' = Append(stateWork, t)
    BY <2>1, AppendQueued DEF ComposeTypes, Quiet
  <2>2. CASE stateWork' = stateWork /\ heldOf'[t] = TRUE
    <3>1. heldOf'[t] # FALSE
      BY <2>2
    <3> QED BY <2>2, <3>1 DEF ComposeTypes, Queued, Quiet
  <2> QED BY <1>3, <2>1, <2>2
<1>5. /\ \A u \in CrossTickers : latestOf[u] \in Nat /\ latestOf'[u] \in Nat /\ latestOf[u] <= latestOf'[u]
      /\ \A u \in CrossTickers : stateOf[u] \in Nat
      /\ composing.of \in CrossTickers /\ composing.candle \in Nat /\ composite.ts \in Nat
      /\ composing.composite.ts \in Nat
  <2>1. \A u \in CrossTickers : latestOf[u] \in Nat /\ latestOf'[u] \in Nat
    BY <1>1 DEF ComposeTypes
  <2>2. \A u \in CrossTickers : latestOf[u] <= latestOf'[u]
    BY <1>1, <2>1
  <2>3. /\ \A u \in CrossTickers : stateOf[u] \in Nat
        /\ composing.of \in CrossTickers /\ composing.candle \in Nat /\ composite.ts \in Nat
        /\ composing.composite.ts \in Nat
    BY DEF ComposeTypes, Composites
  <2> QED BY <2>1, <2>2, <2>3
<1>6. Newest \in Nat /\ Newest' \in Nat /\ Newest <= Newest'
  BY <1>1, <1>5, NewestGrows DEF ComposeTypes
<1>7. ComposeTypes'
  BY <1>1, <1>2, <1>4 DEF ComposeTypes
<1>8. QueuedHasCandle'
  <2>1. \A u \in CrossTickers : heldOf'[u] = TRUE \/ Queued(u)' => latestOf'[u] > 0
    BY <1>1, <1>2, <1>4 DEF QueuedHasCandle
  <2> QED BY <1>1, <1>5, <2>1 DEF QueuedHasCandle
<1>9. TrendFollows'
  BY <1>1, <1>5 DEF TrendFollows
<1>10. NewestKnown'
  <2>1. Awaited(t)'
    BY <1>4 DEF Awaited
  <2>2. ASSUME NEW u \in CrossTickers \ {t}
        PROVE  latestOf'[u] = 0 \/ Awaited(u)' \/ stateOf'[u] = latestOf'[u] \/ (u \in leftOut' /\ ~InHandOf(u)')
    <3>1. Awaited(u) => Awaited(u)'
      BY <1>1, <1>2, <1>4 DEF Awaited, InHandOf
    <3> QED BY <1>1, <3>1 DEF NewestKnown, InHandOf
  <2> QED BY <2>1, <2>2 DEF NewestKnown
<1>11. ComposedNow'
  BY <1>1, <1>5, <1>6 DEF ComposedNow, CompositeBefore, CompositeKnown
<1>12. ComposedLast' /\ ComposedSoFar'
  BY <1>1, <1>5, <1>6 DEF ComposedLast, ComposedSoFar, CompositeBefore, CompositeKnown
<1>13. Composed' /\ ComposedQuiet'
  BY <1>1, <1>4 DEF Composed, ComposedQuiet, AllReported
<1> QED BY <1>7, <1>8, <1>9, <1>10, <1>11, <1>12, <1>13

LEMMA TickerComputedKeeps ==
  ASSUME CompositeInv, TickerComputed
  PROVE  CompositeInv'
<1> USE CompositeAssumption DEF CompositeInv
<1>0. PICK t : t = Head(stateWork)
  OBVIOUS
<1>1. /\ stateWork' \in Seq(CrossTickers) /\ t \in CrossTickers /\ Queued(t)
      /\ \A u \in CrossTickers : Queued(u)' => Queued(u)
      /\ \A u \in CrossTickers : Queued(u) => Queued(u)' \/ u = t
  BY <1>0, TailQueued DEF TickerComputed, ComposeTypes
<1>2. /\ UNCHANGED <<latestOf, heldOf, stateOf, trendOf, composite, composites, leftOut>>
      /\ composing.step = "idle"
      /\ composing' = [WorkerIdle EXCEPT !.step = "state", !.of = t, !.candle = latestOf[t]]
  BY <1>0 DEF TickerComputed
<1>3. /\ composing'.step = "state" /\ composing'.of = t /\ composing'.candle = latestOf[t]
      /\ latestOf[t] \in Nat /\ stateOf[t] \in Nat /\ stateOf[t] <= latestOf[t]
      /\ composing' \in [step : {"idle", "state", "compose", "write"}, of : CrossTickers, candle : Nat,
                           composite : Composites]
  <2>1. latestOf[t] \in Nat /\ stateOf[t] \in Nat /\ stateOf[t] <= latestOf[t]
    BY <1>1 DEF ComposeTypes, TrendFollows
  <2>2. composing' = [step |-> "state", of |-> t, candle |-> latestOf[t], composite |-> NoComposite]
    BY <1>2 DEF WorkerIdle
  <2> QED BY <1>1, <2>1, <2>2, IdleTyped
<1>4. ComposeTypes'
  BY <1>1, <1>2, <1>3 DEF ComposeTypes
<1>5. QueuedHasCandle'
  BY <1>1, <1>2, <1>3 DEF QueuedHasCandle
<1>6. TrendFollows'
  BY <1>2, <1>3 DEF TrendFollows
<1>7. NewestKnown'
  <2>1. Awaited(t)'
    <3>1. InHandOf(t)' /\ composing'.candle = latestOf'[t]
      BY <1>2, <1>3 DEF InHandOf
    <3> QED BY <3>1 DEF Awaited
  <2>2. ASSUME NEW u \in CrossTickers \ {t}
        PROVE  latestOf'[u] = 0 \/ Awaited(u)' \/ stateOf'[u] = latestOf'[u] \/ (u \in leftOut' /\ ~InHandOf(u)')
    BY <1>1, <1>2, <1>3 DEF NewestKnown, Awaited, InHandOf
  <2> QED BY <2>1, <2>2 DEF NewestKnown
<1>8. ComposedNow' /\ ComposedLast' /\ ComposedSoFar'
  BY <1>2, <1>3 DEF ComposedNow, ComposedLast, ComposedSoFar, CompositeBefore, CompositeKnown, Newest
<1>9. Composed' /\ ComposedQuiet'
  BY <1>2, <1>3 DEF Composed, ComposedQuiet, AllReported
<1> QED BY <1>4, <1>5, <1>6, <1>7, <1>8, <1>9

LEMMA TickerPersistedKeeps ==
  ASSUME CompositeInv, NEW ok \in BOOLEAN, TickerPersisted(ok)
  PROVE  CompositeInv'
<1> USE CompositeAssumption DEF CompositeInv
<1>0. PICK t : t = composing.of
  OBVIOUS
<1>1. /\ composing.step = "state" /\ t \in CrossTickers /\ composing.candle \in Nat /\ composing.candle > 0
      /\ stateOf[t] \in Nat /\ stateOf[t] <= composing.candle /\ latestOf[t] \in Nat
      /\ composing.candle <= latestOf[t] /\ trendOf[t] = stateOf[t]
      /\ UNCHANGED <<latestOf, heldOf, stateWork, trendOf, composite, composites>>
  BY <1>0 DEF TickerPersisted, ComposeTypes, QueuedHasCandle, TrendFollows
<1>2. \A u \in CrossTickers : (Queued(u)' <=> Queued(u)) /\ trendOf[u] = stateOf[u]
  BY <1>1 DEF Queued, TrendFollows
<1>3. ComposedSoFar' /\ ComposedLast'
  BY <1>1 DEF ComposedSoFar, ComposedLast, Newest, CompositeKnown, CompositeBefore
<1>4. CASE ok = TRUE
  <2>1. /\ stateOf' = [stateOf EXCEPT ![t] = composing.candle]
        /\ composing' = [composing EXCEPT !.step = "compose"] /\ leftOut' = leftOut \ {t}
    BY <1>0, <1>4 DEF TickerPersisted
  <2>2. /\ stateOf'[t] = composing.candle /\ stateOf' \in [CrossTickers -> Nat]
        /\ \A u \in CrossTickers \ {t} : stateOf'[u] = stateOf[u]
        /\ composing' = [step |-> "compose", of |-> t, candle |-> composing.candle, composite |-> composing.composite]
    BY <1>0, <1>1, <2>1 DEF ComposeTypes
  <2>3. ComposeTypes'
    BY <1>1, <2>1, <2>2 DEF ComposeTypes
  <2>4. QueuedHasCandle' /\ TrendFollows'
    BY <1>1, <1>2, <2>2 DEF QueuedHasCandle, TrendFollows
  <2>5. NewestKnown'
    <3>1. latestOf'[t] = 0 \/ Awaited(t)' \/ stateOf'[t] = latestOf'[t] \/ (t \in leftOut' /\ ~InHandOf(t)')
      BY <1>0, <1>1, <1>2, <2>2 DEF NewestKnown, Awaited, InHandOf
    <3>2. ASSUME NEW u \in CrossTickers \ {t}
          PROVE  latestOf'[u] = 0 \/ Awaited(u)' \/ stateOf'[u] = latestOf'[u] \/ (u \in leftOut' /\ ~InHandOf(u)')
      BY <1>0, <1>1, <1>2, <2>1, <2>2 DEF NewestKnown, Awaited, InHandOf
    <3> QED BY <3>1, <3>2 DEF NewestKnown
  <2>6. ComposedNow' /\ Composed' /\ ComposedQuiet'
    BY <2>2 DEF ComposedNow, Composed, ComposedQuiet
  <2> QED BY <1>3, <2>3, <2>4, <2>5, <2>6
<1>5. CASE ok = FALSE
  <2>1. composing' = WorkerIdle /\ leftOut' = leftOut \cup {t} /\ stateOf' = stateOf
    BY <1>0, <1>5 DEF TickerPersisted
  <2>2. ComposeTypes' /\ composing'.step = "idle"
    BY <1>1, <2>1, IdleTyped DEF ComposeTypes
  <2>3. QueuedHasCandle' /\ TrendFollows'
    BY <1>1, <1>2, <2>1, <2>2 DEF QueuedHasCandle, TrendFollows
  <2>4. NewestKnown'
    <3>1. t \in leftOut' /\ ~InHandOf(t)'
      BY <2>1, <2>2 DEF InHandOf
    <3>2. ASSUME NEW u \in CrossTickers \ {t}
          PROVE  latestOf'[u] = 0 \/ Awaited(u)' \/ stateOf'[u] = latestOf'[u] \/ (u \in leftOut' /\ ~InHandOf(u)')
      BY <1>0, <1>1, <1>2, <2>1, <2>2 DEF NewestKnown, Awaited, InHandOf
    <3> QED BY <3>1, <3>2 DEF NewestKnown
  <2>5. ComposedNow' /\ Composed' /\ ComposedQuiet'
    BY <2>1, <2>2 DEF ComposedNow, Composed, ComposedQuiet
  <2> QED BY <1>3, <2>2, <2>3, <2>4, <2>5
<1> QED BY <1>4, <1>5

LEMMA ComposeKeeps ==
  ASSUME CompositeInv, Compose
  PROVE  CompositeInv'
<1> USE CompositeAssumption DEF CompositeInv
<1>0. PICK t : t = composing.of
  OBVIOUS
<1>1. /\ composing.step = "compose" /\ t \in CrossTickers /\ composing.candle \in Nat /\ composing.candle > 0
      /\ stateOf[t] = composing.candle /\ trendOf[t] <= composing.candle /\ trendOf[t] \in Nat
      /\ UNCHANGED <<latestOf, heldOf, stateWork, stateOf, composite, composites, leftOut>>
      /\ trendOf' = TrendsNow /\ TrendsNow = [trendOf EXCEPT ![t] = composing.candle]
  BY <1>0 DEF Compose, ComposeTypes, QueuedHasCandle, TrendFollows, TrendsNow
<1>2. /\ trendOf' \in [CrossTickers -> Nat] /\ trendOf'[t] = stateOf[t]
      /\ \A u \in CrossTickers \ {t} : trendOf'[u] = trendOf[u] /\ trendOf[u] = stateOf[u]
  BY <1>0, <1>1 DEF ComposeTypes, TrendFollows
<1>3. /\ \A u \in CrossTickers : (Queued(u)' <=> Queued(u)) /\ latestOf[u] \in Nat /\ stateOf[u] \in Nat
      /\ \A u \in CrossTickers : trendOf'[u] = stateOf[u] /\ stateOf[u] <= latestOf[u] /\ trendOf[u] <= stateOf[u]
  BY <1>1, <1>2 DEF Queued, TrendFollows, ComposeTypes
<1>4. Newest \in Nat /\ \A u \in CrossTickers : latestOf[u] <= Newest
  BY NewestOfAll DEF Newest, ComposeTypes
<1>5. ComposedSoFar'
  BY <1>1 DEF ComposedSoFar, CompositeKnown, CompositeBefore
<1>6. ComposedLast'
  <2>1. \A u \in CrossTickers : composite.parts[u] \in Nat /\ trendOf[u] \in Nat /\ trendOf'[u] \in Nat
    BY <1>2 DEF ComposeTypes, Composites
  <2>2. \A u \in CrossTickers : composite.parts[u] <= trendOf'[u]
    BY <1>3, <2>1 DEF ComposedLast
  <2> QED BY <1>1, <2>2 DEF ComposedLast, Newest
<1>7. TrendFollows'
  BY <1>1, <1>3 DEF TrendFollows
<1>8. NewestKnown' /\ QueuedHasCandle' /\ ComposeTypes' /\ composing'.step \in {"idle", "write"}
      /\ (composing'.step = "write" => AllReported(TrendsNow) /\ composing'.composite = [ts |-> Newest, parts |-> TrendsNow])
      /\ (composing'.step = "idle" => ~AllReported(TrendsNow))
  <2>1. CASE AllReported(TrendsNow)
    <3>1. composing' = [step |-> "write", of |-> t, candle |-> composing.candle,
                        composite |-> [ts |-> Newest, parts |-> TrendsNow]]
      BY <1>0, <2>1 DEF Compose, Newest, CompositeCandle, ComposeTypes
    <3>2. ComposeTypes'
      BY <1>1, <1>2, <1>4, <3>1 DEF ComposeTypes, Composites
    <3>3. QueuedHasCandle'
      BY <1>0, <1>1, <1>3, <3>1 DEF QueuedHasCandle
    <3>4. NewestKnown'
      BY <1>1, <1>3, <3>1 DEF NewestKnown, Awaited, InHandOf
    <3> QED BY <2>1, <3>1, <3>2, <3>3, <3>4
  <2>2. CASE ~AllReported(TrendsNow)
    <3>1. composing' = WorkerIdle
      BY <2>2 DEF Compose
    <3>2. ComposeTypes' /\ composing'.step = "idle"
      BY <1>1, <1>2, <3>1, IdleTyped DEF ComposeTypes
    <3>3. QueuedHasCandle'
      BY <1>1, <1>3, <3>2 DEF QueuedHasCandle
    <3>4. NewestKnown'
      BY <1>1, <1>3, <3>2 DEF NewestKnown, Awaited, InHandOf
    <3> QED BY <2>2, <3>2, <3>3, <3>4
  <2> QED BY <2>1, <2>2
<1>9. ComposedNow'
  <2>1. SUFFICES ASSUME composing'.step = "write" PROVE ComposedNow'
    BY DEF ComposedNow
  <2>2. composing'.composite.parts = trendOf' /\ composing'.composite.ts = Newest /\ Newest' = Newest
    <3>1. Newest' = Newest
      BY <1>1 DEF Newest
    <3>2. trendOf' = TrendsNow
      BY <1>1
    <3>3. composing'.composite = [ts |-> Newest, parts |-> TrendsNow]
      BY <1>8, <2>1
    <3> QED BY ONLY <3>1, <3>2, <3>3
  <2>3. CompositeKnown(composing'.composite)
    <3>1. \A u \in CrossTickers : trendOf'[u] # 0 /\ trendOf'[u] \in Nat /\ trendOf'[u] <= Newest
      BY <1>1, <1>3, <1>4, <1>8, <2>1 DEF AllReported
    <3> QED BY <1>4, <2>2, <3>1 DEF CompositeKnown
  <2>4. composites' # <<>> => CompositeBefore(composites'[Len(composites')], composing'.composite)
    <3>1. SUFFICES ASSUME composites # <<>> PROVE CompositeBefore(composite, composing'.composite)
      BY <1>1 DEF ComposedLast
    <3>2. composite.ts <= Newest
      BY DEF ComposedLast
    <3>3. \A u \in CrossTickers : composite.parts[u] <= trendOf'[u]
      BY <1>6 DEF ComposedLast, ComposeTypes, Compose
    <3> QED BY <2>2, <3>2, <3>3 DEF CompositeBefore
  <2> QED BY <1>4, <2>2, <2>3, <2>4 DEF ComposedNow
<1>10. Composed' /\ ComposedQuiet'
  <2>1. Newest' = Newest
    BY <1>1 DEF Newest
  <2> QED BY <1>1, <1>8, <2>1 DEF Composed, ComposedQuiet
<1> QED BY <1>5, <1>6, <1>7, <1>8, <1>9, <1>10

LEMMA CompositePersistedKeeps ==
  ASSUME CompositeInv, NEW ok \in BOOLEAN, CompositePersisted(ok)
  PROVE  CompositeInv'
<1> USE CompositeAssumption DEF CompositeInv
<1>0. PICK t : t = composing.of
  OBVIOUS
<1>1. /\ composing.step = "write" /\ t \in CrossTickers
      /\ composing' = WorkerIdle /\ composing'.step = "idle" /\ Newest' = Newest
      /\ UNCHANGED <<latestOf, heldOf, stateWork, stateOf, trendOf>>
  BY <1>0, IdleTyped DEF CompositePersisted, ComposeTypes, Newest
<1>2. \A u \in CrossTickers : Queued(u)' <=> Queued(u)
  BY <1>1 DEF Queued
<1>3. QueuedHasCandle' /\ TrendFollows'
  BY <1>1, <1>2 DEF QueuedHasCandle, TrendFollows
<1>4. NewestKnown'
  <2>1. leftOut \subseteq leftOut'
    BY DEF CompositePersisted
  <2> QED BY <1>1, <1>2, <2>1 DEF NewestKnown, Awaited, InHandOf
<1>5. ComposedNow' /\ ComposedQuiet'
  BY <1>1 DEF ComposedNow, ComposedQuiet
<1>6. CASE ok = TRUE
  <2>0. PICK made : made = composing.composite
    OBVIOUS
  <2>1. /\ composite' = made /\ composites' = Append(composites, made) /\ leftOut' = leftOut
        /\ made \in Composites /\ composites \in Seq(Composites)
    BY <1>6, <2>0 DEF CompositePersisted, ComposeTypes
  <2>2. /\ Len(composites') = Len(composites) + 1 /\ Len(composites) \in Nat /\ composites' # <<>>
        /\ composites'[Len(composites')] = made /\ composites' \in Seq(Composites)
        /\ \A i \in 1 .. Len(composites) : composites'[i] = composites[i]
    BY <2>1
  <2>3. /\ made.parts = trendOf /\ CompositeKnown(made) /\ made.ts <= Newest
        /\ composites # <<>> => CompositeBefore(composites[Len(composites)], made)
    BY <1>1, <2>0 DEF ComposedNow
  <2>4. ComposeTypes'
    BY <1>1, <2>1, <2>2, IdleTyped DEF ComposeTypes
  <2>5. ComposedLast'
    <3>1. \A u \in CrossTickers : trendOf[u] \in Nat
      BY DEF ComposeTypes
    <3> QED BY <1>1, <2>1, <2>2, <2>3, <3>1 DEF ComposedLast
  <2>6. ComposedSoFar'
    <3>1. ASSUME NEW i \in 1 .. Len(composites')
          PROVE  CompositeKnown(composites'[i]) /\ (i > 1 => CompositeBefore(composites'[i - 1], composites'[i]))
      <4>1. CASE i = Len(composites')
        <5>1. i > 1 => i - 1 = Len(composites) /\ Len(composites) \in 1 .. Len(composites) /\ composites # <<>>
          BY <2>2, <4>1
        <5>2. i > 1 => composites'[i - 1] = composites[Len(composites)]
          BY <2>2, <5>1
        <5> QED BY <2>2, <2>3, <4>1, <5>1, <5>2
      <4>2. CASE i # Len(composites')
        <5>1. i \in 1 .. Len(composites) /\ (i > 1 => i - 1 \in 1 .. Len(composites))
          BY <2>2, <4>2
        <5>2. composites'[i] = composites[i] /\ (i > 1 => composites'[i - 1] = composites[i - 1])
          BY <2>2, <5>1
        <5> QED BY <5>1, <5>2 DEF ComposedSoFar
      <4> QED BY <4>1, <4>2
    <3> QED BY <3>1 DEF ComposedSoFar, CompositeKnown, CompositeBefore
  <2>7. Composed'
    <3>1. Quiet' => Quiet
      BY <1>1 DEF Quiet
    <3> QED BY <1>1, <2>0, <2>1, <2>3, <3>1 DEF Composed, ComposedQuiet
  <2> QED BY <1>3, <1>4, <1>5, <2>4, <2>5, <2>6, <2>7
<1>7. CASE ok = FALSE
  <2>1. composite' = composite /\ composites' = composites /\ leftOut' = leftOut \cup {t}
    BY <1>0, <1>7 DEF CompositePersisted
  <2>2. ComposeTypes'
    BY <1>1, <2>1, IdleTyped DEF ComposeTypes
  <2>3. ComposedLast' /\ ComposedSoFar'
    BY <1>1, <2>1 DEF ComposedLast, ComposedSoFar, CompositeKnown, CompositeBefore
  <2>4. Composed'
    BY <2>1 DEF Composed
  <2> QED BY <1>3, <1>4, <1>5, <2>2, <2>3, <2>4
<1> QED BY <1>6, <1>7

LEMMA CompositeStep ==
  ASSUME CompositeInv, [CompositeNext]_compositeVars
  PROVE  CompositeInv'
<1>1. ASSUME NEW t \in CrossTickers, FeaturesOf(t) \/ HeldRuns(t)
      PROVE  CompositeInv'
  BY ONLY <1>1, CompositeInv, ArrivalKeeps
<1>2. CASE TickerComputed
  BY ONLY <1>2, CompositeInv, TickerComputedKeeps
<1>3. CASE Compose
  BY ONLY <1>3, CompositeInv, ComposeKeeps
<1>4. ASSUME NEW ok \in BOOLEAN, TickerPersisted(ok)
      PROVE  CompositeInv'
  BY ONLY <1>4, CompositeInv, TickerPersistedKeeps
<1>5. ASSUME NEW ok \in BOOLEAN, CompositePersisted(ok)
      PROVE  CompositeInv'
  BY ONLY <1>5, CompositeInv, CompositePersistedKeeps
<1>6. CASE UNCHANGED compositeVars
  <2> USE <1>6 DEF compositeVars, CompositeInv
  <2>1. ComposeTypes' /\ QueuedHasCandle' /\ TrendFollows'
    BY DEF ComposeTypes, QueuedHasCandle, TrendFollows, Queued
  <2>2. NewestKnown'
    BY DEF NewestKnown, Awaited, InHandOf, Queued
  <2>3. ComposedNow' /\ ComposedLast' /\ ComposedSoFar'
    BY DEF ComposedNow, ComposedLast, ComposedSoFar, Newest, CompositeKnown, CompositeBefore
  <2>4. Composed' /\ ComposedQuiet'
    BY DEF Composed, ComposedQuiet, AllReported, Quiet, Newest
  <2> QED BY <2>1, <2>2, <2>3, <2>4
<1> QED BY <1>1, <1>2, <1>3, <1>4, <1>5, <1>6 DEF CompositeNext

LEMMA CompositesAreTrue ==
  ASSUME CompositeInv
  PROVE  CompositeTypeOK /\ CompositesForward /\ CompositeSettles
<1> USE CompositeAssumption DEF CompositeInv
<1>1. CompositeTypeOK
  BY DEF CompositeTypeOK, ComposeTypes, TrendFollows
<1>2. CompositesForward
  <2>1. ASSUME NEW t \in CrossTickers, composite.parts[t] # 0
        PROVE  stateOf[t] # 0 /\ composite.parts[t] <= stateOf[t]
    <3>1. composite.parts[t] \in Nat /\ trendOf[t] \in Nat /\ stateOf[t] \in Nat
      BY DEF ComposeTypes, Composites
    <3>2. composite.parts[t] <= trendOf[t]
      BY DEF ComposedLast
    <3>3. trendOf[t] <= stateOf[t]
      BY <3>1 DEF TrendFollows, QueuedHasCandle
    <3> QED BY <2>1, <3>1, <3>2, <3>3
  <2>2. DOMAIN composites = 1 .. Len(composites)
    BY DEF ComposeTypes
  <2>3. \A t \in CrossTickers : composite.parts[t] # 0 =>
          t \in DOMAIN Snapshot.symbols /\ composite.parts[t] <= Snapshot.symbols[t]
    BY <2>1 DEF Snapshot
  <2>4. Snapshot.market = composite
    BY DEF Snapshot
  <2> QED BY <2>2, <2>3, <2>4 DEF CompositesForward, ComposedSoFar, CompositeKnown, CompositeBefore
<1>3. ASSUME CaughtUp
      PROVE  Snapshot = [symbols |-> latestOf,
                         market |-> [ts |-> Max({latestOf[t] : t \in CrossTickers}), parts |-> latestOf]]
  <2>1. composing.step = "idle" /\ stateWork = <<>> /\ leftOut = {} /\ AllReported(latestOf)
    BY <1>3 DEF CaughtUp
  <2>2. \A t \in CrossTickers : heldOf[t] = FALSE
    BY <1>3 DEF CaughtUp, ComposeTypes
  <2>3. \A t \in CrossTickers : stateOf[t] = latestOf[t] /\ latestOf[t] # 0 /\ trendOf[t] = latestOf[t]
    <3>1. \A t \in CrossTickers : ~Queued(t)
      BY <2>1 DEF Queued
    <3>2. \A t \in CrossTickers : latestOf[t] # 0
      BY <2>1 DEF AllReported
    <3>3. \A t \in CrossTickers : ~Awaited(t)
      BY <2>1, <2>2, <3>1 DEF Awaited, InHandOf
    <3> QED BY <2>1, <3>2, <3>3 DEF NewestKnown, TrendFollows
  <2>4. trendOf = latestOf
    BY <2>3 DEF ComposeTypes
  <2>5. {t \in CrossTickers : stateOf[t] # 0} = CrossTickers
    BY <2>3
  <2>6. [t \in {t \in CrossTickers : stateOf[t] # 0} |-> stateOf[t]] = latestOf
    BY <2>3, <2>5 DEF ComposeTypes
  <2>7. composite.ts = Newest /\ composite.parts = latestOf
    BY <2>1, <2>2, <2>4 DEF Composed, Quiet
  <2>8. composite = [ts |-> Newest, parts |-> latestOf]
    BY <2>7 DEF ComposeTypes, Composites
  <2> QED BY <2>6, <2>8 DEF Snapshot, Newest
<1> QED BY <1>1, <1>2, <1>3 DEF CompositeSettles

---------------------------------------------------------------------------
(* Replays among providers that come and go                                *)

Stages == {"idle", "asked", "checking", "reading", "install", "waiting", "recording", "replaying", "answered"}
Past == {"install", "waiting", "recording", "replaying"}
Roles == {"none", "polygon", "ibkr"}

ReplayRecord ==
  [kind : Kinds \cup {"none"}, at : Stages, item : 1 .. SweepLength, saved : Roles \cup Requests,
   results : Seq(Results)]

GuardTypes ==
  /\ replays \in [Requests -> ReplayRecord]
  /\ runLock \in [held : BOOLEAN, waiting : Seq(Requests \cup {"finnhub"})]
  /\ engines \in Requests \cup {"live"} /\ historical \in Roles \cup Requests
  /\ streaming \in Roles \cup {"finnhub"}
  /\ provider \in [{"finnhub", "polygon", "ibkr"} -> {"off", "waiting", "connecting", "on"}]
  /\ liveRole \in Roles /\ disturbed \in BOOLEAN /\ providerCalls \in Nat
  /\ runRows \subseteq Requests \X (1 .. SweepLength)

(* The lock is for one replay, or for Finnhub while it connects.           *)
LockUse ==
  /\ runLock.held = TRUE <=> engines # "live" \/ provider["finnhub"] = "connecting"
  /\ engines # "live" => provider["finnhub"] \notin {"connecting", "on"}
  /\ streaming = "finnhub" => provider["finnhub"] = "on"

EngineOf == \A r \in Requests : replays[r].at \in {"recording", "replaying"} <=> engines = r

(* Unless a provider came or went, the roles are as they will be restored, *)
(* and past the last check nobody else gives candles.                      *)
NoOtherSource ==
  provider["polygon"] # "on" /\ (provider["ibkr"] = "on" => streaming # "ibkr" /\ liveRole # "ibkr")
Traces ==
  disturbed = FALSE =>
    /\ engines = "live" => historical = liveRole
    /\ engines # "live" => historical = engines /\ replays[engines].saved = liveRole
    /\ \A r \in Requests : replays[r].at \in Past => NoOtherSource

(* What a request has: its kind, the item it is at, results and rows.      *)
Asked(q) == IF q.kind \in Sweeps THEN SweepLength ELSE 1
ResultsOf(r, q) ==
  \A i \in 1 .. Len(q.results) :
    /\ q.results[i] \in {"refused", "before_replay"} => <<r, i>> \notin runRows
    /\ q.results[i] = "done" => <<r, i>> \in runRows
RowsOf(r, q) ==
  /\ \A k \in 1 .. SweepLength : <<r, k>> \in runRows =>
       k < q.item \/ (k = q.item /\ q.at \in {"replaying", "answered"})
  /\ q.at = "replaying" => <<r, q.item>> \in runRows
CountsOf(q) ==
  /\ q.kind \notin Sweeps => q.item = 1
  /\ q.at # "answered" => Len(q.results) = q.item - 1
  /\ q.at = "answered" /\ q.results # <<"refused">> => Len(q.results) = Asked(q)
  /\ q.at \in {"checking", "reading"} => q.kind \in ReadsStored
  /\ q.at \in {"idle", "asked"} => q.item = 1
Honest == \A r \in Requests : ResultsOf(r, replays[r]) /\ RowsOf(r, replays[r]) /\ CountsOf(replays[r])

GuardInv == GuardTypes /\ LockUse /\ EngineOf /\ Traces /\ Honest

LEMMA GuardStart == ReplayInit => GuardInv
<1> SUFFICES ASSUME ReplayInit PROVE GuardInv
  OBVIOUS
<1> USE RequestAssumption DEF ReplayInit
<1>1. GuardTypes
  <2>1. \A r \in Requests : replays[r] \in ReplayRecord
    BY DEF ReplayRecord, Stages, Roles
  <2>2. runLock \in [held : BOOLEAN, waiting : Seq(Requests \cup {"finnhub"})]
    OBVIOUS
  <2>3. disturbed \in BOOLEAN
    OBVIOUS
  <2>4. provider \in [{"finnhub", "polygon", "ibkr"} -> {"off", "waiting", "connecting", "on"}]
    OBVIOUS
  <2> QED BY <2>1, <2>2, <2>3, <2>4 DEF GuardTypes, Roles
<1>2. LockUse
  <2>1. runLock.held = FALSE /\ runLock.held # TRUE
    OBVIOUS
  <2> QED BY <2>1 DEF LockUse
<1>3. EngineOf /\ Traces
  BY DEF EngineOf, Traces, Past
<1>4. Honest
  BY DEF Honest, ResultsOf, RowsOf, CountsOf, Sweeps
<1> QED BY <1>1, <1>2, <1>3, <1>4 DEF GuardInv

(* The record of a request after it has moved, or ended an item            *)
LEMMA RecordWith ==
  ASSUME NEW q \in ReplayRecord, NEW at \in Stages
  PROVE  /\ [q EXCEPT !.at = at] = [kind |-> q.kind, at |-> at, item |-> q.item, saved |-> q.saved, results |-> q.results]
         /\ [q EXCEPT !.at = at] \in ReplayRecord
<1>1. [q EXCEPT !.at = at] = [kind |-> q.kind, at |-> at, item |-> q.item, saved |-> q.saved, results |-> q.results]
  BY DEF ReplayRecord
<1>2. [kind |-> q.kind, at |-> at, item |-> q.item, saved |-> q.saved, results |-> q.results] \in ReplayRecord
  BY DEF ReplayRecord
<1> QED BY <1>1, <1>2

LEMMA MovesRecord ==
  ASSUME GuardTypes, NEW r \in Requests, NEW at \in Stages, Moves(r, at)
  PROVE  /\ replays' \in [Requests -> ReplayRecord]
         /\ replays'[r] = [replays[r] EXCEPT !.at = at]
         /\ \A q \in Requests \ {r} : replays'[q] = replays[q]
<1>1. replays[r] \in ReplayRecord /\ [replays[r] EXCEPT !.at = at] \in ReplayRecord
  BY RecordWith DEF GuardTypes
<1>2. replays' = [replays EXCEPT ![r] = [replays[r] EXCEPT !.at = at]]
  BY DEF Moves, GuardTypes
<1> QED BY <1>1, <1>2 DEF GuardTypes

LEMMA EndsRecord ==
  ASSUME GuardTypes, NEW r \in Requests, NEW res \in Results, Ends(r, res)
  PROVE  /\ replays' \in [Requests -> ReplayRecord]
         /\ \A q \in Requests \ {r} : replays'[q] = replays[q]
         /\ replays'[r] = [kind |-> replays[r].kind, saved |-> "none",
                           at |-> IF LastItem(r) THEN "answered" ELSE IF replays[r].kind = "sweep" THEN "install" ELSE "checking",
                           item |-> IF LastItem(r) THEN replays[r].item ELSE replays[r].item + 1,
                           results |-> Append(replays[r].results, res)]
<1> DEFINE at == IF LastItem(r) THEN "answered" ELSE IF replays[r].kind = "sweep" THEN "install" ELSE "checking"
           item == IF LastItem(r) THEN replays[r].item ELSE replays[r].item + 1
           q == [kind |-> replays[r].kind, saved |-> "none", at |-> at, item |-> item,
                 results |-> Append(replays[r].results, res)]
<1>1. replays[r] \in ReplayRecord /\ replays \in [Requests -> ReplayRecord]
  BY DEF GuardTypes
<1>2. replays' = [replays EXCEPT ![r] = q]
  BY <1>1 DEF Ends
<1>4. q \in ReplayRecord
  <2>1. item \in 1 .. SweepLength
    BY <1>1, RequestAssumption DEF ReplayRecord, LastItem
  <2>2. at \in Stages
    BY DEF Stages
  <2>3. Append(replays[r].results, res) \in Seq(Results)
    BY <1>1 DEF ReplayRecord
  <2> HIDE DEF item, at
  <2> QED BY <1>1, <2>1, <2>2, <2>3 DEF ReplayRecord, Roles
<1> HIDE DEF q
<1>5. /\ replays' \in [Requests -> ReplayRecord] /\ replays'[r] = q
      /\ \A p \in Requests \ {r} : replays'[p] = replays[p]
  BY <1>1, <1>2, <1>4
<1> QED BY <1>5 DEF q

(* Where a request is once an item has ended                               *)
LEMMA EndsAt ==
  ASSUME GuardTypes, NEW r \in Requests, NEW res \in Results, Ends(r, res)
  PROVE  /\ replays' \in [Requests -> ReplayRecord]
         /\ \A q \in Requests \ {r} : replays'[q] = replays[q]
         /\ replays'[r].at = (IF LastItem(r) THEN "answered" ELSE IF replays[r].kind = "sweep" THEN "install" ELSE "checking")
<1>1. replays'[r] = [kind |-> replays[r].kind, saved |-> "none",
                     at |-> IF LastItem(r) THEN "answered" ELSE IF replays[r].kind = "sweep" THEN "install" ELSE "checking",
                     item |-> IF LastItem(r) THEN replays[r].item ELSE replays[r].item + 1,
                     results |-> Append(replays[r].results, res)]
  BY EndsRecord
<1>2. replays'[r].at = (IF LastItem(r) THEN "answered" ELSE IF replays[r].kind = "sweep" THEN "install" ELSE "checking")
  BY ONLY <1>1
<1> QED BY <1>2, EndsRecord

(* A request that is not at a replay goes where no replay is: past the     *)
(* last check only if it was there, or if no provider is connected.        *)
LEMMA CalmKeeps ==
  ASSUME GuardInv, NEW r \in Requests,
         replays' \in [Requests -> ReplayRecord], \A q \in Requests \ {r} : replays'[q] = replays[q],
         replays[r].at \notin {"recording", "replaying"}, replays'[r].at \notin {"recording", "replaying"},
         replays'[r].at \in Past => replays[r].at \in Past \/ ~LiveDataConnected,
         UNCHANGED <<engines, historical, streaming, provider, liveRole, disturbed>>,
         runLock'.held = runLock.held
  PROVE  LockUse' /\ EngineOf' /\ Traces'
<1> USE RequestAssumption DEF GuardInv
<1>1. LockUse' /\ EngineOf'
  BY DEF LockUse, EngineOf
<1>2. ASSUME disturbed = FALSE, ~LiveDataConnected
      PROVE  NoOtherSource
  <2>1. provider["polygon"] # "on"
    BY <1>2 DEF LiveDataConnected, PolygonConnected
  <2>2. CASE engines = "live"
    BY <1>2, <2>2 DEF Traces, NoOtherSource, LiveDataConnected, PolygonConnected, IBKRConnected
  <2>3. CASE engines # "live"
    <3>1. engines \in Requests /\ replays[engines].at \in Past
      BY <2>3 DEF GuardTypes, EngineOf, Past
    <3> QED BY <1>2, <3>1 DEF Traces
  <2> QED BY <2>2, <2>3
<1>3. Traces'
  <2>1. SUFFICES ASSUME disturbed = FALSE PROVE Traces'
    BY DEF Traces
  <2>2. NoOtherSource' <=> NoOtherSource
    BY DEF NoOtherSource
  <2>3. engines # "live" => engines \in Requests /\ engines # r
    BY DEF GuardTypes, EngineOf
  <2> QED BY <1>2, <2>1, <2>2, <2>3 DEF Traces
<1> QED BY <1>1, <1>3

(* Where a request is before its replay, nothing is recorded of its item.  *)
LEMMA MovesHonest ==
  ASSUME GuardInv, NEW r \in Requests, replays' \in [Requests -> ReplayRecord],
         \A q \in Requests \ {r} : replays'[q] = replays[q], runRows' = runRows,
         /\ replays'[r].kind = replays[r].kind \/ replays[r].kind = "none"
         /\ replays'[r].item = replays[r].item /\ replays'[r].results = replays[r].results,
         replays[r].at \notin {"replaying", "answered"}, replays'[r].at \notin {"idle", "asked", "replaying", "answered"},
         replays'[r].at \in {"checking", "reading"} => replays'[r].kind \in ReadsStored
  PROVE  Honest'
<1> USE DEF GuardInv
<1>1. PICK q : q = replays[r]
  OBVIOUS
<1>2. ResultsOf(r, q) /\ RowsOf(r, q) /\ CountsOf(q)
  BY <1>1 DEF Honest
<1>3. PICK p : p = replays'[r]
  OBVIOUS
<1>4. ResultsOf(r, p)' /\ RowsOf(r, p)' /\ CountsOf(p)
  <2>1. /\ p.kind = q.kind \/ q.kind = "none"
        /\ p.item = q.item /\ p.results = q.results
        /\ q.at \notin {"replaying", "answered"} /\ p.at \notin {"idle", "asked", "replaying", "answered"}
        /\ p.at \in {"checking", "reading"} => p.kind \in ReadsStored
    BY <1>1, <1>3
  <2>2. ResultsOf(r, p)' /\ RowsOf(r, p)'
    BY ONLY <1>2, <2>1, runRows' = runRows DEF ResultsOf, RowsOf
  <2>3. CountsOf(p)
    BY ONLY <1>2, <2>1 DEF CountsOf, Sweeps
  <2> QED BY <2>2, <2>3
<1>5. ASSUME NEW o \in Requests \ {r}
      PROVE  (ResultsOf(o, replays[o]) /\ RowsOf(o, replays[o]) /\ CountsOf(replays[o]))'
  BY DEF Honest, ResultsOf, RowsOf
<1>6. (ResultsOf(r, replays[r]) /\ RowsOf(r, replays[r]) /\ CountsOf(replays[r]))'
  BY <1>3, <1>4 DEF ResultsOf, RowsOf, CountsOf
<1> QED BY <1>5, <1>6 DEF Honest

LEMMA EndsHonest ==
  ASSUME GuardInv, NEW r \in Requests, NEW res \in Results, Ends(r, res), runRows' = runRows,
         replays[r].at \notin {"idle", "answered"},
         res # "refused",
         res = "done" => replays[r].at = "replaying",
         res = "before_replay" => replays[r].at # "replaying"
  PROVE  Honest'
<1> USE DEF GuardInv
<1>1. PICK q : q = replays[r]
  OBVIOUS
<1>2. ResultsOf(r, q) /\ RowsOf(r, q) /\ CountsOf(q) /\ q \in ReplayRecord
  BY <1>1 DEF Honest, GuardTypes
<1>3. PICK p : p = replays'[r]
  OBVIOUS
<1>4. /\ \A o \in Requests \ {r} : replays'[o] = replays[o]
      /\ p.kind = q.kind /\ p.results = Append(q.results, res)
      /\ p.at = (IF LastItem(r) THEN "answered" ELSE IF q.kind = "sweep" THEN "install" ELSE "checking")
      /\ p.item = (IF LastItem(r) THEN q.item ELSE q.item + 1)
  <2>1. replays'[r] = [kind |-> q.kind, saved |-> "none",
                       at |-> IF LastItem(r) THEN "answered" ELSE IF q.kind = "sweep" THEN "install" ELSE "checking",
                       item |-> IF LastItem(r) THEN q.item ELSE q.item + 1,
                       results |-> Append(q.results, res)]
    BY <1>1, EndsRecord
  <2> QED BY <1>1, <1>3, <2>1, EndsRecord
<1>5. LastItem(r) <=> q.kind \notin Sweeps \/ q.item = SweepLength
  BY <1>1 DEF LastItem
<1>6. /\ q.item \in Nat /\ q.item \in 1 .. SweepLength /\ q.results \in Seq(Results) /\ Len(q.results) \in Nat
      /\ q.at = replays[r].at
  BY <1>1, <1>2, RequestAssumption DEF ReplayRecord
<1>7. /\ Len(q.results) = q.item - 1 /\ Len(p.results) = q.item /\ p.results[q.item] = res
      /\ \A i \in 1 .. Len(q.results) : p.results[i] = q.results[i]
  <2>1. Len(q.results) = q.item - 1
    BY <1>2, <1>6 DEF CountsOf
  <2>2. Len(p.results) = Len(q.results) + 1 /\ p.results[Len(q.results) + 1] = res
        /\ \A i \in 1 .. Len(q.results) : p.results[i] = q.results[i]
    BY <1>4, <1>6
  <2> QED BY <1>6, <2>1, <2>2
<1> DEFINE ended == LastItem(r)
<1>13. /\ ended => p.at = "answered" /\ p.item = q.item
       /\ ~ended => p.at \in {"install", "checking"} /\ p.item = q.item + 1
  BY <1>4
<1> HIDE DEF ended
<1>8. CountsOf(p)
  <2>1. p.kind \notin Sweeps => p.item = 1
    BY <1>2, <1>4, <1>5 DEF CountsOf
  <2>2. p.at # "answered" => Len(p.results) = p.item - 1
    BY <1>6, <1>7, <1>13
  <2>3. p.at = "answered" => Len(p.results) = Asked(p)
    BY <1>2, <1>4, <1>5, <1>7 DEF Asked, CountsOf
  <2>4. p.at \in {"checking", "reading"} => p.kind \in ReadsStored
    BY <1>4, <1>5 DEF Sweeps, ReadsStored
  <2>5. p.at \notin {"idle", "asked"}
    BY <1>4
  <2> QED BY <2>1, <2>2, <2>3, <2>4, <2>5 DEF CountsOf
<1>9. ResultsOf(r, p)
  <2>1. <<r, q.item>> \in runRows => q.at = "replaying"
    BY <1>2, <1>6 DEF RowsOf
  <2>2. res = "before_replay" => <<r, q.item>> \notin runRows
    BY <1>6, <2>1
  <2>3. res = "done" => <<r, q.item>> \in runRows
    BY <1>2, <1>6 DEF RowsOf
  <2>4. ASSUME NEW i \in 1 .. Len(p.results)
        PROVE  /\ p.results[i] \in {"refused", "before_replay"} => <<r, i>> \notin runRows
               /\ p.results[i] = "done" => <<r, i>> \in runRows
    <3>1. CASE i = q.item
      BY <1>7, <2>2, <2>3, <3>1
    <3>2. CASE i # q.item
      <4>1. i \in 1 .. Len(q.results) /\ p.results[i] = q.results[i]
        <5>1. i \in 1 .. Len(q.results)
          BY <1>6, <1>7, <3>2
        <5> QED BY <1>7, <5>1
      <4> QED BY <1>2, <4>1 DEF ResultsOf
    <3> QED BY <3>1, <3>2
  <2> QED BY <2>4 DEF ResultsOf
<1>10. RowsOf(r, p)
  <2>1. ASSUME NEW k \in 1 .. SweepLength, <<r, k>> \in runRows
        PROVE  k < p.item \/ (k = p.item /\ p.at \in {"replaying", "answered"})
    <3>1. k < q.item \/ k = q.item
      BY <1>2, <2>1 DEF RowsOf
    <3>2. k \in Nat
      BY RequestAssumption
    <3> QED BY <1>6, <1>13, <3>1, <3>2
  <2>2. p.at # "replaying"
    BY <1>4
  <2> QED BY <2>1, <2>2 DEF RowsOf
<1>11. ASSUME NEW o \in Requests \ {r}
      PROVE  (ResultsOf(o, replays[o]) /\ RowsOf(o, replays[o]) /\ CountsOf(replays[o]))'
  BY <1>4 DEF Honest, ResultsOf, RowsOf
<1>12. (ResultsOf(r, replays[r]) /\ RowsOf(r, replays[r]) /\ CountsOf(replays[r]))'
  BY <1>3, <1>8, <1>9, <1>10 DEF ResultsOf, RowsOf
<1> QED BY <1>11, <1>12 DEF Honest

(* The lock                                                                *)
LEMMA LockTyped ==
  ASSUME GuardTypes
  PROVE  /\ \A who \in Requests \cup {"finnhub"} : Join(who) =>
              /\ runLock' \in [held : BOOLEAN, waiting : Seq(Requests \cup {"finnhub"})]
              /\ runLock'.held = runLock.held
         /\ Taken => /\ runLock' \in [held : BOOLEAN, waiting : Seq(Requests \cup {"finnhub"})]
                     /\ runLock'.held = TRUE
         /\ Release => /\ runLock' \in [held : BOOLEAN, waiting : Seq(Requests \cup {"finnhub"})]
                       /\ runLock'.held = FALSE
         /\ runLock.waiting # <<>> /\ runLock' = [runLock EXCEPT !.waiting = Tail(@)] =>
              /\ runLock' \in [held : BOOLEAN, waiting : Seq(Requests \cup {"finnhub"})]
              /\ runLock'.held = runLock.held
<1> DEFINE Waiters == Requests \cup {"finnhub"}
<1>1. /\ runLock.held \in BOOLEAN /\ runLock.waiting \in Seq(Waiters)
      /\ runLock = [held |-> runLock.held, waiting |-> runLock.waiting]
  BY DEF GuardTypes
<1>2. \A who \in Waiters : Append(runLock.waiting, who) \in Seq(Waiters)
  BY <1>1
<1>3. runLock.waiting # <<>> => Tail(runLock.waiting) \in Seq(Waiters)
  BY <1>1
<1> HIDE DEF Waiters
<1>4. ASSUME NEW who \in Waiters, Join(who)
      PROVE  runLock' \in [held : BOOLEAN, waiting : Seq(Waiters)] /\ runLock'.held = runLock.held
  <2>1. runLock' = [held |-> runLock.held, waiting |-> Append(runLock.waiting, who)]
    BY <1>1, <1>4 DEF Join
  <2> QED BY <1>1, <1>2, <2>1
<1>5. ASSUME Taken
      PROVE  runLock' \in [held : BOOLEAN, waiting : Seq(Waiters)] /\ runLock'.held = TRUE
  <2>1. \E w \in Seq(Waiters) : runLock' = [held |-> TRUE, waiting |-> w]
    BY <1>1, <1>3, <1>5 DEF Taken
  <2> QED BY <2>1
<1>6. ASSUME Release
      PROVE  runLock' \in [held : BOOLEAN, waiting : Seq(Waiters)] /\ runLock'.held = FALSE
  <2>1. runLock' = [held |-> FALSE, waiting |-> runLock.waiting]
    BY <1>1, <1>6 DEF Release
  <2> QED BY <1>1, <2>1
<1>7. ASSUME runLock.waiting # <<>>, runLock' = [runLock EXCEPT !.waiting = Tail(@)]
      PROVE  runLock' \in [held : BOOLEAN, waiting : Seq(Waiters)] /\ runLock'.held = runLock.held
  <2>1. runLock' = [held |-> runLock.held, waiting |-> Tail(runLock.waiting)]
    BY <1>1, <1>7
  <2> QED BY <1>1, <1>3, <1>7, <2>1
<1> QED BY <1>4, <1>5, <1>6, <1>7 DEF Waiters

(* A replay begins and ends.                                               *)
LEMMA InstallsKeeps ==
  ASSUME GuardInv, NEW r \in Requests, Installs(r), runLock.held = FALSE, ~StreamingActive,
         replays[r].at \notin {"recording", "replaying", "answered"},
         replays[r].at \in Past \/ ~LiveDataConnected,
         UNCHANGED <<runRows, streaming, provider, liveRole, disturbed, providerCalls>>
  PROVE  GuardInv'
<1> USE RequestAssumption DEF GuardInv
<1>1. PICK q : q = [replays[r] EXCEPT !.at = "recording", !.saved = historical]
  OBVIOUS
<1>2. /\ replays[r] \in ReplayRecord /\ historical \in Roles \cup Requests /\ r # "live"
      /\ replays \in [Requests -> ReplayRecord]
  BY DEF GuardTypes
<1>3. /\ q = [kind |-> replays[r].kind, at |-> "recording", item |-> replays[r].item, saved |-> historical,
              results |-> replays[r].results]
      /\ q \in ReplayRecord
  <2>1. q = [kind |-> replays[r].kind, at |-> "recording", item |-> replays[r].item, saved |-> historical,
             results |-> replays[r].results]
    BY <1>1, <1>2 DEF ReplayRecord
  <2> QED BY <1>2, <2>1 DEF ReplayRecord, Stages
<1>4. /\ replays' = [replays EXCEPT ![r] = q] /\ engines' = r /\ historical' = r /\ Taken
      /\ replays' \in [Requests -> ReplayRecord] /\ replays'[r] = q
      /\ \A o \in Requests \ {r} : replays'[o] = replays[o]
  BY <1>1, <1>2, <1>3 DEF Installs
<1>5. /\ runLock' \in [held : BOOLEAN, waiting : Seq(Requests \cup {"finnhub"})] /\ runLock'.held = TRUE
      /\ engines = "live" /\ provider["finnhub"] \notin {"connecting", "on"}
  BY <1>4, LockTyped DEF LockUse, StreamingActive
<1>6. GuardTypes'
  BY <1>4, <1>5 DEF GuardTypes
<1>7. LockUse'
  BY <1>2, <1>4, <1>5 DEF LockUse
<1>8. EngineOf'
  BY <1>2, <1>3, <1>4, <1>5 DEF EngineOf
<1>9. Traces'
  <2>1. SUFFICES ASSUME disturbed = FALSE PROVE Traces'
    BY DEF Traces
  <2>2. historical = liveRole
    BY <1>5, <2>1 DEF Traces
  <2>3. NoOtherSource
    BY <1>5, <2>1, <2>2 DEF Traces, NoOtherSource, LiveDataConnected, PolygonConnected, IBKRConnected
  <2>4. NoOtherSource'
    BY <2>3 DEF NoOtherSource
  <2> QED BY <1>2, <1>3, <1>4, <2>2, <2>4 DEF Traces
<1>10. Honest'
  BY <1>3, <1>4, MovesHonest
<1> QED BY <1>6, <1>7, <1>8, <1>9, <1>10

LEMMA RestoresKeeps ==
  ASSUME GuardInv, NEW r \in Requests, NEW res \in {"during_replay", "done"}, Restores(r, res),
         replays[r].at \in {"recording", "replaying"}, res = "done" => replays[r].at = "replaying",
         UNCHANGED <<runRows, streaming, provider, liveRole, disturbed, providerCalls>>
  PROVE  GuardInv'
<1> USE RequestAssumption DEF GuardInv, Restores
<1>1. /\ replays' \in [Requests -> ReplayRecord] /\ replays'[r].at \notin {"recording", "replaying"}
      /\ \A q \in Requests \ {r} : replays'[q] = replays[q]
  BY EndsAt DEF Results
<1>2. /\ runLock' \in [held : BOOLEAN, waiting : Seq(Requests \cup {"finnhub"})] /\ runLock'.held = FALSE
      /\ engines = r /\ engines' = "live" /\ historical' = replays[r].saved /\ r # "live"
      /\ replays[r].saved \in Roles \cup Requests
  BY LockTyped DEF EngineOf, RestoredRole, GuardTypes, ReplayRecord
<1>3. GuardTypes'
  BY <1>1, <1>2 DEF GuardTypes
<1>4. LockUse'
  BY <1>2 DEF LockUse
<1>5. EngineOf'
  BY <1>1, <1>2 DEF EngineOf
<1>6. Traces'
  <2>1. SUFFICES ASSUME disturbed = FALSE PROVE Traces'
    BY DEF Traces
  <2>2. NoOtherSource /\ replays[r].saved = liveRole
    BY <1>2, <2>1 DEF Traces, Past
  <2>3. NoOtherSource'
    BY <2>2 DEF NoOtherSource
  <2> QED BY <1>2, <2>2, <2>3 DEF Traces
<1>7. Honest'
  BY EndsHonest DEF Results
<1> QED BY <1>3, <1>4, <1>5, <1>6, <1>7

(* A request that waits, or whose item ends without a replay               *)
LEMMA CalmMoves ==
  ASSUME GuardInv, NEW r \in Requests, NEW at \in {"checking", "reading", "waiting"}, Moves(r, at),
         replays[r].at \notin {"recording", "replaying", "answered"},
         at = "waiting" => replays[r].at \in Past \/ ~LiveDataConnected,
         at # "waiting" => replays[r].kind \in ReadsStored,
         runLock' \in [held : BOOLEAN, waiting : Seq(Requests \cup {"finnhub"})],
         runLock'.held = runLock.held,
         UNCHANGED <<engines, historical, runRows, streaming, provider, liveRole, disturbed, providerCalls>>
  PROVE  GuardInv'
<1> USE DEF GuardInv
<1>1. /\ replays' \in [Requests -> ReplayRecord] /\ replays'[r].at = at
      /\ replays'[r].kind = replays[r].kind /\ replays'[r].item = replays[r].item
      /\ replays'[r].results = replays[r].results
      /\ \A q \in Requests \ {r} : replays'[q] = replays[q]
  <2>1. replays[r] \in ReplayRecord /\ at \in Stages
    BY DEF GuardTypes, Stages
  <2>2. replays'[r] = [kind |-> replays[r].kind, at |-> at, item |-> replays[r].item,
                       saved |-> replays[r].saved, results |-> replays[r].results]
    <3>1. replays'[r] = [replays[r] EXCEPT !.at = at]
      BY ONLY GuardTypes, r \in Requests, Moves(r, at), <2>1, MovesRecord DEF GuardInv
    <3> QED BY ONLY <2>1, <3>1, RecordWith
  <2>3. replays' \in [Requests -> ReplayRecord] /\ \A q \in Requests \ {r} : replays'[q] = replays[q]
    BY ONLY GuardTypes, r \in Requests, Moves(r, at), <2>1, MovesRecord
  <2>4. /\ replays'[r].at = at /\ replays'[r].kind = replays[r].kind
        /\ replays'[r].item = replays[r].item /\ replays'[r].results = replays[r].results
    BY ONLY <2>2
  <2> QED BY ONLY <2>3, <2>4
<1>2. GuardTypes'
  BY <1>1 DEF GuardTypes
<1>3. LockUse' /\ EngineOf' /\ Traces'
  BY <1>1, CalmKeeps DEF Past
<1>4. Honest'
  BY <1>1, MovesHonest
<1> QED BY <1>2, <1>3, <1>4

LEMMA CalmEnds ==
  ASSUME GuardInv, NEW r \in Requests, NEW res \in {"before_replay", "during_replay"}, Ends(r, res),
         replays[r].at \in {"asked", "checking", "reading", "install", "waiting"},
         \/ replays[r].at \in Past \/ ~LiveDataConnected
         \/ replays[r].at \in {"checking", "reading"},
         runLock' \in [held : BOOLEAN, waiting : Seq(Requests \cup {"finnhub"})],
         runLock'.held = runLock.held,
         UNCHANGED <<engines, historical, runRows, streaming, provider, liveRole, disturbed, providerCalls>>
  PROVE  GuardInv'
<1> USE DEF GuardInv
<1>1. /\ replays' \in [Requests -> ReplayRecord]
      /\ replays'[r].at = (IF LastItem(r) THEN "answered" ELSE IF replays[r].kind = "sweep" THEN "install" ELSE "checking")
      /\ \A q \in Requests \ {r} : replays'[q] = replays[q]
  BY EndsAt DEF Results
<1>2. GuardTypes'
  BY <1>1 DEF GuardTypes
<1>3. replays[r].at \in {"checking", "reading"} => replays'[r].at # "install"
  BY <1>1 DEF Honest, CountsOf, ReadsStored
<1>4. LockUse' /\ EngineOf' /\ Traces'
  BY <1>1, <1>3, CalmKeeps DEF Past
<1>5. Honest'
  BY EndsHonest DEF Results
<1> QED BY <1>2, <1>4, <1>5

LEMMA AttemptKeeps ==
  ASSUME GuardInv, NEW r \in Requests, Attempt(r), replays[r].at \in {"asked", "reading", "install"},
         replays[r].at \in Past \/ ~LiveDataConnected,
         UNCHANGED <<runRows, streaming, provider, liveRole, disturbed, providerCalls>>
  PROVE  GuardInv'
<1> USE DEF GuardInv
<1>1. CASE ~LockFree
  <2>1. Join(r) /\ Moves(r, "waiting") /\ UNCHANGED <<engines, historical>>
    BY <1>1 DEF Attempt
  <2> QED BY <2>1, LockTyped, CalmMoves
<1>2. CASE LockFree /\ Excluded
  <2>1. Ends(r, "during_replay") /\ UNCHANGED <<engines, historical, runLock>>
    BY <1>2 DEF Attempt
  <2> QED BY <2>1, CalmEnds DEF GuardTypes
<1>3. CASE LockFree /\ ~Excluded
  <2>1. Installs(r) /\ runLock.held = FALSE /\ ~StreamingActive
    <3>1. Installs(r)
      BY <1>3 DEF Attempt
    <3>2. runLock.held = FALSE
      BY <1>3 DEF LockFree, GuardTypes
    <3> QED BY <1>3, <3>1, <3>2 DEF Excluded
  <2> QED BY <2>1, InstallsKeeps
<1> QED BY <1>1, <1>2, <1>3

(* The steps of a request                                                  *)
LEMMA ArrivesKeeps ==
  ASSUME GuardInv, NEW r \in Requests, Arrives(r)
  PROVE  GuardInv'
<1> USE DEF GuardInv, Arrives, RolesStay
<1>1. PICK k \in Kinds : replays' = [replays EXCEPT ![r] = [@ EXCEPT !.kind = k, !.at = "asked"]]
  OBVIOUS
<1>2. PICK q : q = [kind |-> k, at |-> "asked", item |-> replays[r].item, saved |-> replays[r].saved,
                    results |-> replays[r].results]
  OBVIOUS
<1>3. replays[r] \in ReplayRecord /\ replays \in [Requests -> ReplayRecord]
  BY DEF GuardTypes
<1>4. q = [replays[r] EXCEPT !.kind = k, !.at = "asked"] /\ q \in ReplayRecord
  <2>1. q = [replays[r] EXCEPT !.kind = k, !.at = "asked"]
    <3>1. PICK p \in ReplayRecord : p = replays[r]
      BY <1>3
    <3>2. [kind |-> k, at |-> "asked", item |-> p.item, saved |-> p.saved, results |-> p.results]
            = [p EXCEPT !.kind = k, !.at = "asked"]
      <4>1. [p EXCEPT !.kind = k]
              = [kind |-> k, at |-> p.at, item |-> p.item, saved |-> p.saved, results |-> p.results]
        BY ONLY <3>1 DEF ReplayRecord
      <4>2. [[kind |-> k, at |-> p.at, item |-> p.item, saved |-> p.saved, results |-> p.results] EXCEPT !.at = "asked"]
              = [kind |-> k, at |-> "asked", item |-> p.item, saved |-> p.saved, results |-> p.results]
        BY ONLY TRUE
      <4> QED BY ONLY <4>1, <4>2
    <3> QED BY <1>2, <3>1, <3>2
  <2>2. q \in ReplayRecord
    BY <1>2, <1>3 DEF ReplayRecord, Stages
  <2> QED BY <2>1, <2>2
<1>5. replays' = [replays EXCEPT ![r] = q]
  BY <1>1, <1>4
<1>6. /\ replays' \in [Requests -> ReplayRecord] /\ replays'[r] = q
      /\ \A o \in Requests \ {r} : replays'[o] = replays[o]
  BY <1>3, <1>4, <1>5
<1>7. GuardTypes'
  BY <1>6 DEF GuardTypes
<1>8. LockUse' /\ EngineOf' /\ Traces'
  BY <1>2, <1>6, CalmKeeps DEF Past
<1>9. Honest'
  <2>1. replays[r].kind = "none" \/ replays[r].kind \in Kinds
    BY <1>3 DEF ReplayRecord
  <2>2. PICK p : p = replays[r]
    OBVIOUS
  <2>3. ResultsOf(r, p) /\ RowsOf(r, p) /\ CountsOf(p) /\ p.at = "idle" /\ p.results \in Seq(Results)
    BY <1>3, <2>2 DEF Honest, ReplayRecord
  <2>4. q.item = p.item /\ q.results = p.results /\ q.at = "asked" /\ q.kind = k
    BY <1>2, <2>2
  <2>5. ResultsOf(r, q) /\ RowsOf(r, q)
    BY ONLY <2>3, <2>4 DEF ResultsOf, RowsOf
  <2>6. CountsOf(q)
    BY <2>3, <2>4 DEF CountsOf
  <2> QED BY <1>6, <2>5, <2>6 DEF Honest, ResultsOf, RowsOf
<1> QED BY <1>7, <1>8, <1>9

LEMMA AskKeeps ==
  ASSUME GuardInv, NEW r \in Requests, Ask(r)
  PROVE  GuardInv'
<1> USE DEF GuardInv
<1>1. /\ replays[r].at = "asked" /\ replays[r] \in ReplayRecord /\ replays \in [Requests -> ReplayRecord]
      /\ UNCHANGED <<runRows, streaming, provider, liveRole, disturbed, providerCalls>>
  BY DEF Ask, GuardTypes
<1>2. CASE LiveDataConnected
  <2>1. /\ replays' = [replays EXCEPT ![r] = [@ EXCEPT !.at = "answered", !.results = <<"refused">>]]
        /\ UNCHANGED <<engines, historical, runLock>>
    BY <1>2 DEF Ask
  <2>2. PICK q : q = [kind |-> replays[r].kind, at |-> "answered", item |-> replays[r].item,
                      saved |-> replays[r].saved, results |-> <<"refused">>]
    OBVIOUS
  <2>3. q = [replays[r] EXCEPT !.at = "answered", !.results = <<"refused">>] /\ q \in ReplayRecord
    <3>1. PICK p \in ReplayRecord : p = replays[r]
      BY <1>1
    <3>2. [p EXCEPT !.at = "answered"]
            = [kind |-> p.kind, at |-> "answered", item |-> p.item, saved |-> p.saved, results |-> p.results]
      BY ONLY <3>1 DEF ReplayRecord
    <3>3. [[kind |-> p.kind, at |-> "answered", item |-> p.item, saved |-> p.saved, results |-> p.results]
             EXCEPT !.results = <<"refused">>]
            = [kind |-> p.kind, at |-> "answered", item |-> p.item, saved |-> p.saved, results |-> <<"refused">>]
      BY ONLY TRUE
    <3>4. <<"refused">> \in Seq(Results)
      BY DEF Results
    <3>5. [kind |-> p.kind, at |-> "answered", item |-> p.item, saved |-> p.saved, results |-> <<"refused">>]
            \in ReplayRecord
      BY ONLY <3>1, <3>4 DEF ReplayRecord, Stages
    <3>6. [p EXCEPT !.at = "answered", !.results = <<"refused">>]
            = [kind |-> p.kind, at |-> "answered", item |-> p.item, saved |-> p.saved, results |-> <<"refused">>]
      BY ONLY <3>2, <3>3
    <3> QED BY ONLY <2>2, <3>1, <3>5, <3>6
  <2>4. /\ replays' \in [Requests -> ReplayRecord] /\ replays'[r] = q
        /\ \A o \in Requests \ {r} : replays'[o] = replays[o]
    BY <1>1, <2>1, <2>3
  <2>5. GuardTypes'
    BY <1>1, <2>1, <2>4 DEF GuardTypes
  <2>6. LockUse' /\ EngineOf' /\ Traces'
    BY <1>1, <2>1, <2>2, <2>4, CalmKeeps DEF Past
  <2>7. Honest'
    <3>1. PICK p : p = replays[r]
      OBVIOUS
    <3>2. ResultsOf(r, p) /\ RowsOf(r, p) /\ CountsOf(p) /\ p.at = "asked"
          /\ p.results \in Seq(Results) /\ p.item \in 1 .. SweepLength
      BY <1>1, <3>1 DEF Honest, ReplayRecord
    <3>3. /\ q.kind = p.kind /\ q.at = "answered" /\ q.item = p.item /\ q.results = <<"refused">>
      BY <2>2, <3>1
    <3>4. <<r, 1>> \notin runRows
      BY <3>2, RequestAssumption DEF RowsOf, CountsOf
    <3>5. ResultsOf(r, q)
      BY ONLY <3>3, <3>4 DEF ResultsOf
    <3>6. RowsOf(r, q)
      BY ONLY <3>2, <3>3 DEF RowsOf
    <3>7. CountsOf(q)
      BY ONLY <3>2, <3>3 DEF CountsOf
    <3> QED BY <1>1, <2>4, <3>5, <3>6, <3>7 DEF Honest, ResultsOf, RowsOf
  <2> QED BY <2>5, <2>6, <2>7
<1>3. CASE ~LiveDataConnected /\ replays[r].kind \in ReadsStored
  <2>1. Moves(r, "checking") /\ UNCHANGED <<engines, historical, runLock>>
    BY <1>3 DEF Ask
  <2> QED BY <1>1, <1>3, <2>1, CalmMoves DEF GuardTypes
<1>4. CASE ~LiveDataConnected /\ replays[r].kind \notin ReadsStored
  <2>1. Attempt(r)
    BY <1>4 DEF Ask
  <2> QED BY <1>1, <1>4, <2>1, AttemptKeeps
<1> QED BY <1>2, <1>3, <1>4

(* The row of a run is written before its first candle.                    *)
LEMMA RecordsKeeps ==
  ASSUME GuardInv, NEW r \in Requests, RecordRun(r)
  PROVE  GuardInv'
<1> USE RequestAssumption DEF GuardInv
<1>1. /\ replays[r].at = "recording" /\ replays[r] \in ReplayRecord /\ engines = r /\ r # "live"
      /\ UNCHANGED <<streaming, provider, liveRole, disturbed, providerCalls>>
  BY DEF RecordRun, GuardTypes, EngineOf
<1>2. CASE Restores(r, "during_replay") /\ UNCHANGED runRows
  BY <1>1, <1>2, RestoresKeeps
<1>3. CASE /\ runRows' = runRows \cup {<<r, replays[r].item>>} /\ Moves(r, "replaying")
           /\ UNCHANGED <<runLock, engines, historical>>
  <2>1. "replaying" \in Stages
    BY DEF Stages
  <2>2. PICK q : q = replays'[r]
    OBVIOUS
  <2>3. PICK p : p = replays[r]
    OBVIOUS
  <2>4. q = [kind |-> p.kind, at |-> "replaying", item |-> p.item, saved |-> p.saved, results |-> p.results]
    <3>1. replays'[r] = [replays[r] EXCEPT !.at = "replaying"]
      BY ONLY GuardTypes, r \in Requests, <1>3, <2>1, MovesRecord
    <3>2. q = [p EXCEPT !.at = "replaying"]
      BY ONLY <2>2, <2>3, <3>1
    <3>3. p \in ReplayRecord
      BY ONLY <1>1, <2>3
    <3> QED BY ONLY <2>1, <3>2, <3>3, RecordWith
  <2>5. replays' \in [Requests -> ReplayRecord] /\ \A o \in Requests \ {r} : replays'[o] = replays[o]
    BY <1>3, <2>1, MovesRecord
  <2>6. p \in ReplayRecord /\ p.item \in 1 .. SweepLength /\ p.results \in Seq(Results) /\ p.at = "recording"
    BY <1>1, <2>3 DEF ReplayRecord
  <2>7. GuardTypes'
    <3>1. runRows' \subseteq Requests \X (1 .. SweepLength)
      BY <1>3, <2>3, <2>6 DEF GuardTypes
    <3> QED BY <1>1, <1>3, <2>5, <3>1 DEF GuardTypes
  <2>8. q.at = "replaying" /\ q.kind = p.kind /\ q.item = p.item /\ q.saved = p.saved /\ q.results = p.results
    BY <2>4
  <2>9. LockUse' /\ EngineOf'
    BY <1>1, <1>3, <2>2, <2>5, <2>8 DEF LockUse, EngineOf
  <2>10. Traces'
    <3>1. CASE disturbed = FALSE
      <4>2. NoOtherSource /\ p.saved = liveRole /\ historical = engines
        BY <1>1, <2>3, <3>1 DEF Traces, Past
      <4>3. NoOtherSource'
        BY <1>1, <4>2 DEF NoOtherSource
      <4>4. historical' = engines' /\ engines' = r /\ liveRole' = liveRole /\ replays'[r].saved = liveRole
        BY ONLY <1>1, <1>3, <2>2, <2>8, <4>2
      <4> QED BY <1>1, <4>3, <4>4 DEF Traces
    <3>2. CASE disturbed # FALSE
      BY ONLY <1>1, <3>2 DEF Traces
    <3> QED BY <3>1, <3>2
  <2>11. Honest'
    <3>1. ResultsOf(r, p) /\ RowsOf(r, p) /\ CountsOf(p)
      BY <2>3 DEF Honest
    <3>2. runRows' = runRows \cup {<<r, p.item>>}
      BY <1>3, <2>3
    <3>3. Len(p.results) = p.item - 1
      BY <2>6, <3>1 DEF CountsOf
    <3>4. ResultsOf(r, q)'
      <4>1. \A i \in 1 .. Len(p.results) : i # p.item
        BY <2>6, <3>3
      <4> QED BY <2>8, <3>1, <3>2, <4>1 DEF ResultsOf
    <3>5. RowsOf(r, q)'
      BY <2>6, <2>8, <3>1, <3>2 DEF RowsOf
    <3>6. CountsOf(q)
      BY <2>8, <2>6, <3>1 DEF CountsOf
    <3>7. ASSUME NEW o \in Requests \ {r}
          PROVE  (ResultsOf(o, replays[o]) /\ RowsOf(o, replays[o]) /\ CountsOf(replays[o]))'
      BY <2>5, <3>2 DEF Honest, ResultsOf, RowsOf
    <3>8. (ResultsOf(r, replays[r]) /\ RowsOf(r, replays[r]) /\ CountsOf(replays[r]))'
      BY <2>2, <3>4, <3>5, <3>6 DEF ResultsOf, RowsOf
    <3> QED BY <3>7, <3>8 DEF Honest
  <2> QED BY <2>7, <2>9, <2>10, <2>11
<1> QED BY <1>2, <1>3 DEF RecordRun

LEMMA RequestKeeps ==
  ASSUME GuardInv, NEW r \in Requests, Request(r)
  PROVE  GuardInv'
<1> USE DEF GuardInv
<1>1. CASE Ask(r)
  BY <1>1, AskKeeps
<1>2. CASE NextPair(r)
  BY <1>2, AttemptKeeps DEF NextPair, Past
<1>3. CASE BeginReading(r)
  <2>1. replays[r].at = "checking" /\ replays[r].kind \in ReadsStored
    BY <1>3 DEF BeginReading, Honest, CountsOf
  <2>2. CASE Ends(r, "before_replay")
    BY <1>3, <2>1, <2>2, CalmEnds DEF BeginReading, RolesStay, GuardTypes
  <2>3. CASE Moves(r, "reading")
    BY <1>3, <2>1, <2>3, CalmMoves DEF BeginReading, RolesStay, GuardTypes
  <2> QED BY <1>3, <2>2, <2>3 DEF BeginReading
<1>4. CASE ReadCandles(r)
  <2>1. CASE Ends(r, "before_replay") /\ UNCHANGED <<engines, historical, runLock>>
    BY <1>4, <2>1, CalmEnds DEF ReadCandles, GuardTypes
  <2>2. CASE StillAllowed /\ Attempt(r)
    BY <1>4, <2>2, AttemptKeeps DEF ReadCandles, StillAllowed
  <2> QED BY <1>4, <2>1, <2>2 DEF ReadCandles
<1>5. CASE InstallAfterWait(r)
  <2>1. CASE Excluded
    <3>1. /\ Ends(r, "during_replay") /\ UNCHANGED <<engines, historical>>
          /\ runLock' = [runLock EXCEPT !.waiting = Tail(@)] /\ runLock.waiting # <<>>
          /\ replays[r].at = "waiting"
      BY <1>5, <2>1 DEF InstallAfterWait, MayTake
    <3> QED BY <1>5, <3>1, LockTyped, CalmEnds DEF InstallAfterWait, Past
  <2>2. CASE ~Excluded
    <3>1. Installs(r) /\ runLock.held = FALSE /\ ~StreamingActive /\ replays[r].at = "waiting"
      <4>1. Installs(r) /\ replays[r].at = "waiting"
        BY <1>5, <2>2 DEF InstallAfterWait
      <4>2. runLock.held = FALSE
        BY <1>5 DEF InstallAfterWait, MayTake, GuardTypes
      <4> QED BY <2>2, <4>1, <4>2 DEF Excluded
    <3> QED BY <1>5, <3>1, InstallsKeeps DEF InstallAfterWait, Past
  <2> QED BY <2>1, <2>2
<1>6. CASE RecordRun(r)
  BY <1>6, RecordsKeeps DEF RecordRun
<1>7. CASE EndReplay(r)
  BY <1>7, RestoresKeeps DEF EndReplay
<1> QED BY <1>1, <1>2, <1>3, <1>4, <1>5, <1>6, <1>7 DEF Request

(* What a provider does leaves the replays alone.                          *)
ProviderRecords ==
  provider' \in [{"finnhub", "polygon", "ibkr"} -> {"off", "waiting", "connecting", "on"}]

LEMMA ProvidersKeep ==
  ASSUME GuardInv, UNCHANGED <<replays, engines, runRows>>, ProviderRecords,
         runLock' \in [held : BOOLEAN, waiting : Seq(Requests \cup {"finnhub"})],
         historical' \in Roles \cup Requests, streaming' \in Roles \cup {"finnhub"},
         liveRole' \in Roles, disturbed' \in BOOLEAN, providerCalls' \in Nat,
         LockUse', Traces'
  PROVE  GuardInv'
<1>1. GuardTypes'
  BY DEF GuardInv, GuardTypes, ProviderRecords
<1>2. EngineOf'
  BY DEF GuardInv, EngineOf
<1>3. Honest'
  BY DEF GuardInv, Honest, ResultsOf, RowsOf
<1> QED BY <1>1, <1>2, <1>3 DEF GuardInv

(* Finnhub has no historical role.                                         *)
LEMMA FinnhubTraces ==
  ASSUME GuardInv, UNCHANGED <<replays, engines, historical, liveRole, disturbed>>,
         provider'["polygon"] # "on" \/ provider'["polygon"] = provider["polygon"],
         provider'["ibkr"] # "on" \/ provider'["ibkr"] = provider["ibkr"],
         streaming' # "ibkr" \/ streaming' = streaming
  PROVE  Traces'
<1>1. NoOtherSource => NoOtherSource'
  BY DEF NoOtherSource
<1> QED BY <1>1 DEF GuardInv, Traces

LEMMA FinnhubKeeps ==
  ASSUME GuardInv, ConnectFinnhub \/ EnterSlot \/ FinnhubConnected \/ FinnhubFails \/ DisconnectFinnhub
  PROVE  GuardInv'
<1> DEFINE Names == {"finnhub", "polygon", "ibkr"}
           States == {"off", "waiting", "connecting", "on"}
<1>1. /\ provider \in [Names -> States] /\ historical \in Roles \cup Requests
      /\ streaming \in Roles \cup {"finnhub"} /\ liveRole \in Roles /\ disturbed \in BOOLEAN
      /\ providerCalls \in Nat /\ runLock \in [held : BOOLEAN, waiting : Seq(Requests \cup {"finnhub"})]
      /\ GuardTypes /\ LockUse
  BY DEF GuardInv, GuardTypes
<1>2. \A s \in States : [provider EXCEPT !["finnhub"] = s] \in [Names -> States]
  BY <1>1
<1>3. ASSUME ConnectFinnhub
      PROVE  GuardInv'
  <2>1. /\ UNCHANGED <<replays, engines, runRows, historical, streaming, liveRole, disturbed>>
        /\ providerCalls' \in Nat /\ provider["finnhub"] = "off" /\ runLock.held = FALSE
    BY <1>1, <1>3 DEF ConnectFinnhub, ProviderCall, ReplaysStay
  <2>2. CASE runLock.waiting = <<>>
    <3>1. Taken /\ provider' = [provider EXCEPT !["finnhub"] = "connecting"]
      BY <1>3, <2>2 DEF ConnectFinnhub
    <3>2. runLock' \in [held : BOOLEAN, waiting : Seq(Requests \cup {"finnhub"})] /\ runLock'.held = TRUE
      BY <1>1, <3>1, LockTyped
    <3>3. /\ ProviderRecords /\ provider'["finnhub"] = "connecting"
          /\ provider'["polygon"] = provider["polygon"] /\ provider'["ibkr"] = provider["ibkr"]
      BY <1>1, <3>1 DEF ProviderRecords
    <3>4. LockUse'
      <4>1. engines = "live" /\ streaming # "finnhub"
        BY <1>1, <2>1 DEF LockUse
      <4> QED BY <2>1, <3>2, <3>3, <4>1 DEF LockUse
    <3>5. Traces'
      BY <2>1, <3>3, FinnhubTraces
    <3> QED BY <1>1, <2>1, <3>2, <3>3, <3>4, <3>5, ProvidersKeep
  <2>3. CASE runLock.waiting # <<>>
    <3>1. Join("finnhub") /\ provider' = [provider EXCEPT !["finnhub"] = "waiting"]
      BY <1>3, <2>3 DEF ConnectFinnhub
    <3>2. runLock' \in [held : BOOLEAN, waiting : Seq(Requests \cup {"finnhub"})] /\ runLock'.held = runLock.held
      BY <1>1, <3>1, LockTyped
    <3>3. /\ ProviderRecords /\ provider'["finnhub"] = "waiting"
          /\ provider'["polygon"] = provider["polygon"] /\ provider'["ibkr"] = provider["ibkr"]
      BY <1>1, <3>1 DEF ProviderRecords
    <3>4. LockUse'
      BY <1>1, <2>1, <3>2, <3>3 DEF LockUse
    <3>5. Traces'
      BY <2>1, <3>3, FinnhubTraces
    <3> QED BY <1>1, <2>1, <3>2, <3>3, <3>4, <3>5, ProvidersKeep
  <2> QED BY <2>2, <2>3
<1>4. ASSUME EnterSlot
      PROVE  GuardInv'
  <2>1. /\ UNCHANGED <<replays, engines, runRows, historical, streaming, liveRole, disturbed, providerCalls>>
        /\ provider["finnhub"] = "waiting" /\ Taken
        /\ provider' = [provider EXCEPT !["finnhub"] = "connecting"]
    BY <1>4 DEF EnterSlot, ReplaysStay
  <2>2. runLock.held = FALSE
    BY <1>1, <1>4 DEF EnterSlot, MayTake
  <2>3. runLock' \in [held : BOOLEAN, waiting : Seq(Requests \cup {"finnhub"})] /\ runLock'.held = TRUE
    BY <1>1, <2>1, LockTyped
  <2>4. /\ ProviderRecords /\ provider'["finnhub"] = "connecting"
        /\ provider'["polygon"] = provider["polygon"] /\ provider'["ibkr"] = provider["ibkr"]
    BY <1>1, <2>1 DEF ProviderRecords
  <2>5. LockUse'
    <3>1. engines = "live" /\ streaming # "finnhub"
      BY <1>1, <2>1, <2>2 DEF LockUse
    <3> QED BY <2>1, <2>3, <2>4, <3>1 DEF LockUse
  <2>6. Traces'
    BY <2>1, <2>4, FinnhubTraces
  <2> QED BY <1>1, <2>1, <2>3, <2>4, <2>5, <2>6, ProvidersKeep
<1>5. ASSUME FinnhubConnected
      PROVE  GuardInv'
  <2>1. /\ UNCHANGED <<replays, engines, runRows, historical, liveRole, disturbed, providerCalls>>
        /\ provider["finnhub"] = "connecting" /\ Release /\ streaming' = "finnhub"
    BY <1>5 DEF FinnhubConnected, ReplaysStay, TakesOver
  <2>2. /\ ProviderRecords /\ provider'["finnhub"] = "on"
        /\ provider'["polygon"] # "on" \/ provider'["polygon"] = provider["polygon"]
        /\ provider'["ibkr"] # "on" \/ provider'["ibkr"] = provider["ibkr"]
    <3>1. PICK with : with = [provider EXCEPT !["finnhub"] = "on"]
      OBVIOUS
    <3>2. /\ with \in [Names -> States] /\ with["finnhub"] = "on" /\ with["polygon"] = provider["polygon"]
          /\ with["ibkr"] = provider["ibkr"]
      BY <1>1, <3>1
    <3>3. CASE streaming \in {"none", "finnhub"} \/ historical = streaming
      <4>1. provider' = with
        BY <1>5, <3>1, <3>3 DEF FinnhubConnected, TakesOver
      <4> QED BY <3>2, <4>1 DEF ProviderRecords
    <3>4. CASE ~(streaming \in {"none", "finnhub"} \/ historical = streaming)
      <4>1. provider' = [with EXCEPT ![streaming] = "off"]
        BY <1>5, <3>1, <3>4 DEF FinnhubConnected, TakesOver
      <4>2. streaming \in {"polygon", "ibkr"}
        BY <1>1, <3>4 DEF Roles
      <4> QED BY <3>2, <4>1, <4>2 DEF ProviderRecords
    <3> QED BY <3>3, <3>4
  <2>3. runLock' \in [held : BOOLEAN, waiting : Seq(Requests \cup {"finnhub"})] /\ runLock'.held = FALSE
    BY <1>1, <2>1, LockTyped
  <2>4. LockUse'
    <3>1. engines = "live"
      BY <1>1, <2>1 DEF LockUse
    <3> QED BY <2>1, <2>2, <2>3, <3>1 DEF LockUse
  <2>5. Traces'
    BY <2>1, <2>2, FinnhubTraces
  <2> QED BY <1>1, <2>1, <2>2, <2>3, <2>4, <2>5, ProvidersKeep DEF Roles
<1>6. ASSUME FinnhubFails
      PROVE  GuardInv'
  <2>1. /\ UNCHANGED <<replays, engines, runRows, historical, streaming, liveRole, disturbed, providerCalls>>
        /\ provider["finnhub"] = "connecting" /\ Release
        /\ provider' = [provider EXCEPT !["finnhub"] = "off"]
    BY <1>6 DEF FinnhubFails, ReplaysStay
  <2>2. runLock' \in [held : BOOLEAN, waiting : Seq(Requests \cup {"finnhub"})] /\ runLock'.held = FALSE
    BY <1>1, <2>1, LockTyped
  <2>3. /\ ProviderRecords /\ provider'["finnhub"] = "off"
        /\ provider'["polygon"] = provider["polygon"] /\ provider'["ibkr"] = provider["ibkr"]
    BY <1>1, <2>1 DEF ProviderRecords
  <2>4. LockUse'
    <3>1. engines = "live" /\ streaming # "finnhub"
      BY <1>1, <2>1 DEF LockUse
    <3> QED BY <2>1, <2>2, <2>3, <3>1 DEF LockUse
  <2>5. Traces'
    BY <2>1, <2>3, FinnhubTraces
  <2> QED BY <1>1, <2>1, <2>2, <2>3, <2>4, <2>5, ProvidersKeep
<1>7. ASSUME DisconnectFinnhub
      PROVE  GuardInv'
  <2>1. /\ UNCHANGED <<replays, engines, runRows, runLock, historical, liveRole, disturbed, providerCalls>>
        /\ provider["finnhub"] = "on" /\ provider' = [provider EXCEPT !["finnhub"] = "off"]
        /\ streaming' = IF streaming = "finnhub" THEN "none" ELSE streaming
    BY <1>7 DEF DisconnectFinnhub, ReplaysStay
  <2>2. /\ ProviderRecords /\ provider'["finnhub"] = "off"
        /\ provider'["polygon"] = provider["polygon"] /\ provider'["ibkr"] = provider["ibkr"]
    BY <1>1, <2>1 DEF ProviderRecords
  <2>3. LockUse'
    BY <1>1, <2>1, <2>2 DEF LockUse
  <2>4. Traces'
    BY <2>1, <2>2, FinnhubTraces
  <2> QED BY <1>1, <2>1, <2>2, <2>3, <2>4, ProvidersKeep DEF Roles
<1> QED BY <1>3, <1>4, <1>5, <1>6, <1>7

(* Where nobody is past the last check, the live engines are installed.    *)
LEMMA NobodyExposed ==
  ASSUME GuardInv, ~Exposed
  PROVE  engines = "live" /\ \A r \in Requests : replays[r].at \notin Past
<1>1. \A r \in Requests : replays[r].at \notin Past
  BY DEF Exposed, Past
<1> QED BY <1>1 DEF GuardInv, GuardTypes, EngineOf, Past

LEMMA CalmTraces ==
  ASSUME GuardInv, ~Exposed, UNCHANGED <<replays, engines>>, historical' = liveRole'
  PROVE  Traces'
BY NobodyExposed DEF Traces

LEMMA SlowKeeps ==
  ASSUME GuardInv,
         \/ \E p \in Slow : ConnectProvider(p) \/ ProviderConnected(p)
         \/ DisconnectPolygon \/ DisconnectBroker
  PROVE  GuardInv'
<1> DEFINE Names == {"finnhub", "polygon", "ibkr"}
           States == {"off", "waiting", "connecting", "on"}
<1>1. /\ provider \in [Names -> States] /\ historical \in Roles \cup Requests
      /\ streaming \in Roles \cup {"finnhub"} /\ liveRole \in Roles /\ disturbed \in BOOLEAN
      /\ providerCalls \in Nat /\ runLock \in [held : BOOLEAN, waiting : Seq(Requests \cup {"finnhub"})]
      /\ GuardTypes /\ LockUse
  BY DEF GuardInv, GuardTypes
<1>2. ASSUME NEW p \in Slow, ConnectProvider(p)
      PROVE  GuardInv'
  <2>1. /\ UNCHANGED <<replays, engines, runRows, runLock, historical, streaming, liveRole, disturbed>>
        /\ providerCalls' \in Nat /\ provider' = [provider EXCEPT ![p] = "connecting"]
    BY <1>1, <1>2 DEF ConnectProvider, ProviderCall, ReplaysStay
  <2>2. /\ ProviderRecords /\ provider'["finnhub"] = provider["finnhub"]
        /\ provider'["polygon"] # "on" \/ provider'["polygon"] = provider["polygon"]
        /\ provider'["ibkr"] # "on" \/ provider'["ibkr"] = provider["ibkr"]
    BY <1>1, <2>1 DEF ProviderRecords, Slow
  <2>3. LockUse'
    BY <1>1, <2>1, <2>2 DEF LockUse
  <2>4. Traces'
    BY <2>1, <2>2, FinnhubTraces
  <2> QED BY <1>1, <2>1, <2>2, <2>3, <2>4, ProvidersKeep
<1>3. ASSUME NEW p \in Slow, ProviderConnected(p)
      PROVE  GuardInv'
  <2>1. UNCHANGED <<replays, engines, runRows, runLock, providerCalls>>
    BY <1>3 DEF ProviderConnected, ReplaysStay
  <2>2. CASE /\ provider' = [provider EXCEPT ![p] = "off"]
             /\ UNCHANGED <<historical, streaming, liveRole, disturbed>>
    <3>1. /\ ProviderRecords /\ provider'["finnhub"] = provider["finnhub"]
          /\ provider'["polygon"] # "on" \/ provider'["polygon"] = provider["polygon"]
          /\ provider'["ibkr"] # "on" \/ provider'["ibkr"] = provider["ibkr"]
      BY <1>1, <2>2 DEF ProviderRecords, Slow
    <3>2. LockUse'
      BY <1>1, <2>1, <2>2, <3>1 DEF LockUse
    <3>3. Traces'
      BY <2>1, <2>2, <3>1, FinnhubTraces
    <3> QED BY <1>1, <2>1, <2>2, <3>1, <3>2, <3>3, ProvidersKeep
  <2>3. CASE /\ historical' = p /\ liveRole' = p /\ disturbed' = (disturbed \/ Exposed)
             /\ IF p = "polygon" /\ streaming # "none"
                THEN provider' = [provider EXCEPT ![p] = "on"] /\ UNCHANGED streaming
                ELSE TakesOver(p, [provider EXCEPT ![p] = "on"])
    <3>1. PICK with : with = [provider EXCEPT ![p] = "on"]
      OBVIOUS
    <3>2. with \in [Names -> States] /\ with["finnhub"] = provider["finnhub"] /\ p \in Roles
      BY <1>1, <3>1 DEF Slow, Roles
    <3>3. /\ ProviderRecords
          /\ \/ provider'["finnhub"] = provider["finnhub"]
             \/ streaming = "finnhub" /\ provider'["finnhub"] = "off"
          /\ \/ streaming' = streaming /\ provider'["finnhub"] = provider["finnhub"]
             \/ streaming' = p
      <4>1. CASE provider' = with /\ (streaming' = streaming \/ streaming' = p)
        BY <3>2, <4>1 DEF ProviderRecords
      <4>2. CASE provider' = [with EXCEPT ![streaming] = "off"] /\ streaming' = p
        BY <1>1, <3>2, <4>2 DEF ProviderRecords, Roles
      <4> QED BY <2>3, <3>1, <4>1, <4>2 DEF TakesOver
    <3>4. LockUse'
      <4>1. streaming = "finnhub" => provider["finnhub"] = "on"
        BY <1>1 DEF LockUse
      <4>2. /\ runLock' = runLock /\ engines' = engines
            /\ provider'["finnhub"] = "connecting" <=> provider["finnhub"] = "connecting"
            /\ provider'["finnhub"] \in {"connecting", "on"} => provider["finnhub"] \in {"connecting", "on"}
        BY <2>1, <3>3, <4>1
      <4>3. streaming' = "finnhub" => streaming = "finnhub" /\ provider'["finnhub"] = "on"
        BY <3>3, <4>1 DEF Slow
      <4> QED BY ONLY <1>1, <4>2, <4>3 DEF LockUse
    <3>5. disturbed' \in BOOLEAN /\ (disturbed' = FALSE => ~Exposed)
      BY ONLY <1>1, <2>3
    <3>6. Traces'
      <4>1. CASE Exposed
        BY <3>5, <4>1 DEF Traces
      <4>2. CASE ~Exposed
        BY <2>1, <2>3, <4>2, CalmTraces
      <4> QED BY <4>1, <4>2
    <3> QED BY <1>1, <2>1, <2>3, <3>2, <3>3, <3>4, <3>5, <3>6, ProvidersKeep
  <2> QED BY <1>3, <2>2, <2>3 DEF ProviderConnected
<1>4. ASSUME DisconnectPolygon
      PROVE  GuardInv'
  <2>1. /\ UNCHANGED <<replays, engines, runRows, runLock, providerCalls>>
        /\ provider' = [provider EXCEPT !["polygon"] = "off"]
        /\ historical' = IF historical = "polygon" THEN "none" ELSE historical
        /\ liveRole' = IF liveRole = "polygon" THEN "none" ELSE liveRole
        /\ streaming' = IF streaming = "polygon" THEN "none" ELSE streaming
        /\ disturbed' = (disturbed \/ Exposed)
    BY <1>4 DEF DisconnectPolygon, ReplaysStay
  <2>2. /\ ProviderRecords /\ provider'["finnhub"] = provider["finnhub"]
        /\ historical' \in Roles \cup Requests /\ liveRole' \in Roles /\ streaming' \in Roles \cup {"finnhub"}
    BY <1>1, <2>1 DEF ProviderRecords, Roles
  <2>3. LockUse'
    BY <1>1, <2>1, <2>2 DEF LockUse
  <2>4. disturbed' \in BOOLEAN /\ (disturbed' = FALSE => disturbed = FALSE /\ ~Exposed)
    BY ONLY <1>1, <2>1
  <2>5. Traces'
    <3>1. CASE disturbed' = FALSE
      <4>1. engines = "live" /\ historical = liveRole
        BY <2>4, <3>1, NobodyExposed DEF GuardInv, Traces
      <4> QED BY <2>1, <2>4, <3>1, <4>1, CalmTraces
    <3>2. CASE disturbed' # FALSE
      BY ONLY <3>2 DEF Traces
    <3> QED BY <3>1, <3>2
  <2> QED BY <1>1, <2>1, <2>2, <2>3, <2>4, <2>5, ProvidersKeep
<1>5. ASSUME DisconnectBroker
      PROVE  GuardInv'
  <2>1. /\ UNCHANGED <<replays, engines, runRows, runLock, providerCalls>>
        /\ provider' = IF streaming = "none" THEN provider ELSE [provider EXCEPT ![streaming] = "off"]
        /\ streaming' = "none" /\ historical' = "none" /\ liveRole' = "none"
        /\ disturbed' = (disturbed \/ (Exposed /\ historical # "none"))
    BY <1>5 DEF DisconnectBroker, ReplaysStay
  <2>2. /\ ProviderRecords
        /\ \/ provider'["finnhub"] = provider["finnhub"]
           \/ streaming = "finnhub" /\ provider'["finnhub"] = "off"
        /\ provider'["polygon"] # "on" \/ provider'["polygon"] = provider["polygon"]
    <3>1. CASE streaming = "none"
      BY <1>1, <2>1, <3>1 DEF ProviderRecords
    <3>2. CASE streaming # "none"
      <4>1. provider' = [provider EXCEPT ![streaming] = "off"] /\ streaming \in Names
        BY <1>1, <2>1, <3>2 DEF Roles
      <4> QED BY <1>1, <4>1 DEF ProviderRecords
    <3> QED BY <3>1, <3>2
  <2>3. LockUse'
    <3>1. streaming = "finnhub" => provider["finnhub"] = "on"
      BY <1>1 DEF LockUse
    <3>2. /\ runLock' = runLock /\ engines' = engines
          /\ provider'["finnhub"] = "connecting" <=> provider["finnhub"] = "connecting"
          /\ provider'["finnhub"] \in {"connecting", "on"} => provider["finnhub"] \in {"connecting", "on"}
          /\ streaming' # "finnhub"
      BY <2>1, <2>2, <3>1
    <3> QED BY ONLY <1>1, <3>2 DEF LockUse
  <2>4. disturbed' \in BOOLEAN /\ (disturbed' = FALSE => disturbed = FALSE /\ (~Exposed \/ historical = "none"))
    BY ONLY <1>1, <2>1
  <2>5. Traces'
    <3>1. CASE ~Exposed
      BY <2>1, <3>1, CalmTraces
    <3>2. CASE Exposed /\ disturbed' = FALSE
      <4>1. disturbed = FALSE /\ historical = "none" /\ engines = "live"
        <5>1. disturbed = FALSE /\ historical = "none"
          BY <2>4, <3>2
        <5>2. engines # "live" => historical = engines
          BY <5>1 DEF GuardInv, Traces
        <5>3. engines # "none"
          BY <1>1, RequestAssumption DEF GuardTypes
        <5> QED BY <5>1, <5>2, <5>3
      <4>2. NoOtherSource => NoOtherSource'
        BY <2>1, <2>2 DEF NoOtherSource
      <4> QED BY <2>1, <4>1, <4>2 DEF GuardInv, Traces
    <3>3. CASE disturbed' # FALSE
      BY ONLY <3>3 DEF Traces
    <3> QED BY <3>1, <3>2, <3>3
  <2> QED BY <1>1, <2>1, <2>2, <2>3, <2>4, <2>5, ProvidersKeep DEF Roles
<1> QED BY <1>2, <1>3, <1>4, <1>5

LEMMA GuardStep == GuardInv /\ [ReplayNext]_replayVars => GuardInv'
<1> SUFFICES ASSUME GuardInv, [ReplayNext]_replayVars PROVE GuardInv'
  OBVIOUS
<1>1. ASSUME NEW r \in Requests, Arrives(r) \/ Request(r)
      PROVE  GuardInv'
  BY <1>1, ArrivesKeeps, RequestKeeps
<1>2. CASE Provide
  BY <1>2, FinnhubKeeps, SlowKeeps DEF Provide
<1>3. CASE UNCHANGED replayVars
  <2>1. LockUse'
    BY <1>3 DEF GuardInv, LockUse, replayVars
  <2>2. Traces'
    BY <1>3 DEF GuardInv, Traces, NoOtherSource, replayVars
  <2> QED BY <1>3, <2>1, <2>2, ProvidersKeep DEF GuardInv, GuardTypes, ProviderRecords, replayVars
<1> QED BY <1>1, <1>2, <1>3 DEF ReplayNext

LEMMA GuardsAreTrue == GuardInv => ReplayTypeOK /\ OneReplay /\ ReplayLeavesNoTrace /\ ResultsHonest
<1> SUFFICES ASSUME GuardInv PROVE ReplayTypeOK /\ OneReplay /\ ReplayLeavesNoTrace /\ ResultsHonest
  OBVIOUS
<1> USE DEF GuardInv
<1>1. ReplayTypeOK
  BY DEF GuardTypes, ReplayRecord, ReplayTypeOK
<1>2. OneReplay
  BY DEF EngineOf, LockUse, OneReplay, StreamingActive
<1>3. ReplayLeavesNoTrace
  <2>1. disturbed = FALSE \/ disturbed = TRUE
    BY DEF GuardTypes
  <2>2. CASE disturbed = FALSE
    <3>1. CASE engines = "live"
      BY <2>2, <3>1 DEF Traces, ReplayLeavesNoTrace
    <3>2. CASE engines # "live"
      <4>1. engines \in Requests /\ replays[engines].at \in Past /\ engines # "ibkr"
        BY <3>2, RequestAssumption DEF GuardTypes, EngineOf, Past
      <4> QED BY <2>2, <3>2, <4>1 DEF Traces, NoOtherSource, ReplayLeavesNoTrace, PolygonConnected, IBKRConnected
    <3> QED BY <3>1, <3>2
  <2>3. CASE disturbed = TRUE
    BY <2>3 DEF ReplayLeavesNoTrace
  <2> QED BY <2>1, <2>2, <2>3
<1>4. ResultsHonest
  <2>1. ASSUME NEW r \in Requests
        PROVE  /\ replays[r].at = "answered" /\ replays[r].results # <<"refused">> =>
                    Len(replays[r].results) = Asked(replays[r])
               /\ ResultsOf(r, replays[r])
               /\ replays[r].at \in {"checking", "reading", "install", "waiting", "recording"} =>
                    <<r, replays[r].item>> \notin runRows
    <3>1. PICK q : q = replays[r] /\ q.item \in 1 .. SweepLength
      BY DEF GuardTypes, ReplayRecord
    <3>2. ResultsOf(r, q) /\ RowsOf(r, q) /\ CountsOf(q)
      BY <3>1 DEF Honest
    <3>3. q.item \in Nat
      BY <3>1, RequestAssumption
    <3> QED BY <3>1, <3>2, <3>3 DEF CountsOf, RowsOf
  <2>2. \A r \in Requests : replays[r].results \in Seq(Results)
    BY DEF GuardTypes, ReplayRecord
  <2> QED BY <2>1, <2>2 DEF ResultsHonest, Asked, ResultsOf
<1> QED BY <1>1, <1>2, <1>3, <1>4

---------------------------------------------------------------------------
(* One run over a series                                                   *)

Directions == {"BUY", "SELL"}
Reasons == {"stop", "target", "eod_flatten"}
TradeRecord ==
  [signal : Nat \ {0}, direction : Directions, entry : Nat, price : Int,
   exit : [at : Nat, price : Int, reason : Reasons]]

(* What the simulator promises of a trade of a series                      *)
IsTrade(t, cs) ==
  /\ t \in TradeRecord /\ t.entry = t.signal + 1 /\ t.entry < t.exit.at /\ t.exit.at <= Len(cs)
  /\ cs[t.entry].day = cs[t.exit.at].day
  /\ t.exit.reason = ReasonAt(t.direction, cs[t.exit.at])
  /\ t.exit.price = PriceAt(t.direction, cs[t.exit.at])
  /\ \A i \in t.entry + 1 .. t.exit.at - 1 : ReasonAt(t.direction, cs[i]) = "none"

Signals(trades) == {trades[k].signal : k \in 1 .. Len(trades)}

(* The trade p that is open at candle n, the outcomes before it, and the   *)
(* signals acted upon that were not discarded                              *)
OpenFits(p, outs, open, n, cs) ==
  p # NoTrade =>
    /\ IsTrade(p, cs) /\ p.signal <= n /\ n < p.exit.at /\ p.signal \in open
    /\ \A k \in 1 .. Len(outs) : outs[k].exit.at <= p.signal
EachFits(outs, open, n, cs) ==
  \A k \in 1 .. Len(outs) :
    IsTrade(outs[k], cs) /\ outs[k].exit.at <= n /\ Risk(outs[k]) # 0 /\ outs[k].signal \in open
InTurn(outs) == \A k \in 1 .. Len(outs) : \A j \in 1 .. k - 1 : outs[j].exit.at <= outs[k].signal
SignalsDiffer(outs) == IsFiniteSet(Signals(outs)) /\ Cardinality(Signals(outs)) = Len(outs)
AllSettled(p, outs, open) == \A s \in open : s \in Signals(outs) \/ s = p.signal
RunFits(p, outs, open, n, cs) ==
  /\ outs \in Seq(TradeRecord)
  /\ OpenFits(p, outs, open, n, cs) /\ EachFits(outs, open, n, cs) /\ InTurn(outs)
  /\ SignalsDiffer(outs) /\ AllSettled(p, outs, open)

RunTypes ==
  /\ series \in Seq(ReplayedCandle) /\ replayed \in 0 .. Len(series)
  /\ runState \in {"asked", "running", "done", "raised"}
  /\ runState = "asked" => replayed = 0
  /\ actedOn \subseteq 1 .. replayed /\ discarded \subseteq actedOn

RunInv == RunTypes /\ RunFits(pending, outcomes, actedOn \ discarded, replayed, series)

LEMMA NoFits == ASSUME NEW cs PROVE RunFits(NoTrade, <<>>, {}, 0, cs)
<1>1. Signals(<<>>) = {} /\ IsFiniteSet({}) /\ Cardinality({}) = 0 /\ <<>> \in Seq(TradeRecord)
  BY FS_EmptySet DEF Signals
<1> QED BY <1>1 DEF RunFits, OpenFits, EachFits, InTurn, SignalsDiffer, AllSettled

LEMMA RunStart == RunInit => RunInv
<1> SUFFICES ASSUME RunInit PROVE RunInv
  OBVIOUS
<1>1. outcomes = <<>> /\ Len(outcomes) = 0 /\ pending = NoTrade /\ series = <<>> /\ actedOn = {} /\ discarded = {}
      /\ replayed = 0 /\ runState = "asked"
  BY DEF RunInit
<1>2. RunTypes
  BY <1>1 DEF RunTypes
<1>3. RunFits(NoTrade, <<>>, {}, 0, <<>>)
  BY NoFits
<1>4. actedOn \ discarded = {}
  BY <1>1
<1> QED BY <1>1, <1>2, <1>3, <1>4 DEF RunInv

(* The simulator's trade is one.                                           *)
LEMMA ReasonsAre ==
  ASSUME NEW c \in ReplayedCandle, NEW d \in Directions
  PROVE  /\ ReasonAt(d, c) \in Reasons \cup {"none"} /\ PriceAt(d, c) \in Int
BY SeriesAssumption DEF ReasonAt, PriceAt, Reasons, ReplayedCandle, Stop, TargetOf, Directions

LEMMA ExitIs ==
  ASSUME series \in Seq(ReplayedCandle), NEW d \in Directions, NEW e \in 1 .. Len(series),
         NEW x \in SimulatedExit(d, e)
  PROVE  /\ x \in [at : Nat, price : Int, reason : Reasons]
         /\ e < x.at /\ x.at <= Len(series) /\ series[e].day = series[x.at].day
         /\ x.reason = ReasonAt(d, series[x.at]) /\ x.price = PriceAt(d, series[x.at])
         /\ \A i \in e + 1 .. x.at - 1 : ReasonAt(d, series[i]) = "none"
<1> DEFINE leaves == {i \in SameDayAfter(e) : ReasonAt(d, series[i]) # "none"}
<1>1. leaves # {} /\ x = [at |-> Min(leaves), price |-> PriceAt(d, series[Min(leaves)]),
                          reason |-> ReasonAt(d, series[Min(leaves)])]
  BY DEF SimulatedExit
<1>2. leaves \subseteq 1 .. Len(series) /\ leaves \in SUBSET Int
  BY DEF SameDayAfter
<1>3. IsFiniteSet(leaves)
  <2>1. IsFiniteSet(1 .. Len(series))
    BY FS_Interval
  <2> HIDE DEF leaves
  <2> QED BY <1>2, <2>1, FS_Subset
<1>4. PICK m : m = Min(leaves)
  OBVIOUS
<1>5. m \in leaves /\ \A n \in leaves : m <= n
  <2> HIDE DEF leaves
  <2> QED BY <1>1, <1>2, <1>3, <1>4, MinAndMax
<1>6. x = [at |-> m, price |-> PriceAt(d, series[m]), reason |-> ReasonAt(d, series[m])]
  <2> HIDE DEF leaves
  <2> QED BY <1>1, <1>4
<1>7. /\ m \in e + 1 .. Len(series) /\ ReasonAt(d, series[m]) # "none"
      /\ \A k \in e + 1 .. m : series[k].day = series[e].day
  BY <1>5 DEF SameDayAfter
<1>8. m \in Nat /\ m \in 1 .. Len(series) /\ series[m] \in ReplayedCandle
  BY <1>7
<1>9. \A i \in e + 1 .. m - 1 : ReasonAt(d, series[i]) = "none"
  <2>1. SUFFICES ASSUME NEW i \in e + 1 .. m - 1, ReasonAt(d, series[i]) # "none" PROVE FALSE
    OBVIOUS
  <2>2. i \in SameDayAfter(e)
    BY <1>7, <1>8 DEF SameDayAfter
  <2>3. i \in leaves /\ i < m
    BY <1>8, <2>1, <2>2
  <2> HIDE DEF leaves
  <2> QED BY <1>5, <1>8, <2>3
<1>10. PriceAt(d, series[m]) \in Int /\ ReasonAt(d, series[m]) \in Reasons
  BY <1>7, <1>8, ReasonsAre
<1>11. series[m].day = series[e].day /\ e < m /\ m <= Len(series)
  BY <1>7
<1> QED BY ONLY <1>6, <1>8, <1>9, <1>10, <1>11

LEMMA TradeIs ==
  ASSUME series \in Seq(ReplayedCandle), NEW d \in Directions, NEW i \in 1 .. Len(series)
  PROVE  \/ TradeOf(i, d) = NoTrade
         \/ IsTrade(TradeOf(i, d), series) /\ TradeOf(i, d).signal = i
<1>1. SUFFICES ASSUME TradeOf(i, d) # NoTrade
      PROVE  IsTrade(TradeOf(i, d), series) /\ TradeOf(i, d).signal = i
  OBVIOUS
<1>2. i # Len(series) /\ SimulatedExit(d, i + 1) # {} /\ i + 1 \in 1 .. Len(series)
  BY <1>1 DEF TradeOf
<1>3. PICK x \in SimulatedExit(d, i + 1) :
        TradeOf(i, d) = [signal |-> i, direction |-> d, entry |-> i + 1, price |-> series[i + 1].open, exit |-> x]
  BY <1>2 DEF TradeOf
<1>4. /\ x \in [at : Nat, price : Int, reason : Reasons]
      /\ i + 1 < x.at /\ x.at <= Len(series) /\ series[i + 1].day = series[x.at].day
      /\ x.reason = ReasonAt(d, series[x.at]) /\ x.price = PriceAt(d, series[x.at])
      /\ \A k \in (i + 1) + 1 .. x.at - 1 : ReasonAt(d, series[k]) = "none"
  BY <1>2, <1>3, ExitIs
<1>5. PICK t : t = TradeOf(i, d)
  OBVIOUS
<1>6. /\ t.signal = i /\ t.direction = d /\ t.entry = i + 1 /\ t.exit = x
      /\ t \in TradeRecord
  <2>1. series[i + 1].open \in Int
    <3>1. series[i + 1] \in ReplayedCandle
      BY <1>2
    <3> QED BY <3>1 DEF ReplayedCandle
  <2>2. i \in Nat \ {0} /\ i + 1 \in Nat
    OBVIOUS
  <2> QED BY <1>3, <1>4, <1>5, <2>1, <2>2 DEF TradeRecord
<1>7. IsTrade(t, series)
  BY ONLY <1>4, <1>6 DEF IsTrade
<1> QED BY <1>5, <1>6, <1>7

LEMMA TradeTyped ==
  ASSUME NEW t, NEW cs, IsTrade(t, cs)
  PROVE  t.signal \in Nat \ {0} /\ t.exit.at \in Nat /\ t.signal < t.exit.at
<1>1. t.signal \in Nat \ {0} /\ t.entry = t.signal + 1 /\ t.entry < t.exit.at /\ t.exit \in [at : Nat, price : Int, reason : Reasons]
  BY DEF IsTrade, TradeRecord
<1>2. t.exit.at \in Nat
  BY <1>1
<1> QED BY <1>1, <1>2

LEMMA EachTyped ==
  ASSUME NEW outs, NEW open, NEW n \in Nat, NEW cs, EachFits(outs, open, n, cs), NEW k \in 1 .. Len(outs)
  PROVE  /\ IsTrade(outs[k], cs) /\ outs[k].exit.at <= n /\ Risk(outs[k]) # 0 /\ outs[k].signal \in open
         /\ outs[k].signal \in Nat \ {0} /\ outs[k].exit.at \in Nat /\ outs[k].signal < outs[k].exit.at
         /\ outs[k].exit.at <= n + 1
<1>1. IsTrade(outs[k], cs) /\ outs[k].exit.at <= n /\ Risk(outs[k]) # 0 /\ outs[k].signal \in open
  BY DEF EachFits
<1> QED BY <1>1, TradeTyped

(* The trade that is open stays, is voidedTo, or becomes an outcome.        *)
LEMMA SignalsWith ==
  ASSUME NEW outs \in Seq(TradeRecord), NEW p \in TradeRecord
  PROVE  /\ Append(outs, p) \in Seq(TradeRecord) /\ Len(Append(outs, p)) = Len(outs) + 1
         /\ Append(outs, p)[Len(outs) + 1] = p /\ Len(outs) \in Nat
         /\ \A k \in 1 .. Len(outs) : Append(outs, p)[k] = outs[k]
         /\ Signals(Append(outs, p)) = Signals(outs) \cup {p.signal}
<1>1. /\ Append(outs, p) \in Seq(TradeRecord) /\ Len(Append(outs, p)) = Len(outs) + 1
      /\ Append(outs, p)[Len(outs) + 1] = p /\ Len(outs) \in Nat
      /\ \A k \in 1 .. Len(outs) : Append(outs, p)[k] = outs[k]
  OBVIOUS
<1>2. PICK with : with = Append(outs, p)
  OBVIOUS
<1>3. \A k \in 1 .. Len(outs) + 1 : k \in 1 .. Len(outs) \/ k = Len(outs) + 1
  BY <1>1
<1>4. Signals(with) = Signals(outs) \cup {p.signal}
  <2>1. \A k \in 1 .. Len(outs) : k \in 1 .. Len(outs) + 1
    BY <1>1
  <2>2. Len(outs) + 1 \in 1 .. Len(outs) + 1
    BY <1>1
  <2> QED BY <1>1, <1>2, <1>3, <2>1, <2>2 DEF Signals
<1> QED BY <1>1, <1>2, <1>4

LEMMA OpenStays ==
  ASSUME NEW cs, NEW p, NEW outs, NEW open, NEW n \in Nat, RunFits(p, outs, open, n, cs),
         p = NoTrade \/ n + 1 < p.exit.at
  PROVE  RunFits(p, outs, open, n + 1, cs)
<1> USE DEF RunFits
<1>1. OpenFits(p, outs, open, n + 1, cs)
  BY TradeTyped DEF OpenFits
<1>2. EachFits(outs, open, n + 1, cs)
  <2>1. \A k \in 1 .. Len(outs) :
          IsTrade(outs[k], cs) /\ outs[k].exit.at <= n + 1 /\ Risk(outs[k]) # 0 /\ outs[k].signal \in open
    BY EachTyped
  <2> QED BY ONLY <2>1 DEF EachFits
<1> QED BY <1>1, <1>2

LEMMA OpenDropped ==
  ASSUME NEW cs, NEW p, NEW outs, NEW open, NEW n \in Nat, RunFits(p, outs, open, n, cs), p # NoTrade
  PROVE  RunFits(NoTrade, outs, open \ {p.signal}, n + 1, cs)
<1> USE DEF RunFits
<1>1. /\ IsTrade(p, cs) /\ p.signal \in Nat
      /\ \A k \in 1 .. Len(outs) : outs[k].exit.at <= p.signal
  BY DEF OpenFits, IsTrade, TradeRecord
<1>2. \A k \in 1 .. Len(outs) :
        /\ IsTrade(outs[k], cs) /\ outs[k].exit.at <= n /\ Risk(outs[k]) # 0 /\ outs[k].signal \in open
        /\ outs[k].signal \in Nat /\ outs[k].exit.at \in Nat
        /\ outs[k].signal < outs[k].exit.at
  BY EachTyped
<1>3. EachFits(outs, open \ {p.signal}, n + 1, cs)
  <2>1. \A k \in 1 .. Len(outs) : outs[k].signal # p.signal /\ outs[k].exit.at <= n + 1
    BY <1>1, <1>2
  <2> QED BY ONLY <1>2, <2>1 DEF EachFits
<1>4. OpenFits(NoTrade, outs, open \ {p.signal}, n + 1, cs)
  BY DEF OpenFits
<1>5. AllSettled(NoTrade, outs, open \ {p.signal})
  BY DEF AllSettled
<1> QED BY <1>3, <1>4, <1>5

LEMMA OpenLeft ==
  ASSUME NEW cs, NEW p, NEW outs, NEW open, NEW n \in Nat, RunFits(p, outs, open, n, cs), p # NoTrade,
         p.exit.at = n + 1, Risk(p) # 0
  PROVE  RunFits(NoTrade, Append(outs, p), open, n + 1, cs)
<1> USE DEF RunFits
<1>1. /\ IsTrade(p, cs) /\ p \in TradeRecord /\ p.signal \in Nat /\ p.signal <= n /\ p.signal \in open
      /\ \A k \in 1 .. Len(outs) : outs[k].exit.at <= p.signal
  BY DEF OpenFits, IsTrade, TradeRecord
<1>2. PICK with : with = Append(outs, p)
  OBVIOUS
<1>3. /\ with \in Seq(TradeRecord) /\ Len(with) = Len(outs) + 1 /\ Len(outs) \in Nat
      /\ with[Len(outs) + 1] = p /\ \A k \in 1 .. Len(outs) : with[k] = outs[k]
      /\ Signals(with) = Signals(outs) \cup {p.signal}
  BY <1>1, <1>2, SignalsWith
<1>4. \A k \in 1 .. Len(outs) + 1 : k \in 1 .. Len(outs) \/ k = Len(outs) + 1
  BY <1>3
<1>5. \A k \in 1 .. Len(outs) :
        /\ IsTrade(outs[k], cs) /\ outs[k].exit.at <= n + 1 /\ Risk(outs[k]) # 0 /\ outs[k].signal \in open
        /\ outs[k].signal \in Nat /\ outs[k].exit.at \in Nat /\ outs[k].signal < outs[k].exit.at
  BY EachTyped
<1>6. EachFits(with, open, n + 1, cs)
  <2>1. ASSUME NEW k \in 1 .. Len(with)
        PROVE  IsTrade(with[k], cs) /\ with[k].exit.at <= n + 1 /\ Risk(with[k]) # 0 /\ with[k].signal \in open
    <3>1. CASE k \in 1 .. Len(outs)
      BY ONLY <1>3, <1>5, <3>1
    <3>2. CASE k = Len(outs) + 1
      BY <1>1, <1>3, <3>2
    <3> QED BY <1>3, <1>4, <2>1, <3>1, <3>2
  <2> QED BY ONLY <2>1 DEF EachFits
<1>7. InTurn(with)
  <2>1. ASSUME NEW k \in 1 .. Len(with), NEW j \in 1 .. k - 1
        PROVE  with[j].exit.at <= with[k].signal
    <3>1. k \in Nat /\ j \in 1 .. Len(outs) /\ with[j] = outs[j]
      BY <1>3, <2>1
    <3>2. CASE k \in 1 .. Len(outs)
      BY <1>3, <2>1, <3>1, <3>2 DEF InTurn
    <3>3. CASE k = Len(outs) + 1
      BY <1>1, <1>3, <3>1, <3>3
    <3> QED BY <1>3, <1>4, <2>1, <3>2, <3>3
  <2> QED BY ONLY <2>1 DEF InTurn
<1>8. SignalsDiffer(with)
  <2>1. p.signal \notin Signals(outs)
    <3>1. \A k \in 1 .. Len(outs) : outs[k].signal # p.signal
      BY <1>1, <1>5
    <3> QED BY ONLY <3>1 DEF Signals
  <2>2. IsFiniteSet(Signals(outs)) /\ Cardinality(Signals(outs)) = Len(outs)
    BY DEF SignalsDiffer
  <2>3. PICK S : S = Signals(outs)
    OBVIOUS
  <2>4. IsFiniteSet(S \cup {p.signal}) /\ Cardinality(S \cup {p.signal}) = Cardinality(S) + 1
    BY ONLY <2>1, <2>2, <2>3, FS_AddElement
  <2> QED BY ONLY <1>3, <2>2, <2>3, <2>4 DEF SignalsDiffer
<1>9. AllSettled(NoTrade, with, open)
  BY <1>3 DEF AllSettled
<1>10. OpenFits(NoTrade, with, open, n + 1, cs)
  BY DEF OpenFits
<1> QED BY <1>2, <1>3, <1>6, <1>7, <1>8, <1>9, <1>10

(* The signal of candle n makes a trade.                                   *)
LEMMA Opened ==
  ASSUME NEW cs, NEW t, NEW outs, NEW open \in SUBSET (Nat \ {0}), NEW n \in Nat \ {0}, RunFits(NoTrade, outs, open, n, cs),
         IsTrade(t, cs), t.signal = n
  PROVE  RunFits(t, outs, open \cup {n}, n, cs)
<1> USE DEF RunFits
<1>1. EachFits(outs, open \cup {n}, n, cs)
  BY DEF EachFits
<1>2. OpenFits(t, outs, open \cup {n}, n, cs)
  <2>1. \A k \in 1 .. Len(outs) : outs[k].exit.at <= n
    BY EachTyped
  <2>2. t.signal <= n /\ n < t.exit.at /\ t.signal \in open \cup {n}
    BY TradeTyped
  <2> QED BY ONLY <2>1, <2>2, t.signal = n, IsTrade(t, cs) DEF OpenFits
<1>3. AllSettled(t, outs, open \cup {n})
  <2>1. \A s \in open : s \in Signals(outs)
    BY DEF AllSettled, NoTrade
  <2> QED BY <2>1 DEF AllSettled
<1> QED BY <1>1, <1>2, <1>3

(* The types after one more candle                                         *)
LEMMA TypesGoOn ==
  ASSUME RunTypes, replayed < Len(series), replayed' = replayed + 1, series' = series,
         runState' = "running", actedOn' \subseteq actedOn \cup {replayed + 1},
         discarded' \subseteq actedOn'
  PROVE  RunTypes'
<1>1. Len(series) \in Nat /\ replayed \in Nat /\ series' \in Seq(ReplayedCandle)
  BY DEF RunTypes
<1>2. replayed' \in 0 .. Len(series')
  BY <1>1
<1>3. \A k \in 1 .. replayed : k \in 1 .. replayed'
  BY <1>1
<1>4. replayed + 1 \in 1 .. replayed'
  BY <1>1
<1>5. actedOn' \subseteq 1 .. replayed'
  BY <1>3, <1>4 DEF RunTypes
<1> QED BY <1>1, <1>2, <1>5 DEF RunTypes

(* One candle                                                              *)
LEMMA ReplayCandleKeeps == ASSUME RunInv, ReplayCandle PROVE RunInv'
<1> DEFINE i == replayed + 1
           open == actedOn \ discarded
<1>1. PICK captured \in BOOLEAN, direction \in {"none", "BUY", "SELL"} :
        LET trade == AtEntry(i, captured)
            leaving == trade # NoTrade /\ i = trade.exit.at
            voided == IF pending # NoTrade /\ (trade = NoTrade \/ (leaving /\ ~captured))
                      THEN {pending.signal} ELSE {}
        IN /\ leaving /\ captured => Risk(trade) # 0
           /\ replayed' = i
           /\ outcomes' = IF leaving /\ captured THEN Append(outcomes, trade) ELSE outcomes
           /\ Accepted(i, IF leaving THEN NoTrade ELSE trade, direction)
           /\ discarded' = discarded \cup voided \cup Unfilled(i)
           /\ UNCHANGED <<series, runState>>
  BY DEF ReplayCandle
<1> DEFINE trade == AtEntry(i, captured)
           leaving == trade # NoTrade /\ i = trade.exit.at
           voided == IF pending # NoTrade /\ (trade = NoTrade \/ (leaving /\ ~captured))
                     THEN {pending.signal} ELSE {}
           kept == IF leaving THEN NoTrade ELSE trade
           voidedTo == discarded \cup voided
<1>2. /\ leaving /\ captured => Risk(trade) # 0
      /\ replayed' = i
      /\ outcomes' = IF leaving /\ captured THEN Append(outcomes, trade) ELSE outcomes
      /\ Accepted(i, kept, direction)
      /\ discarded' = voidedTo \cup Unfilled(i)
      /\ UNCHANGED <<series, runState>>
  BY <1>1
<1>3. /\ runState = "running" /\ replayed < Len(series) /\ RunTypes
      /\ RunFits(pending, outcomes, open, replayed, series) /\ replayed \in Nat /\ Len(series) \in Nat
      /\ i \in 1 .. Len(series) /\ series \in Seq(ReplayedCandle)
  BY DEF RunInv, RunTypes, ReplayCandle
<1>4. trade = pending \/ trade = NoTrade
  BY DEF AtEntry
<1>5. pending # NoTrade => /\ IsTrade(pending, series) /\ pending.exit.at \in Nat
                           /\ i <= pending.exit.at /\ pending.signal \in open
  BY <1>3, TradeTyped DEF RunFits, OpenFits
<1>6. RunFits(kept, outcomes', actedOn \ voidedTo, i, series) /\ voidedTo \subseteq actedOn
  <2>1. CASE trade # NoTrade /\ ~leaving
    <3>1. kept = pending /\ outcomes' = outcomes /\ voidedTo = discarded /\ replayed + 1 < pending.exit.at
      BY <1>2, <1>3, <1>4, <1>5, <2>1
    <3>2. RunFits(pending, outcomes, open, replayed + 1, series)
      BY <1>3, <3>1, OpenStays
    <3> HIDE DEF kept, voidedTo, trade, leaving, voided
    <3> QED BY <1>3, <3>1, <3>2 DEF RunTypes
  <2>2. CASE trade # NoTrade /\ leaving /\ captured
    <3>1. kept = NoTrade /\ outcomes' = Append(outcomes, pending) /\ voidedTo = discarded /\ pending # NoTrade
          /\ pending.exit.at = replayed + 1 /\ Risk(pending) # 0
      BY <1>2, <1>3, <1>4, <1>5, <2>2
    <3>2. RunFits(NoTrade, Append(outcomes, pending), open, replayed + 1, series)
      BY <1>3, <3>1, OpenLeft
    <3> HIDE DEF kept, voidedTo, trade, leaving, voided
    <3> QED BY <1>3, <3>1, <3>2 DEF RunTypes
  <2>3. CASE pending # NoTrade /\ (trade = NoTrade \/ (leaving /\ ~captured))
    <3>1. kept = NoTrade /\ outcomes' = outcomes /\ voidedTo = discarded \cup {pending.signal}
      BY <1>2, <1>4, <2>3
    <3>2. RunFits(NoTrade, outcomes, open \ {pending.signal}, replayed + 1, series)
      BY <1>3, <2>3, OpenDropped
    <3>3. actedOn \ voidedTo = open \ {pending.signal} /\ voidedTo \subseteq actedOn
      <4> HIDE DEF kept, voidedTo, trade, leaving, voided
      <4> QED BY <1>3, <1>5, <2>3, <3>1 DEF RunTypes
    <3> HIDE DEF kept, voidedTo, trade, leaving, voided
    <3> QED BY <3>1, <3>2, <3>3
  <2>4. CASE pending = NoTrade
    <3>1. kept = NoTrade /\ outcomes' = outcomes /\ voidedTo = discarded
      BY <1>2, <1>4, <2>4
    <3>2. RunFits(NoTrade, outcomes, open, replayed + 1, series)
      BY <1>3, <2>4, OpenStays
    <3> HIDE DEF kept, voidedTo, trade, leaving, voided
    <3> QED BY <1>3, <3>1, <3>2 DEF RunTypes
  <2> HIDE DEF kept, voidedTo
  <2> QED BY <1>4, <2>1, <2>2, <2>3, <2>4
<1> HIDE DEF kept, voidedTo, trade, leaving, voided
<1>7. actedOn \subseteq 1 .. replayed /\ replayed' = i /\ series' = series /\ runState' = "running"
      /\ discarded' = voidedTo \cup Unfilled(i)
  BY <1>2, <1>3 DEF RunTypes
<1>8. CASE direction = "none" \/ kept # NoTrade
  <2>1. pending' = kept /\ actedOn' = actedOn
    BY <1>2, <1>8 DEF Accepted, MayAccept
  <2>2. Unfilled(i) = {}
    BY <1>3, <1>7, <2>1 DEF Unfilled
  <2>3. actedOn' \subseteq actedOn \cup {i} /\ discarded' \subseteq actedOn'
    BY ONLY <1>6, <1>7, <2>1, <2>2
  <2>4. RunTypes'
    BY ONLY <1>3, <1>7, <2>3, TypesGoOn
  <2> QED BY <1>6, <1>7, <2>1, <2>2, <2>4 DEF RunInv
<1>9. CASE direction # "none" /\ kept = NoTrade
  <2>1. actedOn' = actedOn \cup {i} /\ pending' = TradeOf(i, direction) /\ direction \in Directions
    BY <1>2, <1>9 DEF Accepted, MayAccept, Directions
  <2>2. i \notin actedOn /\ i \in Nat \ {0} /\ actedOn \ voidedTo \subseteq Nat \ {0}
    <3>1. \A k \in 1 .. replayed : k \in Nat \ {0} /\ k # i
      BY <1>3
    <3> HIDE DEF i
    <3>2. i \in Nat \ {0}
      BY <1>3 DEF i
    <3> QED BY <1>7, <3>1, <3>2
  <2>3. CASE pending' = NoTrade
    <3>1. Unfilled(i) = {i}
      BY <2>1, <2>2, <2>3 DEF Unfilled, NoTrade
    <3>2. actedOn' \ discarded' = actedOn \ voidedTo /\ discarded' = voidedTo \cup {i}
      BY <1>6, <1>7, <2>1, <2>2, <3>1
    <3>3. actedOn' \subseteq actedOn \cup {i} /\ discarded' \subseteq actedOn'
      BY ONLY <1>6, <2>1, <3>2
    <3>4. RunTypes'
      BY ONLY <1>3, <1>7, <3>3, TypesGoOn
    <3> QED BY <1>6, <1>7, <1>9, <2>3, <3>2, <3>4 DEF RunInv
  <2>4. CASE pending' # NoTrade
    <3>1. IsTrade(TradeOf(i, direction), series) /\ TradeOf(i, direction).signal = i
      BY <1>3, <2>1, <2>4, TradeIs
    <3>2. Unfilled(i) = {}
      BY <2>1, <3>1 DEF Unfilled
    <3>3. PICK t : t = TradeOf(i, direction)
      OBVIOUS
    <3>4. PICK outs : outs = outcomes'
      OBVIOUS
    <3>5. RunFits(t, outs, (actedOn \ voidedTo) \cup {i}, i, series)
      BY <1>6, <1>9, <2>2, <3>1, <3>3, <3>4, Opened
    <3>6. actedOn' \ discarded' = (actedOn \ voidedTo) \cup {i} /\ discarded' = voidedTo
      BY <1>6, <1>7, <2>1, <2>2, <3>2
    <3>7. actedOn' \subseteq actedOn \cup {i} /\ discarded' \subseteq actedOn'
      BY ONLY <1>6, <2>1, <3>6
    <3>8. RunTypes'
      BY ONLY <1>3, <1>7, <3>7, TypesGoOn
    <3> QED BY <1>7, <2>1, <3>3, <3>4, <3>5, <3>6, <3>8 DEF RunInv
  <2> QED BY <2>3, <2>4
<1> QED BY <1>8, <1>9

LEMMA RunStep == RunInv /\ [RunNext]_runVars => RunInv'
<1> SUFFICES ASSUME RunInv, [RunNext]_runVars PROVE RunInv'
  OBVIOUS
<1>1. CASE BeginRun
  <2>1. /\ replayed = 0 /\ actedOn = {} /\ discarded = {} /\ series' \in Seq(ReplayedCandle)
        /\ runState' \in {"raised", "running"} /\ UNCHANGED <<replayed, pending, outcomes, discarded, actedOn>>
    BY <1>1, SeriesAssumption DEF BeginRun, RunInv, RunTypes
  <2>2. pending = NoTrade /\ Len(outcomes) = 0 /\ outcomes \in Seq(TradeRecord)
    <3>1. RunFits(pending, outcomes, {}, 0, series)
      BY <2>1 DEF RunInv
    <3>2. pending = NoTrade
      BY <3>1 DEF RunFits, OpenFits
    <3>3. Len(outcomes) \in Nat /\ 1 \notin 1 .. Len(outcomes)
      BY <3>1 DEF RunFits, EachFits
    <3> QED BY <3>1, <3>2, <3>3 DEF RunFits
  <2>3. outcomes = <<>>
    BY <2>2
  <2>4. RunFits(NoTrade, <<>>, {}, 0, series')
    BY NoFits
  <2>5. RunTypes'
    BY <2>1 DEF RunTypes
  <2> QED BY <2>1, <2>2, <2>3, <2>4, <2>5 DEF RunInv
<1>2. CASE ReplayCandle
  BY <1>2, ReplayCandleKeeps
<1>3. CASE RunRaises \/ EndRun
  <2>1. UNCHANGED <<series, replayed, pending, outcomes, discarded, actedOn>> /\ runState' \in {"done", "raised"}
    BY <1>3 DEF RunRaises, EndRun
  <2> QED BY <2>1 DEF RunInv, RunTypes
<1>4. CASE UNCHANGED runVars
  BY <1>4 DEF runVars, RunInv, RunTypes
<1> QED BY <1>1, <1>2, <1>3, <1>4 DEF RunNext

LEMMA RunsAreTrue == RunInv => RunTypeOK /\ SignalsSettled /\ TradesFollow /\ ExitsCautious
<1> SUFFICES ASSUME RunInv PROVE RunTypeOK /\ SignalsSettled /\ TradesFollow /\ ExitsCautious
  OBVIOUS
<1> DEFINE open == actedOn \ discarded
<1>1. /\ RunTypes /\ RunFits(pending, outcomes, open, replayed, series) /\ outcomes \in Seq(TradeRecord)
      /\ OpenFits(pending, outcomes, open, replayed, series) /\ EachFits(outcomes, open, replayed, series)
      /\ InTurn(outcomes) /\ SignalsDiffer(outcomes) /\ AllSettled(pending, outcomes, open)
      /\ replayed \in Nat /\ Len(outcomes) \in Nat /\ DOMAIN outcomes = 1 .. Len(outcomes)
  BY DEF RunInv, RunFits, RunTypes
<1>2. RunTypeOK
  BY <1>1 DEF RunTypes, RunTypeOK
<1>3. \A k \in 1 .. Len(outcomes) :
        /\ IsTrade(outcomes[k], series) /\ outcomes[k].exit.at <= replayed /\ Risk(outcomes[k]) # 0
        /\ outcomes[k].signal \in open
  BY <1>1 DEF EachFits
<1>4. SignalsSettled
  <2>1. Signals(outcomes) \subseteq open
    BY <1>3 DEF Signals
  <2>2. pending.signal # 0 => pending.signal \in open
    BY <1>1 DEF OpenFits, NoTrade
  <2>3. 0 \notin actedOn /\ discarded \subseteq actedOn
    BY <1>1 DEF RunTypes
  <2>4. \A s \in open : s \in Signals(outcomes) \/ s = pending.signal
    BY <1>1 DEF AllSettled
  <2>5. Signals(outcomes) \cup discarded \cup ({pending.signal} \ {0}) = actedOn
    BY <2>1, <2>2, <2>3, <2>4
  <2>6. replayed = Len(series) => pending = NoTrade
    <3>1. pending # NoTrade => pending.exit.at \in Nat /\ replayed < pending.exit.at /\ pending.exit.at <= Len(series)
      BY <1>1, TradeTyped DEF OpenFits, IsTrade
    <3>2. Len(series) \in Nat
      BY <1>1 DEF RunTypes
    <3> QED BY <1>1, <3>1, <3>2
  <2>7. Cardinality(Signals(outcomes)) = Len(outcomes) /\ Signals(outcomes) \cap discarded = {}
    BY <1>1, <2>1 DEF SignalsDiffer
  <2>8. Signals(outcomes) = {outcomes[k].signal : k \in DOMAIN outcomes}
    BY <1>1 DEF Signals
  <2> QED BY <2>5, <2>6, <2>7, <2>8 DEF SignalsSettled
<1>5. TradesFollow
  <2>1. \A k \in 1 .. Len(outcomes) :
          /\ outcomes[k].signal < outcomes[k].entry /\ outcomes[k].entry < outcomes[k].exit.at
          /\ outcomes[k].exit.at <= replayed
          /\ series[outcomes[k].entry].day = series[outcomes[k].exit.at].day
    <3>1. ASSUME NEW t, IsTrade(t, series)
          PROVE  t.signal < t.entry /\ t.entry < t.exit.at /\ series[t.entry].day = series[t.exit.at].day
      BY <3>1, TradeTyped DEF IsTrade
    <3> QED BY <1>3, <3>1
  <2>2. \A k \in 1 .. Len(outcomes) - 1 : outcomes[k].exit.at <= outcomes[k + 1].signal
    <3>1. \A k \in 1 .. Len(outcomes) - 1 : k + 1 \in 1 .. Len(outcomes) /\ k \in 1 .. (k + 1) - 1
      BY <1>1
    <3> QED BY <1>1, <3>1 DEF InTurn
  <2> QED BY <1>1, <2>1, <2>2 DEF TradesFollow
<1>6. ExitsCautious
  <2>1. ASSUME NEW k \in 1 .. Len(outcomes), NEW t, t = outcomes[k]
        PROVE  LET during == t.entry + 1 .. t.exit.at
                   between == t.price > LowLevel /\ t.price < HighLevel
               IN /\ \A i \in during :
                       StopTouched(t.direction, series[i]) => i = t.exit.at /\ t.exit.reason = "stop"
                  /\ \A i \in during :
                       TargetTouched(t.direction, series[i]) => i = t.exit.at /\ t.exit.reason # "eod_flatten"
                  /\ \A i \in during : series[i].late => i = t.exit.at
                  /\ t.exit.reason = "stop" /\ between => Profit(t) < 0
                  /\ t.exit.reason = "target" /\ between => Profit(t) > 0
                  /\ Risk(t) # 0
    <3>1. IsTrade(t, series) /\ Risk(t) # 0
      BY <1>3, <2>1
    <3>2. /\ t.direction \in Directions /\ t.price \in Int /\ t.entry \in Nat /\ t.exit.at \in Nat
          /\ t.exit.reason = ReasonAt(t.direction, series[t.exit.at])
          /\ t.exit.price = PriceAt(t.direction, series[t.exit.at])
          /\ \A i \in t.entry + 1 .. t.exit.at - 1 : ReasonAt(t.direction, series[i]) = "none"
      BY <3>1, TradeTyped DEF IsTrade, TradeRecord
    <3>3. \A i \in t.entry + 1 .. t.exit.at : i = t.exit.at \/ i \in t.entry + 1 .. t.exit.at - 1
      BY <3>2
    <3>4. ASSUME NEW i \in t.entry + 1 .. t.exit.at
          PROVE  /\ StopTouched(t.direction, series[i]) => i = t.exit.at /\ t.exit.reason = "stop"
                 /\ TargetTouched(t.direction, series[i]) => i = t.exit.at /\ t.exit.reason # "eod_flatten"
                 /\ series[i].late => i = t.exit.at
      <4>1. CASE i = t.exit.at
        BY <3>2, <4>1 DEF ReasonAt
      <4>2. CASE i \in t.entry + 1 .. t.exit.at - 1
        BY <3>2, <4>2 DEF ReasonAt
      <4> QED BY <3>3, <4>1, <4>2
    <3>5. t.price > LowLevel /\ t.price < HighLevel =>
            /\ t.exit.reason = "stop" => Profit(t) < 0
            /\ t.exit.reason = "target" => Profit(t) > 0
      BY <3>2, SeriesAssumption DEF PriceAt, Profit, Stop, TargetOf, Directions
    <3> QED BY <3>1, <3>4, <3>5
  <2> QED BY <1>1, <2>1 DEF ExitsCautious
<1> QED BY <1>2, <1>4, <1>5, <1>6

---------------------------------------------------------------------------
(* The pipeline of a backtest                                              *)

Event(what) == <<[what |-> what, candle |-> advance.candle]>>
Earlier == advance.candle - 1

(* How far the features of the candle are; nothing else has begun.         *)
OnItsWay ==
  /\ advance.candle > 0 /\ newest = Earlier /\ previous = Earlier
  /\ got.features = Earlier /\ got.state = Earlier
  /\ levelQueue = <<>> /\ stateQueue = 0 /\ held = FALSE /\ computing = 0
  /\ (faulty = FALSE) => levelsAt = Earlier
Sent == OnItsWay /\ onLane = Event("candle") /\ featureQueue = <<>>
Waiting == OnItsWay /\ onLane = <<>> /\ featureQueue = <<advance.candle>>
Made == OnItsWay /\ onLane = Event("features") /\ featureQueue = <<>>
NotMade == OnItsWay /\ onLane = <<>> /\ featureQueue = <<>> /\ faulty = TRUE

(* How far its levels and its state are, once the features are handed out. *)
LevelsDone == levelQueue = <<>> /\ ((faulty = FALSE) => levelsAt = advance.candle)
Featured ==
  /\ newest = advance.candle /\ featureQueue = <<>> /\ got.features = advance.candle
  /\ \/ LevelsDone
     \/ levelQueue = <<advance.candle>> /\ advance.at \in {"bus", "features", "bus2", "levels"}

Stateless == advance.candle > 0 /\ got.state = Earlier
IsHeld == Stateless /\ held = TRUE /\ stateQueue = 0 /\ computing = 0 /\ onLane = <<>> /\ previous = Earlier
Woken == Stateless /\ held = FALSE /\ stateQueue = 1 /\ computing = 0 /\ onLane = <<>> /\ previous = Earlier
Computes ==
  Stateless /\ held = FALSE /\ stateQueue = 1 /\ computing = advance.candle /\ onLane = <<>>
  /\ previous = advance.candle
StateTold ==
  Stateless /\ held = FALSE /\ stateQueue = 0 /\ computing = 0 /\ onLane = Event("state")
  /\ previous = advance.candle
NotWritten ==
  Stateless /\ held = FALSE /\ stateQueue = 0 /\ computing = 0 /\ onLane = <<>>
  /\ previous = advance.candle /\ faulty = TRUE
Settled ==
  /\ held = FALSE /\ stateQueue = 0 /\ computing = 0 /\ onLane = <<>>
  /\ got.state = advance.candle /\ previous = advance.candle

(* Where advance_to is tells how far the candle must be.                   *)
ToSettle == {"bus", "features", "bus2", "levels", "settle"}
Progress ==
  \/ Sent /\ advance.at = "bus"
  \/ Waiting /\ advance.at \in {"bus", "features"}
  \/ Made /\ advance.at \in {"bus", "features", "bus2"}
  \/ NotMade /\ advance.at # "returned"
  \/ Featured /\ IsHeld /\ advance.at \in ToSettle
  \/ Featured /\ Woken /\ advance.at \in ToSettle \cup {"states"}
  \/ Featured /\ Computes /\ advance.at \in ToSettle \cup {"states"}
  \/ Featured /\ StateTold /\ advance.at \in ToSettle \cup {"states", "bus3"}
  \/ Featured /\ NotWritten /\ advance.at # "returned"
  \/ Featured /\ Settled /\ advance.at # "raised" /\ (advance.at = "returned" \/ advance.candle > 0)

PipelineInv ==
  /\ PipelineTypeOK /\ delayed = held
  /\ accelerationFrom \in [1 .. LastReplayed -> Replayed]
  /\ \A c \in 1 .. previous : accelerationFrom[c] = c - 1
  /\ Progress

LEMMA PipelineStart == PipelineInit => PipelineInv
<1> SUFFICES ASSUME PipelineInit PROVE PipelineInv
  OBVIOUS
<1> USE PipelineAssumption DEF PipelineInit
<1>1. PipelineTypeOK
  <2>1. 0 \in Replayed
    BY DEF Replayed
  <2>2. faulty \in BOOLEAN
    OBVIOUS
  <2>3. held \in BOOLEAN
    OBVIOUS
  <2>4. delayed \in BOOLEAN
    OBVIOUS
  <2> QED BY <2>1, <2>2, <2>3, <2>4 DEF PipelineTypeOK
<1>2. Progress
  BY DEF Progress, Featured, LevelsDone, Settled
<1>3. accelerationFrom \in [1 .. LastReplayed -> Replayed] /\ \A c \in 1 .. previous : accelerationFrom[c] = c - 1
  BY DEF Replayed
<1> QED BY <1>1, <1>2, <1>3 DEF PipelineInv

LEMMA OneInLine ==
  ASSUME NEW x
  PROVE  Head(<<x>>) = x /\ Tail(<<x>>) = <<>> /\ Append(<<>>, x) = <<x>> /\ <<x>> # <<>>
OBVIOUS

(* The bus                                                                 *)
LEMMA LaneProgress ==
  ASSUME PipelineInv, LaneDispatches
  PROVE  Progress'
<1> USE PipelineAssumption DEF LaneDispatches
<1>1. advance' = advance /\ computing' = computing /\ previous' = previous /\ levelsAt' = levelsAt /\ faulty' = faulty
  OBVIOUS
<1>2. CASE Sent /\ advance.at = "bus"
  <2>1. Head(onLane) = [what |-> "candle", candle |-> advance.candle] /\ onLane' = <<>>
    BY <1>2, OneInLine DEF Sent, Event
  <2>2. featureQueue' = <<advance.candle>> /\ UNCHANGED <<got, newest, levelQueue, stateQueue, held, delayed>>
    BY <1>2, <2>1, OneInLine DEF Sent
  <2>3. Waiting'
    BY <1>1, <1>2, <2>1, <2>2 DEF Sent, Waiting, OnItsWay, Earlier
  <2> QED BY <1>1, <1>2, <2>3 DEF Progress
<1>3. CASE Made /\ advance.at \in {"bus", "features", "bus2"}
  <2>1. Head(onLane) = [what |-> "features", candle |-> advance.candle] /\ onLane' = <<>>
    BY <1>3, OneInLine DEF Made, Event
  <2>2. FeaturesDispatched(advance.candle)
    BY <2>1
  <2>3. got'.features = advance.candle /\ got'.state = Earlier
    BY <1>3, <2>2 DEF FeaturesDispatched, Made, OnItsWay, PipelineInv, PipelineTypeOK
  <2>4. newest' = advance.candle /\ levelQueue' = <<advance.candle>> /\ featureQueue' = <<>>
    BY <1>3, <2>2, OneInLine DEF FeaturesDispatched, Made, OnItsWay
  <2>5. (stateQueue' = 1 /\ held' = FALSE) \/ (stateQueue' = 0 /\ held' = TRUE)
    BY <1>3, <2>2 DEF FeaturesDispatched, Made, OnItsWay
  <2>6. Featured'
    BY <1>1, <1>3, <2>3, <2>4 DEF Featured
  <2>7. (Woken \/ IsHeld)'
    BY <1>1, <1>3, <2>1, <2>3, <2>5 DEF Woken, IsHeld, Stateless, Made, OnItsWay, Earlier
  <2> QED BY <1>1, <1>3, <2>6, <2>7 DEF Progress, ToSettle
<1>4. CASE Featured /\ StateTold /\ advance.at \in ToSettle \cup {"states", "bus3"}
  <2>1. Head(onLane) = [what |-> "state", candle |-> advance.candle] /\ onLane' = <<>>
    BY <1>4, OneInLine DEF StateTold, Event
  <2>2. got' = [got EXCEPT !.state = advance.candle] /\ UNCHANGED <<featureQueue, newest, levelQueue, stateQueue, held, delayed>>
    BY <2>1
  <2>3. got'.state = advance.candle /\ got'.features = got.features
    BY <2>2 DEF PipelineInv, PipelineTypeOK
  <2>4. Featured'
    BY <1>1, <1>4, <2>2, <2>3 DEF Featured, LevelsDone
  <2>5. Settled'
    BY <1>1, <1>4, <2>1, <2>2, <2>3 DEF Settled, StateTold
  <2> QED BY <1>1, <1>4, <2>4, <2>5 DEF Progress, ToSettle, StateTold, Stateless
<1> QED
  <2>1. Progress /\ onLane # <<>>
    BY DEF PipelineInv
  <2> QED BY <1>2, <1>3, <1>4, <2>1 DEF Progress, Waiting, NotMade, IsHeld, Woken, Computes, NotWritten, Settled

LEMMA FeatureProgress ==
  ASSUME PipelineInv, FeatureWorks
  PROVE  Progress'
<1> USE PipelineAssumption DEF FeatureWorks
<1>1. /\ advance' = advance /\ computing' = computing /\ previous' = previous /\ levelsAt' = levelsAt
      /\ UNCHANGED <<levelQueue, stateQueue, held, newest, got>>
  OBVIOUS
<1>2. CASE Waiting /\ advance.at \in {"bus", "features"}
  <2>1. Head(featureQueue) = advance.candle /\ featureQueue' = <<>> /\ onLane = <<>>
    BY <1>2, OneInLine DEF Waiting
  <2>2. CASE Works /\ onLane' = Goes("features", Head(featureQueue))
    <3>1. onLane' = Event("features") /\ faulty' = faulty
      BY <2>1, <2>2, <1>1, OneInLine DEF Goes, Event, Works
    <3>2. Made'
      BY <1>1, <1>2, <2>1, <3>1 DEF Made, Waiting, OnItsWay, Earlier, Event
    <3> QED BY <1>1, <1>2, <3>2 DEF Progress
  <2>3. CASE Fails /\ UNCHANGED onLane
    <3>1. NotMade'
      BY <1>1, <1>2, <2>1, <2>3 DEF NotMade, Waiting, OnItsWay, Earlier, Fails
    <3> QED BY <1>1, <1>2, <3>1 DEF Progress
  <2> QED BY <2>2, <2>3
<1> QED
  <2>1. Progress /\ featureQueue # <<>>
    BY DEF PipelineInv
  <2> QED BY <1>2, <2>1 DEF Progress, Sent, Made, NotMade, Featured

LEMMA LevelProgress ==
  ASSUME PipelineInv, LevelWorks
  PROVE  Progress'
<1> USE PipelineAssumption DEF LevelWorks
<1>1. /\ advance' = advance /\ computing' = computing /\ previous' = previous
      /\ UNCHANGED <<onLane, featureQueue, stateQueue, held, newest, got>>
  OBVIOUS
<1>2. Progress /\ levelQueue # <<>>
  BY DEF PipelineInv
<1>3. Featured
  BY <1>2 DEF Progress, Sent, Waiting, Made, NotMade, OnItsWay
<1>4. levelQueue = <<advance.candle>>
  BY <1>2, <1>3 DEF Featured, LevelsDone
<1>5. /\ (faulty = TRUE) => (faulty' = TRUE)
      /\ levelQueue' = <<>> /\ Head(levelQueue) = advance.candle
      /\ (faulty' = FALSE) => (levelsAt' = advance.candle)
  BY <1>4, OneInLine DEF Works, Fails
<1>6. LevelsDone' /\ Featured'
  BY <1>1, <1>3, <1>5 DEF LevelsDone, Featured
<1>7. (IsHeld => IsHeld') /\ (Woken => Woken') /\ (Computes => Computes') /\ (StateTold => StateTold')
  BY <1>1 DEF IsHeld, Woken, Computes, StateTold, Stateless, Earlier, Event
<1>8. (NotWritten => NotWritten') /\ (Settled => Settled')
  BY <1>1, <1>5 DEF NotWritten, Settled, Stateless, Earlier
<1> HIDE DEF LevelWorks
<1> QED BY <1>1, <1>2, <1>4, <1>6, <1>7, <1>8, OneInLine DEF Progress, Sent, Waiting, Made, NotMade, OnItsWay

(* The market state                                                        *)
LEMMA DelayedProgress ==
  ASSUME PipelineInv, DelayedRun
  PROVE  Progress'
<1> USE PipelineAssumption DEF DelayedRun
<1>1. Progress /\ held = TRUE
  BY DEF PipelineInv
<1>2. Featured /\ IsHeld /\ advance.at \in ToSettle
  BY <1>1 DEF Progress, Sent, Waiting, Made, NotMade, OnItsWay, Woken, Computes, StateTold, NotWritten, Settled
<1>3. stateQueue' = 1 /\ held' = FALSE
  BY <1>1, <1>2 DEF IsHeld
<1>4. Featured' /\ Woken'
  BY <1>2, <1>3 DEF Featured, LevelsDone, Woken, IsHeld, Stateless, Earlier
<1> QED BY <1>2, <1>4 DEF Progress

LEMMA ComputeProgress ==
  ASSUME PipelineInv, StateComputed
  PROVE  Progress' /\ newest = previous + 1 /\ newest = advance.candle /\ newest > 0
<1> USE PipelineAssumption DEF StateComputed
<1>1. Progress /\ advance.candle \in Nat /\ previous \in Nat
  BY DEF PipelineInv, PipelineTypeOK, Replayed
<1>2. Featured /\ Woken /\ advance.at \in ToSettle \cup {"states"}
  BY <1>1 DEF Progress, Sent, Waiting, Made, NotMade, OnItsWay, IsHeld, Computes, StateTold, NotWritten, Settled,
     Stateless
<1>3. Featured' /\ Computes' /\ newest = previous + 1 /\ newest = advance.candle /\ newest > 0
  BY <1>1, <1>2 DEF Featured, LevelsDone, Woken, Computes, Stateless, Earlier
<1> QED BY <1>2, <1>3 DEF Progress

LEMMA PersistProgress ==
  ASSUME PipelineInv, StatePersisted
  PROVE  Progress'
<1> USE PipelineAssumption DEF StatePersisted
<1>1. Progress
  BY DEF PipelineInv
<1>2. Featured /\ Computes /\ advance.at \in ToSettle \cup {"states"}
  BY <1>1 DEF Progress, Sent, Waiting, Made, NotMade, OnItsWay, IsHeld, Woken, StateTold, NotWritten, Settled
<1>3. onLane = <<>> /\ stateQueue' = 0 /\ computing' = 0 /\ ((faulty = TRUE) => (faulty' = TRUE)) /\ advance' = advance
  BY <1>2 DEF Computes, Works, Fails
<1>4. Featured'
  <2>1. (faulty' = FALSE) => (faulty = FALSE)
    BY DEF Works, Fails
  <2> QED BY <1>2, <2>1 DEF Featured, LevelsDone
<1>5. CASE Works /\ onLane' = Goes("state", computing)
  <2>1. onLane' = Event("state")'
    BY <1>2, <1>3, <1>5, OneInLine DEF Goes, Event, Computes
  <2>2. StateTold'
    BY <1>2, <1>3, <2>1 DEF StateTold, Computes, Stateless, Earlier
  <2> QED BY <1>2, <1>3, <1>4, <2>2 DEF Progress
<1>6. CASE Fails /\ UNCHANGED onLane
  <2>1. NotWritten'
    BY <1>2, <1>3, <1>6 DEF NotWritten, Computes, Stateless, Earlier, Fails
  <2> QED BY <1>2, <1>3, <1>4, <2>1 DEF Progress, ToSettle
<1> QED BY <1>5, <1>6

(* advance_to                                                              *)
LEMMA PublishProgress ==
  ASSUME PipelineInv, PublishCandle
  PROVE  Progress'
<1> USE PipelineAssumption DEF PublishCandle
<1>1. Progress /\ advance.candle \in Nat
  BY DEF PipelineInv, PipelineTypeOK, Replayed
<1>2. Featured /\ Settled /\ LevelsDone
  BY <1>1 DEF Progress, ToSettle, Featured
<1>3. advance'.candle = advance.candle + 1 /\ advance'.at = "bus" /\ onLane' = Event("candle")'
  BY <1>2, OneInLine DEF Goes, Event, Settled
<1>4. Sent'
  BY <1>1, <1>2, <1>3 DEF Sent, OnItsWay, Earlier, Featured, Settled, LevelsDone
<1> QED BY <1>3, <1>4 DEF Progress

LEMMA WaitProgress ==
  ASSUME PipelineInv,
         \/ WaitOver("bus", "features") \/ WaitOver("features", "bus2") \/ WaitOver("bus2", "levels")
         \/ WaitOver("levels", "settle") \/ WaitOver("states", "bus3") \/ WaitOver("bus3", "check")
  PROVE  Progress' /\ advance'.candle = advance.candle
<1> DEFINE at == advance.at
           then == advance'.at
<1>1. \/ at = "bus" /\ then = "features" /\ onLane = <<>>
      \/ at = "features" /\ then = "bus2" /\ featureQueue = <<>>
      \/ at = "bus2" /\ then = "levels" /\ onLane = <<>>
      \/ at = "levels" /\ then = "settle" /\ levelQueue = <<>>
      \/ at = "states" /\ then = "bus3" /\ stateQueue = 0
      \/ at = "bus3" /\ then = "check" /\ onLane = <<>>
  BY DEF WaitOver, Waits, Then, PipelineInv, PipelineTypeOK
<1>2. /\ advance'.candle = advance.candle
      /\ UNCHANGED <<onLane, featureQueue, levelQueue, stateQueue, held, newest, previous, computing,
                     got, levelsAt, faulty>>
  BY DEF WaitOver, Then, PipelineInv, PipelineTypeOK
<1>3. /\ (Waiting => Waiting') /\ (Made => Made') /\ (NotMade => NotMade')
      /\ (IsHeld => IsHeld') /\ (Woken => Woken') /\ (Computes => Computes') /\ (StateTold => StateTold')
      /\ (NotWritten => NotWritten') /\ (Settled => Settled') /\ (LevelsDone => LevelsDone')
  BY <1>2 DEF Waiting, Made, NotMade, OnItsWay, IsHeld, Woken, Computes, StateTold, NotWritten, Settled,
     Stateless, LevelsDone, Event, Earlier
<1>4. Featured => Featured'
  <2>1. SUFFICES ASSUME Featured PROVE Featured'
    OBVIOUS
  <2>2. newest' = advance'.candle /\ featureQueue' = <<>> /\ got'.features = advance'.candle
    BY ONLY <1>2, <2>1 DEF Featured
  <2>3. CASE LevelsDone
    BY ONLY <1>3, <2>2, <2>3 DEF Featured
  <2>4. CASE levelQueue = <<advance.candle>> /\ at \in {"bus", "features", "bus2", "levels"}
    <3>1. levelQueue # <<>>
      BY ONLY <2>4
    <3>2. then \in {"features", "bus2", "levels"}
      BY ONLY <1>1, <2>4, <3>1
    <3> QED BY ONLY <1>2, <2>2, <2>4, <3>2 DEF Featured
  <2> QED BY ONLY <2>1, <2>3, <2>4 DEF Featured
<1>5. Progress
  BY DEF PipelineInv
<1>6. /\ (Sent \/ Made \/ StateTold) => onLane # <<>>
      /\ Waiting => featureQueue # <<>>
      /\ (Woken \/ Computes) => stateQueue # 0
  BY OneInLine DEF Sent, Made, StateTold, Waiting, Woken, Computes, Event
<1> HIDE DEF at, then
<1>7. Progress'
  <2> DEFINE A == advance.at
  <2> QED BY <1>1, <1>2, <1>3, <1>4, <1>5, <1>6 DEF Progress, ToSettle, at, then
<1> QED BY <1>2, <1>7

LEMMA SettleProgress ==
  ASSUME PipelineInv, SettleReplay
  PROVE  Progress'
<1> USE PipelineAssumption DEF SettleReplay
<1>1. Progress /\ advance.candle \in Nat
  BY DEF PipelineInv, PipelineTypeOK, Replayed
<1>2. /\ advance'.candle = advance.candle /\ advance'.at = IF newest = 0 THEN "raised" ELSE "states"
      /\ UNCHANGED <<onLane, featureQueue, levelQueue, newest, previous, computing, got, levelsAt, faulty>>
  BY DEF Then, PipelineInv, PipelineTypeOK
<1>3. CASE NotMade
  <2>1. stateQueue' = stateQueue /\ held' = FALSE
    BY <1>3 DEF NotMade, OnItsWay, RunsHeld
  <2>2. NotMade'
    BY <1>2, <1>3, <2>1 DEF NotMade, OnItsWay, Earlier
  <2> QED BY <1>2, <2>2 DEF Progress
<1>4. CASE Featured /\ advance.candle > 0
  <2>1. newest # 0 /\ LevelsDone /\ advance'.at = "states"
    BY <1>2, <1>4 DEF Featured
  <2>2. Featured'
    BY <1>2, <1>4, <2>1 DEF Featured, LevelsDone
  <2>3. CASE IsHeld
    <3>1. /\ stateQueue' = IF held THEN stateQueue + 1 ELSE stateQueue
          /\ held' = (held /\ ~held)
      BY <2>1 DEF RunsHeld
    <3>3. held' = FALSE
      BY <3>1
    <3>4. stateQueue' = 1
      BY <2>3, <3>1 DEF IsHeld
    <3>2. Woken'
      BY <1>2, <2>3, <3>3, <3>4 DEF IsHeld, Woken, Stateless, Earlier
    <3> QED BY <2>1, <2>2, <3>2 DEF Progress
  <2>4. CASE Woken \/ Computes \/ StateTold \/ NotWritten \/ Settled
    <3>1. stateQueue' = stateQueue /\ held' = FALSE /\ held = FALSE
      BY <2>1, <2>4 DEF Woken, Computes, StateTold, NotWritten, Settled, RunsHeld
    <3>2. Woken' \/ Computes' \/ StateTold' \/ NotWritten' \/ Settled'
      BY <1>2, <2>4, <3>1 DEF Woken, Computes, StateTold, NotWritten, Settled, Stateless, Earlier, Event
    <3> QED BY <1>2, <1>4, <2>1, <2>2, <3>2 DEF Progress
  <2>5. ~NotMade
    BY <1>1, <1>4 DEF Featured, NotMade, OnItsWay, Earlier
  <2>6. IsHeld \/ Woken \/ Computes \/ StateTold \/ NotWritten \/ Settled
    BY <1>1, <2>5 DEF Progress
  <2> QED BY <2>3, <2>4, <2>6
<1> QED BY <1>1, <1>3, <1>4 DEF Progress, IsHeld, Woken, Computes, StateTold, NotWritten, Stateless

LEMMA EndProgress ==
  ASSUME PipelineInv, AdvanceEnds
  PROVE  Progress'
<1> USE PipelineAssumption DEF AdvanceEnds
<1>1. Progress /\ advance.candle \in Nat
  BY DEF PipelineInv, PipelineTypeOK, Replayed
<1>2. /\ advance'.candle = advance.candle /\ advance'.at = IF OfThisCandle THEN "returned" ELSE "raised"
      /\ UNCHANGED <<onLane, featureQueue, levelQueue, stateQueue, held, newest, previous, computing,
                     got, levelsAt, faulty>>
  BY DEF Then, PipelineInv, PipelineTypeOK
<1>3. CASE NotMade
  <2>1. ~OfThisCandle
    BY <1>1, <1>3 DEF NotMade, OnItsWay, OfThisCandle, Earlier
  <2>2. NotMade'
    BY <1>2, <1>3 DEF NotMade, OnItsWay, Earlier
  <2> QED BY <1>2, <2>1, <2>2 DEF Progress
<1>4. CASE Featured /\ NotWritten
  <2>1. ~OfThisCandle
    BY <1>1, <1>4 DEF NotWritten, Stateless, OfThisCandle, Earlier
  <2>2. Featured' /\ NotWritten'
    BY <1>2, <1>4 DEF Featured, LevelsDone, NotWritten, Stateless, Earlier
  <2> QED BY <1>2, <2>1, <2>2 DEF Progress
<1>5. CASE Featured /\ Settled
  <2>1. OfThisCandle
    BY <1>1, <1>5 DEF Featured, Settled, OfThisCandle
  <2>2. Featured' /\ Settled'
    BY <1>2, <1>5 DEF Featured, LevelsDone, Settled
  <2> QED BY <1>2, <2>1, <2>2 DEF Progress
<1> QED BY <1>1, <1>3, <1>4, <1>5 DEF Progress, ToSettle

LEMMA PipelineStep ==
  ASSUME PipelineInv, [PipelineNext]_pipelineVars
  PROVE  PipelineInv'
<1> USE PipelineAssumption
<1>1. /\ advance.candle \in Replayed /\ newest \in Replayed /\ previous \in Replayed /\ computing \in Replayed
      /\ got \in [features : Replayed, state : Replayed] /\ levelsAt \in Replayed /\ stateQueue \in Nat
      /\ delayed = held
  BY DEF PipelineInv, PipelineTypeOK
<1>2. ASSUME Progress', UNCHANGED <<accelerationFrom, previous>>, PipelineTypeOK', delayed' = held'
      PROVE  PipelineInv'
  BY <1>2 DEF PipelineInv
<1> USE DEF PipelineTypeOK
<1>3. PipelineTypeOK
  BY DEF PipelineInv
<1>4. CASE LaneDispatches
  <2>1. Progress' /\ onLane # <<>>
    BY <1>4, LaneProgress DEF LaneDispatches
  <2>2. \E c \in Replayed : Head(onLane).candle = c
    <3>1. Progress /\ onLane # <<>>
      BY <1>4 DEF PipelineInv, LaneDispatches
    <3>2. onLane = Event("candle") \/ onLane = Event("features") \/ onLane = Event("state")
      BY <3>1 DEF Progress, Sent, Waiting, Made, NotMade, IsHeld, Woken, Computes, StateTold, NotWritten, Settled
    <3> QED BY <1>1, <3>2, OneInLine DEF Event
  <2>3. CASE Head(onLane).what = "features" /\ FeaturesDispatched(Head(onLane).candle)
    <3>1. /\ got' \in [features : Replayed, state : Replayed] /\ newest' \in Replayed
          /\ \/ stateQueue' = stateQueue + 1 /\ held' = FALSE /\ delayed' = delayed
             \/ stateQueue' = stateQueue /\ held' = TRUE /\ delayed' = TRUE
      BY <1>1, <2>2, <2>3 DEF FeaturesDispatched
    <3>2. stateQueue' \in Nat
      BY <1>1, <3>1
    <3>3. (held = FALSE) => (delayed' = held')
      <4>1. delayed = held
        BY <1>1
      <4>2. (held' = FALSE /\ delayed' = delayed) \/ (held' = TRUE /\ delayed' = TRUE)
        BY <3>1
      <4>3. CASE held' = FALSE /\ delayed' = delayed
        <5>1. ASSUME held = FALSE PROVE held' = held
          BY ONLY <4>3, <5>1, Zenon
        <5> QED BY ONLY <4>1, <4>3, <5>1, Zenon
      <4>4. CASE held' = TRUE /\ delayed' = TRUE
        BY ONLY <4>4, Zenon
      <4> QED BY ONLY <4>2, <4>3, <4>4, Zenon
    <3>5. held' \in BOOLEAN /\ delayed' \in BOOLEAN
      BY <1>3, <3>1
    <3>6. PipelineTypeOK'
      BY <1>3, <1>4, <3>1, <3>2, <3>5 DEF LaneDispatches
    <3>7. Made
      <4>1. Progress /\ onLane # <<>> /\ Head(onLane).what = "features"
        BY <1>4, <2>3 DEF PipelineInv, LaneDispatches
      <4>2. onLane = Event("candle") \/ onLane = Event("features") \/ onLane = Event("state")
        BY <4>1 DEF Progress, Sent, Waiting, Made, NotMade, IsHeld, Woken, Computes, StateTold, NotWritten, Settled
      <4>3. onLane # Event("candle") /\ onLane # Event("state")
        BY <4>1, OneInLine DEF Event
      <4> QED BY <4>1, <4>3 DEF Progress, Sent, Waiting, NotMade, IsHeld, Woken, Computes, StateTold, NotWritten, Settled
    <3> QED BY <1>2, <1>4, <2>1, <3>3, <3>6, <3>7 DEF LaneDispatches, Made, OnItsWay
  <2>4. CASE Head(onLane).what # "features"
    <3>1. delayed' = held' /\ stateQueue' = stateQueue /\ newest' = newest /\ held' = held
      BY <1>1, <1>4, <2>4 DEF LaneDispatches
    <3>2. got' \in [features : Replayed, state : Replayed]
      BY <1>1, <1>4, <2>2, <2>4 DEF LaneDispatches
    <3>3. PipelineTypeOK'
      BY <1>3, <1>4, <3>1, <3>2 DEF LaneDispatches
    <3> QED BY <1>2, <1>4, <2>1, <3>1, <3>3 DEF LaneDispatches
  <2> QED BY <1>4, <2>3, <2>4 DEF LaneDispatches
<1>5. CASE FeatureWorks
  BY <1>2, <1>3, <1>5, FeatureProgress DEF FeatureWorks, Works, Fails, PipelineInv
<1>6. CASE LevelWorks
  <2>1. Head(levelQueue) \in Replayed
    <3>1. Progress /\ levelQueue # <<>>
      BY <1>6 DEF PipelineInv, LevelWorks
    <3>2. levelQueue = <<advance.candle>>
      BY <3>1 DEF Progress, Sent, Waiting, Made, NotMade, OnItsWay, Featured, LevelsDone
    <3> QED BY <1>1, <3>2, OneInLine
  <2>2. PipelineTypeOK' /\ delayed' = held'
    BY <1>1, <1>3, <1>6, <2>1 DEF LevelWorks, Works, Fails
  <2> QED BY <1>2, <1>6, <2>2, LevelProgress DEF LevelWorks
<1>7. CASE DelayedRun
  <2>1. delayed' = FALSE /\ held' = FALSE /\ stateQueue' \in Nat
    BY <1>1, <1>7 DEF DelayedRun
  <2>2. delayed' \in BOOLEAN /\ held' \in BOOLEAN /\ delayed' = held'
    BY <2>1
  <2>3. PipelineTypeOK'
    BY <1>3, <1>7, <2>1, <2>2 DEF DelayedRun
  <2> QED BY <1>2, <1>7, <2>2, <2>3, DelayedProgress DEF DelayedRun
<1>8. CASE StateComputed
  <2>1. Progress' /\ newest = previous + 1 /\ newest > 0
    BY <1>8, ComputeProgress
  <2>2. PipelineTypeOK' /\ delayed' = held'
    BY <1>1, <1>3, <1>8 DEF StateComputed
  <2>3. newest \in 1 .. LastReplayed
    BY <1>1, <2>1 DEF Replayed
  <2>4. /\ accelerationFrom' \in [1 .. LastReplayed -> Replayed]
        /\ \A c \in 1 .. previous' : accelerationFrom'[c] = c - 1
    BY <1>1, <1>8, <2>1, <2>3 DEF StateComputed, PipelineInv, Replayed
  <2> QED BY <2>1, <2>2, <2>4 DEF PipelineInv
<1>9. CASE StatePersisted
  <2>1. Progress' /\ stateQueue > 0
    <3>1. Progress
      BY DEF PipelineInv
    <3>2. Computes
      BY <1>9, <3>1 DEF StatePersisted, Progress, Sent, Waiting, Made, NotMade, OnItsWay, IsHeld, Woken, StateTold,
         NotWritten, Settled
    <3> QED BY <1>9, <3>2, PersistProgress DEF Computes
  <2>2. stateQueue' \in Nat /\ computing' \in Replayed /\ delayed' = held'
    BY <1>1, <1>9, <2>1, PipelineAssumption DEF StatePersisted, Replayed
  <2>3. faulty' \in BOOLEAN
    BY <1>3, <1>9 DEF StatePersisted, Works, Fails
  <2>4. PipelineTypeOK'
    BY <1>3, <1>9, <2>2, <2>3 DEF StatePersisted
  <2> QED BY <1>2, <1>9, <2>1, <2>2, <2>4 DEF StatePersisted
<1>10. CASE PublishCandle
  <2>1. advance.candle + 1 \in Replayed
    BY <1>1, <1>10 DEF PublishCandle, Replayed
  <2> QED BY <1>1, <1>2, <1>3, <1>10, <2>1, PublishProgress DEF PublishCandle
<1>11. ASSUME NEW at, NEW next \in {"features", "bus2", "levels", "settle", "bus3", "check"},
              WaitOver(at, next), Progress'
       PROVE  PipelineInv'
  BY <1>1, <1>2, <1>3, <1>11 DEF WaitOver, Then
<1>12. CASE \/ WaitOver("bus", "features") \/ WaitOver("features", "bus2") \/ WaitOver("bus2", "levels")
            \/ WaitOver("levels", "settle") \/ WaitOver("states", "bus3") \/ WaitOver("bus3", "check")
  <2>1. Progress'
    BY <1>12, WaitProgress
  <2> QED BY <1>11, <1>12, <2>1
<1>13. CASE SettleReplay
  <2>1. /\ stateQueue' \in Nat
        /\ \/ held' = held /\ delayed' = delayed
           \/ held' = (held /\ ~held) /\ delayed' = (delayed /\ held /\ ~held)
    BY <1>1, <1>13 DEF SettleReplay, RunsHeld
  <2>2. held' \in BOOLEAN /\ delayed' \in BOOLEAN /\ delayed' = held'
    BY <1>1, <1>3, <2>1
  <2>3. PipelineTypeOK'
    BY <1>3, <1>13, <2>1, <2>2 DEF SettleReplay, Then
  <2> QED BY <1>2, <1>13, <2>2, <2>3, SettleProgress DEF SettleReplay
<1>14. CASE AdvanceEnds
  BY <1>1, <1>2, <1>3, <1>14, EndProgress DEF AdvanceEnds, Then
<1>15. CASE UNCHANGED pipelineVars
  <2>1. Progress'
    BY <1>15 DEF pipelineVars, PipelineInv, Progress, Sent, Waiting, Made, NotMade, OnItsWay, Featured, LevelsDone,
       IsHeld, Woken, Computes, StateTold, NotWritten, Settled, Stateless, Event, Earlier
  <2> QED BY <1>1, <1>2, <1>3, <1>15, <2>1 DEF pipelineVars
<1> QED BY <1>4, <1>5, <1>6, <1>7, <1>8, <1>9, <1>10, <1>12, <1>13, <1>14, <1>15 DEF PipelineNext

LEMMA PipelineIsTrue ==
  ASSUME PipelineInv
  PROVE  PipelineTypeOK /\ ReplaySettled /\ RaisesForFaults /\ AccelerationFromPrevious
<1> USE DEF PipelineInv
<1>1. Progress /\ PipelineTypeOK
  OBVIOUS
<1>2. ReplaySettled
  BY <1>1 DEF Progress, ReplaySettled, ToSettle, Featured, LevelsDone, Settled
<1>3. RaisesForFaults
  BY <1>1 DEF Progress, RaisesForFaults, ToSettle, NotMade, NotWritten
<1> QED BY <1>1, <1>2, <1>3 DEF AccelerationFromPrevious

=============================================================================
