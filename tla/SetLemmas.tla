----------------------------- MODULE SetLemmas -----------------------------
(***************************************************************************)
(* Facts about finite sets of numbers and sums over them that the proofs   *)
(* of the components share.  Induction is done by way of a smallest        *)
(* counterexample, which the strict subset ordering has.                   *)
(***************************************************************************)
EXTENDS Integers, FiniteSets, FiniteSetsExt, FiniteSetTheorems, TLAPS

\* A nonempty set of finite sets has a minimal member.
LEMMA SmallestSet ==
    ASSUME NEW S, IsFiniteSet(S), NEW C \in SUBSET SUBSET S, C # {}
    PROVE  \E s \in C : \A t \in C : ~(t \subseteq s /\ t # s)
<1>1. C \subseteq FiniteSubsetsOf(S)
  BY FS_FiniteSubsetsOfFinite
<1>2. PICK s \in C : \A t \in C : ~(<<t, s>> \in StrictSubsetOrdering(S))
  BY <1>1, FS_StrictSubsetOrderingWellFounded, WFMin
<1>3. ASSUME NEW t \in C, t \subseteq s, t # s PROVE FALSE
  <2>1. <<t, s>> \in (SUBSET S) \X (SUBSET S)
    OBVIOUS
  <2>2. <<t, s>> \in StrictSubsetOrdering(S)
    BY <1>3, <2>1 DEF StrictSubsetOrdering
  <2>3. QED
    BY <1>2, <2>2
<1>4. QED
  BY <1>3

\* A nonempty set of numbers has a least element, and if it is bounded also a
\* greatest.
LEMMA LeastOf ==
    ASSUME NEW T \in SUBSET Nat, T # {}
    PROVE  \E x \in T : \A y \in T : x <= y
<1>1. PICK top \in T : TRUE
  OBVIOUS
<1> DEFINE upto == {1 .. y : y \in {z \in T : z <= top}}
<1>2. IsFiniteSet(1 .. top)
  BY FS_Interval
<1>3. upto \in SUBSET SUBSET (1 .. top) /\ upto # {}
  <2>1. \A y \in T : y <= top => 1 .. y \in SUBSET (1 .. top)
    OBVIOUS
  <2>2. 1 .. top \in upto
    OBVIOUS
  <2>3. QED
    BY <2>1, <2>2
<1>4. PICK b \in upto : \A c \in upto : ~(c \subseteq b /\ c # b)
  <2> DEFINE all == 1 .. top
  <2>1. IsFiniteSet(all) /\ upto \in SUBSET SUBSET all /\ upto # {}
    BY <1>2, <1>3
  <2> HIDE DEF upto, all
  <2>2. QED
    BY <2>1, SmallestSet
<1>5. PICK x \in T : x <= top /\ b = 1 .. x
  BY <1>4
<1>6. ASSUME NEW y \in T, y < x PROVE FALSE
  <2>1. 1 .. y \subseteq 1 .. x /\ y <= top
    BY <1>5, <1>6
  <2>2. x \in 1 .. x /\ x \notin 1 .. y
    BY <1>6
  <2>3. 1 .. y \in upto
    BY <2>1
  <2>4. QED
    BY <1>4, <1>5, <2>1, <2>2, <2>3
<1>7. QED
  BY <1>6

LEMMA GreatestOf ==
    ASSUME NEW n \in Nat, NEW T \in SUBSET (0 .. n), T # {}
    PROVE  \E x \in T : \A y \in T : y <= x
<1> DEFINE U == {n - y : y \in T}
<1>1. U \in SUBSET Nat /\ U # {}
  <2>1. \A y \in T : n - y \in Nat
    OBVIOUS
  <2>2. QED
    BY <2>1
<1>2. PICK u \in U : \A v \in U : u <= v
  BY <1>1, LeastOf
<1>3. PICK x \in T : u = n - x
  BY u \in U
<1>4. \A y \in T : n - x <= n - y
  BY <1>2, <1>3
<1>5. \A y \in T : y <= x
  BY <1>4
<1>6. QED
  BY <1>5

\* A set with at most one element has at most that cardinality.
LEMMA AtMostOne ==
    ASSUME NEW S, \A x, y \in S : x = y
    PROVE  Cardinality(S) <= 1
<1>1. CASE S = {}
  BY <1>1, FS_EmptySet
<1>2. CASE S # {}
  <2>1. PICK x \in S : TRUE
    BY <1>2
  <2>2. S = {x}
    BY <2>1
  <2>3. QED
    BY <2>2, FS_Singleton
<1>3. QED
  BY <1>1, <1>2

LEMMA MaxIs ==
    ASSUME NEW S \in SUBSET Int, NEW x \in S, \A y \in S : y <= x
    PROVE  Max(S) = x
<1>1. \A z \in S : (\A y \in S : z >= y) => z = x
  OBVIOUS
<1>2. \A y \in S : x >= y
  OBVIOUS
<1>3. QED
  BY <1>1, <1>2 DEF Max

LEMMA MaxOfTwo ==
    ASSUME NEW a \in Int, NEW b \in Int
    PROVE  Max({a, b}) = IF a <= b THEN b ELSE a
  BY DEF Max

LEMMA MinOfTwo ==
    ASSUME NEW a \in Int, NEW b \in Int
    PROVE  Min({a, b}) = IF a <= b THEN a ELSE b
  BY DEF Min

-----------------------------------------------------------------------------
(* The sum of f over a finite set, as MapThenSumSet computes it.           *)

SumOf(f, S) == MapThenSumSet(LAMBDA x : f[x], S)

Picked(s) == CHOOSE x \in s : TRUE

\* The functions on the subsets of t that satisfy the recursion of the sum.
PartialSums(f, t) ==
    {g \in [SUBSET t -> Nat] :
        \A u \in SUBSET t :
            g[u] = IF u = {} THEN 0 ELSE f[Picked(u)] + g[u \ {Picked(u)}]}

LEMMA SumsAgree ==
    ASSUME NEW S, IsFiniteSet(S), NEW f, \A x \in S : f[x] \in Nat,
           NEW t \in SUBSET S, NEW u \in SUBSET S, NEW g \in PartialSums(f, t), NEW h \in PartialSums(f, u),
           NEW v \in SUBSET t, v \subseteq u
    PROVE  g[v] = h[v]
<1> DEFINE differ == {s \in SUBSET v : g[s] # h[s]}
<1>1. SUFFICES ASSUME differ # {} PROVE FALSE
  OBVIOUS
<1>2. differ \in SUBSET SUBSET S
  OBVIOUS
<1> HIDE DEF differ
<1>3. PICK s \in differ : \A r \in differ : ~(r \subseteq s /\ r # s)
  BY <1>1, <1>2, SmallestSet
<1> USE DEF differ
<1>4. CASE s = {}
  BY <1>4 DEF PartialSums
<1>5. CASE s # {}
  <2> DEFINE r == s \ {Picked(s)}
  <2>1. Picked(s) \in s
    BY <1>5 DEF Picked
  <2>2. r \subseteq s /\ r # s
    BY <2>1
  <2>3. g[r] = h[r]
    BY <1>3, <2>2
  <2>4. g[s] = f[Picked(s)] + g[r] /\ h[s] = f[Picked(s)] + h[r]
    <3>1. s \in SUBSET t /\ s \in SUBSET u
      OBVIOUS
    <3>2. QED
      BY <1>5, <3>1 DEF PartialSums
  <2>5. QED
    BY <1>3, <2>3, <2>4
<1>6. QED
  BY <1>4, <1>5

LEMMA SumsExist ==
    ASSUME NEW S, IsFiniteSet(S), NEW f, \A x \in S : f[x] \in Nat
    PROVE  PartialSums(f, S) # {}
<1> DEFINE without == {t \in SUBSET S : PartialSums(f, t) = {}}
<1>1. SUFFICES ASSUME without # {} PROVE FALSE
  OBVIOUS
<1>2. PICK s \in without : \A r \in without : ~(r \subseteq s /\ r # s)
  <2>1. without \in SUBSET SUBSET S
    OBVIOUS
  <2> HIDE DEF without
  <2>2. QED
    BY <1>1, <2>1, SmallestSet
<1> DEFINE sum(t) == CHOOSE g : g \in PartialSums(f, t)
           value(t) == IF t = {} THEN 0
                       ELSE f[Picked(t)] + sum(t \ {Picked(t)})[t \ {Picked(t)}]
           h == [t \in SUBSET s |-> value(t)]
<1>3. \A t \in SUBSET s : t # s => sum(t) \in PartialSums(f, t)
  BY <1>2
<1>4. \A t \in SUBSET s : t # {} => /\ Picked(t) \in t /\ t \ {Picked(t)} # t
                                    /\ t \ {Picked(t)} \in SUBSET s /\ t \ {Picked(t)} # s
  BY DEF Picked
<1>5. h \in [SUBSET s -> Nat]
  <2>1. ASSUME NEW t \in SUBSET s PROVE value(t) \in Nat
    <3>1. CASE t = {}
      BY <3>1
    <3>2. CASE t # {}
      <4> DEFINE r == t \ {Picked(t)}
      <4>1. sum(r) \in PartialSums(f, r) /\ r \in SUBSET r
        BY <1>3, <1>4, <3>2
      <4>2. sum(r)[r] \in Nat
        BY <4>1 DEF PartialSums
      <4>3. f[Picked(t)] \in Nat
        BY <1>4, <3>2
      <4>4. QED
        BY <3>2, <4>2, <4>3
    <3>3. QED
      BY <3>1, <3>2
  <2>2. QED
    BY <2>1
<1>6. ASSUME NEW t \in SUBSET s, t # {}
      PROVE  h[t] = f[Picked(t)] + h[t \ {Picked(t)}]
  <2> DEFINE r == t \ {Picked(t)}
  <2>1. r \in SUBSET s /\ sum(r) \in PartialSums(f, r)
    BY <1>3, <1>4, <1>6
  <2>2. sum(r)[r] = value(r)
    <3>1. CASE r = {}
      BY <2>1, <3>1 DEF PartialSums
    <3>2. CASE r # {}
      <4> DEFINE q == r \ {Picked(r)}
      <4>1. sum(r)[r] = f[Picked(r)] + sum(r)[q]
        BY <2>1, <3>2 DEF PartialSums
      <4>2. sum(q) \in PartialSums(f, q) /\ q \in SUBSET S /\ r \in SUBSET S /\ q \subseteq r
        BY <1>3, <1>4, <2>1, <3>2
      <4>3. sum(r)[q] = sum(q)[q]
        BY <2>1, <4>2, SumsAgree
      <4>4. QED
        BY <3>2, <4>1, <4>3
    <3>3. QED
      BY <3>1, <3>2
  <2>3. h[r] = value(r) /\ h[t] = value(t)
    BY <2>1
  <2>4. value(t) = f[Picked(t)] + sum(r)[r]
    BY <1>6
  <2>5. QED
    BY <2>2, <2>3, <2>4
<1>7. h \in PartialSums(f, s)
  <2>1. h[{}] = 0
    OBVIOUS
  <2> HIDE DEF h
  <2>2. QED
    BY <1>5, <1>6, <2>1 DEF PartialSums
<1>8. QED
  BY <1>7

\* The sum is the value of every function that satisfies its recursion.
LEMMA SumIs ==
    ASSUME NEW S, IsFiniteSet(S), NEW f, \A x \in S : f[x] \in Nat, NEW g \in PartialSums(f, S)
    PROVE  SumOf(f, S) = g[S]
<1> DEFINE Step(h) == [s \in SUBSET S |->
                          IF s = {} THEN 0 ELSE f[CHOOSE x \in s : TRUE] + h[s \ {CHOOSE x \in s : TRUE}]]
           iter == CHOOSE h : h = Step(h)
<1>1. SumOf(f, S) = iter[S]
  BY DEF SumOf, MapThenSumSet, MapThenFoldSet
<1>2. g = Step(g)
  BY DEF PartialSums, Picked
<1>3. iter = Step(iter)
  BY <1>2
<1> DEFINE differ == {s \in SUBSET S : iter[s] # g[s]}
<1> HIDE DEF iter
<1>4. differ = {}
  <2>1. SUFFICES ASSUME differ # {} PROVE FALSE
    OBVIOUS
  <2>2. PICK s \in differ : \A r \in differ : ~(r \subseteq s /\ r # s)
    <3>1. differ \in SUBSET SUBSET S
      OBVIOUS
    <3> HIDE DEF differ
    <3>2. QED
      BY <2>1, <3>1, SmallestSet
  <2> DEFINE x == CHOOSE y \in s : TRUE
  <2>3. s # {}
    BY <1>2, <1>3
  <2>4. x \in s
    BY <2>3
  <2>5. s \ {x} \subseteq s /\ s \ {x} # s /\ s \ {x} \in SUBSET S
    BY <2>4
  <2>6. iter[s \ {x}] = g[s \ {x}]
    BY <2>2, <2>5
  <2>7. iter[s] = f[x] + iter[s \ {x}] /\ g[s] = f[x] + g[s \ {x}]
    BY <1>2, <1>3, <2>3
  <2>8. QED
    BY <2>6, <2>7
<1>5. QED
  BY <1>1, <1>4

\* The sum of natural numbers over a finite set is one.
LEMMA SumInNat ==
    ASSUME NEW S, IsFiniteSet(S), NEW f, \A x \in S : f[x] \in Nat
    PROVE  SumOf(f, S) \in Nat
<1>1. PICK g \in PartialSums(f, S) : TRUE
  BY SumsExist
<1>2. SumOf(f, S) = g[S]
  BY SumIs
<1>3. QED
  BY <1>2 DEF PartialSums

LEMMA SumOfNone == ASSUME NEW f PROVE SumOf(f, {}) = 0
<1>1. PICK g \in PartialSums(f, {}) : TRUE
  BY FS_EmptySet, SumsExist
<1>2. SumOf(f, {}) = g[{}]
  BY FS_EmptySet, SumIs
<1>3. QED
  BY <1>2 DEF PartialSums

\* A sum begins with the member that is picked first.
LEMMA SumWithPicked ==
    ASSUME NEW S, IsFiniteSet(S), S # {}, NEW f, \A x \in S : f[x] \in Nat
    PROVE  /\ Picked(S) \in S
           /\ SumOf(f, S) = f[Picked(S)] + SumOf(f, S \ {Picked(S)})
<1> DEFINE r == S \ {Picked(S)}
<1>1. Picked(S) \in S
  BY DEF Picked
<1>2. IsFiniteSet(r) /\ r \in SUBSET S /\ \A x \in r : f[x] \in Nat
  BY FS_Subset
<1>3. PICK g \in PartialSums(f, S) : TRUE
  BY SumsExist
<1>4. PICK h \in PartialSums(f, r) : TRUE
  <2> HIDE DEF r
  <2>1. QED
    BY <1>2, SumsExist
<1>5. SumOf(f, S) = g[S]
  BY SumIs
<1>6. SumOf(f, r) = h[r]
  <2> HIDE DEF r
  <2>1. QED
    BY <1>2, SumIs
<1>7. g[S] = f[Picked(S)] + g[r]
  BY DEF PartialSums
<1>8. g[r] = h[r]
  <2> HIDE DEF r
  <2>1. S \in SUBSET S /\ r \in SUBSET S /\ r \subseteq r
    BY <1>2
  <2>2. QED
    BY <2>1, SumsAgree
<1>9. QED
  BY <1>1, <1>5, <1>6, <1>7, <1>8

\* And as well with any other.
LEMMA SumWith ==
    ASSUME NEW S, IsFiniteSet(S), NEW f, \A x \in S : f[x] \in Nat, NEW a \in S
    PROVE  SumOf(f, S) = f[a] + SumOf(f, S \ {a})
<1> DEFINE Splits(t) == \A x \in t : SumOf(f, t) = f[x] + SumOf(f, t \ {x})
           bad == {t \in SUBSET S : ~Splits(t)}
<1>1. SUFFICES ASSUME bad # {} PROVE FALSE
  OBVIOUS
<1>2. PICK s \in bad : \A r \in bad : ~(r \subseteq s /\ r # s)
  <2>1. bad \in SUBSET SUBSET S
    OBVIOUS
  <2> HIDE DEF bad
  <2>2. QED
    BY <1>1, <2>1, SmallestSet
<1>3. \A t \in SUBSET S : IsFiniteSet(t) /\ \A x \in t : f[x] \in Nat
  BY FS_Subset
<1>4. \A t \in SUBSET S : SumOf(f, t) \in Nat
  BY <1>3, SumInNat
<1>5. PICK x \in s : SumOf(f, s) # f[x] + SumOf(f, s \ {x})
  OBVIOUS
<1>6. s \in SUBSET S
  OBVIOUS
<1>7. \A t \in SUBSET s : t # s => Splits(t)
  BY <1>2, <1>6
<1> HIDE DEF bad
<1> DEFINE p == Picked(s)
<1>8. p \in s /\ SumOf(f, s) = f[p] + SumOf(f, s \ {p})
  BY <1>3, <1>5, <1>6, SumWithPicked
<1> HIDE DEF p
<1>9. p # x
  BY <1>5, <1>8
<1>10. SumOf(f, s \ {p}) = f[x] + SumOf(f, (s \ {p}) \ {x})
  <2>1. s \ {p} \in SUBSET s /\ s \ {p} # s /\ x \in s \ {p}
    BY <1>8, <1>9
  <2>2. QED
    BY <1>7, <2>1
<1>11. SumOf(f, s \ {x}) = f[p] + SumOf(f, (s \ {x}) \ {p})
  <2>1. s \ {x} \in SUBSET s /\ s \ {x} # s /\ p \in s \ {x}
    BY <1>8, <1>9
  <2>2. QED
    BY <1>7, <2>1
<1>12. (s \ {p}) \ {x} = (s \ {x}) \ {p}
  OBVIOUS
<1>13. f[x] \in Nat /\ f[p] \in Nat /\ SumOf(f, (s \ {x}) \ {p}) \in Nat
  <2>1. (s \ {x}) \ {p} \in SUBSET S
    BY <1>6
  <2>2. QED
    BY <1>4, <1>6, <1>8, <2>1
<1>14. QED
  BY <1>5, <1>8, <1>10, <1>11, <1>12, <1>13

\* A sum over 2 .. n + 1 is that over 1 .. n of the values moved down.
LEMMA SumMoved ==
    ASSUME NEW n \in Nat, NEW f, NEW g,
           \A i \in 1 .. n : f[i + 1] \in Nat /\ g[i] = f[i + 1]
    PROVE  SumOf(f, 2 .. n + 1) = SumOf(g, 1 .. n)
<1> DEFINE bad == {k \in Nat : k <= n /\ SumOf(f, 2 .. k + 1) # SumOf(g, 1 .. k)}
<1>1. SUFFICES ASSUME bad # {} PROVE FALSE
  OBVIOUS
<1>2. PICK k \in bad : \A l \in bad : k <= l
  <2>1. bad \in SUBSET Nat
    OBVIOUS
  <2> HIDE DEF bad
  <2>2. QED
    BY <1>1, <2>1, LeastOf
<1>3. k \in Nat /\ k <= n /\ SumOf(f, 2 .. k + 1) # SumOf(g, 1 .. k)
  OBVIOUS
<1>4. k # 0
  <2>1. SUFFICES ASSUME k = 0 PROVE FALSE
    OBVIOUS
  <2>2. 2 .. k + 1 = {} /\ 1 .. k = {}
    BY <2>1
  <2>3. QED
    BY <1>3, <2>2, SumOfNone
<1>5. k - 1 \in Nat /\ k - 1 <= n /\ k - 1 < k
  BY <1>3, <1>4
<1>6. SumOf(f, 2 .. (k - 1) + 1) = SumOf(g, 1 .. k - 1)
  BY <1>2, <1>5
<1> HIDE DEF bad
<1>7. SumOf(f, 2 .. k + 1) = f[k + 1] + SumOf(f, (2 .. k + 1) \ {k + 1})
  <2> DEFINE S == 2 .. k + 1
  <2>1. IsFiniteSet(S)
    BY <1>3, FS_Interval
  <2>2. \A i \in S : f[i] \in Nat
    <3>1. ASSUME NEW i \in S PROVE f[i] \in Nat
      <4>1. i - 1 \in 1 .. n /\ (i - 1) + 1 = i
        BY <1>3
      <4>2. QED
        BY <4>1
    <3>2. QED
      BY <3>1
  <2>3. k + 1 \in S
    BY <1>3, <1>4
  <2> HIDE DEF S
  <2>4. SumOf(f, S) = f[k + 1] + SumOf(f, S \ {k + 1})
    BY <2>1, <2>2, <2>3, SumWith
  <2>5. QED
    BY <2>4 DEF S
<1>8. SumOf(g, 1 .. k) = g[k] + SumOf(g, (1 .. k) \ {k})
  <2> DEFINE S == 1 .. k
  <2>1. IsFiniteSet(S)
    BY <1>3, FS_Interval
  <2>2. k \in S /\ \A i \in S : g[i] \in Nat
    BY <1>3, <1>4
  <2> HIDE DEF S
  <2>3. SumOf(g, S) = g[k] + SumOf(g, S \ {k})
    BY <2>1, <2>2, SumWith
  <2>4. QED
    BY <2>3 DEF S
<1>9. (2 .. k + 1) \ {k + 1} = 2 .. (k - 1) + 1 /\ (1 .. k) \ {k} = 1 .. k - 1
  BY <1>3
<1>10. g[k] = f[k + 1]
  <2>1. k \in 1 .. n
    BY <1>3, <1>4
  <2>2. QED
    BY <2>1
<1>11. QED
  BY <1>3, <1>6, <1>7, <1>8, <1>9, <1>10

-----------------------------------------------------------------------------
(* Ranks: the number of members up to a member.                            *)

\* upTo gives the members up to each of S, in some total order.
Ranks(S, upTo) ==
    /\ upTo \in [S -> SUBSET S]
    /\ \A n \in S : n \in upTo[n]
    /\ \A m, n \in S : m # n => \/ upTo[m] \subseteq upTo[n] /\ n \notin upTo[m]
                                \/ upTo[n] \subseteq upTo[m] /\ m \notin upTo[n]

\* Each number is the rank of one member.
LEMMA RanksAreTaken ==
    ASSUME NEW S, IsFiniteSet(S), NEW upTo, Ranks(S, upTo)
    PROVE  /\ \A m, n \in S : Cardinality(upTo[m]) = Cardinality(upTo[n]) => m = n
           /\ \A k \in 1 .. Cardinality(S) : \E n \in S : Cardinality(upTo[n]) = k
<1> DEFINE N == 1 .. Cardinality(S)
           rank == [n \in S |-> Cardinality(upTo[n])]
<1>1. Cardinality(S) \in Nat
  BY FS_CardinalityType
<1>2. \A n \in S : upTo[n] \in SUBSET S /\ IsFiniteSet(upTo[n])
  BY FS_Subset DEF Ranks
<1>3. ASSUME NEW n \in S PROVE Cardinality(upTo[n]) \in N
  <2>1. Cardinality(upTo[n]) \in Nat /\ Cardinality(upTo[n]) <= Cardinality(S)
    BY <1>2, FS_CardinalityType, FS_Subset
  <2>2. Cardinality(upTo[n]) # 0
    BY <1>2, FS_EmptySet DEF Ranks
  <2>3. QED
    BY <1>1, <2>1, <2>2
<1>4. ASSUME NEW m \in S, NEW n \in S, Cardinality(upTo[m]) = Cardinality(upTo[n])
      PROVE  m = n
  <2>1. upTo[m] \subseteq upTo[n] => upTo[m] = upTo[n]
    BY <1>2, <1>4, FS_Subset
  <2>2. upTo[n] \subseteq upTo[m] => upTo[m] = upTo[n]
    BY <1>2, <1>4, FS_Subset
  <2>3. QED
    BY <2>1, <2>2 DEF Ranks
<1>5. IsFiniteSet(N) /\ Cardinality(N) = Cardinality(S)
  BY <1>1, FS_Interval
<1>6. rank \in Injection(S, N)
  <2>1. rank \in [S -> N]
    BY <1>3
  <2>2. \A m, n \in S : rank[m] = rank[n] => m = n
    BY <1>4
  <2> HIDE DEF rank, N
  <2>3. QED
    BY <2>1, <2>2 DEF Injection, IsInjective
<1>7. rank \in Surjection(S, N)
  <2> HIDE DEF rank, N
  <2>1. QED
    BY <1>5, <1>6, FS_Injection
<1>8. \A k \in N : \E n \in S : rank[n] = k
  <2> HIDE DEF rank, N
  <2>1. QED
    BY <1>7 DEF Surjection
<1>9. QED
  BY <1>4, <1>8

\* The same for the numbers up to a number.
LEMMA AscendingRanks ==
    ASSUME NEW S \in SUBSET Nat, IsFiniteSet(S)
    PROVE  \A k \in 1 .. Cardinality(S) :
              \E i \in S : Cardinality({j \in S : j <= i}) = k
<1> DEFINE upTo == [i \in S |-> {j \in S : j <= i}]
<1>1. upTo \in [S -> SUBSET S]
  OBVIOUS
<1>2. \A i \in S : i \in upTo[i]
  OBVIOUS
<1>3. \A i, l \in S : i # l => \/ upTo[i] \subseteq upTo[l] /\ l \notin upTo[i]
                               \/ upTo[l] \subseteq upTo[i] /\ i \notin upTo[l]
  <2>1. ASSUME NEW i \in S, NEW l \in S, i < l
        PROVE  upTo[i] \subseteq upTo[l] /\ l \notin upTo[i]
    <3>1. i \in Nat /\ l \in Nat /\ \A j \in S : j \in Nat
      OBVIOUS
    <3>2. \A j \in S : j <= i => j <= l
      BY <2>1, <3>1
    <3>3. ~(l <= i)
      BY <2>1, <3>1
    <3>4. {j \in S : j <= i} \subseteq {j \in S : j <= l}
      BY <3>2
    <3>5. QED
      BY <3>3, <3>4
  <2>2. \A i, l \in S : i # l => i < l \/ l < i
    OBVIOUS
  <2> HIDE DEF upTo
  <2>3. QED
    BY <2>1, <2>2
<1>4. \A k \in 1 .. Cardinality(S) : \E i \in S : Cardinality(upTo[i]) = k
  <2> HIDE DEF upTo
  <2>1. Ranks(S, upTo)
    BY <1>1, <1>2, <1>3 DEF Ranks
  <2>2. \A u : Ranks(S, u) =>
           \A k \in 1 .. Cardinality(S) : \E n \in S : Cardinality(u[n]) = k
    <3>1. SUFFICES ASSUME NEW u, Ranks(S, u)
                   PROVE  \A k \in 1 .. Cardinality(S) : \E n \in S : Cardinality(u[n]) = k
      OBVIOUS
    <3>2. QED
      BY <3>1, RanksAreTaken
  <2>3. QED
    BY <2>1, <2>2
<1>5. QED
  BY <1>4
=============================================================================
