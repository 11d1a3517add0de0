---------------------------- MODULE SetInduction ----------------------------
(***************************************************************************)
(* Induction over the naturals, for sets: what the proofs about recursive  *)
(* functions rest on.  It is proved from finite sets: an injection of a    *)
(* finite set into itself leaves nothing out.                              *)
(***************************************************************************)
EXTENDS Integers, FiniteSetTheorems, TLAPS

(* A set with 0 and the successor of each of its members has all naturals. *)
THEOREM NatsBySuccessor ==
    ASSUME NEW S, 0 \in S, \A n \in Nat : n \in S => n + 1 \in S
    PROVE  Nat \subseteq S
<1> SUFFICES ASSUME NEW n \in Nat, n \notin S PROVE FALSE
  OBVIOUS
<1> DEFINE T == {i \in Nat : i \in S /\ i < n}
           f == [i \in T |-> i + 1]
<1>1. IsFiniteSet(T)
  BY FS_BoundedSetOfNaturals
<1>2. f \in Injection(T, T)
  BY DEF Injection, IsInjective
<1>3. f \in Surjection(T, T)
  BY <1>1, <1>2, FS_Injection
<1>4. 0 \in T
  OBVIOUS
<1>5. PICK i \in T : f[i] = 0
  BY <1>3, <1>4 DEF Surjection
<1> QED BY <1>5

(* A set of naturals that is not empty has a least member.                 *)
THEOREM LeastMember ==
    ASSUME NEW S \in SUBSET Nat, S # {}
    PROVE  \E m \in S : \A n \in S : m <= n
<1> SUFFICES ASSUME \A m \in S : \E n \in S : n < m PROVE FALSE
  OBVIOUS
<1> DEFINE T == {i \in Nat : \A n \in S : n > i}
<1>1. 0 \in T
  OBVIOUS
<1>2. \A i \in Nat : i \in T => i + 1 \in T
  OBVIOUS
<1>3. Nat \subseteq T
  BY <1>1, <1>2, NatsBySuccessor, Zenon
<1>4. PICK m \in S : m \in Nat
  OBVIOUS
<1> QED BY <1>3, <1>4

(* A finite set that is not empty has a member that nothing in it comes    *)
(* after, for any strict partial order: the one that the fewest do.        *)
THEOREM LastMember ==
    ASSUME NEW S, IsFiniteSet(S), S # {}, NEW R,
           \A x \in S : <<x, x>> \notin R,
           \A x, y, z \in S : <<x, y>> \in R /\ <<y, z>> \in R => <<x, z>> \in R
    PROVE  \E x \in S : \A y \in S : <<x, y>> \notin R
<1> DEFINE After(x) == {y \in S : <<x, y>> \in R}
           Count == [x \in S |-> Cardinality(After(x))]
           Counts == {Count[x] : x \in S}
<1>1. \A x \in S : IsFiniteSet(After(x)) /\ Cardinality(After(x)) \in Nat
  <2> TAKE x \in S
  <2>1. IsFiniteSet(After(x))
    BY FS_Subset
  <2> QED BY <2>1, FS_CardinalityType
<1>2. Count \in [S -> Nat] /\ \A x \in S : Count[x] = Cardinality(After(x))
  <2> HIDE DEF After
  <2> QED BY <1>1
<1> HIDE DEF Count
<1>3. Counts \in SUBSET Nat /\ Counts # {}
  BY <1>2
<1>4. PICK x \in S : \A y \in S : Count[x] <= Count[y]
  <2>1. \E m \in Counts : \A n \in Counts : m <= n
    <3> HIDE DEF Counts
    <3> QED BY <1>3, LeastMember
  <2> QED BY <2>1
<1>5. ASSUME NEW y \in S, <<x, y>> \in R
      PROVE  FALSE
  <2>1. After(y) \subseteq After(x) /\ y \in After(x) /\ y \notin After(y)
    BY <1>5
  <2>2. After(x) # After(y)
    BY <2>1
  <2> HIDE DEF After
  <2>3. Cardinality(After(y)) <= Cardinality(After(x)) /\ Cardinality(After(x)) # Cardinality(After(y))
    BY <1>1, <2>1, <2>2, FS_Subset
  <2> QED BY <1>2, <1>4, <2>3
<1> QED BY <1>5

(* The greatest one of finitely many naturals.                             *)
THEOREM GreatestMember ==
    ASSUME NEW S \in SUBSET Nat, IsFiniteSet(S), S # {}
    PROVE  \E x \in S : \A y \in S : x >= y
<1> DEFINE R == {d \in S \X S : d[1] < d[2]}
<1>1. \A x, y \in S : <<x, y>> \in R <=> x < y
  OBVIOUS
<1> HIDE DEF R
<1>2. \A x \in S : <<x, x>> \notin R
  BY <1>1
<1>3. \A x, y, z \in S : <<x, y>> \in R /\ <<y, z>> \in R => <<x, z>> \in R
  BY <1>1
<1>4. PICK x \in S : \A y \in S : <<x, y>> \notin R
  BY <1>2, <1>3, LastMember
<1>5. \A y \in S : x \in Nat /\ y \in Nat /\ ~(x < y)
  BY <1>1, <1>4
<1> QED BY <1>5

(* What holds of each thing that it holds of everything beyond, holds of   *)
(* everything, if nothing is beyond a bound.                               *)
THEOREM DownwardInduction ==
    ASSUME NEW D, NEW N \in Nat, NEW rank \in [D -> 0 .. N], NEW S,
           \A d \in D : (\A e \in D : rank[e] > rank[d] => e \in S) => d \in S
    PROVE  D \subseteq S
<1> SUFFICES ASSUME NEW d0 \in D, d0 \notin S PROVE FALSE
  OBVIOUS
<1> DEFINE T == {N - rank[d] : d \in {e \in D : e \notin S}}
<1>1. T \in SUBSET Nat /\ T # {}
  OBVIOUS
<1>2. PICK m \in T : \A n \in T : m <= n
  <2> HIDE DEF T
  <2> QED BY <1>1, LeastMember
<1>3. PICK d \in D : d \notin S /\ m = N - rank[d]
  OBVIOUS
<1>4. ASSUME NEW e \in D, rank[e] > rank[d], e \notin S PROVE FALSE
  <2>1. N - rank[e] \in T
    BY <1>4
  <2>2. N - rank[d] <= N - rank[e]
    BY <1>2, <1>3, <2>1
  <2> QED BY <1>4, <2>2
<1> QED BY <1>3, <1>4

(* A recursive function exists if its value anywhere rests only on those   *)
(* beyond.                                                                 *)
RestsBeyond(F, D, rank, V) ==
    /\ F \in [D \X [D -> V] -> V]
    /\ \A d \in D, f \in [D -> V], g \in [D -> V] :
          (\A e \in D : rank[e] > rank[d] => f[e] = g[e]) => F[<<d, f>>] = F[<<d, g>>]

HasSolution(F, D, V) == \E f \in [D -> V] : \A d \in D : f[d] = F[<<d, f>>]

THEOREM DownwardRecursion ==
    ASSUME NEW D, NEW N \in Nat, NEW rank \in [D -> 0 .. N], NEW V, V # {},
           NEW F, RestsBeyond(F, D, rank, V)
    PROVE  HasSolution(F, D, V)
<1> USE DEF RestsBeyond, HasSolution
<1> DEFINE Good(k, f) == \A d \in D : rank[d] > N - k => f[d] = F[<<d, f>>]
           S == {k \in Nat : \E f \in [D -> V] : Good(k, f)}
<1>1. 0 \in S
  <2>1. PICK v \in V : TRUE
    OBVIOUS
  <2>2. [d \in D |-> v] \in [D -> V] /\ \A d \in D : ~(rank[d] > N - 0)
    OBVIOUS
  <2> QED BY <2>2
<1>2. \A k \in Nat : k \in S => k + 1 \in S
  <2> TAKE k \in Nat
  <2> HAVE k \in S
  <2>0. PICK f \in [D -> V] : Good(k, f)
    OBVIOUS
  <2> DEFINE g == [d \in D |-> IF rank[d] = N - k THEN F[<<d, f>>] ELSE f[d]]
  <2>1. g \in [D -> V]
    OBVIOUS
  <2>2. ASSUME NEW d \in D, rank[d] > N - (k + 1)
        PROVE  g[d] = F[<<d, g>>]
    <3>1. g[d] = F[<<d, f>>]
      <4>1. CASE rank[d] = N - k
        BY <4>1
      <4>2. CASE rank[d] # N - k
        <5>1. rank[d] > N - k
          <6>1. rank[d] \in 0 .. N
            OBVIOUS
          <6> QED BY <2>2, <4>2, <6>1
        <5> QED BY <2>0, <4>2, <5>1
      <4> QED BY <4>1, <4>2
    <3>2. \A e \in D : rank[e] > rank[d] => f[e] = g[e]
      BY <2>2
    <3> HIDE DEF g
    <3> QED BY <2>1, <3>1, <3>2
  <2> HIDE DEF g
  <2>3. Good(k + 1, g)
    BY <2>2
  <2> HIDE DEF Good
  <2> QED BY <2>1, <2>3
<1>3. N + 1 \in S
  <2> HIDE DEF S
  <2> QED BY <1>1, <1>2, NatsBySuccessor
<1>4. PICK f \in [D -> V] : Good(N + 1, f)
  BY <1>3
<1>5. \A d \in D : f[d] = F[<<d, f>>]
  BY <1>4
<1> QED BY <1>5
=============================================================================
