-------------------------- MODULE QueryDocsProofs --------------------------
(***************************************************************************)
(* Proofs about what QueryDocs computes from a document, for documents of  *)
(* any size.  Each of its recursive functions goes on only to later nodes  *)
(* (selections come after their parents and fragments after their          *)
(* spreads), so that it exists, and what it computes follows by induction  *)
(* from the last node to the first.                                        *)
(***************************************************************************)
EXTENDS QueryDocs, SetInduction, SequenceTheorems

Steps == Seq(Names \cup {Anonymous})
Trees == SUBSET {p \in Steps : p # <<>>}
Rank(doc) == [n \in DOMAIN doc |-> n]

LEMMA NodesAre ==
    ASSUME NEW doc, WellFormed(doc)
    PROVE  /\ Len(doc) \in Nat /\ DOMAIN doc = 1 .. Len(doc)
           /\ Rank(doc) \in [DOMAIN doc -> 0 .. Len(doc)]
           /\ \A n \in DOMAIN doc :
                 /\ doc[n].kind \in Kinds
                 /\ doc[n].name \in Names \cup {Anonymous}
                 /\ doc[n].kind = "field" => doc[n].name \in Names
           /\ IsFiniteSet(DOMAIN doc)
<1>1. Len(doc) \in Nat /\ DOMAIN doc = 1 .. Len(doc)
  BY LenProperties DEF WellFormed
<1>2. \A n \in DOMAIN doc :
          doc[n].kind \in Kinds /\ doc[n].name \in Names \cup {Anonymous}
  <2> TAKE n \in DOMAIN doc
  <2>1. doc[n] \in [kind : Kinds, name : Names \cup {Anonymous}, parent : Nat]
    <3> HIDE DEF Kinds
    <3> QED BY <1>1, ElementOfSeq DEF WellFormed
  <2> QED BY <2>1
<1>3. \A n \in DOMAIN doc : doc[n].kind = "field" => doc[n].name \in Names
  BY <1>2 DEF WellFormed
<1>4. IsFiniteSet(DOMAIN doc)
  BY <1>1, FS_Interval
<1> QED BY <1>1, <1>2, <1>3, <1>4 DEF Rank

(* Where the crawls go on to is later in the document.                     *)
LEMMA SelectionsAreLater ==
    ASSUME NEW doc, WellFormed(doc), NEW n \in DOMAIN doc, NEW m \in Sels(doc, n)
    PROVE  m \in DOMAIN doc /\ m > n /\ doc[m].kind \in {"field", "spread", "inline"}
<1>1. m \in DOMAIN doc /\ doc[m].parent = n
  BY DEF Sels
<1>2. doc[m].parent < m /\ doc[m].parent # 0 /\ doc[m].kind \in Kinds
  <2>1. doc[m].parent < m
    BY <1>1 DEF WellFormed
  <2>2. doc[m].kind \in Kinds /\ n \in Nat /\ n # 0
    BY <1>1, NodesAre
  <2> QED BY <1>1, <2>1, <2>2
<1>3. doc[m].kind \notin {"operation", "fragment"}
  BY <1>1, <1>2 DEF WellFormed
<1> QED BY <1>1, <1>2, <1>3, NodesAre DEF Kinds

LEMMA SpreadIsLater ==
    ASSUME NEW doc, WellFormed(doc), NEW n \in DOMAIN doc, doc[n].kind = "spread",
           ~Dangling(doc, n)
    PROVE  Spread(doc, n) \in DOMAIN doc /\ Spread(doc, n) > n /\ doc[Spread(doc, n)].kind = "fragment"
<1> DEFINE S == FragmentsOf(doc, doc[n].name)
<1>1. S \in SUBSET Nat /\ IsFiniteSet(S) /\ S # {}
  <2>1. S \subseteq DOMAIN doc /\ S # {}
    BY DEF FragmentsOf, OfKind, Dangling
  <2> QED BY <2>1, NodesAre, FS_Subset
<1>2. Spread(doc, n) = CHOOSE x \in S : \A y \in S : x >= y
  BY DEF Spread, Max
<1>3. Spread(doc, n) \in S
  <2> HIDE DEF S
  <2> QED BY <1>1, <1>2, GreatestMember
<1> QED BY <1>3 DEF FragmentsOf, OfKind, WellFormed

-----------------------------------------------------------------------------
(* What a document asks for.                                               *)
AskedAt(doc, asked, n) ==
    LET below == UNION {asked[m] : m \in Sels(doc, n)}
    IN  IF Dangling(doc, n) THEN {}
        ELSE IF doc[n].kind = "spread" THEN asked[Spread(doc, n)]
        ELSE IF doc[n].kind = "field" THEN Under(doc[n].name, below)
        ELSE below

LEMMA UnderIsTree ==
    ASSUME NEW x \in Names \cup {Anonymous}, NEW tree \in Trees
    PROVE  /\ Under(x, tree) \in Trees
           /\ \A p \in tree : /\ Len(p) \in Nat /\ Len(<<x>> \o p) = Len(p) + 1
                              /\ (<<x>> \o p)[1] = x
                              /\ \A i \in 1 .. Len(p) : (<<x>> \o p)[i + 1] = p[i]
<1>1. ASSUME NEW p \in tree
      PROVE  /\ <<x>> \o p \in Steps /\ <<x>> \o p # <<>>
             /\ Len(p) \in Nat /\ Len(<<x>> \o p) = Len(p) + 1
             /\ (<<x>> \o p)[1] = x
             /\ \A i \in 1 .. Len(p) : (<<x>> \o p)[i + 1] = p[i]
  BY DEF Trees, Steps
<1>2. <<x>> \in Steps /\ <<x>> # <<>>
  BY DEF Steps
<1> QED BY <1>1, <1>2 DEF Under, Trees

LEMMA AskedEquation ==
    ASSUME NEW doc, WellFormed(doc)
    PROVE  /\ Asked(doc) \in [DOMAIN doc -> Trees]
           /\ \A n \in DOMAIN doc : Asked(doc)[n] = AskedAt(doc, Asked(doc), n)
<1> DEFINE D == DOMAIN doc
           F == [x \in D \X [D -> Trees] |-> AskedAt(doc, x[2], x[1])]
           Equation(f) == f = [n \in D |-> AskedAt(doc, f, n)]
<1>1. \A n \in D : \A f : (\A m \in D : m > n => f[m] \in Trees) => AskedAt(doc, f, n) \in Trees
  <2> TAKE n \in D
  <2> TAKE f
  <2> HAVE \A m \in D : m > n => f[m] \in Trees
  <2>1. UNION {f[m] : m \in Sels(doc, n)} \in Trees
    BY SelectionsAreLater DEF Trees
  <2>2. doc[n].kind = "spread" /\ ~Dangling(doc, n) => f[Spread(doc, n)] \in Trees
    BY SpreadIsLater
  <2>3. {} \in Trees
    BY DEF Trees
  <2> QED BY <2>1, <2>2, <2>3, UnderIsTree, NodesAre DEF AskedAt
<1>2. \A n \in D, f \in [D -> Trees], g \in [D -> Trees] :
          (\A m \in D : m > n => f[m] = g[m]) => AskedAt(doc, f, n) = AskedAt(doc, g, n)
  <2> TAKE n \in D, f \in [D -> Trees], g \in [D -> Trees]
  <2> HAVE \A m \in D : m > n => f[m] = g[m]
  <2>1. \A m \in Sels(doc, n) : f[m] = g[m]
    BY SelectionsAreLater
  <2>2. UNION {f[m] : m \in Sels(doc, n)} = UNION {g[m] : m \in Sels(doc, n)}
    BY <2>1
  <2>3. doc[n].kind = "spread" /\ ~Dangling(doc, n) => f[Spread(doc, n)] = g[Spread(doc, n)]
    BY SpreadIsLater
  <2> QED BY <2>2, <2>3 DEF AskedAt
<1>3. Trees # {}
  BY DEF Trees
<1>4. F \in [D \X [D -> Trees] -> Trees]
  <2> HIDE DEF D
  <2> QED BY <1>1
<1>5. \A n \in D, f \in [D -> Trees] : F[<<n, f>>] = AskedAt(doc, f, n)
  OBVIOUS
<1>6. HasSolution(F, D, Trees)
  <2> DEFINE R == Rank(doc)
             N == Len(doc)
  <2>1. N \in Nat /\ R \in [D -> 0 .. N] /\ \A n \in D : R[n] = n
    BY NodesAre DEF Rank
  <2>2. RestsBeyond(F, D, R, Trees)
    <3> HIDE DEF F, R, D
    <3> QED BY <1>2, <1>4, <1>5, <2>1 DEF RestsBeyond
  <2> HIDE DEF F, D, R, N, Equation
  <2> QED BY <1>3, <2>1, <2>2, DownwardRecursion
<1>7. \E f : Equation(f)
  BY <1>5, <1>6 DEF HasSolution
<1>8. Asked(doc) = CHOOSE f : Equation(f)
  BY DEF Asked, AskedAt
<1>9. Equation(Asked(doc))
  <2> HIDE DEF Equation
  <2> QED BY <1>7, <1>8
<1>10. \A n \in D : Asked(doc)[n] = AskedAt(doc, Asked(doc), n)
  BY <1>9
<1>11. D \subseteq {n \in D : Asked(doc)[n] \in Trees}
  <2> DEFINE S == {n \in D : Asked(doc)[n] \in Trees}
             R == Rank(doc)
             N == Len(doc)
  <2>1. N \in Nat /\ R \in [D -> 0 .. N] /\ \A n \in D : R[n] = n
    BY NodesAre DEF Rank
  <2>2. \A n \in D : (\A m \in D : R[m] > R[n] => m \in S) => n \in S
    BY <1>1, <1>10, <2>1
  <2>3. D \subseteq S
    <3> HIDE DEF S, D, R, N
    <3> QED BY <2>1, <2>2, DownwardInduction
  <2> QED BY <2>3
<1> QED BY <1>9, <1>10, <1>11

(* Every node asks for something, if no fragment is missing.               *)
LEMMA SomethingIsAsked ==
    ASSUME NEW doc, WellFormed(doc), \A n \in DOMAIN doc : ~Dangling(doc, n)
    PROVE  \A n \in DOMAIN doc : \E p \in Asked(doc)[n] : Len(p) = 1
<1> DEFINE D == DOMAIN doc
           asked == Asked(doc)
           S == {n \in D : \E p \in asked[n] : Len(p) = 1}
           R == Rank(doc)
           N == Len(doc)
<1>1. N \in Nat /\ R \in [D -> 0 .. N] /\ \A n \in D : R[n] = n
  BY NodesAre DEF Rank
<1>2. ASSUME NEW n \in D, \A m \in D : m > n => m \in S
      PROVE  n \in S
  <2> DEFINE below == UNION {asked[m] : m \in Sels(doc, n)}
  <2>1. asked[n] = AskedAt(doc, asked, n)
    BY AskedEquation
  <2>2. CASE doc[n].kind = "spread"
    BY <1>2, <2>1, <2>2, SpreadIsLater DEF AskedAt
  <2>3. CASE doc[n].kind = "field"
    <3>1. asked[n] = Under(doc[n].name, below)
      BY <2>1, <2>3 DEF AskedAt
    <3>2. <<doc[n].name>> \in asked[n] /\ Len(<<doc[n].name>>) = 1
      BY <3>1 DEF Under
    <3> QED BY <3>2
  <2>4. CASE doc[n].kind \in {"operation", "fragment", "inline"}
    <3>1. asked[n] = below
      BY <2>1, <2>4 DEF AskedAt
    <3>2. PICK m \in Sels(doc, n) : TRUE
      BY <2>4 DEF WellFormed
    <3>3. \E p \in asked[m] : Len(p) = 1
      BY <1>2, <3>2, SelectionsAreLater
    <3> QED BY <3>1, <3>3
  <2> QED BY <2>2, <2>3, <2>4, NodesAre DEF Kinds
<1>3. \A n \in D : (\A m \in D : R[m] > R[n] => m \in S) => n \in S
  <2> HIDE DEF S
  <2> QED BY <1>1, <1>2
<1>4. D \subseteq S
  <2> HIDE DEF S, D, R, N
  <2> QED BY <1>1, <1>3, DownwardInduction
<1> QED BY <1>4

-----------------------------------------------------------------------------
(* What determine_depth visits from a node, at a depth.                    *)
Stops(doc) == (DOMAIN doc) \X (0 .. MaxDepth + 1)
Deeper(doc, v) == v[2] + (IF doc[v[1]].kind = "field" THEN 1 ELSE 0)

VisitsAt(doc, visits, v) ==
    {v} \cup (IF v[2] > MaxDepth THEN {}
              ELSE UNION {visits[<<m, Deeper(doc, v)>>] : m \in Crawled(doc, v[1])})

VisitsFrom(doc) ==
    CHOOSE visits : visits = [v \in Stops(doc) |-> VisitsAt(doc, visits, v)]

LEMMA CrawledIsLater ==
    ASSUME NEW doc, WellFormed(doc), NEW n \in DOMAIN doc, NEW m \in Crawled(doc, n)
    PROVE  m \in DOMAIN doc /\ m > n
BY SelectionsAreLater, SpreadIsLater DEF Crawled

LEMMA VisitsEquation ==
    ASSUME NEW doc, WellFormed(doc)
    PROVE  /\ \A v \in Stops(doc) : VisitsFrom(doc)[v] = VisitsAt(doc, VisitsFrom(doc), v)
           /\ \A op \in DOMAIN doc : DetermineDepth(doc, op) = VisitsFrom(doc)[<<op, 0>>]
<1> DEFINE D == Stops(doc)
           V == SUBSET D
           R == [v \in D |-> v[1]]
           N == Len(doc)
           F == [x \in D \X [D -> V] |-> VisitsAt(doc, x[2], x[1])]
           Equation(f) == f = [v \in D |-> VisitsAt(doc, f, v)]
<1>1. /\ N \in Nat /\ R \in [D -> 0 .. N]
      /\ \A v \in D : /\ v[1] \in DOMAIN doc /\ v[2] \in Nat /\ R[v] = v[1]
                      /\ v = <<v[1], v[2]>> /\ v[2] \in 0 .. MaxDepth + 1
  BY NodesAre DEF Stops
<1>2. \A v \in D : v[2] <= MaxDepth =>
          \A m \in Crawled(doc, v[1]) : <<m, Deeper(doc, v)>> \in D /\ m > v[1]
  BY <1>1, CrawledIsLater, MaxDepthAssumption DEF Stops, Deeper
<1>3. \A v \in D, f \in [D -> V] : VisitsAt(doc, f, v) \in V
  <2> TAKE v \in D, f \in [D -> V]
  <2>1. v[2] <= MaxDepth => UNION {f[<<m, Deeper(doc, v)>>] : m \in Crawled(doc, v[1])} \subseteq D
    <3> HIDE DEF D
    <3> QED BY <1>2
  <2>2. v[2] <= MaxDepth \/ v[2] > MaxDepth
    BY <1>1, MaxDepthAssumption
  <2> HIDE DEF D
  <2> QED BY <2>1, <2>2 DEF VisitsAt
<1>4. \A v \in D, f \in [D -> V], g \in [D -> V] :
          (\A w \in D : w[1] > v[1] => f[w] = g[w]) => VisitsAt(doc, f, v) = VisitsAt(doc, g, v)
  <2> TAKE v \in D, f \in [D -> V], g \in [D -> V]
  <2> HAVE \A w \in D : w[1] > v[1] => f[w] = g[w]
  <2>1. v[2] <= MaxDepth => UNION {f[<<m, Deeper(doc, v)>>] : m \in Crawled(doc, v[1])}
                              = UNION {g[<<m, Deeper(doc, v)>>] : m \in Crawled(doc, v[1])}
    <3> SUFFICES ASSUME v[2] <= MaxDepth, NEW m \in Crawled(doc, v[1])
                 PROVE  f[<<m, Deeper(doc, v)>>] = g[<<m, Deeper(doc, v)>>]
      OBVIOUS
    <3> HIDE DEF D
    <3> QED BY <1>2
  <2>2. v[2] <= MaxDepth \/ v[2] > MaxDepth
    BY <1>1, MaxDepthAssumption
  <2> HIDE DEF D
  <2> QED BY <2>1, <2>2 DEF VisitsAt
<1>5. F \in [D \X [D -> V] -> V] /\ V # {}
  <2> HIDE DEF D
  <2> QED BY <1>3
<1>6. \A v \in D, f \in [D -> V] : F[<<v, f>>] = VisitsAt(doc, f, v)
  OBVIOUS
<1>7. RestsBeyond(F, D, R, V)
  <2>1. ASSUME NEW v \in D, NEW f \in [D -> V], NEW g \in [D -> V],
               \A w \in D : R[w] > R[v] => f[w] = g[w]
        PROVE  F[<<v, f>>] = F[<<v, g>>]
    <3>1. \A w \in D : w[1] > v[1] => f[w] = g[w]
      BY <1>1, <2>1
    <3> HIDE DEF F, R, D
    <3> QED BY <1>4, <1>6, <3>1
  <2> HIDE DEF F, R, D, V
  <2> QED BY <1>5, <2>1 DEF RestsBeyond
<1>8. HasSolution(F, D, V)
  <2> HIDE DEF F, D, R, N, V
  <2> QED BY <1>1, <1>5, <1>7, DownwardRecursion
<1>9. \E f : Equation(f)
  BY <1>6, <1>8 DEF HasSolution
<1>10. Equation(VisitsFrom(doc))
  BY <1>9 DEF VisitsFrom
<1>11. \A op : DetermineDepth(doc, op) = VisitsFrom(doc)[<<op, 0>>]
  BY DEF DetermineDepth, VisitsFrom, VisitsAt, Deeper, Stops
<1> QED BY <1>10, <1>11

(* How deep a document is from a node that is reached at a depth.          *)
DeepFrom(doc, n, depth) ==
    \E p \in Asked(doc)[n] :
        /\ depth + Len(p) - 1 > MaxDepth
        /\ \A i \in 1 .. Len(p) - 1 : p[i] \notin MetaNames \cup Ignored

LEMMA CrawlIsExact ==
    ASSUME NEW doc, WellFormed(doc), \A n \in DOMAIN doc : ~Dangling(doc, n)
    PROVE  \A v \in Stops(doc) :
              (\E w \in VisitsFrom(doc)[v] : w[2] > MaxDepth) <=> DeepFrom(doc, v[1], v[2])
<1> DEFINE D == Stops(doc)
           R == [v \in D |-> v[1]]
           N == Len(doc)
           Exceeds(v) == \E w \in VisitsFrom(doc)[v] : w[2] > MaxDepth
           S == {v \in D : Exceeds(v) <=> DeepFrom(doc, v[1], v[2])}
           asked == Asked(doc)
<1>1. /\ N \in Nat /\ R \in [D -> 0 .. N]
      /\ \A v \in D : v[1] \in DOMAIN doc /\ v[2] \in 0 .. MaxDepth + 1 /\ R[v] = v[1]
  BY NodesAre DEF Stops
<1>2. \A n \in DOMAIN doc : asked[n] \in Trees /\ \A p \in asked[n] : Len(p) \in Nat /\ Len(p) >= 1
  <2>1. \A p \in Steps : p # <<>> => Len(p) \in Nat /\ Len(p) >= 1
    BY DEF Steps
  <2> QED BY <2>1, AskedEquation DEF Trees
<1>3. ASSUME NEW v \in D, \A w \in D : w[1] > v[1] => w \in S
      PROVE  v \in S
  <2> DEFINE n == v[1]
             depth == v[2]
             below == UNION {asked[m] : m \in Sels(doc, n)}
  <2>0. n \in DOMAIN doc /\ depth \in Nat /\ depth <= MaxDepth + 1 /\ MaxDepth \in Nat
    BY <1>1, MaxDepthAssumption
  <2>1. VisitsFrom(doc)[v] = VisitsAt(doc, VisitsFrom(doc), v)
    BY VisitsEquation
  <2>2. asked[n] = AskedAt(doc, asked, n)
    BY <2>0, AskedEquation
  <2>3. CASE depth > MaxDepth
    <3>1. Exceeds(v)
      BY <2>1, <2>3 DEF VisitsAt
    <3>2. PICK p \in asked[n] : Len(p) = 1
      BY <2>0, SomethingIsAsked
    <3>3. DeepFrom(doc, n, depth)
      <4>1. depth + Len(p) - 1 > MaxDepth /\ 1 .. Len(p) - 1 = {}
        BY <2>0, <2>3, <3>2
      <4> HIDE DEF depth, n, asked
      <4> QED BY <4>1 DEF DeepFrom, asked
    <3> QED BY <3>1, <3>3
  <2>4. CASE depth <= MaxDepth
    <3> DEFINE deeper == Deeper(doc, v)
    <3>1. deeper \in Nat /\ \A m \in Crawled(doc, n) : m \in DOMAIN doc /\ <<m, deeper>> \in D /\ m > n
      BY <2>0, <2>4, CrawledIsLater DEF Deeper, Stops
    <3>2. Exceeds(v) <=> \E m \in Crawled(doc, n) : Exceeds(<<m, deeper>>)
      <4>1. VisitsFrom(doc)[v]
              = {v} \cup UNION {VisitsFrom(doc)[<<m, deeper>>] : m \in Crawled(doc, n)}
        <5>1. ~(v[2] > MaxDepth)
          BY <2>0, <2>4
        <5> QED BY <2>1, <5>1, Zenon DEF VisitsAt
      <4>2. ~(v[2] > MaxDepth)
        BY <2>0, <2>4
      <4>3. \A w : w \in VisitsFrom(doc)[v]
              <=> w = v \/ \E m \in Crawled(doc, n) : w \in VisitsFrom(doc)[<<m, deeper>>]
        <5> HIDE DEF deeper, n
        <5> QED BY <4>1
      <4> HIDE DEF deeper, n
      <4> QED BY <4>2, <4>3
    <3>3. Exceeds(v) <=> \E m \in Crawled(doc, n) : DeepFrom(doc, m, deeper)
      BY <1>3, <3>1, <3>2
    <3> HIDE DEF S, Exceeds
    <3>4. CASE doc[n].kind = "spread"
      <4>1. Crawled(doc, n) = {Spread(doc, n)} /\ deeper = depth /\ asked[n] = asked[Spread(doc, n)]
        BY <2>0, <2>2, <3>4 DEF Crawled, AskedAt, Deeper
      <4> QED BY <3>3, <4>1 DEF DeepFrom, S
    <3>5. CASE doc[n].kind \in {"operation", "fragment", "inline"}
      <4>1. Crawled(doc, n) = Sels(doc, n) /\ deeper = depth /\ asked[n] = below
        BY <2>0, <2>2, <3>5 DEF Crawled, AskedAt, Deeper
      <4> QED BY <3>3, <4>1 DEF DeepFrom, S
    <3>6. CASE doc[n].kind = "field"
      <4> DEFINE x == doc[n].name
      <4>1. deeper = depth + 1 /\ asked[n] = {<<x>>} \cup {<<x>> \o p : p \in below}
        BY <2>0, <2>2, <3>6 DEF AskedAt, Deeper, Under
      <4>2. below \in Trees /\ \A p \in below : Len(p) \in Nat /\ Len(p) >= 1
        BY <1>2, <2>0, SelectionsAreLater DEF Trees
      <4>3. x \in Names
        BY <2>0, <3>6, NodesAre
      <4>4. \A p \in below : /\ Len(<<x>> \o p) = Len(p) + 1
                             /\ (<<x>> \o p)[1] = x
                             /\ \A i \in 1 .. Len(p) : (<<x>> \o p)[i + 1] = p[i]
        <5> HIDE DEF x, below
        <5> QED BY <4>2, <4>3, UnderIsTree
      <4>5. DeepFrom(doc, n, depth) <=>
              \E p \in below : /\ deeper + Len(p) - 1 > MaxDepth
                               /\ x \notin MetaNames \cup Ignored
                               /\ \A i \in 1 .. Len(p) - 1 : p[i] \notin MetaNames \cup Ignored
        <5>1. ASSUME NEW p \in below
              PROVE  /\ depth + Len(<<x>> \o p) - 1 = deeper + Len(p) - 1
                     /\ (\A i \in 1 .. Len(<<x>> \o p) - 1 :
                             (<<x>> \o p)[i] \notin MetaNames \cup Ignored)
                        <=> /\ x \notin MetaNames \cup Ignored
                            /\ \A i \in 1 .. Len(p) - 1 : p[i] \notin MetaNames \cup Ignored
          <6> DEFINE q == <<x>> \o p
                     L == Len(p)
          <6>1. L \in Nat /\ L >= 1 /\ Len(q) = L + 1 /\ q[1] = x /\ \A i \in 1 .. L : q[i + 1] = p[i]
            BY <4>2, <4>4
          <6> HIDE DEF q, L, x
          <6>2. depth + Len(q) - 1 = deeper + L - 1
            BY <2>0, <4>1, <6>1
          <6>3. (\A i \in 1 .. Len(q) - 1 : q[i] \notin MetaNames \cup Ignored)
                  => /\ x \notin MetaNames \cup Ignored
                     /\ \A i \in 1 .. L - 1 : p[i] \notin MetaNames \cup Ignored
            <7> HAVE \A i \in 1 .. Len(q) - 1 : q[i] \notin MetaNames \cup Ignored
            <7>1. q[1] \notin MetaNames \cup Ignored
              BY <6>1
            <7>2. \A i \in 1 .. L - 1 : i + 1 \in 1 .. Len(q) - 1 /\ q[i + 1] = p[i]
              BY <6>1
            <7> QED BY <6>1, <7>1, <7>2
          <6>4. ASSUME x \notin MetaNames \cup Ignored,
                       \A i \in 1 .. L - 1 : p[i] \notin MetaNames \cup Ignored,
                       NEW i \in 1 .. Len(q) - 1
                PROVE  q[i] \notin MetaNames \cup Ignored
            <7>1. CASE i = 1
              BY <6>1, <6>4, <7>1
            <7>2. CASE i # 1
              <8> DEFINE j == i - 1
              <8>1. j \in 1 .. L - 1 /\ j \in 1 .. L /\ j + 1 = i
                BY <6>1, <7>2
              <8> HIDE DEF j
              <8>2. q[j + 1] = p[j] /\ p[j] \notin MetaNames \cup Ignored
                BY <6>1, <6>4, <8>1
              <8> QED BY <8>1, <8>2
            <7> QED BY <7>1, <7>2
          <6> QED BY <6>2, <6>3, <6>4 DEF q, L
        <5>2. ~(depth + Len(<<x>>) - 1 > MaxDepth)
          BY <2>0, <2>4
        <5> DEFINE Reaches(q) == /\ depth + Len(q) - 1 > MaxDepth
                                 /\ \A i \in 1 .. Len(q) - 1 : q[i] \notin MetaNames \cup Ignored
        <5>3. DeepFrom(doc, n, depth) <=> \E q \in asked[n] : Reaches(q)
          BY DEF DeepFrom
        <5>4. ~Reaches(<<x>>)
          BY <5>2
        <5>5. ASSUME NEW p \in below
              PROVE  Reaches(<<x>> \o p)
                       <=> /\ deeper + Len(p) - 1 > MaxDepth
                           /\ x \notin MetaNames \cup Ignored
                           /\ \A i \in 1 .. Len(p) - 1 : p[i] \notin MetaNames \cup Ignored
          <6> HIDE DEF x, below, deeper
          <6> QED BY <5>1
        <5> HIDE DEF x, below, deeper, Reaches
        <5> QED BY <4>1, <5>3, <5>4, <5>5
      <4>6. CASE x \in MetaNames \cup Ignored
        <5>1. Crawled(doc, n) = {}
          BY <3>6, <4>6 DEF Crawled
        <5> QED BY <3>3, <4>5, <4>6, <5>1 DEF S
      <4>7. CASE x \notin MetaNames \cup Ignored
        <5>1. Crawled(doc, n) = Sels(doc, n)
          BY <3>6, <4>7 DEF Crawled
        <5>2. (\E m \in Sels(doc, n) : DeepFrom(doc, m, deeper)) <=> DeepFrom(doc, n, depth)
          <6> HIDE DEF x, deeper
          <6> QED BY <4>5, <4>7 DEF DeepFrom
        <5> QED BY <3>3, <5>1, <5>2 DEF S
      <4> QED BY <4>6, <4>7
    <3> QED BY <2>0, <3>4, <3>5, <3>6, NodesAre DEF Kinds
  <2> QED BY <2>0, <2>3, <2>4
<1>4. \A v \in D : (\A w \in D : R[w] > R[v] => w \in S) => v \in S
  <2> HIDE DEF S
  <2> QED BY <1>1, <1>3
<1>5. D \subseteq S
  <2> HIDE DEF S, D, R, N
  <2> QED BY <1>1, <1>4, DownwardInduction
<1> QED BY <1>5

(* The depth limit turns down just the documents that have a path of       *)
(* fields longer than it, where no fragment is missing.                    *)
THEOREM DepthErrorsAreExact ==
    ASSUME NEW doc, WellFormed(doc), \A n \in DOMAIN doc : ~Dangling(doc, n)
    PROVE  DepthErrors(doc) <=> \E op \in GetQueries(doc) : TooDeep(doc, op)
<1>1. GetQueries(doc) \subseteq DOMAIN doc
  BY DEF GetQueries, OfKind
<1>2. ASSUME NEW op \in GetQueries(doc)
      PROVE  (\E v \in DetermineDepth(doc, op) : v[2] > MaxDepth) <=> TooDeep(doc, op)
  <2>1. <<op, 0>> \in Stops(doc)
    BY <1>1, MaxDepthAssumption DEF Stops
  <2>2. (\E v \in DetermineDepth(doc, op) : v[2] > MaxDepth) <=> DeepFrom(doc, op, 0)
    BY <1>1, <2>1, VisitsEquation, CrawlIsExact
  <2>3. \A p \in Asked(doc)[op] : Len(p) \in Nat
    <3>1. \A p \in Steps : Len(p) \in Nat
      BY DEF Steps
    <3> QED BY <1>1, <3>1, AskedEquation DEF Trees
  <2>4. DeepFrom(doc, op, 0) <=> TooDeep(doc, op)
    BY <2>3 DEF DeepFrom, TooDeep
  <2> QED BY <2>2, <2>4
<1> QED BY <1>2 DEF DepthErrors, Visits

(* Under the standard rules the operations that are measured are all.      *)
LEMMA AllAreMeasured ==
    ASSUME NEW doc, WellFormed(doc),
           \A n, m \in OfKind(doc, "operation") : doc[n].name = doc[m].name => n = m,
           \A n, m \in OfKind(doc, "operation") : doc[n].name = Anonymous => n = m
    PROVE  GetQueries(doc) = OfKind(doc, "operation")
<1>1. \A n \in OfKind(doc, "operation") : n \in Nat
  BY NodesAre DEF OfKind
<1>2. \A n, m \in OfKind(doc, "operation") : QueryKey(doc, m) = QueryKey(doc, n) => m = n
  BY DEF QueryKey
<1> QED BY <1>1, <1>2 DEF GetQueries

-----------------------------------------------------------------------------
(* What collect_fields finds.                                              *)
Kept(doc, n, given) ==
    UNION {{p \in given[m] :
               \A later \in Sels(doc, n) : later > m => p[1] \notin Heads(given[later])} :
           m \in Sels(doc, n)}

CollectedAt(doc, collected, n) ==
    Kept(doc, n, [m \in Sels(doc, n) |-> Given(doc, collected, m)])

LEMMA GivenIsTree ==
    ASSUME NEW doc, WellFormed(doc), NEW n \in DOMAIN doc, NEW f,
           \A m \in DOMAIN doc : m > n => f[m] \in Trees
    PROVE  \A m \in Sels(doc, n) : Given(doc, f, m) \in Trees
<1> TAKE m \in Sels(doc, n)
<1>1. m \in DOMAIN doc /\ m > n /\ f[m] \in Trees
  BY SelectionsAreLater
<1>2. doc[m].kind = "field" => Under(doc[m].name, f[m]) \in Trees
  BY <1>1, NodesAre, UnderIsTree
<1>3. doc[m].kind = "spread" /\ ~Dangling(doc, m) => f[Spread(doc, m)] \in Trees
  BY <1>1, SpreadIsLater, NodesAre
<1>4. {} \in Trees
  BY DEF Trees
<1> QED BY <1>2, <1>3, <1>4 DEF Given

LEMMA CollectedEquation ==
    ASSUME NEW doc, WellFormed(doc)
    PROVE  \A n \in DOMAIN doc : Collected(doc)[n] = CollectedAt(doc, Collected(doc), n)
<1> DEFINE D == DOMAIN doc
           R == Rank(doc)
           N == Len(doc)
           F == [x \in D \X [D -> Trees] |-> CollectedAt(doc, x[2], x[1])]
           Equation(f) == f = [n \in D |-> CollectedAt(doc, f, n)]
<1>1. N \in Nat /\ R \in [D -> 0 .. N] /\ \A n \in D : R[n] = n
  BY NodesAre DEF Rank
<1>2. \A n \in D, f \in [D -> Trees] : CollectedAt(doc, f, n) \in Trees
  <2> TAKE n \in D, f \in [D -> Trees]
  <2>1. \A m \in Sels(doc, n) : Given(doc, f, m) \in Trees
    BY GivenIsTree
  <2> QED BY <2>1 DEF CollectedAt, Kept, Trees
<1>3. \A n \in D, f \in [D -> Trees], g \in [D -> Trees] :
          (\A m \in D : m > n => f[m] = g[m]) => CollectedAt(doc, f, n) = CollectedAt(doc, g, n)
  <2> TAKE n \in D, f \in [D -> Trees], g \in [D -> Trees]
  <2> HAVE \A m \in D : m > n => f[m] = g[m]
  <2>1. ASSUME NEW m \in Sels(doc, n)
        PROVE  Given(doc, f, m) = Given(doc, g, m)
    <3>1. m \in D /\ m > n /\ m \in Nat /\ n \in Nat
      BY SelectionsAreLater, NodesAre
    <3>2. f[m] = g[m]
      BY <3>1
    <3>3. doc[m].kind = "spread" /\ ~Dangling(doc, m) => f[Spread(doc, m)] = g[Spread(doc, m)]
      <4> HAVE doc[m].kind = "spread" /\ ~Dangling(doc, m)
      <4>1. Spread(doc, m) \in D /\ Spread(doc, m) > m /\ Spread(doc, m) \in Nat
        BY <3>1, SpreadIsLater, NodesAre
      <4>2. Spread(doc, m) > n
        BY <3>1, <4>1
      <4> QED BY <4>1, <4>2
    <3> QED BY <3>2, <3>3 DEF Given
  <2>2. [m \in Sels(doc, n) |-> Given(doc, f, m)] = [m \in Sels(doc, n) |-> Given(doc, g, m)]
    BY <2>1
  <2> QED BY <2>2 DEF CollectedAt
<1>4. F \in [D \X [D -> Trees] -> Trees] /\ Trees # {}
  <2>1. Trees # {}
    BY DEF Trees
  <2> HIDE DEF D
  <2> QED BY <1>2, <2>1
<1>5. \A n \in D, f \in [D -> Trees] : F[<<n, f>>] = CollectedAt(doc, f, n)
  OBVIOUS
<1>6. RestsBeyond(F, D, R, Trees)
  <2>1. ASSUME NEW n \in D, NEW f \in [D -> Trees], NEW g \in [D -> Trees],
               \A m \in D : R[m] > R[n] => f[m] = g[m]
        PROVE  F[<<n, f>>] = F[<<n, g>>]
    <3>1. \A m \in D : m > n => f[m] = g[m]
      BY <1>1, <2>1
    <3> HIDE DEF F, R, D
    <3> QED BY <1>3, <1>5, <3>1
  <2> HIDE DEF F, R, D
  <2> QED BY <1>4, <2>1 DEF RestsBeyond
<1>7. HasSolution(F, D, Trees)
  <2> HIDE DEF F, D, R, N
  <2> QED BY <1>1, <1>4, <1>6, DownwardRecursion
<1>8. \E f : Equation(f)
  BY <1>5, <1>7 DEF HasSolution
<1>9. Collected(doc) = CHOOSE f : Equation(f)
  BY DEF Collected, CollectedAt, Kept
<1>10. Equation(Collected(doc))
  <2> HIDE DEF Equation
  <2> QED BY <1>8, <1>9
<1> QED BY <1>10

(* What a node's selections ask for, in one tree.                          *)
AskedBelow(doc, n) == UNION {Asked(doc)[m] : m \in Sels(doc, n)}

LEMMA AskedBySelection ==
    ASSUME NEW doc, WellFormed(doc), \A n \in DOMAIN doc : ~Dangling(doc, n),
           NEW m \in DOMAIN doc
    PROVE  /\ doc[m].kind = "field" => Asked(doc)[m] = Under(doc[m].name, AskedBelow(doc, m))
           /\ doc[m].kind = "spread" =>
                /\ Spread(doc, m) \in DOMAIN doc /\ Spread(doc, m) > m
                /\ Asked(doc)[m] = AskedBelow(doc, Spread(doc, m))
<1>1. \A n \in DOMAIN doc : Asked(doc)[n] = AskedAt(doc, Asked(doc), n)
  BY AskedEquation
<1>2. CASE doc[m].kind = "field"
  BY <1>1, <1>2 DEF AskedAt, AskedBelow
<1>3. CASE doc[m].kind = "spread"
  <2>1. Spread(doc, m) \in DOMAIN doc /\ Spread(doc, m) > m /\ doc[Spread(doc, m)].kind = "fragment"
    BY <1>3, SpreadIsLater
  <2>2. ~Dangling(doc, Spread(doc, m))
    BY <2>1
  <2>3. Asked(doc)[Spread(doc, m)] = AskedBelow(doc, Spread(doc, m))
    BY <1>1, <2>1, <2>2 DEF AskedAt, AskedBelow
  <2>4. Asked(doc)[m] = Asked(doc)[Spread(doc, m)]
    BY <1>1, <1>3 DEF AskedAt
  <2> QED BY <1>3, <2>1, <2>3, <2>4
<1> QED BY <1>2, <1>3

(* collect_fields finds nothing that was not asked for, where no fragment  *)
(* is missing, and all of it in a document that is Plain.                  *)
THEOREM CollectedIsAsked ==
    ASSUME NEW doc, WellFormed(doc), \A n \in DOMAIN doc : ~Dangling(doc, n)
    PROVE  \A n \in DOMAIN doc : /\ Collected(doc)[n] \subseteq AskedBelow(doc, n)
                                 /\ Plain(doc) => Collected(doc)[n] = AskedBelow(doc, n)
<1> DEFINE D == DOMAIN doc
           R == Rank(doc)
           N == Len(doc)
           found == Collected(doc)
           asked == Asked(doc)
           S == {n \in D : /\ found[n] \subseteq AskedBelow(doc, n)
                           /\ Plain(doc) => found[n] = AskedBelow(doc, n)}
<1>1. N \in Nat /\ R \in [D -> 0 .. N] /\ \A n \in D : R[n] = n /\ n \in Nat
  BY NodesAre DEF Rank
<1>2. ASSUME NEW n \in D, \A m \in D : m > n => m \in S
      PROVE  n \in S
  <2> DEFINE given == [m \in Sels(doc, n) |-> Given(doc, found, m)]
             kept(m) == {p \in given[m] : \A later \in Sels(doc, n) :
                                             later > m => p[1] \notin Heads(given[later])}
  <2>1. found[n] = UNION {kept(m) : m \in Sels(doc, n)}
    BY CollectedEquation DEF CollectedAt, Kept
  <2>2. ASSUME NEW m \in Sels(doc, n)
        PROVE  given[m] \subseteq asked[m] /\ (Plain(doc) => given[m] = asked[m])
    <3>1. m \in D /\ m > n /\ doc[m].kind \in {"field", "spread", "inline"}
      BY SelectionsAreLater
    <3>2. given[m] = Given(doc, found, m)
      OBVIOUS
    <3>3. CASE doc[m].kind = "field"
      <4>1. asked[m] = Under(doc[m].name, AskedBelow(doc, m))
        BY <3>1, <3>3, AskedBySelection
      <4>2. given[m] = Under(doc[m].name, found[m])
        BY <3>2, <3>3 DEF Given
      <4>3. found[m] \subseteq AskedBelow(doc, m) /\ (Plain(doc) => found[m] = AskedBelow(doc, m))
        BY <1>2, <3>1
      <4> HIDE DEF given, asked, found
      <4> QED BY <4>1, <4>2, <4>3 DEF Under
    <3>4. CASE doc[m].kind = "spread"
      <4>1. /\ Spread(doc, m) \in D /\ Spread(doc, m) > m
            /\ asked[m] = AskedBelow(doc, Spread(doc, m))
        BY <3>1, <3>4, AskedBySelection
      <4>2. given[m] = found[Spread(doc, m)]
        BY <3>1, <3>2, <3>4 DEF Given
      <4>3. Spread(doc, m) > n
        BY <1>1, <3>1, <4>1
      <4> QED BY <1>2, <4>1, <4>2, <4>3
    <3>5. CASE doc[m].kind = "inline"
      <4>1. given[m] = {}
        BY <3>2, <3>5 DEF Given
      <4>2. ~Plain(doc)
        BY <3>1, <3>5 DEF Plain, OfKind
      <4> QED BY <4>1, <4>2
    <3> QED BY <3>1, <3>3, <3>4, <3>5
  <2> HIDE DEF given
  <2>3. found[n] \subseteq AskedBelow(doc, n)
    BY <2>1, <2>2 DEF AskedBelow
  <2>4. ASSUME Plain(doc)
        PROVE  found[n] = AskedBelow(doc, n)
    <3>1. ASSUME NEW m \in Sels(doc, n), NEW p \in given[m],
                 NEW later \in Sels(doc, n), later > m, p[1] \in Heads(given[later])
          PROVE  FALSE
      <4>1. given[m] = asked[m] /\ given[later] = asked[later]
        BY <2>2, <2>4
      <4>2. m # later
        BY <1>1, <3>1, SelectionsAreLater
      <4>3. Heads(asked[m]) \cap Heads(asked[later]) = {}
        BY <2>4, <4>2 DEF Plain
      <4>4. p[1] \in Heads(asked[m])
        BY <4>1 DEF Heads
      <4> QED BY <3>1, <4>1, <4>3, <4>4
    <3>2. \A m \in Sels(doc, n) : kept(m) = asked[m]
      BY <2>2, <2>4, <3>1
    <3> HIDE DEF kept
    <3> QED BY <2>1, <3>2 DEF AskedBelow
  <2> QED BY <2>3, <2>4
<1>3. \A n \in D : (\A m \in D : R[m] > R[n] => m \in S) => n \in S
  <2> HIDE DEF S
  <2> QED BY <1>1, <1>2
<1>4. D \subseteq S
  <2> HIDE DEF S, D, R, N
  <2> QED BY <1>1, <1>3, DownwardInduction
<1> QED BY <1>4
=============================================================================
