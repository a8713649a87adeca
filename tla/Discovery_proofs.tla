--------------------------- MODULE Discovery_proofs ---------------------------
(***************************************************************************)
(* Proofs about Discovery: its type invariant, what the pages of a query   *)
(* hold, the order of the recommendations, what the overview shows and how *)
(* many notices are pushed, for any users, events, graph and bounds.  The  *)
(* induction that two of them need is over the least counterexample        *)
(* (LeastNumber).                                                          *)
(***************************************************************************)
EXTENDS Discovery, FiniteSetTheorems, SequenceTheorems, WellFoundedInduction, TLAPS

-----------------------------------------------------------------------------
(* Numbers.                                                                  *)

\* A set of numbers has a least one.
LEMMA LeastNumber ==
    ASSUME NEW T, T \subseteq Nat, T # {}
    PROVE  \E x \in T : \A y \in T : x <= y
<1>1. PICK R : R = OpToRel(<, Nat)
  BY Zenon
<1>2. IsWellFoundedOn(R, Nat)
  BY <1>1, NatLessThanWellFounded, Zenon
<1>3. PICK x \in T : \A y \in T : ~ (<<y, x>> \in R)
  BY <1>2, WFMin
<1>4. R = {ss \in Nat \X Nat : ss[1] < ss[2]}
  BY <1>1, Zenon DEF OpToRel
<1>5. \A y \in T : ~ (y < x)
  BY <1>3, <1>4
<1> QED
  BY <1>3, <1>5

\* A bounded set of numbers has a greatest one.
LEMMA GreatestNumber ==
    ASSUME NEW b \in Nat, NEW T, T \subseteq 0..b, T # {}
    PROVE  \E x \in T : \A y \in T : y <= x
<1>1. PICK D : D = {d \in Nat : \E y \in T : d = b - y}
  OBVIOUS
<1>2. D \subseteq Nat /\ D # {}
  <2>1. PICK y \in T : TRUE
    OBVIOUS
  <2>2. b - y \in Nat
    OBVIOUS
  <2> QED
    BY <1>1, <2>2
<1>3. PICK d \in D : \A c \in D : d <= c
  BY <1>2, LeastNumber
<1>4. PICK x \in T : d = b - x
  BY <1>1, <1>3
<1>5. ASSUME NEW y \in T PROVE y <= x
  <2>1. b - y \in D
    BY <1>1
  <2>2. b - x <= b - y
    BY <1>3, <1>4, <2>1
  <2> QED
    BY <2>2
<1> QED
  BY <1>5

LEMMA ProductCancels ==
    ASSUME NEW p \in Nat, NEW q \in Nat, NEW y \in Nat \ {0}, p * y >= q * y
    PROVE  p >= q
<1> SUFFICES ASSUME p < q PROVE FALSE
  OBVIOUS
<1>1. PICK d \in Nat \ {0} : q = p + d
  <2>1. q - p \in Nat \ {0} /\ q = p + (q - p)
    OBVIOUS
  <2> QED
    BY <2>1
<1>2. q * y = p * y + d * y
  BY <1>1
<1>3. d * y >= 1
  BY <1>1
<1>4. p * y \in Nat /\ d * y \in Nat
  BY <1>1
<1> QED
  BY <1>2, <1>3, <1>4

\* The order of quotients is transitive.
LEMMA QuotientsOrdered ==
    ASSUME NEW a \in Nat, NEW b \in Nat, NEW c \in Nat,
           NEW x \in Nat \ {0}, NEW y \in Nat \ {0}, NEW z \in Nat \ {0},
           a * y >= b * x, b * z >= c * y
    PROVE  a * z >= c * x
<1>1. (a * y) * z >= (b * x) * z
  OBVIOUS
<1>2. (b * z) * x >= (c * y) * x
  OBVIOUS
<1>3. (a * z) * y >= (c * x) * y
  BY <1>1, <1>2
<1>4. a * z \in Nat /\ c * x \in Nat
  OBVIOUS
<1> QED
  BY <1>3, <1>4, ProductCancels

\* A finite set has a greatest element in every strict order that relates any two.
LEMMA GreatestElement ==
    ASSUME NEW T, IsFiniteSet(T), T # {}, NEW R,
           \A x \in T : <<x, x>> \notin R,
           \A x, y \in T : x # y => <<x, y>> \in R \/ <<y, x>> \in R,
           \A x, y, z \in T : <<x, y>> \in R /\ <<y, z>> \in R => <<x, z>> \in R
    PROVE  \E x \in T : \A y \in T : y # x => <<x, y>> \in R
<1> DEFINE Below(x) == {y \in T : <<x, y>> \in R}
<1>1. ASSUME NEW x \in T
      PROVE  IsFiniteSet(Below(x)) /\ Cardinality(Below(x)) \in 0..Cardinality(T)
  <2>1. Below(x) \in SUBSET T
    OBVIOUS
  <2>2. IsFiniteSet(Below(x)) /\ Cardinality(Below(x)) <= Cardinality(T)
    BY <2>1, FS_Subset
  <2>3. Cardinality(Below(x)) \in Nat /\ Cardinality(T) \in Nat
    BY <2>2, FS_CardinalityType
  <2> QED
    BY <2>2, <2>3
<1>2. PICK N : N = {n \in 0..Cardinality(T) : \E x \in T : n = Cardinality(Below(x))}
  OBVIOUS
<1>3. N \subseteq 0..Cardinality(T) /\ N # {}
  <2>1. PICK x \in T : TRUE
    OBVIOUS
  <2>2. PICK c : c = Cardinality(Below(x))
    OBVIOUS
  <2>3. c \in 0..Cardinality(T)
    BY <1>1, <2>2
  <2>4. c \in N
    BY <1>2, <2>2, <2>3
  <2> QED
    BY <1>2, <2>4
<1>4. PICK n \in N : \A m \in N : m <= n
  <2>1. PICK b : b = Cardinality(T)
    OBVIOUS
  <2>2. b \in Nat
    BY <2>1, FS_CardinalityType
  <2>3. N \subseteq 0..b /\ N # {}
    BY <1>3, <2>1
  <2> QED
    BY <2>2, <2>3, GreatestNumber
<1>5. PICK x \in T : n = Cardinality(Below(x))
  BY <1>2
<1>6. ASSUME NEW y \in T, y # x, <<x, y>> \notin R
      PROVE  FALSE
  <2>1. <<y, x>> \in R
    BY <1>6
  <2>2. Below(x) \cup {x} \subseteq Below(y) /\ x \notin Below(x)
    BY <2>1
  <2>3. /\ IsFiniteSet(Below(x) \cup {x})
        /\ Cardinality(Below(x) \cup {x}) = Cardinality(Below(x)) + 1
    BY <1>1, <2>2, FS_AddElement
  <2>4. Cardinality(Below(x) \cup {x}) <= Cardinality(Below(y))
    <3>1. PICK A, B : A = Below(x) \cup {x} /\ B = Below(y)
      OBVIOUS
    <3>2. A \in SUBSET B /\ IsFiniteSet(B)
      BY <1>1, <2>2, <3>1
    <3>3. Cardinality(A) <= Cardinality(B)
      BY <3>2, FS_Subset
    <3> QED
      BY <3>1, <3>3
  <2>5. Cardinality(Below(y)) \in N
    <3>1. PICK c : c = Cardinality(Below(y))
      OBVIOUS
    <3>2. c \in 0..Cardinality(T)
      BY <1>1, <3>1
    <3> QED
      BY <1>2, <3>1, <3>2
  <2>6. Cardinality(Below(y)) <= n /\ n \in Nat /\ Cardinality(Below(y)) \in Nat
    <3>1. PICK b, c : b = Cardinality(T) /\ c = Cardinality(Below(y))
      OBVIOUS
    <3>2. b \in Nat /\ N \subseteq 0..b /\ c \in N /\ n \in N
      BY <1>3, <2>5, <3>1, FS_CardinalityType
    <3>3. c <= n /\ n \in Nat /\ c \in Nat
      BY <1>4, <3>2
    <3> QED
      BY <3>1, <3>3
  <2> QED
    BY <1>5, <2>3, <2>4, <2>6
<1> QED
  BY <1>6

-----------------------------------------------------------------------------
(* Lists.                                                                    *)

LEMMA ListOfSet ==
    ASSUME NEW S, IsFiniteSet(S), NEW l \in SetToSeqs(S)
    PROVE  /\ l \in [1..Cardinality(S) -> S] /\ l \in Seq(S)
           /\ Len(l) = Cardinality(S) /\ ToSet(l) \subseteq S
           /\ \A i, j \in 1..Len(l) : i # j => l[i] # l[j]
           /\ \A i \in 1..Len(l) : l[i] \in S
<1>1. Cardinality(S) \in Nat
  BY FS_CardinalityType
<1>2. l \in [1..Cardinality(S) -> S] /\ \A i, j \in 1..Cardinality(S) : i # j => l[i] # l[j]
  BY DEF SetToSeqs
<1>3. l \in Seq(S)
  BY <1>1, <1>2
<1>4. Len(l) = Cardinality(S)
  BY <1>1, <1>2, <1>3
<1>5. ToSet(l) \subseteq S
  BY <1>2 DEF ToSet
<1> QED
  BY <1>2, <1>3, <1>4, <1>5

-----------------------------------------------------------------------------
(* How much neighbours are like a user.                                      *)

LEMMA Likeness ==
    ASSUME NEW u, NEW v \in Neighbours(u)
    PROVE  /\ v \in Users /\ Rank[v] \in Nat
           /\ Shared(u, v) \in Nat /\ Either(u, v) \in Nat \ {0}
<1>1. v \in Users /\ Joined(u) \cap Joined(v) # {}
  BY DEF Neighbours
<1>2. IsFiniteSet(Events) /\ Joined(u) \cap Joined(v) \in SUBSET Events
      /\ Joined(u) \cup Joined(v) \in SUBSET Events
  BY ConstantsAssumption DEF Joined
<1>3. IsFiniteSet(Joined(u) \cap Joined(v)) /\ IsFiniteSet(Joined(u) \cup Joined(v))
  BY <1>2, FS_Subset
<1>4. Joined(u) \cup Joined(v) # {}
  BY <1>1
<1>5. Cardinality(Joined(u) \cap Joined(v)) \in Nat /\ Cardinality(Joined(u) \cup Joined(v)) \in Nat
  BY <1>3, FS_CardinalityType
<1>6. Cardinality(Joined(u) \cup Joined(v)) # 0
  BY <1>3, <1>4, FS_EmptySet
<1> QED
  BY <1>1, <1>5, <1>6, ConstantsAssumption DEF Shared, Either

LEMMA AsLikeTransitive ==
    ASSUME NEW u, NEW v \in Neighbours(u), NEW w \in Neighbours(u), NEW x \in Neighbours(u),
           AsLike(u, v, w), AsLike(u, w, x)
    PROVE  AsLike(u, v, x)
  BY Likeness, QuotientsOrdered DEF AsLike

\* Closer is as like, and the two are as like each other only if the ids decide.
LEMMA CloserIsAsLike ==
    ASSUME NEW u, NEW v \in Neighbours(u), NEW w \in Neighbours(u)
    PROVE  /\ Closer(u, v, w) <=> AsLike(u, v, w) /\ (AsLike(u, w, v) => Rank[v] < Rank[w])
           /\ AsLike(u, v, w) \/ AsLike(u, w, v)
<1>1. PICK a, b, x, y : /\ a = Shared(u, v) /\ b = Shared(u, w)
                        /\ x = Either(u, v) /\ y = Either(u, w)
  OBVIOUS
<1>2. a * y \in Nat /\ b * x \in Nat
  BY <1>1, Likeness
<1>3. PICK p, q : p = a * y /\ q = b * x
  OBVIOUS
<1>4. /\ Closer(u, v, w) <=> p > q \/ (p = q /\ Rank[v] < Rank[w])
      /\ AsLike(u, v, w) <=> p >= q
      /\ AsLike(u, w, v) <=> q >= p
  BY <1>1, <1>3 DEF Closer, AsLike
<1> QED
  BY <1>2, <1>3, <1>4

LEMMA CloserOrders ==
    ASSUME NEW u, NEW v \in Neighbours(u), NEW w \in Neighbours(u), NEW x \in Neighbours(u)
    PROVE  /\ ~Closer(u, v, v)
           /\ v # w => Closer(u, v, w) \/ Closer(u, w, v)
           /\ Closer(u, v, w) /\ Closer(u, w, x) => Closer(u, v, x)
<1>1. /\ Rank[v] \in Nat /\ Rank[w] \in Nat /\ Rank[x] \in Nat
      /\ v # w => Rank[v] # Rank[w]
  BY Likeness, ConstantsAssumption
<1>2. ~Closer(u, v, v)
  BY <1>1, CloserIsAsLike
<1>3. v # w => Closer(u, v, w) \/ Closer(u, w, v)
  BY <1>1, CloserIsAsLike
<1>4. ASSUME Closer(u, v, w), Closer(u, w, x)
      PROVE  Closer(u, v, x)
  <2>1. AsLike(u, v, w) /\ AsLike(u, w, x) /\ AsLike(u, v, x)
    BY <1>4, CloserIsAsLike, AsLikeTransitive
  <2>2. ASSUME AsLike(u, x, v)
        PROVE  Rank[v] < Rank[x]
    <3>1. AsLike(u, w, v) /\ AsLike(u, x, w)
      BY <2>1, <2>2, AsLikeTransitive
    <3>2. Rank[v] < Rank[w] /\ Rank[w] < Rank[x]
      BY <1>4, <3>1, CloserIsAsLike
    <3> QED
      BY <1>1, <3>2
  <2> QED
    BY <2>1, <2>2, CloserIsAsLike
<1> QED
  BY <1>2, <1>3, <1>4

\* First is well defined: of the neighbours that have an event one is the closest.
LEMMA FirstNeighbour ==
    ASSUME NEW u, NEW e \in Possible(u)
    PROVE  /\ First(u, e) \in Having(u, e)
           /\ \A w \in Having(u, e) : AsLike(u, First(u, e), w)
<1>1. Having(u, e) # {}
  BY DEF Possible, Having
<1>2. IsFiniteSet(Having(u, e))
  <2>1. IsFiniteSet(Users) /\ Having(u, e) \in SUBSET Users
    BY ConstantsAssumption DEF Having, Neighbours
  <2> QED
    BY <2>1, FS_Subset
<1>3. PICK R : R = {p \in Users \X Users : Closer(u, p[1], p[2])}
  OBVIOUS
<1>4. /\ \A v \in Having(u, e) : v \in Neighbours(u) /\ v \in Users
      /\ \A v, w \in Having(u, e) : <<v, w>> \in R <=> Closer(u, v, w)
  BY <1>3 DEF Having, Neighbours
<1>5. PICK v \in Having(u, e) : \A w \in Having(u, e) : w # v => <<v, w>> \in R
  <2>1. \A x \in Having(u, e) : <<x, x>> \notin R
    BY <1>4, CloserOrders
  <2>2. \A x, y \in Having(u, e) : x # y => <<x, y>> \in R \/ <<y, x>> \in R
    BY <1>4, CloserOrders
  <2>3. \A x, y, z \in Having(u, e) : <<x, y>> \in R /\ <<y, z>> \in R => <<x, z>> \in R
    BY <1>4, CloserOrders
  <2> QED
    BY <1>1, <1>2, <2>1, <2>2, <2>3, GreatestElement
<1>6. \E x \in Neighbours(u) :
        /\ e \in Joined(x)
        /\ \A w \in Neighbours(u) : e \in Joined(w) => w = x \/ Closer(u, x, w)
  BY <1>4, <1>5 DEF Having
<1>7. /\ First(u, e) \in Neighbours(u) /\ e \in Joined(First(u, e))
      /\ \A w \in Neighbours(u) : e \in Joined(w) => w = First(u, e) \/ Closer(u, First(u, e), w)
  BY <1>6 DEF First
<1>8. ASSUME NEW w \in Having(u, e)
      PROVE  AsLike(u, First(u, e), w)
  <2>1. w \in Neighbours(u) /\ e \in Joined(w)
    BY DEF Having
  <2> QED
    BY <1>7, <2>1, CloserIsAsLike
<1> QED
  BY <1>7, <1>8 DEF Having

LEMMA LikenessInEveryState == RecommendedByLikeness
<1> SUFFICES ASSUME NEW u \in Users, NEW ids \in Recommended(u),
                    NEW i \in 1..Len(ids), NEW j \in 1..Len(ids), i < j
             PROVE  \E v \in Having(u, ids[i]) : \A w \in Having(u, ids[j]) : AsLike(u, v, w)
  BY DEF RecommendedByLikeness
<1>1. /\ ids \in SetToSeqs(Possible(u))
      /\ ~(First(u, ids[j]) # First(u, ids[i])
           /\ Closer(u, First(u, ids[j]), First(u, ids[i])))
  BY DEF Recommended, Orders
<1>2. ids[i] \in Possible(u) /\ ids[j] \in Possible(u)
  <2>1. IsFiniteSet(Possible(u))
    <3>1. IsFiniteSet(Events) /\ Possible(u) \in SUBSET Events
      BY ConstantsAssumption DEF Possible, Joined
    <3> QED
      BY <3>1, FS_Subset
  <2> QED
    BY <1>1, <2>1, ListOfSet
<1>3. PICK v, x : v = First(u, ids[i]) /\ x = First(u, ids[j])
  OBVIOUS
<1>4. /\ v \in Having(u, ids[i]) /\ v \in Neighbours(u)
      /\ x \in Having(u, ids[j]) /\ x \in Neighbours(u)
      /\ \A w \in Having(u, ids[j]) : AsLike(u, x, w) /\ w \in Neighbours(u)
  BY <1>2, <1>3, FirstNeighbour DEF Having
<1>5. AsLike(u, v, x)
  BY <1>1, <1>3, <1>4, CloserIsAsLike, CloserOrders
<1>6. \A w \in Having(u, ids[j]) : AsLike(u, v, w)
  BY <1>4, <1>5, AsLikeTransitive
<1> QED
  BY <1>4, <1>6

-----------------------------------------------------------------------------
(* The pages of a query.                                                     *)

\* Every element of a finite set is somewhere in each of its lists.
LEMMA ListHoldsAll ==
    ASSUME NEW S, IsFiniteSet(S), NEW l \in SetToSeqs(S), NEW e \in S
    PROVE  \E i \in 1..Len(l) : l[i] = e
<1>1. PICK n : n = Cardinality(S)
  OBVIOUS
<1>2. /\ n \in Nat /\ l \in [1..n -> S] /\ Len(l) = n
      /\ \A i, j \in 1..n : i # j => l[i] # l[j]
  BY <1>1, ListOfSet, FS_CardinalityType
<1>3. l \in Injection(1..n, S)
  BY <1>2 DEF Injection, IsInjective
<1>4. IsFiniteSet(1..n) /\ Cardinality(1..n) = n
  BY <1>2, FS_Interval
<1>5. l \in Surjection(1..n, S)
  BY <1>1, <1>3, <1>4, FS_Injection
<1> QED
  BY <1>2, <1>5 DEF Surjection

\* A set has one list that is sorted by an order in which any two elements differ.
LEMMA OneSortedList ==
    ASSUME NEW S, IsFiniteSet(S), NEW R,
           \A e, f \in S : e # f => <<e, f>> \in R \/ <<f, e>> \in R,
           NEW p \in SetToSeqs(S), NEW q \in SetToSeqs(S),
           \A i, j \in 1..Len(p) : i < j => <<p[j], p[i]>> \notin R,
           \A i, j \in 1..Len(q) : i < j => <<q[j], q[i]>> \notin R
    PROVE  p = q
<1>1. PICK n : n = Cardinality(S)
  OBVIOUS
<1>2. /\ n \in Nat /\ p \in [1..n -> S] /\ q \in [1..n -> S] /\ Len(p) = n /\ Len(q) = n
      /\ \A i, j \in 1..n : i # j => p[i] # p[j] /\ q[i] # q[j]
  BY <1>1, ListOfSet, FS_CardinalityType
<1>3. SUFFICES ASSUME p # q PROVE FALSE
  OBVIOUS
<1>4. PICK D : D = {i \in 1..n : p[i] # q[i]}
  OBVIOUS
<1>5. D \subseteq Nat /\ D # {}
  BY <1>2, <1>3, <1>4
<1>6. PICK i \in D : \A k \in D : i <= k
  BY <1>5, LeastNumber
<1>7. i \in 1..n /\ p[i] # q[i] /\ \A k \in 1..n : k < i => p[k] = q[k]
  BY <1>2, <1>4, <1>6
<1>8. PICK j \in 1..n : q[j] = p[i]
  BY <1>2, <1>7, ListHoldsAll
<1>9. PICK k \in 1..n : p[k] = q[i]
  BY <1>2, <1>7, ListHoldsAll
<1>10. i < j
  BY <1>2, <1>7, <1>8
<1>11. i < k
  BY <1>2, <1>7, <1>9
<1>12. <<q[j], q[i]>> \notin R /\ <<p[k], p[i]>> \notin R
  BY <1>2, <1>7, <1>10, <1>11
<1> QED
  BY <1>2, <1>7, <1>8, <1>9, <1>12

\* A page holds what stands at its places in the list.
LEMMA PagePlaces ==
    ASSUME NEW l \in Seq(Events), NEW skip \in Nat, NEW take \in Nat,
           NEW t, t = Paged(l, skip, take)
    PROVE  /\ Len(t) \in Nat /\ DOMAIN t = 1..Len(t)
           /\ \A i \in 1..Len(t) : /\ skip + i \in 1..Len(l) /\ i <= take
                                   /\ t[i] = l[skip + i]
           /\ \A i \in 1..Len(l) : skip < i /\ i <= skip + take => i - skip \in 1..Len(t)
<1>1. PICK n, m : n = Len(l) /\ m = IF skip + take < n THEN skip + take ELSE n
  OBVIOUS
<1>2. n \in Nat /\ m \in Nat /\ m <= n /\ \A i \in 1..n : l[i] \in Events
  BY <1>1, LenProperties
<1>3. t = SubSeq(l, skip + 1, m)
  BY <1>1 DEF Paged
<1>4. PICK a : a = skip + 1
  OBVIOUS
<1>5. a \in Int /\ m \in Int /\ \A i \in a..m : l[i] \in Events
  BY <1>2, <1>4
<1>6. /\ t \in Seq(Events) /\ Len(t) = (IF a <= m THEN m - a + 1 ELSE 0)
      /\ \A i \in 1..m - a + 1 : t[i] = l[a + i - 1]
  BY <1>3, <1>4, <1>5, SubSeqProperties
<1>7. Len(t) \in Nat /\ DOMAIN t = 1..Len(t)
  BY <1>6, LenProperties
<1>8. ASSUME NEW i \in 1..Len(t)
      PROVE  skip + i \in 1..n /\ i <= take /\ t[i] = l[skip + i]
  <2>1. a <= m /\ i \in 1..m - a + 1 /\ i >= 1
    BY <1>2, <1>4, <1>6, <1>7
  <2>2. skip + i \in 1..n /\ i <= take
    BY <1>1, <1>2, <1>4, <2>1
  <2>3. a + i - 1 = skip + i
    BY <1>4, <2>1
  <2> QED
    BY <1>6, <2>1, <2>2, <2>3
<1>9. ASSUME NEW i \in 1..n, skip < i, i <= skip + take
      PROVE  i - skip \in 1..Len(t)
  BY <1>1, <1>2, <1>4, <1>6, <1>9
<1> QED
  BY <1>1, <1>7, <1>8, <1>9

LEMMA HeldByPage ==
    ASSUME NEW l \in Seq(Events), NEW skip \in Nat, NEW take \in Nat, NEW e
    PROVE  e \in ToSet(Paged(l, skip, take)) <=>
             \E i \in 1..Len(l) : skip < i /\ i <= skip + take /\ l[i] = e
<1>1. PICK t : t = Paged(l, skip, take)
  OBVIOUS
<1>2. /\ Len(t) \in Nat /\ DOMAIN t = 1..Len(t)
      /\ \A i \in 1..Len(t) : /\ skip + i \in 1..Len(l) /\ i <= take
                              /\ t[i] = l[skip + i]
      /\ \A i \in 1..Len(l) : skip < i /\ i <= skip + take => i - skip \in 1..Len(t)
  BY <1>1, PagePlaces
<1>3. ASSUME NEW i \in 1..Len(t), t[i] = e
      PROVE  \E k \in 1..Len(l) : skip < k /\ k <= skip + take /\ l[k] = e
  <2>1. skip + i \in 1..Len(l) /\ skip < skip + i /\ skip + i <= skip + take /\ l[skip + i] = e
    BY <1>2, <1>3
  <2> QED
    BY <2>1
<1>4. ASSUME NEW i \in 1..Len(l), skip < i, i <= skip + take, l[i] = e
      PROVE  \E k \in 1..Len(t) : t[k] = e
  <2>1. i - skip \in 1..Len(t) /\ skip + (i - skip) = i
    BY <1>2, <1>4
  <2>2. t[i - skip] = e
    BY <1>2, <1>4, <2>1
  <2> QED
    BY <2>1, <2>2
<1>5. e \in ToSet(t) <=> \E i \in 1..Len(t) : t[i] = e
  BY <1>2 DEF ToSet
<1> QED
  BY <1>1, <1>3, <1>4, <1>5

\* Two pages of one list that follow each other are one page of both sizes.
LEMMA PagesJoin ==
    ASSUME NEW l \in Seq(Events), NEW skip \in Nat, NEW a \in Nat, NEW b \in Nat
    PROVE  Paged(l, skip, a) \o Paged(l, skip + a, b) = Paged(l, skip, a + b)
<1>1. PICK n, m, c : /\ n = Len(l) /\ c = skip + a
                     /\ m = IF c + b < n THEN c + b ELSE n
  OBVIOUS
<1>2. n \in Nat /\ m \in Nat /\ c \in Nat
  BY <1>1, LenProperties
<1>3. Paged(l, skip, a + b) = SubSeq(l, skip + 1, m)
  <2>1. skip + (a + b) = c + b
    BY <1>1
  <2> QED
    BY <1>1, <2>1 DEF Paged
<1>4. Paged(l, c, b) = SubSeq(l, c + 1, m)
  BY <1>1 DEF Paged
<1>5. CASE c <= n
  <2>1. Paged(l, skip, a) = SubSeq(l, skip + 1, c)
    <3>1. (IF skip + a < Len(l) THEN skip + a ELSE Len(l)) = c
      BY <1>1, <1>2, <1>5
    <3> QED
      BY <3>1 DEF Paged
  <2>2. PICK s : s = skip + 1
    OBVIOUS
  <2>3. s \in 1..(Len(l) + 1) /\ c \in (s - 1)..Len(l) /\ m \in c..Len(l)
    BY <1>1, <1>2, <1>5, <2>2
  <2>4. SubSeq(l, s, c) \o SubSeq(l, c + 1, m) = SubSeq(l, s, m)
    BY <2>3, ConcatAdjacentSubSeq
  <2> QED
    BY <1>1, <1>3, <1>4, <2>1, <2>2, <2>4
<1>6. CASE c > n
  <2>1. m = n
    BY <1>1, <1>2, <1>6
  <2>2. Paged(l, skip, a) = SubSeq(l, skip + 1, m)
    <3>1. (IF skip + a < Len(l) THEN skip + a ELSE Len(l)) = m
      BY <1>1, <1>2, <1>6, <2>1
    <3> QED
      BY <3>1 DEF Paged
  <2>3. Paged(l, c, b) = <<>>
    <3>1. c + 1 \in Int /\ m \in Int /\ m < c + 1
      BY <1>2, <1>6, <2>1
    <3> QED
      BY <1>4, <3>1, SubSeqEmpty
  <2>4. PICK t : t = SubSeq(l, skip + 1, m)
    OBVIOUS
  <2>5. t \in Seq(Events)
    <3>1. PICK s : s = skip + 1
      OBVIOUS
    <3>2. s \in Int /\ m \in Int /\ \A i \in s..m : l[i] \in Events
      BY <1>1, <1>2, <2>1, <3>1, LenProperties
    <3>3. SubSeq(l, s, m) \in Seq(Events)
      BY <3>2, SubSeqProperties
    <3> QED
      BY <2>4, <3>1, <3>3
  <2>6. t \o <<>> = t
    BY <2>5, ConcatEmptySeq
  <2> QED
    BY <1>1, <1>3, <2>2, <2>3, <2>4, <2>6
<1> QED
  BY <1>2, <1>5, <1>6

\* In a sorted list of a set whose elements all differ, the place of one is the number of
\* those that come before it, and itself.
LEMMA PlaceInOrder ==
    ASSUME NEW S, IsFiniteSet(S), NEW R,
           \A e, f \in S : e # f => <<e, f>> \in R \/ <<f, e>> \in R,
           NEW l \in SetToSeqs(S), \A i, j \in 1..Len(l) : i < j => <<l[j], l[i]>> \notin R,
           NEW i \in 1..Len(l), NEW B, B \subseteq S,
           \A f \in S : f \in B <=> f = l[i] \/ <<f, l[i]>> \in R
    PROVE  Cardinality(B) = i
<1>1. PICK n : n = Len(l)
  OBVIOUS
<1>2. /\ n \in Nat /\ l \in [1..n -> S] /\ \A j, k \in 1..n : j # k => l[j] # l[k]
      /\ i \in 1..n /\ l[i] \in S
  BY <1>1, ListOfSet, FS_CardinalityType
<1>3. ASSUME NEW j \in 1..n
      PROVE  l[j] \in B <=> j <= i
  <2>1. PICK x, y : x = l[j] /\ y = l[i]
    OBVIOUS
  <2>2. x \in S /\ y \in S /\ (x \in B <=> x = y \/ <<x, y>> \in R)
    BY <1>2, <2>1
  <2>3. j \in Int /\ i \in Int /\ (x = y <=> i = j)
    BY <1>2, <2>1
  <2>4. i < j => <<x, y>> \notin R
    BY <1>1, <1>2, <2>1
  <2>5. j < i => <<y, x>> \notin R
    BY <1>1, <1>2, <2>1
  <2>6. x # y => <<x, y>> \in R \/ <<y, x>> \in R
    BY <2>2
  <2> QED
    BY <2>1, <2>2, <2>3, <2>4, <2>5, <2>6
<1>4. PICK I : I = 1..i
  OBVIOUS
<1>5. I \subseteq 1..n /\ \A j \in I : j <= i
  BY <1>1, <1>2, <1>4
<1>6. PICK g : g = [j \in I |-> l[j]]
  OBVIOUS
<1>7. g \in [I -> B] /\ \A j, k \in I : j # k => g[j] # g[k]
  BY <1>2, <1>3, <1>5, <1>6
<1>8. \A e \in B : \E j \in I : g[j] = e
  <2>1. SUFFICES ASSUME NEW e \in B PROVE \E j \in I : g[j] = e
    OBVIOUS
  <2>2. PICK j \in 1..n : l[j] = e
    BY <1>1, ListHoldsAll
  <2>3. j \in I
    BY <1>2, <1>3, <1>4, <2>1, <2>2
  <2> QED
    BY <1>6, <2>2, <2>3
<1>9. g \in Surjection(I, B) /\ g \in Injection(I, B)
  BY <1>7, <1>8 DEF Surjection, Injection, IsInjective
<1>10. IsFiniteSet(I) /\ Cardinality(I) = i
  <2>1. i \in Int /\ i >= 1
    OBVIOUS
  <2> QED
    BY <1>4, <2>1, FS_Interval
<1>11. Cardinality(B) = Cardinality(I)
  BY <1>9, <1>10, FS_Surjection
<1> QED
  BY <1>10, <1>11

\* When some of the set are gone, what is left moves to the front, by as many at most.
LEMMA PlacesMove ==
    ASSUME NEW S, IsFiniteSet(S), NEW T, T \subseteq S, NEW R,
           \A e, f \in S : e # f => <<e, f>> \in R \/ <<f, e>> \in R,
           NEW p \in SetToSeqs(S), \A i, j \in 1..Len(p) : i < j => <<p[j], p[i]>> \notin R,
           NEW q \in SetToSeqs(T), \A i, j \in 1..Len(q) : i < j => <<q[j], q[i]>> \notin R,
           NEW i \in 1..Len(p), NEW j \in 1..Len(q), p[i] = q[j]
    PROVE  Cardinality(S \ T) \in Nat /\ j <= i /\ i <= j + Cardinality(S \ T)
<1>1. IsFiniteSet(T)
  BY FS_Subset
<1>2. PICK A, B, C, D : /\ A = {f \in S : f = p[i] \/ <<f, p[i]>> \in R}
                        /\ B = {f \in T : f = q[j] \/ <<f, q[j]>> \in R}
                        /\ C = S \ T /\ D = B \cup C
  OBVIOUS
<1>3. /\ A \subseteq S /\ C \subseteq S /\ B \subseteq A /\ A \subseteq D /\ D \subseteq S
      /\ B \subseteq T /\ \A f \in S : f \in A <=> f = p[i] \/ <<f, p[i]>> \in R
      /\ \A f \in T : f \in B <=> f = q[j] \/ <<f, q[j]>> \in R
  BY <1>2
<1>4. IsFiniteSet(A) /\ IsFiniteSet(C) /\ IsFiniteSet(B) /\ IsFiniteSet(D)
  BY <1>3, FS_Subset
<1>5. Cardinality(A) = i
  BY <1>3, PlaceInOrder, ZenonT(40)
<1>6. Cardinality(B) = j
  <2>1. \A e, f \in T : e # f => <<e, f>> \in R \/ <<f, e>> \in R
    OBVIOUS
  <2> QED
    BY <1>1, <1>3, <2>1, PlaceInOrder
<1>7. Cardinality(B) <= Cardinality(A) /\ Cardinality(A) <= Cardinality(D)
  BY <1>3, <1>4, FS_Subset
<1>8. PICK E : E = B \cap C
  OBVIOUS
<1>9. E = {} /\ Cardinality(E) = 0
  BY <1>2, <1>8, FS_EmptySet
<1>10. Cardinality(D) = Cardinality(B) + Cardinality(C) - Cardinality(E)
  BY <1>2, <1>4, <1>8, FS_Union
<1>11. Cardinality(C) \in Nat
  BY <1>4, FS_CardinalityType
<1> QED
  BY <1>2, <1>5, <1>6, <1>7, <1>9, <1>10, <1>11

LEMMA SortedLists ==
    ASSUME NEW S, S \subseteq Events, NEW near, NEW l \in Sorted(S, near)
    PROVE  /\ IsFiniteSet(S) /\ l \in SetToSeqs(S) /\ l \in Seq(Events)
           /\ \A i \in 1..Len(l) : l[i] \in S
           /\ \A i, j \in 1..Len(l) : i < j => ~Precedes(l[j], l[i], near)
<1>1. IsFiniteSet(S)
  BY ConstantsAssumption, FS_Subset
<1>2. /\ l \in SetToSeqs(S)
      /\ \A i, j \in 1..Len(l) : i < j => ~Precedes(l[j], l[i], near)
  BY DEF Sorted, Orders
<1>3. l \in Seq(S) /\ \A i \in 1..Len(l) : l[i] \in S
  BY <1>1, <1>2, ListOfSet
<1> QED
  BY <1>1, <1>2, <1>3, SeqMonotonic

\* A page brings the nearer of two events first, or the earlier.
LEMMA PageIsSorted ==
    ASSUME NEW S, S \subseteq Events, NEW near \in BOOLEAN, NEW l \in Sorted(S, near),
           NEW skip \in Nat, NEW take \in Nat
    PROVE  Ahead(Paged(l, skip, take), near)
<1>1. PICK t : t = Paged(l, skip, take)
  OBVIOUS
<1>2. /\ l \in Seq(Events) /\ \A i \in 1..Len(l) : l[i] \in Events
      /\ \A i, j \in 1..Len(l) : i < j => ~Precedes(l[j], l[i], near)
  BY SortedLists
<1>3. SUFFICES ASSUME NEW i \in 1..Len(t), NEW j \in 1..Len(t), i < j
               PROVE  IF near THEN Dist[t[i]] <= Dist[t[j]] ELSE Start[t[i]] <= Start[t[j]]
  BY <1>1 DEF Ahead
<1>4. /\ skip + i \in 1..Len(l) /\ t[i] = l[skip + i]
      /\ skip + j \in 1..Len(l) /\ t[j] = l[skip + j]
      /\ Len(t) \in Nat
  BY <1>1, <1>2, PagePlaces
<1>5. skip + i < skip + j
  BY <1>3, <1>4
<1>6. t[i] \in Events /\ t[j] \in Events /\ ~Precedes(t[j], t[i], near)
  BY <1>2, <1>4, <1>5
<1>7. /\ Dist[t[i]] \in Nat /\ Dist[t[j]] \in Nat
      /\ Start[t[i]] \in Nat /\ Start[t[j]] \in Nat
  BY <1>6, ConstantsAssumption
<1>8. CASE near
  <2>1. ~(Dist[t[j]] < Dist[t[i]])
    BY <1>6, <1>8 DEF Precedes
  <2> QED
    BY <1>7, <1>8, <2>1
<1>9. CASE ~near
  <2>1. ~(Start[t[j]] < Start[t[i]])
    BY <1>6, <1>9 DEF Precedes
  <2> QED
    BY <1>7, <1>9, <2>1
<1> QED
  BY <1>8, <1>9

LEMMA DifferentAreOrdered ==
    ASSUME NEW e \in Events, NEW f \in Events, NEW near \in BOOLEAN, Differ(e, f, near)
    PROVE  Precedes(e, f, near) \/ Precedes(f, e, near)
<1>1. /\ Dist[e] \in Nat /\ Dist[f] \in Nat /\ Start[e] \in Nat /\ Start[f] \in Nat
      /\ Name[e] \in Nat /\ Name[f] \in Nat
  BY ConstantsAssumption
<1>2. CASE near
  BY <1>1, <1>2 DEF Differ, Precedes
<1>3. CASE ~near
  BY <1>1, <1>3 DEF Differ, Precedes
<1> QED
  BY <1>2, <1>3

LEMMA PagesOfTwoMoments ==
    ASSUME NEW S, S \subseteq Events, NEW near \in BOOLEAN, NEW T, T \subseteq S
    PROVE  Tile(S, T, near)
<1> SUFFICES ASSUME NEW p \in Sorted(S, near), NEW q \in Sorted(T, near),
                    NEW skip \in Sizes, NEW a \in Sizes, NEW b \in Sizes
             PROVE  /\ Ahead(Paged(p, skip, a), near)
                    /\ AllDiffer(S, near) =>
                         /\ ToSet(Paged(p, skip, a)) \cap ToSet(Paged(q, skip + a, b)) = {}
                         /\ \A i \in 1..Len(p) :
                              skip + a + Cardinality(S \ T) < i
                              /\ i <= skip + a + b /\ p[i] \in T =>
                                p[i] \in ToSet(Paged(q, skip + a, b))
                         /\ T = S => Paged(p, skip, a) \o Paged(q, skip + a, b)
                                       = Paged(p, skip, a + b)
  BY DEF Tile
<1>1. skip \in Nat /\ a \in Nat /\ b \in Nat
  BY ConstantsAssumption
<1>2. PICK c, d : c = skip + a /\ d = a + b
  OBVIOUS
<1>3. c \in Nat /\ d \in Nat /\ c + b = skip + a + b
  BY <1>1, <1>2
<1>4. /\ IsFiniteSet(S) /\ p \in SetToSeqs(S) /\ p \in Seq(Events)
      /\ \A i \in 1..Len(p) : p[i] \in S
      /\ \A i, j \in 1..Len(p) : i < j => ~Precedes(p[j], p[i], near)
  BY SortedLists
<1>5. /\ IsFiniteSet(T) /\ q \in SetToSeqs(T) /\ q \in Seq(Events)
      /\ \A i \in 1..Len(q) : q[i] \in T
      /\ \A i, j \in 1..Len(q) : i < j => ~Precedes(q[j], q[i], near)
  <2>1. T \subseteq Events
    OBVIOUS
  <2> QED
    BY <2>1, SortedLists
<1>6. PICK first, second : first = Paged(p, skip, a) /\ second = Paged(q, c, b)
  OBVIOUS
<1>7. Ahead(first, near)
  BY <1>1, <1>6, PageIsSorted
<1>8. ASSUME AllDiffer(S, near)
      PROVE  /\ ToSet(first) \cap ToSet(second) = {}
             /\ \A i \in 1..Len(p) :
                  c + Cardinality(S \ T) < i /\ i <= c + b /\ p[i] \in T =>
                    p[i] \in ToSet(second)
             /\ T = S => first \o second = Paged(p, skip, d)
  <2>1. PICK R : R = {x \in Events \X Events : Precedes(x[1], x[2], near)}
    OBVIOUS
  <2>2. \A e, f \in S : e # f => <<e, f>> \in R \/ <<f, e>> \in R
    <3>1. SUFFICES ASSUME NEW e \in S, NEW f \in S, e # f
                   PROVE  <<e, f>> \in R \/ <<f, e>> \in R
      OBVIOUS
    <3>2. e \in Events /\ f \in Events /\ Differ(e, f, near)
      BY <1>8, <3>1 DEF AllDiffer
    <3> QED
      BY <2>1, <3>2, DifferentAreOrdered
  <2>3. /\ \A i, j \in 1..Len(p) : i < j => <<p[j], p[i]>> \notin R
        /\ \A i, j \in 1..Len(q) : i < j => <<q[j], q[i]>> \notin R
    BY <1>4, <1>5, <2>1
  <2>4. ASSUME NEW i \in 1..Len(p), NEW j \in 1..Len(q), p[i] = q[j]
        PROVE  Cardinality(S \ T) \in Nat /\ j <= i /\ i <= j + Cardinality(S \ T)
    BY <1>4, <1>5, <2>2, <2>3, <2>4, PlacesMove
  <2>5. ASSUME NEW e \in ToSet(first), e \in ToSet(second)
        PROVE  FALSE
    <3>1. PICK i \in 1..Len(p) : skip < i /\ i <= c /\ p[i] = e
      BY <1>1, <1>2, <1>4, <1>6, <2>5, HeldByPage
    <3>2. PICK j \in 1..Len(q) : c < j /\ j <= c + b /\ q[j] = e
      BY <1>1, <1>3, <1>5, <1>6, <2>5, HeldByPage, SMTT(30)
    <3>3. j <= i
      BY <2>4, <3>1, <3>2
    <3> QED
      BY <1>3, <3>1, <3>2, <3>3
  <2>6. ASSUME NEW i \in 1..Len(p), c + Cardinality(S \ T) < i, i <= c + b, p[i] \in T
        PROVE  p[i] \in ToSet(second)
    <3>1. PICK j \in 1..Len(q) : q[j] = p[i]
      BY <1>5, <2>6, ListHoldsAll
    <3>2. Cardinality(S \ T) \in Nat /\ j <= i /\ i <= j + Cardinality(S \ T)
      BY <2>4, <3>1
    <3>3. c < j /\ j <= c + b
      BY <1>1, <1>3, <2>6, <3>2
    <3> QED
      BY <1>1, <1>3, <1>5, <1>6, <3>1, <3>3, HeldByPage
  <2>7. ASSUME T = S
        PROVE  first \o second = Paged(p, skip, d)
    <3>1. q \in SetToSeqs(S)
      BY <1>5, <2>7
    <3>2. p = q
      BY <1>4, <2>2, <2>3, <3>1, OneSortedList
    <3> QED
      BY <1>1, <1>2, <1>4, <1>6, <3>2, PagesJoin
  <2> QED
    BY <2>5, <2>6, <2>7
<1> QED
  BY <1>2, <1>3, <1>6, <1>7, <1>8

LEMMA PagesTileInEveryState == TypeOK => PagesTile
<1> SUFFICES ASSUME TypeOK, NEW near \in BOOLEAN, NEW radius \in Radii
             PROVE  <<Found(near, radius, now), near, TRUE>> \in Tiling
  BY DEF PagesTile
<1>1. PICK S : S = Found(near, radius, now)
  OBVIOUS
<1>2. S \in SUBSET Events
  BY <1>1 DEF TypeOK, Found, Matching
<1> DEFINE all(U, n) == \A T \in SUBSET U : Tile(U, T, n)
<1>3. all(S, near)
  BY <1>2, PagesOfTwoMoments
<1>4. Tiling = {<<U, n, all(U, n)>> : U \in SUBSET Events, n \in BOOLEAN}
  BY DEF Tiling
<1> HIDE DEF all
<1>5. <<S, near, all(S, near)>> \in Tiling
  BY <1>2, <1>4
<1>6. <<S, near, all(S, near)>> = <<S, near, TRUE>>
  BY <1>3
<1> QED
  BY <1>1, <1>5, <1>6

-----------------------------------------------------------------------------
(* What the queries answer.                                                  *)

LEMMA ListsAreSequences ==
    ASSUME NEW l
    PROVE  l \in Lists <=> l \in Seq(Events) /\ Len(l) <= Cardinality(Events)
<1>1. PICK n : n = Cardinality(Events)
  OBVIOUS
<1>2. n \in Nat
  BY <1>1, ConstantsAssumption, FS_CardinalityType
<1>3. l \in Lists <=> \E m \in 0..n : l \in [1..m -> Events]
  BY <1>1 DEF Lists, SeqOf
<1>4. ASSUME NEW m \in 0..n, l \in [1..m -> Events]
      PROVE  l \in Seq(Events) /\ Len(l) <= n
  <2>1. l \in Seq(Events)
    BY <1>2, <1>4
  <2>2. Len(l) = m
    BY <1>2, <1>4, <2>1
  <2> QED
    BY <1>2, <2>1, <2>2
<1>5. ASSUME l \in Seq(Events), Len(l) <= n
      PROVE  Len(l) \in 0..n /\ l \in [1..Len(l) -> Events]
  BY <1>2, <1>5, LenProperties
<1> QED
  BY <1>1, <1>3, <1>4, <1>5

LEMMA EmptyList == <<>> \in Lists /\ ToSet(<<>>) = {}
<1>1. <<>> \in Seq(Events) /\ Len(<<>>) = 0
  OBVIOUS
<1>2. Len(<<>>) <= Cardinality(Events)
  <2>1. Cardinality(Events) \in Nat
    BY ConstantsAssumption, FS_CardinalityType
  <2> QED
    BY <1>1, <2>1
<1>3. ToSet(<<>>) = {}
  BY DEF ToSet
<1> QED
  BY <1>1, <1>2, <1>3, ListsAreSequences

LEMMA ListOfEvents ==
    ASSUME NEW S, S \subseteq Events, NEW l \in SetToSeqs(S)
    PROVE  l \in Lists /\ ToSet(l) \subseteq S
<1>1. IsFiniteSet(S) /\ Cardinality(S) <= Cardinality(Events)
  BY ConstantsAssumption, FS_Subset
<1>2. l \in Seq(S) /\ Len(l) = Cardinality(S) /\ ToSet(l) \subseteq S
  BY <1>1, ListOfSet
<1>3. l \in Seq(Events)
  BY <1>2, SeqMonotonic
<1> QED
  BY <1>1, <1>2, <1>3, ListsAreSequences

LEMMA HeldEvents ==
    ASSUME NEW l \in Lists
    PROVE  /\ ToSet(l) \subseteq Events /\ DOMAIN l = 1..Len(l) /\ Len(l) \in Nat
           /\ \A i \in 1..Len(l) : l[i] \in ToSet(l)
<1>1. l \in Seq(Events)
  BY ListsAreSequences
<1>2. DOMAIN l = 1..Len(l) /\ Len(l) \in Nat /\ \A i \in 1..Len(l) : l[i] \in Events
  BY <1>1, LenProperties
<1> QED
  BY <1>2 DEF ToSet

LEMMA PageOfList ==
    ASSUME NEW l \in Lists, NEW skip \in Nat, NEW take \in Nat
    PROVE  Paged(l, skip, take) \in Lists /\ ToSet(Paged(l, skip, take)) \subseteq ToSet(l)
<1>1. PICK a, b, S, n : /\ a = skip + 1 /\ n = Len(l) /\ S = ToSet(l)
                        /\ b = IF skip + take < n THEN skip + take ELSE n
  OBVIOUS
<1>2. /\ S \subseteq Events /\ n \in Nat /\ n <= Cardinality(Events)
      /\ \A i \in 1..n : l[i] \in S
  BY <1>1, HeldEvents, ListsAreSequences
<1>3. a \in Int /\ b \in Int /\ a >= 1 /\ b <= n
  BY <1>1, <1>2
<1>4. \A i \in a..b : l[i] \in S
  BY <1>2, <1>3
<1>5. PICK t : t = SubSeq(l, a, b)
  OBVIOUS
<1>6. t \in Seq(S) /\ Len(t) = IF a <= b THEN b - a + 1 ELSE 0
  BY <1>3, <1>4, <1>5, SubSeqProperties
<1>7. Len(t) <= Cardinality(Events)
  <2>1. Cardinality(Events) \in Nat
    BY ConstantsAssumption, FS_CardinalityType
  <2> QED
    BY <1>2, <1>3, <1>6, <2>1
<1>8. t \in Lists
  BY <1>2, <1>6, <1>7, SeqMonotonic, ListsAreSequences
<1>9. ToSet(t) \subseteq S
  BY <1>6, LenProperties DEF ToSet
<1>10. t = Paged(l, skip, take)
  BY <1>1, <1>5 DEF Paged
<1> QED
  BY <1>1, <1>8, <1>9, <1>10

LEMMA KeptEvents ==
    ASSUME NEW l \in Lists, NEW S, NEW k \in Kept(l, S)
    PROVE  k \in Lists /\ ToSet(k) \subseteq ToSet(l) \cap S
<1>1. k \in SetToSeqs(ToSet(l) \cap S)
  BY DEF Kept, Orders
<1>2. ToSet(l) \cap S \subseteq Events
  BY HeldEvents
<1> QED
  BY <1>1, <1>2, ListOfEvents

LEMMA EventsFound ==
    ASSUME stored \subseteq Events, NEW radius, NEW from,
           NEW a \in EventsQuery(TRUE, radius, from, 0, DefaultTake)
    PROVE  a \in Lists /\ \A e \in ToSet(a) : e \in paid /\ Dist[e] <= radius
<1>1. PICK l \in Listings(TRUE, radius, from) : a = Paged(l, 0, DefaultTake)
  BY DEF EventsQuery
<1>2. l \in SetToSeqs(Matching(radius, from))
  BY <1>1 DEF Listings, Found, Sorted, Orders
<1>3. Matching(radius, from) \subseteq Events
  BY DEF Matching
<1>4. l \in Lists /\ ToSet(l) \subseteq Matching(radius, from)
  BY <1>2, <1>3, ListOfEvents
<1>5. a \in Lists /\ ToSet(a) \subseteq ToSet(l)
  BY <1>1, <1>4, PageOfList DEF DefaultTake
<1> QED
  BY <1>4, <1>5 DEF Matching

LEMMA RecommendedEvents ==
    ASSUME NEW u, NEW ids \in Recommended(u)
    PROVE  ids \in Lists /\ \A e \in ToSet(ids) : <<u, e>> \notin edges
<1>1. ids \in SetToSeqs(Possible(u))
  BY DEF Recommended, Orders
<1>2. Possible(u) \subseteq Events /\ \A e \in Possible(u) : <<u, e>> \notin edges
  BY DEF Possible, Joined
<1> QED
  BY <1>1, <1>2, ListOfEvents

LEMMA RecommendationFound ==
    ASSUME NEW ids \in Lists, NEW radius, NEW a \in RecommendationQuery(ids, radius, 0, DefaultTake)
    PROVE  /\ a \in Lists /\ ToSet(a) \subseteq ToSet(ids)
           /\ \A e \in ToSet(a) : e \in paid /\ Dist[e] <= radius
<1>1. PICK S : S = {e \in ToSet(ids) : e \in Matching(radius, now)}
  OBVIOUS
<1>2. PICK l \in SetToSeqs(S) : a \in Kept(ids, ToSet(Paged(l, 0, DefaultTake)))
  BY <1>1 DEF RecommendationQuery, Orders
<1>3. S \subseteq Events
  BY <1>1, HeldEvents
<1>4. l \in Lists /\ ToSet(l) \subseteq S
  BY <1>2, <1>3, ListOfEvents
<1>5. ToSet(Paged(l, 0, DefaultTake)) \subseteq S
  BY <1>4, PageOfList DEF DefaultTake
<1>6. a \in Lists /\ ToSet(a) \subseteq S
  BY <1>2, <1>5, KeptEvents
<1> QED
  BY <1>1, <1>6 DEF Matching

-----------------------------------------------------------------------------
(* Records and lists of requests.                                            *)

LEMMA CallParts ==
    ASSUME NEW c \in Call
    PROVE  /\ c.kind \in {"events", "recommendation", "poll", "notify"} /\ c.user \in Users
           /\ c.radius \in Radii /\ c.step \in {"position", "sent", "ids", "answered"}
           /\ c.ids \in Lists /\ c.answer \in Lists /\ c.joined \subseteq Events /\ c # Idle
  BY DEF Call, Idle

LEMMA CallMade ==
    ASSUME NEW k \in {"events", "recommendation", "poll", "notify"}, NEW u \in Users,
           NEW r \in Radii, NEW t \in {"position", "sent", "ids", "answered"},
           NEW i \in Lists, NEW a \in Lists, NEW j \in SUBSET Events, NEW c,
           c = [kind |-> k, user |-> u, radius |-> r, step |-> t, ids |-> i, answer |-> a,
                joined |-> j]
    PROVE  c \in Call
  BY DEF Call

LEMMA PageParts ==
    ASSUME NEW p \in Page
    PROVE  /\ p.recommendation \in BOOLEAN /\ p.radius \in Radii
           /\ p.events \in Lists /\ p.joined \subseteq Events
  BY DEF Page

LEMMA PageMade ==
    ASSUME NEW m \in BOOLEAN, NEW r \in Radii, NEW l \in Lists, NEW j \in SUBSET Events, NEW p,
           p = [recommendation |-> m, radius |-> r, events |-> l, joined |-> j]
    PROVE  p \in Page
  BY DEF Page

LEMMA NewCallIsSound ==
    ASSUME NEW k \in {"events", "recommendation", "poll", "notify"}, NEW u \in Users,
           k \in {"events", "recommendation"} => u = Visitor, NEW c, c = NewCall(k, u)
    PROVE  /\ c \in Call /\ AnswerSound(c)
           /\ c.kind = k /\ c.user = u /\ c.step = "position"
<1>1. DefaultRadius \in Radii /\ <<>> \in Lists /\ ToSet(<<>>) = {} /\ {} \in SUBSET Events
  BY ConstantsAssumption, EmptyList
<1>2. c \in Call
  BY <1>1, CallMade DEF NewCall
<1>3. /\ c.kind = k /\ c.user = u /\ c.step = "position" /\ c.ids = <<>> /\ c.answer = <<>>
  BY DEF NewCall
<1> QED
  BY <1>1, <1>2, <1>3 DEF AnswerSound, OfPage

LEMMA NewPageIsPage == NewPage \in Page /\ NewPage.events = <<>> /\ ~NewPage.recommendation
<1>1. DefaultRadius \in Radii /\ <<>> \in Lists /\ {} \in SUBSET Events
  BY ConstantsAssumption, EmptyList
<1> QED
  BY <1>1, PageMade DEF NewPage

-----------------------------------------------------------------------------
(* What the page shows.                                                      *)

\* The part of the inductive invariant that is about what the page and its requests hold.
Types ==
    /\ now \in 0..MaxTime /\ stored \subseteq Events /\ paid \subseteq Events
    /\ edges \subseteq Users \X Events
    /\ page \in Page /\ calls \in [Slots -> {Idle} \cup Call] /\ calm \in BOOLEAN
AllSound == \A s \in Slots : calls[s] # Idle => AnswerSound(calls[s])
AllOnce == calm => \A s \in Slots : AskedOnce(s)
Seen == Types /\ AllSound /\ AllOnce /\ ShownAsAsked

\* What others do to the documents and the graph, but for a participation that is added.
LEMMA WorldMoves ==
    ASSUME Seen, now' \in 0..MaxTime, stored' \subseteq Events,
           paid' \subseteq Events, paid \subseteq paid', edges' \subseteq edges,
           UNCHANGED <<page, calls, calm>>
    PROVE  Seen'
<1>1. Types'
  BY DEF Seen, Types
<1>2. AllSound'
  BY DEF Seen, AllSound, AnswerSound
<1>3. AllOnce'
  BY DEF Seen, AllOnce, AskedOnce, OfPage
<1>4. ShownAsAsked'
  BY DEF Seen, ShownAsAsked
<1> QED
  BY <1>1, <1>2, <1>3, <1>4 DEF Seen

\* One request changes, and what the page shows.
LEMMA CallMoves ==
    ASSUME Seen, NEW s \in Slots, NEW c \in {Idle} \cup Call,
           calls' = [calls EXCEPT ![s] = c], UNCHANGED <<now, stored, paid, edges, calm>>,
           c # Idle => AnswerSound(c),
           OfPage(c) => /\ OfPage(calls[s]) /\ c.kind = calls[s].kind
                        /\ calm /\ c.step # "position" => c.radius = page.radius,
           page' \in Page, page'.recommendation = page.recommendation,
           page'.radius = page.radius, ShownAsAsked'
    PROVE  Seen'
<1>1. /\ calls \in [Slots -> {Idle} \cup Call] /\ calls' \in [Slots -> {Idle} \cup Call]
      /\ calls'[s] = c /\ \A x \in Slots \ {s} : calls'[x] = calls[x]
  BY DEF Seen, Types
<1>2. Types'
  BY <1>1 DEF Seen, Types
<1>3. AllSound'
  BY <1>1 DEF Seen, AllSound, AnswerSound
<1>4. ASSUME calm, NEW x \in Slots, OfPage(calls'[x])
      PROVE  /\ calls'[x].kind = "recommendation" <=> page'.recommendation
             /\ calls'[x].step # "position" => calls'[x].radius = page'.radius
             /\ \A y \in Slots \ {x} : ~OfPage(calls'[y])
  <2>1. \A y \in Slots : OfPage(calls'[y]) => OfPage(calls[y]) /\ calls'[y].kind = calls[y].kind
    BY <1>1
  <2>2. AskedOnce(x) /\ OfPage(calls[x]) /\ calls'[x].kind = calls[x].kind
    BY <1>4, <2>1 DEF Seen, AllOnce
  <2>3. \A y \in Slots \ {x} : ~OfPage(calls[y])
    BY <2>2 DEF AskedOnce
  <2>4. calls[x].kind = "recommendation" <=> page.recommendation
    BY <2>2 DEF AskedOnce
  <2>5. calls'[x].step # "position" => calls'[x].radius = page.radius
    BY <1>1, <1>4, <2>2 DEF AskedOnce
  <2> QED
    BY <2>1, <2>2, <2>3, <2>4, <2>5
<1>5. AllOnce'
  BY <1>4 DEF AllOnce, AskedOnce, OfPage
<1> QED
  BY <1>2, <1>3, <1>5 DEF Seen

\* The page stays as it is, or is emptied: then it shows what it may.
LEMMA PageStays ==
    ASSUME Seen, UNCHANGED <<paid, edges, calm>>,
           page' = page \/ page'.events = <<>>
    PROVE  ShownAsAsked'
<1>1. CASE page' = page
  BY <1>1 DEF Seen, ShownAsAsked
<1>2. CASE page'.events = <<>>
  BY <1>2, EmptyList DEF ShownAsAsked
<1> QED
  BY <1>1, <1>2

LEMMA PageEmptied ==
    ASSUME NEW p \in Page
    PROVE  /\ [p EXCEPT !.events = <<>>] \in Page /\ [p EXCEPT !.events = <<>>].events = <<>>
           /\ [p EXCEPT !.events = <<>>].recommendation = p.recommendation
           /\ [p EXCEPT !.events = <<>>].radius = p.radius
  BY EmptyList DEF Page

\* A participation is remembered by the page and the requests when the visitor enters it.
LEMMA JoinKeepsSeen ==
    ASSUME Seen, NEW u \in Users, NEW e \in Events, Join(u, e)
    PROVE  Seen'
<1> DEFINE seen(r) == [r EXCEPT !.joined = @ \cup {e}]
<1>1. /\ Types /\ AllSound /\ AllOnce /\ ShownAsAsked
      /\ edges' = edges \cup {<<u, e>>} /\ page' = (IF u = Visitor THEN seen(page) ELSE page)
      /\ calls' = [s \in Slots |-> IF calls[s] # Idle /\ calls[s].user = u THEN seen(calls[s])
                                   ELSE calls[s]]
      /\ UNCHANGED <<now, stored, paid, calm>>
  BY DEF Join, Change, Seen
<1>2. ASSUME NEW c \in Call
      PROVE  /\ seen(c) \in Call /\ seen(c).kind = c.kind /\ seen(c).user = c.user
             /\ seen(c).radius = c.radius /\ seen(c).step = c.step /\ seen(c).ids = c.ids
             /\ seen(c).answer = c.answer /\ seen(c).joined = c.joined \cup {e}
  <2>1. PICK j : j = c.joined \cup {e}
    OBVIOUS
  <2>2. j \in SUBSET Events
    BY <2>1, CallParts
  <2>3. [c EXCEPT !.joined = @ \cup {e}] =
          [kind |-> c.kind, user |-> c.user, radius |-> c.radius, step |-> c.step,
           ids |-> c.ids, answer |-> c.answer, joined |-> j]
    BY <2>1 DEF Call
  <2>4. PICK d : d = [c EXCEPT !.joined = @ \cup {e}]
    OBVIOUS
  <2>5. d \in Call
    <3>1. PICK k, v, r, t, i, a : /\ k = c.kind /\ v = c.user /\ r = c.radius /\ t = c.step
                                  /\ i = c.ids /\ a = c.answer
      OBVIOUS
    <3>2. d = [kind |-> k, user |-> v, radius |-> r, step |-> t, ids |-> i, answer |-> a,
               joined |-> j]
      BY <2>3, <2>4, <3>1
    <3>3. /\ k \in {"events", "recommendation", "poll", "notify"} /\ v \in Users /\ r \in Radii
          /\ t \in {"position", "sent", "ids", "answered"} /\ i \in Lists /\ a \in Lists
      BY <3>1, CallParts
    <3> QED
      BY <2>2, <3>2, <3>3, CallMade
  <2> QED
    BY <2>1, <2>3, <2>4, <2>5
<1>3. /\ page' \in Page /\ page'.recommendation = page.recommendation
      /\ page'.radius = page.radius /\ page'.events = page.events
      /\ page.joined \subseteq page'.joined /\ (u = Visitor => e \in page'.joined)
  <2>1. PICK p, q : p = page /\ q = page'
    OBVIOUS
  <2>2. p \in Page
    BY <1>1, <2>1 DEF Types
  <2>3. PICK j : j = p.joined \cup {e}
    OBVIOUS
  <2>4. j \in SUBSET Events
    BY <2>2, <2>3, PageParts
  <2>5. [p EXCEPT !.joined = @ \cup {e}] =
          [recommendation |-> p.recommendation, radius |-> p.radius, events |-> p.events,
           joined |-> j]
    BY <2>2, <2>3 DEF Page
  <2>6. PICK d : d = [p EXCEPT !.joined = @ \cup {e}]
    OBVIOUS
  <2>7. d \in Page
    BY <2>2, <2>4, <2>5, <2>6, PageParts, PageMade
  <2>8. q = IF u = Visitor THEN d ELSE p
    BY <1>1, <2>1, <2>6
  <2>9. /\ q \in Page /\ q.recommendation = p.recommendation /\ q.radius = p.radius
        /\ q.events = p.events /\ p.joined \subseteq q.joined /\ (u = Visitor => e \in q.joined)
    BY <2>2, <2>3, <2>5, <2>6, <2>7, <2>8
  <2> QED
    BY <2>1, <2>9
<1>4. \A s \in Slots : calls[s] \in {Idle} \cup Call
  BY <1>1 DEF Types
<1> HIDE DEF seen
<1>5. \A s \in Slots : \/ calls[s] = Idle /\ calls'[s] = Idle
                       \/ /\ calls[s] \in Call /\ calls'[s] \in Call
                          /\ calls'[s] = IF calls[s].user = u THEN seen(calls[s]) ELSE calls[s]
  BY <1>1, <1>2, <1>4
<1>6. Types'
  <2>1. edges' \subseteq Users \X Events
    BY <1>1 DEF Types
  <2>2. calls' \in [Slots -> {Idle} \cup Call]
    BY <1>1, <1>5
  <2> QED
    BY <1>1, <1>3, <2>1, <2>2 DEF Types
<1>7. AllSound'
  <2>1. SUFFICES ASSUME NEW s \in Slots, calls'[s] # Idle
                 PROVE  AnswerSound(calls[s])'
    BY DEF AllSound
  <2>2. PICK c, d : c = calls[s] /\ d = calls'[s]
    OBVIOUS
  <2>3. c \in Call /\ AnswerSound(c) /\ d = IF c.user = u THEN seen(c) ELSE c
    BY <1>1, <1>5, <2>1, <2>2 DEF AllSound
  <2>4. /\ d.kind = c.kind /\ d.user = c.user /\ d.step = c.step /\ d.radius = c.radius
        /\ d.ids = c.ids /\ d.answer = c.answer /\ c.joined \subseteq d.joined
        /\ c.user = u => e \in d.joined
    BY <1>2, <2>3
  <2>5. \A f : <<d.user, f>> \in edges' /\ (<<c.user, f>> \in edges => f \in c.joined)
                => f \in d.joined
    BY <1>1, <2>4
  <2> QED
    BY <1>1, <2>2, <2>3, <2>4, <2>5 DEF AnswerSound, OfPage
<1>8. AllOnce'
  <2>1. \A s \in Slots : /\ OfPage(calls'[s]) <=> OfPage(calls[s])
                         /\ calls'[s].kind = calls[s].kind
                         /\ OfPage(calls[s]) => /\ calls'[s].step = calls[s].step
                                                /\ calls'[s].radius = calls[s].radius
    BY <1>2, <1>5 DEF OfPage, Idle
  <2>2. /\ page'.recommendation = page.recommendation /\ page'.radius = page.radius
        /\ calm' = calm
    BY <1>1, <1>3
  <2>3. ASSUME calm, NEW s \in Slots, OfPage(calls'[s])
        PROVE  /\ calls'[s].kind = "recommendation" <=> page'.recommendation
               /\ calls'[s].step # "position" => calls'[s].radius = page'.radius
               /\ \A x \in Slots \ {s} : ~OfPage(calls'[x])
    BY <1>1, <2>1, <2>2, <2>3 DEF AllOnce, AskedOnce
  <2> QED
    BY <2>2, <2>3 DEF AllOnce, AskedOnce, OfPage
<1>9. ShownAsAsked'
  <2>1. PICK p, q : p = page /\ q = page'
    OBVIOUS
  <2>2. /\ q.recommendation = p.recommendation /\ q.radius = p.radius /\ q.events = p.events
        /\ p.joined \subseteq q.joined /\ (u = Visitor => e \in q.joined)
    BY <1>1, <1>3, <2>1
  <2> QED
    BY <1>1, <2>1, <2>2 DEF ShownAsAsked
<1> QED
  BY <1>6, <1>7, <1>8, <1>9 DEF Seen

\* A click of the visitor.
LEMMA AskKeepsSeen ==
    ASSUME Seen, NEW p \in Page, Ask(p)
    PROVE  Seen'
<1>1. Types /\ AllSound /\ AllOnce /\ UNCHANGED <<now, stored, paid, edges>>
  BY DEF Ask, Seen, world
<1>2. PICK k, q, l, j : /\ k = (IF p.recommendation THEN "recommendation" ELSE "events")
                        /\ l = <<>> /\ j = {} /\ q = [p EXCEPT !.events = l, !.joined = j]
  OBVIOUS
<1>3. k \in {"events", "recommendation", "poll", "notify"}
  BY <1>2
<1>4. PICK c : c = NewCall(k, Visitor)
  OBVIOUS
<1>5. c \in Call /\ AnswerSound(c) /\ c.kind = k /\ c.step = "position" /\ c # Idle
  BY <1>3, <1>4, NewCallIsSound, CallParts, ConstantsAssumption
<1>6. PICK s \in Slots : calls[s] = Idle /\ calls' = [calls EXCEPT ![s] = c]
  BY <1>2, <1>4 DEF Ask
<1>7. /\ calls'[s] = c /\ \A x \in Slots \ {s} : calls'[x] = calls[x]
      /\ calls' \in [Slots -> {Idle} \cup Call]
  BY <1>1, <1>5, <1>6 DEF Types
<1>8. page' = q /\ q \in Page /\ q.events = <<>> /\ q.recommendation = p.recommendation
  <2>1. l \in Lists /\ j \in SUBSET Events
    BY <1>2, EmptyList
  <2>2. q = [p EXCEPT !.events = l, !.joined = j]
    BY <1>2
  <2>3. q \in Page /\ q.events = l /\ q.recommendation = p.recommendation
    <3>1. PICK m, r : m = p.recommendation /\ r = p.radius
      OBVIOUS
    <3>2. q = [recommendation |-> m, radius |-> r, events |-> l, joined |-> j]
      BY <2>2, <3>1 DEF Page
    <3>3. m \in BOOLEAN /\ r \in Radii
      BY <3>1, PageParts
    <3>4. q \in Page
      BY <2>1, <3>2, <3>3, PageMade
    <3> QED
      BY <3>1, <3>2, <3>4
  <2> QED
    BY <1>2, <2>3 DEF Ask
<1>9. calm' \in BOOLEAN
  BY <1>1 DEF Ask, Types
<1>10. Types'
  BY <1>1, <1>7, <1>8, <1>9 DEF Types
<1>11. AllSound'
  BY <1>1, <1>5, <1>7 DEF AllSound, AnswerSound
<1>12. AllOnce'
  <2>1. SUFFICES ASSUME calm', NEW x \in Slots, OfPage(calls'[x])
                 PROVE  /\ calls'[x].kind = "recommendation" <=> page'.recommendation
                        /\ calls'[x].step # "position" => calls'[x].radius = page'.radius
                        /\ \A y \in Slots \ {x} : ~OfPage(calls'[y])
    BY DEF AllOnce, AskedOnce, OfPage
  <2>2. \A y \in Slots : ~OfPage(calls[y])
    BY <2>1 DEF Ask
  <2>3. x = s
    BY <1>7, <2>1, <2>2
  <2>4. p.recommendation \in BOOLEAN
    BY PageParts
  <2> QED
    BY <1>2, <1>5, <1>7, <1>8, <2>2, <2>3, <2>4
<1>13. ShownAsAsked'
  BY <1>8, EmptyList DEF ShownAsAsked
<1> QED
  BY <1>10, <1>11, <1>12, <1>13 DEF Seen

\* What is asked for the page is the visitor's: it goes when the app is loaded again.
LEMMA LoadKeepsSeen == Seen /\ Load => Seen'
<1> SUFFICES ASSUME Seen, Load PROVE Seen'
  OBVIOUS
<1>1. Types /\ AllSound /\ UNCHANGED <<now, stored, paid, edges>>
  BY DEF Load, Seen, world
<1>2. PICK c : c = NewCall("events", Visitor)
  OBVIOUS
<1>3. c \in Call /\ AnswerSound(c) /\ c.kind = "events" /\ c.step = "position" /\ c # Idle
  BY <1>2, NewCallIsSound, CallParts, ConstantsAssumption
<1>4. PICK s \in Slots :
        calls' = [x \in Slots |-> IF x = s THEN c ELSE IF Unheard(calls[x]) THEN Idle ELSE calls[x]]
  BY <1>2 DEF Load
<1>5. /\ page' = NewPage /\ page' \in Page /\ page'.events = <<>> /\ ~page'.recommendation
      /\ calm' = TRUE
  BY NewPageIsPage DEF Load
<1>6. \A x \in Slots \ {s} : calls'[x] = Idle \/ (calls'[x] = calls[x] /\ ~Unheard(calls[x]))
  BY <1>4
<1>7. Types'
  <2>1. calls' \in [Slots -> {Idle} \cup Call]
    BY <1>1, <1>3, <1>4 DEF Types
  <2> QED
    BY <1>1, <1>5, <2>1 DEF Types
<1>8. AllSound'
  BY <1>1, <1>3, <1>4, <1>6 DEF AllSound, AnswerSound
<1>9. AllOnce'
  <2>1. \A x \in Slots \ {s} : ~OfPage(calls'[x])
    <3>1. \A x \in Slots : OfPage(calls[x]) => Unheard(calls[x])
      BY <1>1 DEF AllSound, AnswerSound, OfPage, Unheard, Idle
    <3> QED
      BY <1>6, <3>1 DEF OfPage, Idle
  <2>2. calls'[s] = c
    BY <1>4
  <2> QED
    BY <1>3, <1>5, <2>1, <2>2 DEF AllOnce, AskedOnce, OfPage
<1>10. ShownAsAsked'
  BY <1>5, EmptyList DEF ShownAsAsked
<1> QED
  BY <1>7, <1>8, <1>9, <1>10 DEF Seen

\* A restart answers no request: what is left of them is as it was.
LEMMA RestartKeepsSeen == Seen /\ Restart => Seen'
<1> SUFFICES ASSUME Seen, Restart PROVE Seen'
  OBVIOUS
<1>1. /\ Types /\ AllSound /\ AllOnce /\ ShownAsAsked
      /\ UNCHANGED <<now, stored, paid, edges, page, calm>>
  BY DEF Restart, Seen, world
<1>2. \A s \in Slots : calls'[s] = calls[s] \/ calls'[s] = Idle
  BY DEF Restart
<1>3. calls' \in [Slots -> {Idle} \cup Call]
  BY <1>1 DEF Restart, Types
<1>4. Types'
  BY <1>1, <1>3 DEF Types
<1>5. AllSound'
  BY <1>1, <1>2 DEF AllSound, AnswerSound
<1>6. AllOnce'
  <2>1. \A s \in Slots : OfPage(calls'[s]) => OfPage(calls[s]) /\ calls'[s] = calls[s]
    BY <1>2 DEF OfPage, Idle
  <2>2. ASSUME calm, NEW s \in Slots, OfPage(calls'[s])
        PROVE  /\ calls'[s].kind = "recommendation" <=> page.recommendation
               /\ calls'[s].step # "position" => calls'[s].radius = page.radius
               /\ \A x \in Slots \ {s} : ~OfPage(calls'[x])
    BY <1>1, <2>1, <2>2 DEF AllOnce, AskedOnce
  <2> QED
    BY <1>1, <2>2 DEF AllOnce, AskedOnce, OfPage
<1>7. ShownAsAsked'
  BY <1>1 DEF ShownAsAsked
<1> QED
  BY <1>4, <1>5, <1>6, <1>7 DEF Seen

LEMMA RequestAt ==
    ASSUME Seen, NEW s \in Slots, calls[s] # Idle
    PROVE  calls[s] \in Call /\ AnswerSound(calls[s]) /\ calls \in [Slots -> {Idle} \cup Call]
  BY DEF Seen, Types, AllSound

\* A request that ends, and one of the poll that is made.
LEMMA CallEnds ==
    ASSUME Seen, NEW s \in Slots, calls' = [calls EXCEPT ![s] = Idle],
           UNCHANGED <<now, stored, paid, edges, page, calm>>
    PROVE  Seen'
<1>1. ShownAsAsked' /\ page' \in Page
  BY PageStays DEF Seen, Types
<1>2. ~OfPage(Idle) /\ Idle \in {Idle} \cup Call
  BY DEF OfPage, Idle
<1> QED
  BY <1>1, <1>2, CallMoves

LEMMA PollKeepsSeen ==
    ASSUME Seen, NEW u \in Apps, Poll(u)
    PROVE  Seen'
<1>1. UNCHANGED <<now, stored, paid, edges, page, calm>>
  BY DEF Poll, world
<1>2. PICK c : c = NewCall("poll", u)
  OBVIOUS
<1>3. c \in Call /\ AnswerSound(c) /\ ~OfPage(c)
  BY <1>2, NewCallIsSound, ConstantsAssumption DEF OfPage
<1>4. PICK s \in Slots : calls' = [calls EXCEPT ![s] = c]
  BY <1>2 DEF Poll
<1>5. ShownAsAsked' /\ page' \in Page
  BY <1>1, PageStays DEF Seen, Types
<1> QED
  BY <1>1, <1>3, <1>4, <1>5, CallMoves

LEMMA LocateKeepsSeen ==
    ASSUME Seen, NEW s \in Slots, Locate(s)
    PROVE  Seen'
<1>1. calls[s] # Idle /\ calls[s].step = "position" /\ UNCHANGED <<now, stored, paid, edges, calm>>
  BY DEF Locate, world
<1>2. PICK c, r : c = calls[s] /\ r = IF c.kind = "poll" THEN DefaultRadius ELSE page.radius
  OBVIOUS
<1>3. /\ c \in Call /\ AnswerSound(c) /\ c.step = "position" /\ page \in Page
      /\ calls \in [Slots -> {Idle} \cup Call]
  BY <1>1, <1>2, RequestAt DEF Seen, Types
<1>4. r \in Radii
  BY <1>2, <1>3, PageParts, ConstantsAssumption
<1>5. PICK k, u, i, a, j : /\ k = c.kind /\ u = c.user /\ i = c.ids /\ a = c.answer
                           /\ j = c.joined
  OBVIOUS
<1>6. PICK d : d = [kind |-> k, user |-> u, radius |-> r, step |-> "sent", ids |-> i,
                    answer |-> a, joined |-> j]
  OBVIOUS
<1>7. d \in Call
  <2>1. /\ k \in {"events", "recommendation", "poll", "notify"} /\ u \in Users
        /\ i \in Lists /\ a \in Lists /\ j \in SUBSET Events
    BY <1>3, <1>5, CallParts
  <2> QED
    BY <1>4, <1>6, <2>1, CallMade
<1>8. calls' = [calls EXCEPT ![s] = d]
  <2>1. calls' = [calls EXCEPT ![s].step = "sent", ![s].radius = r]
    BY <1>2 DEF Locate
  <2>2. PICK x : x = [c EXCEPT !.step = "sent", !.radius = r]
    OBVIOUS
  <2>3. c \in Call
    BY <1>3
  <2>4. x = [kind |-> c.kind, user |-> c.user, radius |-> r, step |-> "sent", ids |-> c.ids,
             answer |-> c.answer, joined |-> c.joined]
    BY <2>2, <2>3 DEF Call
  <2>5. x = d
    BY <1>3, <1>5, <1>6, <2>4
  <2> QED
    BY <1>2, <1>3, <2>1, <2>2, <2>5
<1>9. AnswerSound(d)
  <2>1. /\ d.kind = k /\ d.user = u /\ d.step = "sent" /\ d.ids = i /\ d.answer = a /\ d.joined = j
        /\ d.radius = r
    BY <1>6
  <2>2. a = <<>> /\ ToSet(a) = {}
    BY <1>3, <1>5, EmptyList DEF AnswerSound
  <2> QED
    BY <1>3, <1>5, <2>1, <2>2 DEF AnswerSound, OfPage
<1>10. /\ page' = page \/ page'.events = <<>>
       /\ page' \in Page /\ page'.recommendation = page.recommendation
       /\ page'.radius = page.radius
  BY <1>3, PageEmptied DEF Locate
<1>11. ShownAsAsked'
  BY <1>1, <1>10, PageStays
<1>12. OfPage(d) => OfPage(calls[s]) /\ d.kind = calls[s].kind /\ d.radius = page.radius
  BY <1>2, <1>5, <1>6 DEF OfPage
<1> QED
  BY <1>1, <1>7, <1>8, <1>9, <1>10, <1>11, <1>12, CallMoves

\* The server has found something for a request.
LEMMA AnswerKeepsSeen ==
    ASSUME Seen, NEW s \in Slots, calls[s] # Idle, calls[s].step \in {"sent", "ids"},
           NEW t \in {"ids", "answered"}, NEW i \in Lists, NEW a \in Lists,
           UNCHANGED <<now, stored, paid, edges, page, calm>>, NEW d,
           d = [kind |-> calls[s].kind, user |-> calls[s].user, radius |-> calls[s].radius,
                step |-> t, ids |-> i, answer |-> a, joined |-> calls[s].joined],
           calls' = [calls EXCEPT ![s] = d],
           \A e \in ToSet(a) : e \in paid /\ Dist[e] <= calls[s].radius,
           \A e \in ToSet(i) : <<calls[s].user, e>> \in edges => e \in calls[s].joined,
           calls[s].kind # "events" =>
             \A e \in ToSet(a) : <<calls[s].user, e>> \in edges => e \in calls[s].joined
    PROVE  Seen'
<1>1. PICK c, k, u, r, j : /\ c = calls[s] /\ k = c.kind /\ u = c.user /\ r = c.radius
                           /\ j = c.joined
  OBVIOUS
<1>2. c \in Call /\ AnswerSound(c)
  BY <1>1, RequestAt
<1>3. /\ k \in {"events", "recommendation", "poll", "notify"} /\ u \in Users /\ r \in Radii
      /\ j \in SUBSET Events
  BY <1>1, <1>2, CallParts
<1>4. d = [kind |-> k, user |-> u, radius |-> r, step |-> t, ids |-> i, answer |-> a,
           joined |-> j]
  BY <1>1
<1>5. d \in Call
  BY <1>3, <1>4, CallMade, SMTT(30)
<1>6. AnswerSound(d)
  BY <1>1, <1>2, <1>4 DEF AnswerSound, OfPage
<1>7. ASSUME OfPage(d)
      PROVE  OfPage(calls[s]) /\ d.kind = calls[s].kind /\ (calm => d.radius = page.radius)
  <2>1. OfPage(calls[s]) /\ d.kind = calls[s].kind /\ d.radius = calls[s].radius
    BY <1>1, <1>4, <1>7 DEF OfPage
  <2>2. calm => calls[s].radius = page.radius
    BY <2>1 DEF Seen, AllOnce, AskedOnce
  <2> QED
    BY <2>1, <2>2
<1>8. ShownAsAsked' /\ page' \in Page
  BY PageStays DEF Seen, Types
<1> QED
  BY <1>5, <1>6, <1>7, <1>8, CallMoves

LEMMA FindEventsKeepsSeen ==
    ASSUME Seen, NEW s \in Slots, FindEvents(s)
    PROVE  Seen'
<1>1. /\ calls[s] # Idle /\ calls[s].step = "sent" /\ calls[s].kind = "events"
      /\ UNCHANGED <<now, stored, paid, edges, page, calm>>
  BY DEF FindEvents, Sent, world
<1>2. PICK c : c = calls[s]
  OBVIOUS
<1>3. c \in Call /\ AnswerSound(c) /\ calls \in [Slots -> {Idle} \cup Call]
  BY <1>1, <1>2, RequestAt
<1>4. PICK a \in EventsQuery(TRUE, c.radius, now, 0, DefaultTake) :
        calls' = [calls EXCEPT ![s].step = "answered", ![s].answer = a]
  BY <1>2 DEF FindEvents
<1>5. a \in Lists /\ \A e \in ToSet(a) : e \in paid /\ Dist[e] <= c.radius
  <2>1. stored \subseteq Events
    BY DEF Seen, Types
  <2> QED
    BY <2>1, EventsFound
<1>6. PICK d : d = [kind |-> c.kind, user |-> c.user, radius |-> c.radius,
                    step |-> "answered", ids |-> c.ids, answer |-> a, joined |-> c.joined]
  OBVIOUS
<1>7. calls' = [calls EXCEPT ![s] = d]
  <2>1. PICK x : x = [c EXCEPT !.step = "answered", !.answer = a]
    OBVIOUS
  <2>2. c \in Call
    BY <1>3
  <2>3. x = [kind |-> c.kind, user |-> c.user, radius |-> c.radius,
             step |-> "answered", ids |-> c.ids, answer |-> a, joined |-> c.joined]
    BY <2>1, <2>2 DEF Call
  <2>4. x = d
    BY <1>3, <1>6, <2>3
  <2> QED
    BY <1>2, <1>3, <1>4, <2>1, <2>4
<1>8. c.ids \in Lists /\ \A e \in ToSet(c.ids) : <<c.user, e>> \in edges => e \in c.joined
  BY <1>3, CallParts DEF AnswerSound
<1> QED
  BY <1>1, <1>2, <1>5, <1>6, <1>7, <1>8, AnswerKeepsSeen

LEMMA ReadGraphKeepsSeen ==
    ASSUME Seen, NEW s \in Slots, ReadGraph(s)
    PROVE  Seen'
<1>1. /\ calls[s] # Idle /\ calls[s].step = "sent"
      /\ UNCHANGED <<now, stored, paid, edges, page, calm>>
  BY DEF ReadGraph, Sent, world
<1>2. PICK c : c = calls[s]
  OBVIOUS
<1>3. c \in Call /\ AnswerSound(c) /\ calls \in [Slots -> {Idle} \cup Call]
  BY <1>1, <1>2, RequestAt
<1>4. PICK ids \in Recommended(c.user) :
        calls' = [calls EXCEPT ![s].step = "ids", ![s].ids = ids]
  BY <1>2 DEF ReadGraph
<1>5. ids \in Lists /\ \A e \in ToSet(ids) : <<c.user, e>> \notin edges
  BY RecommendedEvents
<1>6. PICK d : d = [kind |-> c.kind, user |-> c.user, radius |-> c.radius, step |-> "ids",
                    ids |-> ids, answer |-> c.answer, joined |-> c.joined]
  OBVIOUS
<1>7. calls' = [calls EXCEPT ![s] = d]
  <2>1. PICK x : x = [c EXCEPT !.step = "ids", !.ids = ids]
    OBVIOUS
  <2>2. c \in Call
    BY <1>3
  <2>3. x = [kind |-> c.kind, user |-> c.user, radius |-> c.radius, step |-> "ids", ids |-> ids,
             answer |-> c.answer, joined |-> c.joined]
    BY <2>1, <2>2 DEF Call
  <2>4. x = d
    BY <1>3, <1>6, <2>3
  <2> QED
    BY <1>2, <1>3, <1>4, <2>1, <2>4
<1>8. /\ c.answer \in Lists /\ \A e \in ToSet(c.answer) : e \in paid /\ Dist[e] <= c.radius
      /\ c.kind # "events" =>
           \A e \in ToSet(c.answer) : <<c.user, e>> \in edges => e \in c.joined
  BY <1>3, CallParts DEF AnswerSound
<1> QED
  BY <1>1, <1>2, <1>5, <1>6, <1>7, <1>8, AnswerKeepsSeen

LEMMA FindRecommendedKeepsSeen ==
    ASSUME Seen, NEW s \in Slots, FindRecommended(s)
    PROVE  Seen'
<1>1. /\ calls[s] # Idle /\ calls[s].step = "ids"
      /\ UNCHANGED <<now, stored, paid, edges, page, calm>>
  BY DEF FindRecommended, world
<1>2. PICK c, r, ids : c = calls[s] /\ r = c.radius /\ ids = c.ids
  OBVIOUS
<1>3. c \in Call /\ AnswerSound(c) /\ calls \in [Slots -> {Idle} \cup Call]
  BY <1>1, <1>2, RequestAt
<1>4. ids \in Lists /\ \A e \in ToSet(ids) : <<c.user, e>> \in edges => e \in c.joined
  BY <1>2, <1>3, CallParts DEF AnswerSound
<1>5. PICK a \in RecommendationQuery(ids, r, 0, DefaultTake) :
        calls' = [calls EXCEPT ![s].step = "answered", ![s].answer = a, ![s].ids = <<>>]
  BY <1>2 DEF FindRecommended
<1>6. /\ a \in Lists /\ ToSet(a) \subseteq ToSet(ids)
      /\ \A e \in ToSet(a) : e \in paid /\ Dist[e] <= r
  BY <1>4, RecommendationFound
<1>7. PICK d, l : d = [kind |-> c.kind, user |-> c.user, radius |-> r, step |-> "answered",
                       ids |-> l, answer |-> a, joined |-> c.joined] /\ l = <<>>
  OBVIOUS
<1>8. calls' = [calls EXCEPT ![s] = d]
  <2>1. PICK x : x = [c EXCEPT !.step = "answered", !.answer = a, !.ids = l]
    OBVIOUS
  <2>2. c \in Call
    BY <1>3
  <2>3. x = [kind |-> c.kind, user |-> c.user, radius |-> c.radius, step |-> "answered", ids |-> l,
             answer |-> a, joined |-> c.joined]
    BY <2>1, <2>2 DEF Call
  <2>4. x = d
    BY <1>2, <1>3, <1>7, <2>3
  <2> QED
    BY <1>2, <1>3, <1>5, <1>7, <2>1, <2>4
<1>9. l \in Lists /\ ToSet(l) = {}
  BY <1>7, EmptyList
<1> QED
  BY <1>1, <1>2, <1>4, <1>6, <1>7, <1>8, <1>9, AnswerKeepsSeen

LEMMA ShowKeepsSeen ==
    ASSUME Seen, NEW s \in Slots, Show(s)
    PROVE  Seen'
<1>1. /\ OfPage(calls[s]) /\ calls[s].step = "answered" /\ calls' = [calls EXCEPT ![s] = Idle]
      /\ UNCHANGED <<now, stored, paid, edges, calm>>
  BY DEF Show, world
<1>2. PICK c, p, j : c = calls[s] /\ p = page /\ j = c.joined
  OBVIOUS
<1>3. c \in Call /\ AnswerSound(c) /\ p \in Page
  <2>1. calls[s] # Idle
    BY <1>1 DEF OfPage, Idle
  <2> QED
    BY <1>2, <2>1, RequestAt DEF Seen, Types
<1>4. PICK list \in Entities(c.answer) : page' = [page EXCEPT !.events = list, !.joined = j]
  BY <1>2 DEF Show
<1>5. list \in Lists /\ ToSet(list) \subseteq ToSet(c.answer) \cap Public
  BY <1>3, CallParts, KeptEvents DEF Entities
<1>6. PICK m, r : m = p.recommendation /\ r = p.radius
  OBVIOUS
<1>7. m \in BOOLEAN /\ r \in Radii /\ j \in SUBSET Events
  BY <1>2, <1>3, <1>6, PageParts, CallParts
<1>8. PICK q : q = [recommendation |-> m, radius |-> r, events |-> list, joined |-> j]
  OBVIOUS
<1>9. q \in Page
  BY <1>5, <1>7, <1>8, PageMade
<1>10. page' = q
  <2>1. PICK x : x = [p EXCEPT !.events = list, !.joined = j]
    OBVIOUS
  <2>2. p \in Page
    BY <1>3
  <2>3. x = [recommendation |-> p.recommendation, radius |-> p.radius, events |-> list,
             joined |-> j]
    BY <2>1, <2>2 DEF Page
  <2>4. x = q
    BY <1>6, <1>8, <2>3
  <2> QED
    BY <1>2, <1>4, <2>1, <2>4
<1>11. ShownAsAsked'
  <2>1. SUFFICES ASSUME calm, NEW e \in ToSet(list)
                 PROVE  /\ e \in Public \cap paid /\ Dist[e] <= r
                        /\ m /\ <<Visitor, e>> \in edges => e \in j
    BY <1>1, <1>8, <1>10 DEF ShownAsAsked
  <2>2. e \in ToSet(c.answer) /\ e \in Public
    BY <1>5, <2>1
  <2>3. AskedOnce(s)
    BY <2>1 DEF Seen, AllOnce
  <2>4. (c.kind = "recommendation" <=> m) /\ c.radius = r
    BY <1>1, <1>2, <1>6, <2>3 DEF AskedOnce
  <2>5. c.user = Visitor
    BY <1>1, <1>2, <1>3 DEF AnswerSound
  <2> QED
    BY <1>2, <1>3, <2>2, <2>4, <2>5 DEF AnswerSound
<1>12. ~OfPage(Idle) /\ Idle \in {Idle} \cup Call
  BY DEF OfPage, Idle
<1>13. page' \in Page /\ page'.recommendation = page.recommendation /\ page'.radius = page.radius
  BY <1>2, <1>6, <1>8, <1>9, <1>10
<1> QED
  BY <1>1, <1>11, <1>12, <1>13, CallMoves

LEMMA NoticeMade ==
    ASSUME NEW u \in Users, NEW n, n = Notice(u)
    PROVE  n \in Call /\ AnswerSound(n) /\ n.kind = "notify" /\ ~OfPage(n)
<1>1. DefaultRadius \in Radii /\ <<>> \in Lists /\ ToSet(<<>>) = {} /\ {} \in SUBSET Events
  BY ConstantsAssumption, EmptyList
<1>2. PICK r, l, j : r = DefaultRadius /\ l = <<>> /\ j = {}
  OBVIOUS
<1>3. n = [kind |-> "notify", user |-> u, radius |-> r, step |-> "sent", ids |-> l,
           answer |-> l, joined |-> j]
  BY <1>2 DEF NewCall, Notice
<1>4. n \in Call
  <2>1. r \in Radii /\ l \in Lists /\ j \in SUBSET Events
    BY <1>1, <1>2
  <2> QED
    BY <1>3, <2>1, CallMade
<1>5. AnswerSound(n) /\ ~OfPage(n)
  BY <1>1, <1>2, <1>3 DEF AnswerSound, OfPage
<1> QED
  BY <1>3, <1>4, <1>5

LEMMA PollAnsweredKeepsSeen ==
    ASSUME Seen, NEW s \in Slots, PollAnswered(s)
    PROVE  Seen'
<1>1. UNCHANGED <<now, stored, paid, edges, page, calm>>
  BY DEF PollAnswered, world
<1>2. PICK u, n : u = calls[s].user /\ n = Notice(u)
  OBVIOUS
<1>3. calls' = [calls EXCEPT ![s] = n] \/ calls' = [calls EXCEPT ![s] = Idle]
  BY <1>2 DEF PollAnswered
<1>4. CASE calls' = [calls EXCEPT ![s] = Idle]
  BY <1>1, <1>4, CallEnds
<1>5. CASE calls' = [calls EXCEPT ![s] = n]
  <2>1. ShownAsAsked' /\ page' \in Page
    BY <1>1, PageStays DEF Seen, Types
  <2>2. u \in Users
    BY <1>2, RequestAt, CallParts DEF PollAnswered, Idle
  <2>3. n \in Call /\ AnswerSound(n) /\ ~OfPage(n)
    BY <1>2, <2>2, NoticeMade
  <2> QED
    BY <1>1, <1>5, <2>1, <2>3, CallMoves
<1> QED
  BY <1>3, <1>4, <1>5

LEMMA OthersKeepSeen == Seen /\ Others => Seen'
<1> SUFFICES ASSUME Seen, Others PROVE Seen'
  OBVIOUS
<1>1. now \in 0..MaxTime /\ stored \subseteq Events /\ paid \subseteq Events
  BY DEF Seen, Types
<1>2. CASE Tick
  <2>1. now' \in 0..MaxTime
    BY <1>1, <1>2, ConstantsAssumption DEF Tick
  <2> QED
    BY <1>1, <1>2, <2>1, WorldMoves DEF Tick, Change
<1>3. ASSUME NEW e \in Events, Pay(e)
      PROVE  Seen'
  <2>1. /\ paid' \subseteq Events /\ paid \subseteq paid'
        /\ UNCHANGED <<now, stored, edges, page, calls, calm>>
    BY <1>1, <1>3 DEF Pay, Change
  <2> QED
    BY <1>1, <2>1, WorldMoves
<1>4. ASSUME NEW e \in Events, Delete(e)
      PROVE  Seen'
  <2>1. stored' \subseteq Events /\ UNCHANGED <<now, paid, edges, page, calls, calm>>
    BY <1>1, <1>4 DEF Delete, Change
  <2> QED
    BY <1>1, <2>1, WorldMoves
<1>5. ASSUME NEW e \in Events, Unlink(e)
      PROVE  Seen'
  <2>1. edges' \subseteq edges /\ UNCHANGED <<now, stored, paid, page, calls, calm>>
    BY <1>5 DEF Unlink
  <2> QED
    BY <1>1, <2>1, WorldMoves
<1>6. ASSUME NEW u \in Users, NEW e \in Events, Quit(u, e)
      PROVE  Seen'
  <2>1. edges' \subseteq edges /\ UNCHANGED <<now, stored, paid, page, calls, calm>>
    BY <1>6 DEF Quit, Change
  <2> QED
    BY <1>1, <2>1, WorldMoves
<1> QED
  BY <1>2, <1>3, <1>4, <1>5, <1>6, JoinKeepsSeen DEF Others

LEMMA AppKeepsSeen == Seen /\ App => Seen'
<1> SUFFICES ASSUME Seen, App PROVE Seen'
  OBVIOUS
<1>1. PICK p : p = page
  OBVIOUS
<1>2. p \in Page
  BY <1>1 DEF Seen, Types
<1>3. PICK t, f : t = TRUE /\ f = FALSE
  OBVIOUS
<1>4. CASE GetEvents
  <2>1. PICK q : q = [p EXCEPT !.recommendation = FALSE]
    OBVIOUS
  <2>2. q \in Page
    BY <1>2, <2>1 DEF Page
  <2>3. Ask(q)
    BY <1>1, <1>4, <2>1 DEF GetEvents
  <2> QED
    BY <2>2, <2>3, AskKeepsSeen
<1>5. CASE GetRecommendation
  <2>1. PICK q : q = [p EXCEPT !.recommendation = TRUE]
    OBVIOUS
  <2>2. q \in Page
    BY <1>2, <2>1 DEF Page
  <2>3. Ask(q)
    BY <1>1, <1>5, <2>1 DEF GetRecommendation
  <2> QED
    BY <2>2, <2>3, AskKeepsSeen
<1>6. ASSUME NEW r \in Radii, RadiusChanged(r)
      PROVE  Seen'
  <2>1. PICK q : q = [p EXCEPT !.radius = r]
    OBVIOUS
  <2>2. q \in Page
    BY <1>2, <2>1 DEF Page
  <2>3. Ask(q)
    BY <1>1, <1>6, <2>1 DEF RadiusChanged
  <2> QED
    BY <2>2, <2>3, AskKeepsSeen
<1> QED
  BY <1>4, <1>5, <1>6, LoadKeepsSeen, PollKeepsSeen DEF App

LEMMA ServeKeepsSeen ==
    ASSUME Seen, NEW s \in Slots, Serve(s)
    PROVE  Seen'
<1>1. CASE Push(s)
  BY <1>1, CallEnds DEF Push, world
<1>2. CASE Fail(s)
  BY <1>2, CallEnds DEF Fail, world
<1> QED
  BY <1>1, <1>2, LocateKeepsSeen, FindEventsKeepsSeen, ReadGraphKeepsSeen,
     FindRecommendedKeepsSeen DEF Serve

LEMMA NextKeepsSeen == Seen /\ [Next]_vars => Seen'
<1> SUFFICES ASSUME Seen, [Next]_vars PROVE Seen'
  OBVIOUS
<1>1. CASE UNCHANGED vars
  <2>1. UNCHANGED <<now, stored, paid, edges, page, calls, calm>>
    BY <1>1 DEF vars, world
  <2>2. now' \in 0..MaxTime /\ stored' \subseteq Events /\ paid' \subseteq Events
    BY <2>1 DEF Seen, Types
  <2> QED
    BY <2>1, <2>2, WorldMoves
<1> QED
  BY <1>1, OthersKeepSeen, AppKeepsSeen, RestartKeepsSeen, ServeKeepsSeen, ShowKeepsSeen,
     PollAnsweredKeepsSeen DEF Next

LEMMA InitIsSeen == Init => Seen
<1> SUFFICES ASSUME Init PROVE Seen
  OBVIOUS
<1>1. page \in Page /\ page.events = <<>>
  BY NewPageIsPage DEF Init
<1>2. Types
  <2>1. calls \in [Slots -> {Idle} \cup Call]
    BY DEF Init
  <2>2. 0 \in 0..MaxTime
    BY ConstantsAssumption
  <2>3. edges \subseteq Users \X Events
    BY ConstantsAssumption DEF Init
  <2> QED
    BY <1>1, <2>1, <2>2, <2>3 DEF Init, Types
<1>3. AllSound /\ AllOnce
  BY DEF Init, AllSound, AllOnce, AskedOnce, OfPage, Idle
<1>4. ShownAsAsked
  BY <1>1, EmptyList DEF ShownAsAsked
<1> QED
  BY <1>2, <1>3, <1>4 DEF Seen

-----------------------------------------------------------------------------
(* How many notices are pushed.                                              *)

\* The part of the inductive invariant that counts polls and notices.
Counted ==
    /\ subs \in Nat /\ inbox \in Nat /\ entered \in Nat
    /\ causes \in 0..MaxPolls /\ polls \in 0..MaxPolls
    /\ PollsCounted /\ NoticesCaused

\* A device that is entered k times has m notices at most to come for requests under way;
\* entered more often, and with fewer requests, it has no more than that for its entries.
LEMMA NoticesToCome ==
    ASSUME NEW i \in Nat, NEW k \in Nat, NEW d \in Nat, NEW n \in Nat, NEW m \in Nat,
           NEW c \in Nat, m <= n, n <= c, i + k * n <= k * c
    PROVE  i + (k + d) * m <= (k + d) * c
<1>1. (k + d) * m = k * m + d * m /\ (k + d) * c = k * c + d * c
  OBVIOUS
<1>2. k * m <= k * n /\ d * m <= d * c
  <2>1. PICK x \in Nat, y \in Nat : n = m + x /\ c = m + y
    <3>1. n - m \in Nat /\ n = m + (n - m) /\ c - m \in Nat /\ c = m + (c - m)
      OBVIOUS
    <3> QED
      BY <3>1
  <2>2. k * n = k * m + k * x /\ d * c = d * m + d * y
    BY <2>1
  <2>3. k * x \in Nat /\ d * y \in Nat /\ k * m \in Nat /\ d * m \in Nat
    BY <2>1
  <2> QED
    BY <2>2, <2>3
<1>3. k * m \in Nat /\ d * m \in Nat /\ k * c \in Nat /\ d * c \in Nat /\ k * n \in Nat
  OBVIOUS
<1> QED
  BY <1>1, <1>2, <1>3

LEMMA RequestsAreFinite ==
    ASSUME NEW S, S \subseteq Slots
    PROVE  IsFiniteSet(S) /\ Cardinality(S) \in Nat
<1>1. IsFiniteSet(S)
  BY ConstantsAssumption, FS_Subset
<1> QED
  BY <1>1, FS_CardinalityType

\* What is known of the counts before a step and has to be shown of them after it.
LEMMA CountsOf ==
    ASSUME Counted
    PROVE  /\ subs \in Nat /\ inbox \in Nat /\ entered \in Nat /\ causes \in Nat /\ polls \in Nat
           /\ causes \in 0..MaxPolls /\ polls \in 0..MaxPolls /\ MaxPolls \in Nat
           /\ causes + Cardinality(OfKind("poll")) <= polls
           /\ Cardinality(OfKind("notify")) <= causes /\ subs <= entered
           /\ inbox + entered * Cardinality(OfKind("notify")) <= entered * causes
  BY ConstantsAssumption DEF Counted, PollsCounted

LEMMA NotMore ==
    ASSUME NEW k \in Nat, NEW m \in Nat, NEW c \in Nat, NEW i \in Nat, i + k * m <= k * c
    PROVE  i <= k * c
<1>1. k * m \in Nat /\ k * c \in Nat
  OBVIOUS
<1> QED
  BY <1>1

LEMMA CountsThen ==
    ASSUME subs' \in Nat, inbox' \in Nat, entered' \in Nat, causes' \in 0..MaxPolls,
           polls' \in 0..MaxPolls, NEW Q, Q = OfKind("poll")', NEW M, M = OfKind("notify")',
           Cardinality(M) \in Nat,
           causes' + Cardinality(Q) <= polls', Cardinality(M) <= causes', subs' <= entered',
           inbox' + entered' * Cardinality(M) <= entered' * causes'
    PROVE  Counted'
<1>1. PICK k, m, c, i : k = entered' /\ m = Cardinality(M) /\ c = causes' /\ i = inbox'
  OBVIOUS
<1>2. k \in Nat /\ m \in Nat /\ c \in Nat /\ i \in Nat
  BY <1>1, ConstantsAssumption
<1>3. i + k * m <= k * c
  BY <1>1
<1>4. i <= k * c
  BY <1>2, <1>3, NotMore
<1> QED
  BY <1>1, <1>4 DEF Counted, PollsCounted, NoticesCaused

\* When no request becomes one that is counted the counts hold on.
LEMMA CountsHold ==
    ASSUME Counted, OfKind("poll")' \subseteq OfKind("poll"),
           OfKind("notify")' \subseteq OfKind("notify"),
           UNCHANGED <<inbox, causes, polls>>, subs' \in Nat, entered' \in Nat,
           subs' <= entered', entered <= entered'
    PROVE  Counted'
<1>1. PICK P, Q, N, M : /\ P = OfKind("poll") /\ Q = OfKind("poll")'
                        /\ N = OfKind("notify") /\ M = OfKind("notify")'
  OBVIOUS
<1>2. P \subseteq Slots /\ N \subseteq Slots /\ Q \subseteq P /\ M \subseteq N
  BY <1>1 DEF OfKind
<1>3. Cardinality(Q) <= Cardinality(P) /\ Cardinality(M) <= Cardinality(N)
  BY <1>2, RequestsAreFinite, FS_Subset
<1>4. /\ Cardinality(P) \in Nat /\ Cardinality(Q) \in Nat
      /\ Cardinality(N) \in Nat /\ Cardinality(M) \in Nat
  <2>1. Q \subseteq Slots /\ M \subseteq Slots
    BY <1>2
  <2> QED
    BY <1>2, <2>1, RequestsAreFinite
<1>5. PICK n, m, i, k, l, c : /\ n = Cardinality(N) /\ m = Cardinality(M) /\ i = inbox
                              /\ k = entered /\ l = entered' /\ c = causes
  OBVIOUS
<1>6. PICK d \in Nat : l = k + d
  <2>1. l - k \in Nat /\ l = k + (l - k)
    BY <1>5, CountsOf
  <2> QED
    BY <2>1
<1>7. /\ i \in Nat /\ k \in Nat /\ c \in Nat /\ n \in Nat /\ m \in Nat /\ m <= n /\ n <= c
      /\ i + k * n <= k * c
  BY <1>1, <1>3, <1>4, <1>5, CountsOf
<1>8. i + l * m <= l * c /\ m <= c
  BY <1>6, <1>7, NoticesToCome
<1>9. causes' + Cardinality(Q) <= polls'
  BY <1>1, <1>3, <1>4, CountsOf
<1>10. /\ inbox' \in Nat /\ causes' \in 0..MaxPolls /\ polls' \in 0..MaxPolls
       /\ inbox' = i /\ causes' = c
  BY <1>5, CountsOf
<1> QED
  BY <1>1, <1>4, <1>5, <1>8, <1>9, <1>10, CountsThen

\* When the requests of each kind are those there were, or fewer.
LEMMA FewerCounted ==
    ASSUME Counted, \A s \in Slots : calls'[s].kind = calls[s].kind \/ calls'[s] = Idle,
           UNCHANGED <<subs, inbox, causes, polls, entered>>
    PROVE  Counted'
<1>1. OfKind("poll")' \subseteq OfKind("poll") /\ OfKind("notify")' \subseteq OfKind("notify")
  BY DEF OfKind, Idle
<1>2. subs' \in Nat /\ entered' \in Nat /\ subs' <= entered' /\ entered <= entered'
  BY CountsOf
<1> QED
  BY <1>1, <1>2, CountsHold

LEMMA KindStays ==
    ASSUME Types, NEW s \in Slots, NEW c, calls' = [calls EXCEPT ![s] = c],
           c.kind = calls[s].kind \/ c = Idle,
           Counted, UNCHANGED <<subs, inbox, causes, polls, entered>>
    PROVE  Counted'
<1>1. calls'[s] = c /\ \A x \in Slots \ {s} : calls'[x] = calls[x]
  BY DEF Types
<1> QED
  BY <1>1, FewerCounted

\* A request is added to the counted ones of a kind, or taken away from them.
LEMMA OneMore ==
    ASSUME NEW A, NEW s \in Slots, A \subseteq Slots, s \notin A
    PROVE  /\ Cardinality(A) \in Nat /\ Cardinality(A \cup {s}) \in Nat
           /\ Cardinality(A \cup {s}) = Cardinality(A) + 1
<1>1. A \cup {s} \subseteq Slots
  OBVIOUS
<1>2. IsFiniteSet(A) /\ Cardinality(A) \in Nat /\ Cardinality(A \cup {s}) \in Nat
  BY <1>1, RequestsAreFinite
<1>3. Cardinality(A \cup {s}) = Cardinality(A) + 1
  BY <1>2, FS_AddElement
<1> QED
  BY <1>2, <1>3

LEMMA PollKeepsCounted ==
    ASSUME Types, Counted, NEW u \in Apps, Poll(u)
    PROVE  Counted'
<1>1. PICK c : c = NewCall("poll", u)
  OBVIOUS
<1>2. c.kind = "poll"
  BY <1>1 DEF NewCall
<1>3. PICK s \in Slots : calls[s] = Idle /\ calls' = [calls EXCEPT ![s] = c]
  BY <1>1 DEF Poll
<1>4. calls'[s] = c /\ \A x \in Slots \ {s} : calls'[x] = calls[x]
  BY <1>3 DEF Types
<1>5. PICK P, Q, N, M : /\ P = OfKind("poll") /\ Q = OfKind("poll")'
                        /\ N = OfKind("notify") /\ M = OfKind("notify")'
  OBVIOUS
<1>6. P \subseteq Slots /\ N \subseteq Slots /\ Q = P \cup {s} /\ s \notin P /\ M = N
  BY <1>2, <1>3, <1>4, <1>5 DEF OfKind, Idle
<1>7. /\ Cardinality(P) \in Nat /\ Cardinality(Q) = Cardinality(P) + 1 /\ Cardinality(M) \in Nat
  BY <1>6, OneMore, RequestsAreFinite
<1>8. /\ polls < MaxPolls /\ polls' = polls + 1
      /\ UNCHANGED <<subs, inbox, entered, causes>>
  BY DEF Poll
<1>9. /\ causes' + Cardinality(Q) <= polls' /\ polls' \in 0..MaxPolls
      /\ Cardinality(M) <= causes' /\ subs' <= entered'
      /\ inbox' + entered' * Cardinality(M) <= entered' * causes'
      /\ subs' \in Nat /\ inbox' \in Nat /\ entered' \in Nat /\ causes' \in 0..MaxPolls
  <2>1. causes' + Cardinality(Q) <= polls' /\ polls' \in 0..MaxPolls
    BY <1>5, <1>7, <1>8, CountsOf
  <2> QED
    BY <1>5, <1>6, <1>8, <2>1, CountsOf
<1> QED
  BY <1>5, <1>7, <1>9, CountsThen

LEMMA PushKeepsCounted ==
    ASSUME Types, Counted, NEW s \in Slots, Push(s)
    PROVE  Counted'
<1>1. calls[s].kind = "notify" /\ calls' = [calls EXCEPT ![s] = Idle]
  BY DEF Push
<1>2. calls'[s] = Idle /\ \A x \in Slots \ {s} : calls'[x] = calls[x]
  BY <1>1 DEF Types
<1>3. PICK P, Q, N, M : /\ P = OfKind("poll") /\ Q = OfKind("poll")'
                        /\ N = OfKind("notify") /\ M = OfKind("notify")'
  OBVIOUS
<1>4. M \subseteq Slots /\ N = M \cup {s} /\ s \notin M /\ Q = P
  BY <1>1, <1>2, <1>3 DEF OfKind, Idle
<1>5. Cardinality(M) \in Nat /\ Cardinality(N) = Cardinality(M) + 1
  BY <1>4, OneMore
<1>6. PICK n \in 0..subs : inbox' = inbox + n
  BY DEF Push
<1>7. UNCHANGED <<subs, entered, causes, polls>>
  BY DEF Push
<1>8. PICK i, k, c, m, a, b : /\ i = inbox /\ k = entered /\ c = causes /\ m = Cardinality(M)
                              /\ a = k * m /\ b = k * c
  OBVIOUS
<1>9. /\ i \in Nat /\ k \in Nat /\ c \in Nat /\ m \in Nat /\ n \in Nat /\ n <= k
      /\ m + 1 <= c /\ i + k * (m + 1) <= k * c
  <2>1. n <= subs /\ n \in Nat
    BY <1>6, CountsOf
  <2>2. n <= k
    BY <1>8, <2>1, CountsOf
  <2> QED
    BY <1>3, <1>5, <1>8, <2>1, <2>2, CountsOf
<1>10. a \in Nat /\ b \in Nat /\ k * (m + 1) = a + k
  BY <1>8, <1>9
<1>11. (i + n) + a <= b /\ m <= c /\ i + n \in Nat
  BY <1>8, <1>9, <1>10
<1>12. /\ subs' \in Nat /\ inbox' \in Nat /\ entered' \in Nat /\ causes' \in 0..MaxPolls
       /\ polls' \in 0..MaxPolls /\ subs' <= entered' /\ causes' + Cardinality(Q) <= polls'
  BY <1>3, <1>4, <1>6, <1>7, <1>8, <1>11, CountsOf
<1>13. inbox' + entered' * Cardinality(M) <= entered' * causes' /\ Cardinality(M) <= causes'
  BY <1>6, <1>7, <1>8, <1>11
<1> QED
  BY <1>3, <1>5, <1>12, <1>13, CountsThen

LEMMA PollAnsweredKeepsCounted ==
    ASSUME Types, Counted, NEW s \in Slots, PollAnswered(s)
    PROVE  Counted'
<1> DEFINE some == <<>> \notin Entities(calls[s].answer)
<1>1. PICK n : n = Notice(calls[s].user)
  OBVIOUS
<1>2. PICK c : c = IF some THEN n ELSE Idle
  OBVIOUS
<1>3. /\ calls[s].kind = "poll" /\ calls' = [calls EXCEPT ![s] = c]
      /\ causes' = IF some THEN causes + 1 ELSE causes
      /\ UNCHANGED <<subs, inbox, polls, entered>>
  BY <1>1, <1>2 DEF PollAnswered
<1> HIDE DEF some
<1>4. calls'[s] = c /\ \A x \in Slots \ {s} : calls'[x] = calls[x]
  BY <1>3 DEF Types
<1>5. PICK P, Q, N, M : /\ P = OfKind("poll") /\ Q = OfKind("poll")'
                        /\ N = OfKind("notify") /\ M = OfKind("notify")'
  OBVIOUS
<1>6. c.kind = (IF some THEN "notify" ELSE "idle")
  BY <1>1, <1>2 DEF Notice, NewCall, Idle
<1>7. /\ Q \subseteq Slots /\ P = Q \cup {s} /\ s \notin Q
      /\ N \subseteq Slots /\ s \notin N /\ M = IF some THEN N \cup {s} ELSE N
  BY <1>3, <1>4, <1>5, <1>6 DEF OfKind
<1>8. /\ Cardinality(Q) \in Nat /\ Cardinality(P) = Cardinality(Q) + 1
      /\ Cardinality(N) \in Nat /\ Cardinality(N \cup {s}) = Cardinality(N) + 1
  BY <1>7, OneMore
<1>9. PICK i, k, d, m, a, b : /\ i = inbox /\ k = entered /\ d = causes /\ m = Cardinality(N)
                              /\ a = k * m /\ b = k * d
  OBVIOUS
<1>10. /\ i \in Nat /\ k \in Nat /\ d \in Nat /\ m \in Nat /\ m <= d /\ i + a <= b
       /\ d + (Cardinality(Q) + 1) <= polls /\ polls \in Nat /\ polls <= MaxPolls
       /\ subs \in Nat /\ subs <= k
  BY <1>5, <1>8, <1>9, CountsOf
<1>11. a \in Nat /\ b \in Nat /\ k * (m + 1) = a + k /\ k * (d + 1) = b + k
  BY <1>9, <1>10
<1>12. /\ Cardinality(M) \in Nat /\ Cardinality(M) <= causes' /\ causes' \in 0..MaxPolls
       /\ causes' + Cardinality(Q) <= polls
       /\ i + k * Cardinality(M) <= k * causes'
  <2>1. CASE some
    <3>1. Cardinality(M) = m + 1 /\ causes' = d + 1
      BY <1>3, <1>7, <1>8, <1>9, <2>1
    <3>2. i + (a + k) <= b + k
      BY <1>10, <1>11
    <3>3. /\ m + 1 \in Nat /\ m + 1 <= d + 1 /\ d + 1 \in 0..MaxPolls
          /\ (d + 1) + Cardinality(Q) <= polls
      BY <1>8, <1>10, ConstantsAssumption
    <3> QED
      BY <1>11, <3>1, <3>2, <3>3
  <2>2. CASE ~some
    <3>1. Cardinality(M) = m /\ causes' = d
      BY <1>3, <1>7, <1>9, <2>2
    <3>2. d \in 0..MaxPolls /\ d + Cardinality(Q) <= polls
      BY <1>8, <1>10, ConstantsAssumption
    <3> QED
      BY <1>9, <1>10, <3>1, <3>2
  <2> QED
    BY <2>1, <2>2
<1>13. /\ subs' \in Nat /\ inbox' \in Nat /\ entered' \in Nat /\ polls' \in 0..MaxPolls
       /\ subs' <= entered' /\ polls' = polls /\ inbox' = i /\ entered' = k
  BY <1>3, <1>9, <1>10, CountsOf
<1> QED
  BY <1>5, <1>12, <1>13, CountsThen

LEMMA JoinKeepsCounted ==
    ASSUME Types, Counted, NEW u \in Users, NEW e \in Events, Join(u, e)
    PROVE  Counted'
<1>1. ASSUME NEW s \in Slots
      PROVE  calls'[s].kind = calls[s].kind
  <2>1. PICK c : c = calls[s]
    OBVIOUS
  <2>2. c \in Call => [c EXCEPT !.joined = @ \cup {e}].kind = c.kind
    BY DEF Call
  <2>3. c \in {Idle} \cup Call
    BY <2>1 DEF Types
  <2>4. \/ calls'[s] = c
        \/ c # Idle /\ calls'[s] = [c EXCEPT !.joined = @ \cup {e}]
    BY <2>1 DEF Join
  <2> QED
    BY <2>1, <2>2, <2>3, <2>4
<1>2. UNCHANGED <<subs, inbox, polls, entered, causes>>
  BY DEF Join, Change
<1> QED
  BY <1>1, <1>2, FewerCounted

LEMMA AskKeepsCounted ==
    ASSUME Types, Counted, NEW p, p.recommendation \in BOOLEAN, Ask(p)
    PROVE  Counted'
<1>1. PICK k : k = IF p.recommendation THEN "recommendation" ELSE "events"
  OBVIOUS
<1>2. PICK c : c = NewCall(k, Visitor)
  OBVIOUS
<1>3. c.kind \in {"events", "recommendation"}
  BY <1>1, <1>2 DEF NewCall
<1>4. PICK s \in Slots : calls' = [calls EXCEPT ![s] = c]
  BY <1>1, <1>2 DEF Ask
<1>5. calls'[s] = c /\ \A x \in Slots \ {s} : calls'[x] = calls[x]
  BY <1>4 DEF Types
<1>6. OfKind("poll")' \subseteq OfKind("poll") /\ OfKind("notify")' \subseteq OfKind("notify")
  BY <1>3, <1>5 DEF OfKind
<1>7. /\ UNCHANGED <<subs, inbox, polls, entered, causes>>
      /\ subs' \in Nat /\ entered' \in Nat /\ subs' <= entered' /\ entered <= entered'
  BY CountsOf DEF Ask
<1> QED
  BY <1>6, <1>7, CountsHold

LEMMA LoadKeepsCounted == Types /\ Counted /\ Load => Counted'
<1> SUFFICES ASSUME Types, Counted, Load PROVE Counted'
  OBVIOUS
<1>1. PICK c : c = NewCall("events", Visitor)
  OBVIOUS
<1>2. c.kind = "events"
  BY <1>1 DEF NewCall
<1>3. PICK s \in Slots :
        calls' = [x \in Slots |-> IF x = s THEN c ELSE IF Unheard(calls[x]) THEN Idle ELSE calls[x]]
  BY <1>1 DEF Load
<1>4. \A x \in Slots : calls'[x] \in {c, Idle, calls[x]}
  BY <1>3
<1>5. OfKind("poll")' \subseteq OfKind("poll") /\ OfKind("notify")' \subseteq OfKind("notify")
  BY <1>2, <1>4 DEF OfKind, Idle
<1>6. PICK n \in {0, 1} : subs' = subs + n /\ entered' = entered + n
  BY DEF Load
<1>7. subs' \in Nat /\ entered' \in Nat /\ subs' <= entered' /\ entered <= entered'
  BY <1>6, CountsOf
<1>8. UNCHANGED <<inbox, polls, causes>>
  BY DEF Load
<1> QED
  BY <1>5, <1>7, <1>8, CountsHold

LEMMA RestartKeepsCounted == Types /\ Counted /\ Restart => Counted'
<1> SUFFICES ASSUME Types, Counted, Restart PROVE Counted'
  OBVIOUS
<1>1. \A s \in Slots : calls'[s] = calls[s] \/ calls'[s] = Idle
  BY DEF Restart
<1>2. OfKind("poll")' \subseteq OfKind("poll") /\ OfKind("notify")' \subseteq OfKind("notify")
  BY <1>1 DEF OfKind, Idle
<1>3. subs' = 0 /\ UNCHANGED <<inbox, polls, entered, causes>>
  BY DEF Restart
<1>4. subs' \in Nat /\ entered' \in Nat /\ subs' <= entered' /\ entered <= entered'
  BY <1>3, CountsOf
<1> QED
  BY <1>2, <1>3, <1>4, CountsHold

\* The answers that change what a request holds and not what kind of request it is.
LEMMA ServeKeepsCounted ==
    ASSUME Types, Counted, NEW s \in Slots, Serve(s) \/ Show(s)
    PROVE  Counted'
<1>1. CASE Push(s)
  BY <1>1, PushKeepsCounted
<1>2. CASE Fail(s)
  BY <1>2, KindStays DEF Fail
<1>3. CASE Show(s)
  BY <1>3, KindStays DEF Show
<1>4. CASE Locate(s) \/ FindEvents(s) \/ ReadGraph(s) \/ FindRecommended(s)
  <2>1. UNCHANGED <<subs, inbox, causes, polls, entered>>
    BY <1>4 DEF Locate, FindEvents, ReadGraph, FindRecommended
  <2>2. PICK c : c = calls[s]
    OBVIOUS
  <2>3. c \in Call
    <3>1. calls[s] # Idle
      BY <1>4 DEF Locate, FindEvents, ReadGraph, FindRecommended, Sent
    <3> QED
      BY <2>2, <3>1 DEF Types
  <2>4. calls'[s].kind = calls[s].kind /\ \A x \in Slots \ {s} : calls'[x] = calls[x]
    <3>1. CASE Locate(s)
      BY <2>2, <2>3, <3>1 DEF Locate, Types, Call
    <3>2. CASE FindEvents(s)
      BY <2>2, <2>3, <3>2 DEF FindEvents, Types, Call
    <3>3. CASE ReadGraph(s)
      BY <2>2, <2>3, <3>3 DEF ReadGraph, Types, Call
    <3>4. CASE FindRecommended(s)
      BY <2>2, <2>3, <3>4 DEF FindRecommended, Types, Call
    <3> QED
      BY <1>4, <3>1, <3>2, <3>3, <3>4
  <2> QED
    BY <2>1, <2>4, FewerCounted
<1> QED
  BY <1>1, <1>2, <1>3, <1>4 DEF Serve

LEMMA OthersKeepCounted == Types /\ Counted /\ Others => Counted'
<1> SUFFICES ASSUME Types, Counted, Others PROVE Counted'
  OBVIOUS
<1>1. CASE \/ Tick \/ \E e \in Events : Pay(e) \/ Delete(e) \/ Unlink(e)
           \/ \E u \in Users, e \in Events : Quit(u, e)
  <2>1. UNCHANGED <<calls, subs, inbox, polls, entered, causes>>
    BY <1>1 DEF Tick, Pay, Delete, Unlink, Quit, Change
  <2> QED
    BY <2>1, FewerCounted
<1> QED
  BY <1>1, JoinKeepsCounted DEF Others

LEMMA AppKeepsCounted == Types /\ Counted /\ App => Counted'
<1> SUFFICES ASSUME Types, Counted, App PROVE Counted'
  OBVIOUS
<1>1. PICK p : p = page
  OBVIOUS
<1>2. p \in Page
  BY <1>1 DEF Types
<1>3. CASE GetEvents
  <2>1. PICK q : q = [p EXCEPT !.recommendation = FALSE]
    OBVIOUS
  <2>2. q.recommendation \in BOOLEAN
    BY <1>2, <2>1 DEF Page
  <2>3. Ask(q)
    BY <1>1, <1>3, <2>1 DEF GetEvents
  <2> QED
    BY <2>2, <2>3, AskKeepsCounted
<1>4. CASE GetRecommendation
  <2>1. PICK q : q = [p EXCEPT !.recommendation = TRUE]
    OBVIOUS
  <2>2. q.recommendation \in BOOLEAN
    BY <1>2, <2>1 DEF Page
  <2>3. Ask(q)
    BY <1>1, <1>4, <2>1 DEF GetRecommendation
  <2> QED
    BY <2>2, <2>3, AskKeepsCounted
<1>5. ASSUME NEW r \in Radii, RadiusChanged(r)
      PROVE  Counted'
  <2>1. PICK q : q = [p EXCEPT !.radius = r]
    OBVIOUS
  <2>2. q.recommendation \in BOOLEAN
    BY <1>2, <2>1 DEF Page
  <2>3. Ask(q)
    BY <1>1, <1>5, <2>1 DEF RadiusChanged
  <2> QED
    BY <2>2, <2>3, AskKeepsCounted
<1> QED
  BY <1>3, <1>4, <1>5, LoadKeepsCounted, PollKeepsCounted DEF App

LEMMA NextKeepsCounted == Types /\ Counted /\ [Next]_vars => Counted'
<1> SUFFICES ASSUME Types, Counted, [Next]_vars PROVE Counted'
  OBVIOUS
<1>1. CASE UNCHANGED vars
  <2>1. UNCHANGED <<calls, subs, inbox, polls, entered, causes>>
    BY <1>1 DEF vars
  <2> QED
    BY <2>1, FewerCounted
<1> QED
  BY <1>1, OthersKeepCounted, AppKeepsCounted, RestartKeepsCounted, ServeKeepsCounted,
     PollAnsweredKeepsCounted DEF Next

LEMMA InitIsCounted == Init => Counted
<1> SUFFICES ASSUME Init PROVE Counted
  OBVIOUS
<1>1. PICK P, N : P = OfKind("poll") /\ N = OfKind("notify")
  OBVIOUS
<1>2. P = {} /\ N = {}
  BY <1>1 DEF OfKind, Init, Idle
<1>3. Cardinality(P) = 0 /\ Cardinality(N) = 0
  BY <1>2, FS_EmptySet
<1>4. subs = 0 /\ inbox = 0 /\ causes = 0 /\ polls = 0 /\ entered = 0
  BY DEF Init
<1>5. 0 \in 0..MaxPolls
  BY ConstantsAssumption
<1> QED
  BY <1>1, <1>3, <1>4, <1>5 DEF Counted, PollsCounted, NoticesCaused

-----------------------------------------------------------------------------
(* The theorems.                                                             *)

Bounded == changes \in 0..MaxChanges /\ clicks \in 0..MaxClicks

LEMMA NextKeepsBounded == Bounded /\ [Next]_vars => Bounded'
<1> SUFFICES ASSUME Bounded, [Next]_vars PROVE Bounded'
  OBVIOUS
<1>1. MaxChanges \in Nat /\ MaxClicks \in Nat
  BY ConstantsAssumption
<1>2. \/ UNCHANGED changes
      \/ changes < MaxChanges /\ changes' = changes + 1
  <2>1. CASE UNCHANGED vars
    BY <2>1 DEF vars, world
  <2>2. CASE Others
    BY <2>2 DEF Others, Tick, Pay, Delete, Unlink, Join, Quit, Change
  <2>3. CASE App
    BY <2>3 DEF App, GetEvents, GetRecommendation, RadiusChanged, Ask, Load, Poll, world
  <2>4. ASSUME NEW s \in Slots, Serve(s) \/ Show(s) \/ PollAnswered(s)
        PROVE  UNCHANGED changes
    BY <2>4 DEF Serve, Locate, FindEvents, ReadGraph, FindRecommended, Push, Fail, Show,
                PollAnswered, world
  <2>5. CASE Restart
    BY <2>5 DEF Restart, world
  <2> QED
    BY <2>1, <2>2, <2>3, <2>4, <2>5 DEF Next
<1>3. \/ UNCHANGED clicks
      \/ clicks < MaxClicks /\ clicks' = clicks + 1
  <2>1. CASE UNCHANGED vars
    BY <2>1 DEF vars
  <2>2. CASE Others
    BY <2>2 DEF Others, Tick, Pay, Delete, Unlink, Join, Quit, Change
  <2>3. CASE App
    BY <2>3 DEF App, GetEvents, GetRecommendation, RadiusChanged, Ask, Load, Poll
  <2>4. ASSUME NEW s \in Slots, Serve(s) \/ Show(s) \/ PollAnswered(s)
        PROVE  UNCHANGED clicks
    BY <2>4 DEF Serve, Locate, FindEvents, ReadGraph, FindRecommended, Push, Fail, Show,
                PollAnswered
  <2>5. CASE Restart
    BY <2>5 DEF Restart
  <2> QED
    BY <2>1, <2>2, <2>3, <2>4, <2>5 DEF Next
<1> QED
  BY <1>1, <1>2, <1>3 DEF Bounded

LEMMA InductiveInParts == Inductive <=> Seen /\ Counted /\ Bounded
<1>1. TypeOK /\ PollsCounted /\ NoticesCaused <=> Types /\ Counted /\ Bounded
  BY DEF TypeOK, Types, Counted, Bounded
<1>2. (\A s \in Slots : (calls[s] # Idle => AnswerSound(calls[s])) /\ (calm => AskedOnce(s)))
        <=> AllSound /\ AllOnce
  BY DEF AllSound, AllOnce
<1> QED
  BY <1>1, <1>2 DEF Inductive, Seen

LEMMA InitIsInductive == Init => Inductive
<1>1. Init => Bounded
  BY ConstantsAssumption DEF Init, Bounded
<1> QED
  BY <1>1, InitIsSeen, InitIsCounted, InductiveInParts

LEMMA NextKeepsInductive == Inductive /\ [Next]_vars => Inductive'
<1>1. Inductive /\ [Next]_vars => (Seen /\ Counted /\ Bounded)'
  BY InductiveInParts, NextKeepsSeen, NextKeepsCounted, NextKeepsBounded DEF Seen
<1>2. (Seen /\ Counted /\ Bounded)' => Inductive'
  BY InductiveInParts, PTL
<1> QED
  BY <1>1, <1>2

\* What a device was pushed, what a request found and what the page shows belong together
\* in every state that can be reached.
THEOREM InductiveCorrect == Spec => []Inductive
  BY InitIsInductive, NextKeepsInductive, PTL DEF Spec

\* The documents, the graph, the page and its requests keep their types.
THEOREM TypeCorrect == Spec => []TypeOK
<1>1. Inductive => TypeOK
  BY DEF Inductive
<1> QED
  BY <1>1, InductiveCorrect, PTL

\* Two pages of EventService's query that follow each other, of whatever sizes and from
\* wherever on, the second asked for when some of the events may be gone, share no event
\* and pass over at most as many as are gone, when no two agree in the whole sort key.
THEOREM PagesTileCorrect == Spec => []PagesTile
  BY TypeCorrect, PagesTileInEveryState, PTL

\* An event is recommended before another only if a neighbour that has it is at least as
\* much like the user as all that have the other, whatever the graph has become.
THEOREM RecommendedByLikenessCorrect == Spec => []RecommendedByLikeness
  BY LikenessInEveryState, PTL

\* The overview of a visitor who waits shows what the mode and the radius it is in ask for.
THEOREM ShownAsAskedCorrect == Spec => []ShownAsAsked
<1>1. Inductive => ShownAsAsked
  BY DEF Inductive
<1> QED
  BY <1>1, InductiveCorrect, PTL

\* Whoever's apps poll, a device gets for each time it was entered no more notices than
\* polls that found something.
THEOREM NoticesCausedCorrect == Spec => []NoticesCaused
<1>1. Inductive => NoticesCaused
  BY DEF Inductive
<1> QED
  BY <1>1, InductiveCorrect, PTL
=============================================================================
