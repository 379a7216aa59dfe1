-------------------------- MODULE RuleEngineProofs --------------------------
(***************************************************************************)
(* Proofs about an evaluation, for any rules and any knowledge.            *)
(***************************************************************************)
EXTENDS RuleEngine, FiniteSetTheorems, WellFoundedInduction, SequenceTheorems, TLAPS

-----------------------------------------------------------------------------
(* Numbers, sums and lists.                                                *)

\* Every set of naturals that has a member has a least one.
LEMMA LeastNatural ==
  ASSUME NEW S \in SUBSET Nat, S # {}
  PROVE  \E m \in S : \A k \in S : m <= k
<1>1. PICK m \in S : \A k \in S : <<k, m>> \notin OpToRel(<, Nat)
  BY NatLessThanWellFounded, WFMin
<1>2. \A k \in S : ~ (k < m)
  BY <1>1 DEF OpToRel
<1> QED
  BY <1>2

\* Finitely many integers have finitely many units.
LEMMA UnitsFinite ==
  ASSUME NEW S, IsFiniteSet(S), NEW f \in [S -> Int]
  PROVE  IsFiniteSet(Units(f))
<1> DEFINE of == [x \in S |-> {x} \X (1 .. f[x])]
           sets == {of[x] : x \in S}
<1>1. Units(f) = UNION sets
  BY DEF Units
<1>2. IsFiniteSet(sets)
  <2>1. of \in Surjection(S, sets)
    BY DEF Surjection
  <2> QED
    BY <2>1, FS_Surjection
<1>3. ASSUME NEW T \in sets PROVE IsFiniteSet(T)
  <2>1. PICK x \in S : T = {x} \X (1 .. f[x])
    OBVIOUS
  <2>2. IsFiniteSet({x})
    BY FS_Singleton
  <2>3. f[x] \in Int
    OBVIOUS
  <2>4. IsFiniteSet(1 .. f[x])
    BY <2>3, FS_Interval
  <2> QED
    BY <2>1, <2>2, <2>4, FS_Product
<1> QED
  BY <1>1, <1>2, <1>3, FS_UNION

\* The units of a function that has one argument more.
LEMMA UnitsOfOneMore ==
  ASSUME NEW S, IsFiniteSet(S), NEW f \in [S -> Int], NEW y, y \notin S, NEW a \in Int,
         NEW g, g = [x \in S \cup {y} |-> IF x = y THEN a ELSE f[x]]
  PROVE  /\ IsFiniteSet(Units(f)) /\ IsFiniteSet(Units(g))
         /\ Cardinality(Units(f)) \in Nat
         /\ Cardinality(Units(g)) = Cardinality(Units(f)) + (IF a > 0 THEN a ELSE 0)
<1> DEFINE more == {y} \X (1 .. a)
<1>1. Units(g) = Units(f) \cup more
  <2>1. ASSUME NEW u \in Units(g) PROVE u \in Units(f) \cup more
    BY DEF Units
  <2>2. ASSUME NEW u \in Units(f) \cup more PROVE u \in Units(g)
    BY DEF Units
  <2> QED
    BY <2>1, <2>2
<1>2. Units(f) \cap more = {}
  BY DEF Units
<1>3. IsFiniteSet(more) /\ Cardinality(more) = IF a > 0 THEN a ELSE 0
  <2>1. IsFiniteSet(1 .. a) /\ Cardinality(1 .. a) = IF 1 > a THEN 0 ELSE a - 1 + 1
    BY FS_Interval
  <2>2. IsFiniteSet({y}) /\ Cardinality({y}) = 1
    BY FS_Singleton
  <2>3. IsFiniteSet(more) /\ Cardinality(more) = Cardinality({y}) * Cardinality(1 .. a)
    BY <2>1, <2>2, FS_Product
  <2> QED
    BY <2>1, <2>2, <2>3
<1>4. IsFiniteSet(Units(f))
  BY UnitsFinite
<1> HIDE DEF more
<1>5. Cardinality(Units(f)) \in Nat
  BY <1>4, FS_CardinalityType
<1>6. /\ IsFiniteSet(Units(f) \cup more)
      /\ Cardinality(Units(f) \cup more) =
           Cardinality(Units(f)) + Cardinality(more) - Cardinality(Units(f) \cap more)
  BY <1>3, <1>4, FS_Union
<1>7. Cardinality(Units(f) \cap more) = 0
  BY <1>2, FS_EmptySet
<1>8. Cardinality(more) \in Nat
  BY <1>3, FS_CardinalityType
<1>9. /\ IsFiniteSet(Units(g))
      /\ Cardinality(Units(g)) =
           Cardinality(Units(f)) + Cardinality(more) - Cardinality(Units(f) \cap more)
  BY <1>1, <1>6, Zenon
<1>10. Cardinality(Units(g)) = Cardinality(Units(f)) + Cardinality(more)
  BY <1>5, <1>7, <1>8, <1>9
<1> QED
  BY <1>3, <1>4, <1>5, <1>9, <1>10

\* An argument more adds its amount to the sum.
LEMMA TotalOfOneMore ==
  ASSUME NEW S, IsFiniteSet(S), NEW f \in [S -> Int], NEW y, y \notin S, NEW a \in Int,
         NEW g, g = [x \in S \cup {y} |-> IF x = y THEN a ELSE f[x]]
  PROVE  Total(f) \in Int /\ Total(g) = Total(f) + a
<1>1. PICK minus : minus = [x \in S |-> -f[x]]
  OBVIOUS
<1>2. PICK opposite : opposite = [x \in S \cup {y} |-> -g[x]]
  OBVIOUS
<1> PICK b \in Int : b = -a
  OBVIOUS
<1>3. minus \in [S -> Int]
  BY <1>1
<1>4. opposite = [x \in S \cup {y} |-> IF x = y THEN b ELSE minus[x]]
  BY <1>1, <1>2
<1>5. /\ Cardinality(Units(f)) \in Nat
      /\ Cardinality(Units(g)) = Cardinality(Units(f)) + (IF a > 0 THEN a ELSE 0)
  BY UnitsOfOneMore
<1>6. /\ Cardinality(Units(minus)) \in Nat
      /\ Cardinality(Units(opposite)) = Cardinality(Units(minus)) + (IF b > 0 THEN b ELSE 0)
  BY <1>3, <1>4, UnitsOfOneMore
<1>7. Total(f) = Cardinality(Units(f)) - Cardinality(Units(minus))
  <2>1. DOMAIN f = S
    OBVIOUS
  <2> QED
    BY <1>1, <2>1 DEF Total
<1>8. Total(g) = Cardinality(Units(g)) - Cardinality(Units(opposite))
  <2>1. DOMAIN g = S \cup {y}
    OBVIOUS
  <2> QED
    BY <1>2, <2>1 DEF Total
<1> HIDE DEF Total
<1> QED
  BY <1>5, <1>6, <1>7, <1>8

\* The same of two functions that agree but for one argument.
LEMMA TotalWithOneMore ==
  ASSUME NEW S, IsFiniteSet(S), NEW y, y \notin S,
         NEW f \in [S -> Int], NEW g \in [S \cup {y} -> Int], \A x \in S : g[x] = f[x]
  PROVE  Total(f) \in Int /\ Total(g) = Total(f) + g[y]
<1>1. g[y] \in Int
  OBVIOUS
<1>2. g = [x \in S \cup {y} |-> IF x = y THEN g[y] ELSE f[x]]
  OBVIOUS
<1>3. PICK a \in Int : a = g[y]
  BY <1>1
<1>4. g = [x \in S \cup {y} |-> IF x = y THEN a ELSE f[x]]
  BY <1>2, <1>3
<1> QED
  BY <1>3, <1>4, TotalOfOneMore

\* A sum of finitely many integers is one.
LEMMA TotalIsInteger ==
  ASSUME NEW S, IsFiniteSet(S), NEW f \in [S -> Int]
  PROVE  Total(f) \in Int
<1>1. PICK minus : minus = [x \in S |-> -f[x]]
  OBVIOUS
<1>2. minus \in [S -> Int]
  BY <1>1
<1>3. IsFiniteSet(Units(f)) /\ IsFiniteSet(Units(minus))
  BY <1>2, UnitsFinite
<1>4. Cardinality(Units(f)) \in Nat /\ Cardinality(Units(minus)) \in Nat
  BY <1>3, FS_CardinalityType
<1>5. Total(f) = Cardinality(Units(f)) - Cardinality(Units(minus))
  <2>1. DOMAIN f = S
    OBVIOUS
  <2> QED
    BY <1>1, <2>1 DEF Total
<1> QED
  BY <1>4, <1>5

\* A sum of nothing is zero.
LEMMA TotalOfNone ==
  ASSUME NEW f, DOMAIN f = {}
  PROVE  Total(f) = 0
<1>1. Units(f) = {}
  BY DEF Units
<1>2. Units([x \in DOMAIN f |-> -f[x]]) = {}
  BY DEF Units
<1> QED
  BY <1>1, <1>2, FS_EmptySet DEF Total

\* A finite set of places has an n-th for every n up to its size.
LEMMA PlaceIsOne ==
  ASSUME NEW top \in Nat, NEW P \in SUBSET (1 .. top), NEW n \in 1 .. Cardinality(P)
  PROVE  Place(P, n) \in P
<1> DEFINE upTo(i) == {j \in P : j <= i}
           Enough == {i \in Nat : n <= Cardinality(upTo(i))}
<1>1. IsFiniteSet(P) /\ Cardinality(P) \in Nat
  <2>1. IsFiniteSet(1 .. top)
    BY FS_Interval
  <2>2. IsFiniteSet(P)
    BY <2>1, FS_Subset
  <2> QED
    BY <2>2, FS_CardinalityType
<1>2. \A i \in Nat : IsFiniteSet(upTo(i)) /\ Cardinality(upTo(i)) \in Nat
  BY <1>1, FS_Subset, FS_CardinalityType
<1>3. \A j \in P : j \in Nat /\ 0 < j /\ j <= top
  OBVIOUS
<1>4. upTo(top) = P
  BY <1>3
<1>5. upTo(0) = {}
  <2>1. \A j \in P : ~ (j <= 0)
    BY <1>3
  <2> QED
    BY <2>1, Zenon
<1>6. ASSUME NEW i \in Nat \ {0}
      PROVE  upTo(i) = IF i \in P THEN upTo(i - 1) \cup {i} ELSE upTo(i - 1)
  <2>1. \A j \in P : j <= i <=> j <= i - 1 \/ j = i
    BY <1>3
  <2>2. ~ (i <= i - 1)
    OBVIOUS
  <2> QED
    BY <2>1, <2>2, Zenon
<1>7. \A i \in Nat \ {0} : i \notin upTo(i - 1)
  OBVIOUS
<1>8. \A i \in Nat : i \in Enough <=> n <= Cardinality(upTo(i))
  OBVIOUS
<1> HIDE DEF upTo, Enough
<1>9. PICK m \in Nat : m \in Enough /\ \A k \in Enough : m <= k
  <2>1. top \in Enough
    BY <1>1, <1>4, <1>8
  <2>2. Enough \in SUBSET Nat
    BY DEF Enough
  <2> QED
    BY <2>1, <2>2, LeastNatural
<1>10. m # 0
  <2>1. Cardinality(upTo(0)) = 0
    BY <1>5, FS_EmptySet
  <2> QED
    BY <1>8, <1>9, <2>1
<1>11. m - 1 \in Nat /\ m - 1 \notin Enough
  BY <1>9, <1>10
<1>12. Cardinality(upTo(m - 1)) < n
  BY <1>1, <1>2, <1>8, <1>11
<1>13. m \in P
  BY <1>6, <1>8, <1>9, <1>10, <1>11
<1>14. Cardinality(upTo(m)) = Cardinality(upTo(m - 1)) + 1
  <2>1. upTo(m) = upTo(m - 1) \cup {m}
    BY <1>6, <1>9, <1>10, <1>13
  <2>2. m \notin upTo(m - 1)
    BY <1>7, <1>9, <1>10
  <2>3. IsFiniteSet(upTo(m - 1))
    BY <1>2, <1>11
  <2> QED
    BY <2>1, <2>2, <2>3, FS_AddElement
<1>15. Cardinality(upTo(m)) = n
  BY <1>1, <1>2, <1>8, <1>9, <1>11, <1>12, <1>14
<1> USE DEF upTo
<1> QED
  BY <1>13, <1>15 DEF Place

\* Rows are listed as a sequence of rows.
LEMMA ListedIsSequence ==
  ASSUME NEW S, NEW K, NEW order \in Seq(K)
  PROVE  Listed(S, order) \in Seq(S)
<1>1. PICK P : P = Places(S, order)
  OBVIOUS
<1>2. P \subseteq 1 .. Len(order) /\ Len(order) \in Nat
  BY <1>1 DEF Places
<1>3. Cardinality(P) \in Nat
  <2>1. IsFiniteSet(1 .. Len(order))
    BY <1>2, FS_Interval
  <2>2. IsFiniteSet(P)
    BY <1>2, <2>1, FS_Subset
  <2> QED
    BY <2>2, FS_CardinalityType
<1>4. \A n \in 1 .. Cardinality(P) : Place(P, n) \in P
  BY <1>2, PlaceIsOne
<1>5. \A n \in 1 .. Cardinality(P) : order[Place(P, n)] \in S
  BY <1>1, <1>4 DEF Places
<1>6. Listed(S, order) = [n \in 1 .. Cardinality(P) |-> order[Place(P, n)]]
  BY <1>1 DEF Listed
<1> QED
  BY <1>3, <1>5, <1>6
-----------------------------------------------------------------------------
(* What an evaluation gives.                                               *)

\* A boolean is a value.
LEMMA BoolIsValue ==
  ASSUME NEW b \in BOOLEAN
  PROVE  Bool(b) \in Values
BY DEF Bool, Values

\* A number is a value.
LEMMA NumIsValue ==
  ASSUME NEW n \in Int
  PROVE  Num(n) \in Values
BY DEF Num, Values

\* A list of data, or of expressions taken for values, is a value.
LEMMA ListIsValue ==
  ASSUME NEW s \in Seq(Data \cup {Node})
  PROVE  List(s) \in Values
BY DEF List, Values

\* The types of values tell them apart, and from the failures.
LEMMA ValueTypes ==
  ASSUME NEW v \in Values
  PROVE  /\ v.type \in {"none", "number", "bool", "list", "relation", "node"}
         /\ v.type = "number" => v.n \in Int
         /\ v.type = "list" => v.s \in Seq(Data \cup {Node})
         /\ v \notin Failures
BY DataAssumption DEF Values, Node, None, Failures, Error, Malformed

\* What an aggregation runs over are values.
LEMMA MembersAreValues ==
  ASSUME NEW v \in Values
  PROVE  Members(v) \in Seq(Values)
<1>1. CASE v.type = "list"
  <2>1. v.s \in Seq(Data \cup {Node})
    BY <1>1, ValueTypes
  <2>2. Data \cup {Node} \subseteq Values
    BY DEF Values
  <2> QED
    BY <1>1, <2>1, <2>2 DEF Members
<1>2. CASE v.type # "list"
  BY <1>2 DEF Members
<1> QED
  BY <1>1, <1>2

\* The order of the integers is transitive.
LEMMA Ascending ==
  ASSUME NEW a \in Int, NEW b \in Int, NEW c \in Int, a <= b, b <= c
  PROVE  a <= c
OBVIOUS

\* A sequence of integers that is not empty has a least and a greatest element.
LEMMA ExtremesExist ==
  ASSUME NEW s \in Seq(Int), s # <<>>
  PROVE  Min(ToSet(s)) \in Int /\ Max(ToSet(s)) \in Int
<1> DEFINE Without == {k \in 1 .. Len(s) :
              ~ \E i, j \in 1 .. k : \A x \in 1 .. k : s[i] <= s[x] /\ s[x] <= s[j]}
<1>1. Len(s) \in Nat \ {0} /\ \A k \in 1 .. Len(s) : s[k] \in Int
  OBVIOUS
<1>2. Without = {}
  <2>1. SUFFICES ASSUME Without # {} PROVE FALSE
    OBVIOUS
  <2>2. Without \in SUBSET Nat
    OBVIOUS
  <2>3. PICK m \in Without : \A k \in Without : m <= k
    BY <2>1, <2>2, LeastNatural
  <2>4. m # 1
    BY <1>1
  <2>5. m \in 1 .. Len(s)
    OBVIOUS
  <2>6. m - 1 \in 1 .. Len(s) /\ ~ (m <= m - 1)
    BY <1>1, <2>4, <2>5
  <2>7. m - 1 \notin Without
    BY <2>3, <2>6
  <2>8. PICK i, j \in 1 .. m - 1 : \A x \in 1 .. m - 1 : s[i] <= s[x] /\ s[x] <= s[j]
    BY <2>6, <2>7
  <2>9. i \in 1 .. m /\ j \in 1 .. m /\ m \in 1 .. m
    BY <2>5, <2>8
  <2>10. \A x \in 1 .. m : s[x] \in Int
    BY <1>1, <2>5
  <2>14. s[i] \in Int /\ s[j] \in Int /\ s[m] \in Int
    BY <2>9, <2>10
  <2>11. PICK low \in 1 .. m : s[low] <= s[i] /\ s[low] <= s[m]
    <3>1. s[i] <= s[m] \/ s[m] <= s[i]
      BY <2>14
    <3>2. s[i] <= s[i] /\ s[m] <= s[m]
      BY <2>14
    <3> QED
      BY <2>9, <3>1, <3>2
  <2>12. PICK high \in 1 .. m : s[j] <= s[high] /\ s[m] <= s[high]
    <3>1. s[j] <= s[m] \/ s[m] <= s[j]
      BY <2>14
    <3>2. s[j] <= s[j] /\ s[m] <= s[m]
      BY <2>14
    <3> QED
      BY <2>9, <3>1, <3>2
  <2>13. ASSUME NEW x \in 1 .. m
         PROVE  s[low] <= s[x] /\ s[x] <= s[high]
    <3>1. CASE x = m
      BY <2>11, <2>12, <3>1
    <3>2. CASE x # m
      <4>1. x \in 1 .. m - 1
        BY <2>5, <3>2
      <4>2. s[i] <= s[x] /\ s[x] <= s[j]
        BY <2>8, <4>1
      <4>3. s[x] \in Int /\ s[low] \in Int /\ s[high] \in Int
        BY <2>10
      <4> QED
        <5>1. s[low] <= s[x]
          BY <2>11, <2>14, <4>2, <4>3, Ascending
        <5>2. s[x] <= s[high]
          BY <2>12, <2>14, <4>2, <4>3, Ascending
        <5> QED
          BY <5>1, <5>2
    <3> QED
      BY <3>1, <3>2
  <2> QED
    BY <2>3, <2>13
<1>3. PICK i, j \in 1 .. Len(s) : \A x \in 1 .. Len(s) : s[i] <= s[x] /\ s[x] <= s[j]
  <2>1. Len(s) \in 1 .. Len(s)
    BY <1>1
  <2> QED
    BY <1>2, <2>1
<1>4. ToSet(s) \subseteq Int /\ s[i] \in ToSet(s) /\ s[j] \in ToSet(s)
  BY <1>1 DEF ToSet
<1>5. \A y \in ToSet(s) : s[i] <= y /\ s[j] >= y
  BY <1>1, <1>3 DEF ToSet
<1>6. Min(ToSet(s)) \in ToSet(s)
  BY <1>4, <1>5 DEF Min
<1>7. Max(ToSet(s)) \in ToSet(s)
  BY <1>4, <1>5 DEF Max
<1> QED
  BY <1>4, <1>6, <1>7

\* An aggregation of a value is one, or fails by type.
LEMMA AggregateIsValue ==
  ASSUME NEW operator \in {"count", "sum", "min", "max"}, NEW v \in Values
  PROVE  Aggregate(operator, v) \in Values \cup {Error}
<1> DEFINE values == IF v = None THEN <<>> ELSE Members(v)
<1>1. values \in Seq(Values)
  BY MembersAreValues
<1>2. PICK s : s = values
  OBVIOUS
<1> DEFINE ns == [i \in DOMAIN s |-> s[i].n]
           few == s = <<>> \/ (operator # "sum" /\ Len(s) = 1)
           mixed == \E i \in DOMAIN s : s[i].type # "number"
<1>3. s \in Seq(Values) /\ Len(s) \in Nat
  BY <1>1, <1>2
<1>8. PICK amount : amount = CASE operator = "min" -> Min({s[i].n : i \in DOMAIN s})
                             [] operator = "max" -> Max({s[i].n : i \in DOMAIN s})
                             [] operator = "sum" -> Total(ns)
  OBVIOUS
<1>4. Aggregate(operator, v) =
        IF operator = "count" THEN Num(Len(s))
        ELSE IF s = <<>> THEN None
        ELSE IF operator # "sum" /\ Len(s) = 1 THEN s[1]
        ELSE IF \E i \in DOMAIN s : s[i].type # "number" THEN Error
        ELSE Num(amount)
  BY <1>2, <1>8 DEF Aggregate
<1> HIDE DEF values
<1>5. CASE operator = "count"
  BY <1>3, <1>4, <1>5, NumIsValue
<1>6. CASE operator # "count" /\ (few \/ mixed)
  <2>1. None \in Values
    BY DEF Values
  <2>2. s # <<>> => s[1] \in Values
    BY <1>3
  <2> QED
    BY <1>4, <1>6, <2>1, <2>2
<1>7. CASE operator # "count" /\ ~ (few \/ mixed)
  <2>1. \A i \in DOMAIN s : s[i] \in Values /\ s[i].type = "number"
    BY <1>3, <1>7
  <2>2. \A i \in DOMAIN s : s[i].n \in Int
    BY <2>1, ValueTypes
  <2>9. DOMAIN s = 1 .. Len(s) /\ Len(s) # 0
    <3>1. s # <<>>
      BY <1>7
    <3> QED
      BY <1>3, <3>1, EmptySeq
  <2>3. ns \in Seq(Int) /\ ns # <<>> /\ ns \in [1 .. Len(s) -> Int]
    BY <1>3, <2>2, <2>9
  <2>4. {s[i].n : i \in DOMAIN s} = ToSet(ns)
    BY DEF ToSet
  <2>5. IsFiniteSet(1 .. Len(s))
    BY <1>3, FS_Interval
  <2>6. Min(ToSet(ns)) \in Int /\ Max(ToSet(ns)) \in Int
    BY <2>3, ExtremesExist
  <2>7. Total(ns) \in Int
    BY <2>3, <2>5, TotalIsInteger
  <2>8. amount \in Int
    <3> HIDE DEF ns
    <3> QED
      BY <1>7, <1>8, <2>4, <2>6, <2>7
  <2>10. Aggregate(operator, v) = Num(amount)
    <3>1. operator # "count" /\ s # <<>> /\ ~ (operator # "sum" /\ Len(s) = 1) /\ ~ mixed
      BY <1>7
    <3> QED
      BY <1>4, <3>1
  <2> QED
    BY <2>8, <2>10, NumIsValue
<1> QED
  BY <1>5, <1>6, <1>7

\* A reading is of known rows, in an order of them.
LEMMA OrdersAreSequences ==
  ASSUME NEW x \in Readings
  PROVE  x.rows \subseteq Knowledge /\ x.order \in Seq(Knowledge)
<1>1. Cardinality(Knowledge) \in Nat
  BY DataAssumption, FS_CardinalityType
<1> QED
  BY <1>1, OrdersAssumption DEF Readings, SetToSeqs

\* What is evaluated without operands never fails.
LEMMA LeafIsValue ==
  ASSUME NEW node \in Expressions, node.kind \in Leaves \cup {"list"}, NEW x \in Readings
  PROVE  Leaf(node, x, Query).value \in Values
<1>1. Data \cup {None, Node} \subseteq Values
  BY DEF Values
<1>2. CASE node.kind = "literal"
  <2>1. node.value \in Data
    BY <1>2, ExpressionsAssumption
  <2>2. Leaf(node, x, Query) = [value |-> node.value, dependencies |-> {}]
    BY <1>2 DEF Leaf
  <2> QED
    BY <1>1, <2>1, <2>2
<1>3. CASE node.kind = "query"
  <2>1. Leaf(node, x, Query).value = IF node.path \in DOMAIN Query THEN Query[node.path] ELSE None
    BY <1>3 DEF Leaf
  <2>2. node.path \in DOMAIN Query => Query[node.path] \in Data
    BY DataAssumption DEF ToSet
  <2> QED
    BY <1>1, <2>1, <2>2
<1>4. CASE node.kind = "reference"
  <2>1. PICK found : found = Listed(Found(node, x.rows), x.order)
    OBVIOUS
  <2>2. Leaf(node, x, Query).value = ReferenceValue(node, found)
    BY <1>4, <2>1 DEF Leaf, Reference
  <2>3. found \in Seq(Found(node, x.rows))
    BY <2>1, OrdersAreSequences, ListedIsSequence
  <2>4. Found(node, x.rows) \subseteq Knowledge
    BY OrdersAreSequences DEF Found
  <2>5. found \in Seq(Knowledge)
    BY <2>3, <2>4
  <2>6. \A i \in DOMAIN found : found[i].value \in Data
    BY <2>5, DataAssumption
  <2>7. List([i \in DOMAIN found |-> found[i].value]) \in Values
    <3>1. [i \in DOMAIN found |-> found[i].value] \in Seq(Data \cup {Node})
      BY <2>5, <2>6
    <3> QED
      BY <3>1, ListIsValue
  <2>8. found # <<>> => Head(found).value \in Data
    BY <2>5, HeadTailProperties, DataAssumption
  <2> QED
    BY <1>1, <2>2, <2>7, <2>8 DEF ReferenceValue
<1>5. CASE node.kind = "list"
  <2>1. PICK s : s = [i \in DOMAIN node.args |->
                        IF node.args[i].kind = "literal" THEN node.args[i].value ELSE Node]
    OBVIOUS
  <2>2. Leaf(node, x, Query).value = List(s)
    BY <1>5, <2>1 DEF Leaf
  <2>3. node.args \in Seq(Expressions)
    BY <1>5, ExpressionsAssumption DEF Leaves
  <2>4. \A i \in DOMAIN node.args : s[i] \in Data \cup {Node}
    BY <2>1, <2>3, ExpressionsAssumption
  <2>5. s \in Seq(Data \cup {Node})
    <3>1. DOMAIN node.args = 1 .. Len(node.args) /\ Len(node.args) \in Nat
      BY <2>3
    <3>2. DOMAIN s = DOMAIN node.args
      BY <2>1
    <3>3. s = [i \in 1 .. Len(node.args) |-> s[i]]
      BY <2>1, <3>1, <3>2
    <3> QED
      BY <2>4, <3>1, <3>3
  <2> QED
    BY <2>2, <2>5, ListIsValue
<1> QED
  BY <1>2, <1>3, <1>4, <1>5 DEF Leaves

\* A comparison of values is a boolean, or fails by type.
LEMMA CompareIsValue ==
  ASSUME NEW operator \in Operators.comparison, NEW l \in Values, NEW r \in Values
  PROVE  Compare(operator, l, r) \in Values \cup {Error}
<1>1. CASE operator \in {"==", "!="} \/ None \in {l, r} \/ l.type # "number" \/ r.type # "number"
  BY <1>1, BoolIsValue DEF Compare, Operators
<1>2. CASE ~ (operator \in {"==", "!="} \/ None \in {l, r} \/ l.type # "number" \/ r.type # "number")
  <2>1. l.n \in Int /\ r.n \in Int
    BY <1>2, ValueTypes
  <2>2. PICK m \in Int, n \in Int : m = l.n /\ n = r.n
    BY <2>1
  <2>3. /\ (m > n) \in BOOLEAN /\ (m >= n) \in BOOLEAN
        /\ (m < n) \in BOOLEAN /\ (m <= n) \in BOOLEAN
    OBVIOUS
  <2>4. /\ l.type = "number" /\ r.type = "number" /\ None \notin {l, r}
        /\ operator \in {">", ">=", "<", "<="}
    BY <1>2 DEF Operators
  <2>5. \/ Compare(operator, l, r) = Bool(l.n > r.n)
        \/ Compare(operator, l, r) = Bool(l.n >= r.n)
        \/ Compare(operator, l, r) = Bool(l.n < r.n)
        \/ Compare(operator, l, r) = Bool(l.n <= r.n)
    <3>1. CASE operator = ">"
      BY <2>4, <3>1 DEF Compare
    <3>2. CASE operator = ">="
      BY <2>4, <3>2 DEF Compare
    <3>3. CASE operator = "<"
      BY <2>4, <3>3 DEF Compare
    <3>4. CASE operator = "<="
      BY <2>4, <3>4 DEF Compare
    <3> QED
      BY <2>4, <3>1, <3>2, <3>3, <3>4
  <2> QED
    BY <2>2, <2>3, <2>5, BoolIsValue
<1> QED
  BY <1>1, <1>2

\* A well-formed node makes a value of values, or fails by type.
LEMMA OperationIsValue ==
  ASSUME NEW node, NEW S, node.args \in Seq(S), WellFormed(node),
         node.kind \notin Leaves \cup {"list"},
         NEW values \in Seq(Values \cup {Error}), Len(values) = Len(node.args)
  PROVE  Operation(node, values) \in Values \cup {Error}
<1> DEFINE yes == {i \in DOMAIN values : Truthy(values[i])}
<1>1. Malformed \notin ToSet(values)
  BY ValueTypes DEF ToSet, Failures, Error, Malformed
<1>3. ASSUME Error \notin ToSet(values)
      PROVE  \A i \in DOMAIN values : values[i] \in Values
  BY <1>3 DEF ToSet
<1>4. Len(values) \in Nat /\ DOMAIN values = 1 .. Len(values)
  OBVIOUS
<1>11. node.kind \in {"logical", "comparison", "exists", "not_exists", "membership",
                       "aggregation", "quantifier"}
  BY DEF WellFormed, Kinds, Operators
<1>12. Operands(node) \in Nat /\ (Operands(node) # 0 => Len(values) = Operands(node))
  BY <1>4, <1>11 DEF WellFormed, HasOperands, Operands
<1>13. ~ (Len(values) < Operands(node))
  BY <1>4, <1>12
<1>2. CASE Error \in ToSet(values)
  BY <1>1, <1>2, <1>13 DEF Operation
<1>5. CASE node.kind = "logical" /\ Error \notin ToSet(values)
  <2>1. Operands(node) = 0 /\ Len(values) # 0 /\ node.operator \in {"and", "or", "not"}
    BY <1>5, EmptySeq DEF WellFormed, HasOperands, Operands, Operators
  <2>2. Operation(node, values) = Logical(node.operator, yes, Len(values))
    BY <1>1, <1>4, <1>5, <2>1 DEF Operation
  <2> HIDE DEF yes
  <2> QED
    BY <2>1, <2>2, BoolIsValue DEF Logical
<1>6. CASE node.kind = "comparison" /\ Error \notin ToSet(values)
  <2>1. Operands(node) = 2 /\ Len(values) = 2 /\ node.operator \in Operators.comparison
    BY <1>6 DEF WellFormed, HasOperands, Operands, Operators
  <2>2. Operation(node, values) = Compare(node.operator, values[1], values[2])
    BY <1>1, <1>6, <2>1 DEF Operation
  <2>3. values[1] \in Values /\ values[2] \in Values
    BY <1>3, <1>4, <1>6, <2>1
  <2> QED
    BY <2>1, <2>2, <2>3, CompareIsValue
<1>7. CASE node.kind \in {"exists", "not_exists"} /\ Error \notin ToSet(values)
  <2>1. Operands(node) = 1
    BY <1>7 DEF Operands
  <2>2. \/ Operation(node, values) = Bool(values[1] \notin {None, List(<<>>)})
        \/ Operation(node, values) = Bool(values[1] \in {None, List(<<>>)})
    <3>1. ~ (Len(values) < Operands(node)) /\ Error \notin ToSet(values) /\ Malformed \notin ToSet(values)
      BY <1>1, <1>7, <1>13
    <3>2. node.kind = "exists" \/ node.kind = "not_exists"
      BY <1>7
    <3>3. CASE node.kind = "exists"
      BY <3>1, <3>3 DEF Operation
    <3>4. CASE node.kind = "not_exists"
      BY <3>1, <3>4 DEF Operation
    <3> QED
      BY <3>2, <3>3, <3>4
  <2>3. /\ (values[1] \in {None, List(<<>>)}) \in BOOLEAN
        /\ (values[1] \notin {None, List(<<>>)}) \in BOOLEAN
    OBVIOUS
  <2>4. /\ Bool(values[1] \in {None, List(<<>>)}) \in Values
        /\ Bool(values[1] \notin {None, List(<<>>)}) \in Values
    BY <2>3, BoolIsValue, Zenon
  <2> QED
    BY <2>2, <2>4, Zenon
<1>8. CASE node.kind = "membership" /\ Error \notin ToSet(values)
  <2>2. Operation(node, values) =
          Bool((node.operator # "not_in") = (values[1] \in ToSet(Members(values[2]))))
    BY <1>1, <1>8, <1>13 DEF Operation
  <2>3. ((node.operator # "not_in") = (values[1] \in ToSet(Members(values[2])))) \in BOOLEAN
    OBVIOUS
  <2>4. Bool((node.operator # "not_in") = (values[1] \in ToSet(Members(values[2])))) \in Values
    BY <2>3, BoolIsValue, Zenon
  <2> QED
    BY <2>2, <2>4, Zenon
<1>9. CASE node.kind = "aggregation" /\ Error \notin ToSet(values)
  <2>1. Operands(node) = 1 /\ Len(values) = 1 /\ node.operator \in {"count", "sum", "min", "max"}
    BY <1>9 DEF WellFormed, HasOperands, Operands, Operators
  <2>2. Operation(node, values) = Aggregate(node.operator, values[1])
    BY <1>1, <1>9, <2>1 DEF Operation
  <2>3. values[1] \in Values
    BY <1>3, <1>4, <1>9, <2>1
  <2> QED
    BY <2>1, <2>2, <2>3, AggregateIsValue
<1>10. CASE node.kind = "quantifier" /\ Error \notin ToSet(values)
  <2>1. Operands(node) = 0 /\ node.operator \in {"any", "all", "none", "at_least"}
    BY <1>10 DEF WellFormed, Operands, Operators
  <2>2. Operation(node, values) =
          Quantified(node.operator, Cardinality(yes), Len(values), node.count)
    BY <1>1, <1>4, <1>10, <2>1 DEF Operation
  <2> HIDE DEF yes
  <2>3. PICK c, n : c = Cardinality(yes) /\ n = Len(values)
    OBVIOUS
  <2>4. /\ (c > 0) \in BOOLEAN /\ (c = n) \in BOOLEAN
        /\ (c = 0) \in BOOLEAN /\ (c >= node.count) \in BOOLEAN
    OBVIOUS
  <2>5. /\ Bool(c > 0) \in Values /\ Bool(c = n) \in Values
        /\ Bool(c = 0) \in Values /\ Bool(c >= node.count) \in Values
    BY <2>4, BoolIsValue, Zenon
  <2>6. \/ Operation(node, values) = Bool(c > 0)
        \/ Operation(node, values) = Bool(c = n)
        \/ Operation(node, values) = Bool(c = 0)
        \/ Operation(node, values) = Bool(c >= node.count)
    <3>1. CASE node.operator = "any"
      BY <2>2, <2>3, <3>1 DEF Quantified
    <3>2. CASE node.operator = "all"
      BY <2>2, <2>3, <3>2 DEF Quantified
    <3>3. CASE node.operator = "none"
      BY <2>2, <2>3, <3>3 DEF Quantified
    <3>4. CASE node.operator = "at_least"
      BY <2>2, <2>3, <3>4 DEF Quantified
    <3> QED
      BY <2>1, <3>1, <3>2, <3>3, <3>4
  <2> QED
    BY <2>5, <2>6, Zenon
<1>14. CASE Error \notin ToSet(values)
  BY <1>5, <1>6, <1>7, <1>8, <1>9, <1>10, <1>11, <1>14, Zenon
<1> QED
  BY <1>2, <1>14

\* What validation accepts evaluates to a value, or fails by type.
LEMMA EvaluationIsValue ==
  ASSUME NEW x \in Readings, NEW node \in Expressions, NEW levels \in 0 .. MaxDepth,
         Valid(node, levels)
  PROVE  Evaluate(node, x).value \in Values \cup {Error}
<1> DEFINE Good(e) == Evaluate(e, x).value \in Values \cup {Error}
           Bad == {n \in 0 .. MaxDepth : \E e \in Expressions : Valid(e, n) /\ ~Good(e)}
<1>1. SUFFICES ASSUME Bad # {} PROVE FALSE
  OBVIOUS
<1>2. Bad \in SUBSET Nat
  BY TraversalAssumption
<1>3. PICK m \in Bad : \A k \in Bad : m <= k
  BY <1>1, <1>2, LeastNatural
<1>4. PICK e \in Expressions : Valid(e, m) /\ ~Good(e)
  BY <1>3
<1>5. CASE e.kind \in Leaves \cup {"list"}
  <2>1. Evaluate(e, x) = Leaf(e, x, Query)
    BY <1>5, TraversalAssumption
  <2> QED
    BY <1>4, <1>5, <2>1, LeafIsValue
<1>6. CASE e.kind \notin Leaves \cup {"list"}
  <2>1. PICK s : s = [i \in DOMAIN e.args |-> Evaluate(e.args[i], x)]
    OBVIOUS
  <2>2. PICK values : values = [i \in DOMAIN s |-> s[i].value]
    OBVIOUS
  <2>3. Evaluate(e, x) = Combined(e, s)
    BY <1>6, <2>1, TraversalAssumption
  <2>4. Evaluate(e, x).value = Operation(e, values)
    BY <2>2, <2>3 DEF Combined
  <2>5. e.args \in Seq(Expressions)
    BY <1>6, ExpressionsAssumption
  <2>6. m \in 0 .. MaxDepth /\ MaxDepth \in Nat
    BY TraversalAssumption
  <2>7. WellFormed(e) /\ \A i \in DOMAIN e.args : m > 0 /\ Valid(e.args[i], m - 1)
    BY <1>4, <1>6, <2>6, TraversalAssumption
  <2>8. ASSUME NEW i \in DOMAIN e.args PROVE Good(e.args[i])
    <3>1. e.args[i] \in Expressions
      BY <2>5
    <3>2. m - 1 \in 0 .. MaxDepth /\ ~ (m <= m - 1) /\ Valid(e.args[i], m - 1)
      BY <2>6, <2>7
    <3>3. m - 1 \notin Bad
      BY <1>3, <3>2
    <3> QED
      BY <3>1, <3>2, <3>3
  <2>9. \A i \in DOMAIN e.args : values[i] \in Values \cup {Error}
    BY <2>1, <2>2, <2>8
  <2>10. DOMAIN e.args = 1 .. Len(e.args) /\ Len(e.args) \in Nat
    BY <2>5
  <2>11. values = [i \in 1 .. Len(e.args) |-> values[i]]
    BY <2>1, <2>2, <2>10
  <2>12. values \in Seq(Values \cup {Error}) /\ Len(values) = Len(e.args)
    BY <2>9, <2>10, <2>11
  <2> QED
    BY <1>4, <1>6, <2>4, <2>5, <2>7, <2>12, OperationIsValue
<1> QED
  BY <1>5, <1>6

\* Once more validated, an expression evaluates to a value or raises.
LEMMA CheckedIsValue ==
  ASSUME NEW x \in Readings, NEW node \in Expressions
  PROVE  Checked(node, x).value \in Values \cup Failures
<1>1. MaxDepth \in 0 .. MaxDepth
  BY TraversalAssumption
<1> QED
  BY <1>1, EvaluationIsValue DEF Checked, Failures

-----------------------------------------------------------------------------
(* Effects.                                                                *)

\* An effect of an admissible rule has a type, a target and an expression.
LEMMA EffectsOfRules ==
  ASSUME NEW r \in Rules, NEW i \in DOMAIN Effects[r]
  PROVE  /\ Effects[r] \in Seq([type : STRING, target : STRING, value : Expressions])
         /\ Effects[r][i].value \in Expressions
         /\ Effects[r][i].target \in TargetsOf(r) /\ Effects[r][i].target \in Targets
         /\ DOMAIN Effects[r] = 1 .. Len(Effects[r]) /\ Len(Effects[r]) \in Nat
         /\ Effects[r][i].type \in STRING /\ Effects[r][i].target \in STRING
         /\ Effects[r][i] \in ToSet(Effects[r])
<1>1. Effects[r] \in Seq([type : STRING, target : STRING, value : Expressions])
  BY RulesAssumption
<1>2. Effects[r][i] \in [type : STRING, target : STRING, value : Expressions]
  <2>1. i \in 1 .. Len(Effects[r])
    BY <1>1
  <2> QED
    BY <1>1, <2>1, ElementOfSeq
<1>3. Effects[r][i].target \in TargetsOf(r)
  BY DEF TargetsOf
<1>4. Effects[r][i].target \in Targets
  BY <1>3 DEF Targets
<1> QED
  BY <1>1, <1>2, <1>3, <1>4 DEF ToSet

\* The effects of an admissible catalog evaluate to a value, or fail by type.
LEMMA EffectIsValue ==
  ASSUME NEW C \in SUBSET Rules, Admissible(C), reading \in Readings,
         NEW r \in C, NEW i \in DOMAIN Effects[r]
  PROVE  /\ Effects[r][i].type \in EffectTypes
         /\ ValueOf(Effects[r][i]) \in Values \cup {Error}
<1> DEFINE e == Effects[r][i]
<1>1. e.value \in Expressions /\ e \in ToSet(Effects[r])
  BY EffectsOfRules
<1>2. ValidEffect(e)
  BY <1>1 DEF Admissible, ValidRule
<1>3. CASE e.value.kind = "list"
  <2>1. Evaluate(e.value, reading) = Leaf(e.value, reading, Query)
    BY <1>1, <1>3, TraversalAssumption
  <2> QED
    BY <1>1, <1>2, <1>3, <2>1, LeafIsValue DEF ValueOf, ValidEffect
<1>4. CASE e.value.kind # "list"
  <2>1. MaxDepth \in 0 .. MaxDepth
    BY TraversalAssumption
  <2>2. Valid(e.value, MaxDepth)
    BY <1>2, <1>4 DEF ValidEffect
  <2> QED
    BY <1>1, <1>2, <2>1, <2>2, EvaluationIsValue DEF ValueOf, ValidEffect
<1> QED
  BY <1>3, <1>4

\* What is no number counts as zero, so that every amount is a number.
LEMMA NumericIsInteger ==
  ASSUME NEW v \in Values
  PROVE  Numeric(v) \in Int
BY ValueTypes DEF Numeric

\* What each effect that does not raise does to the parts of the result: a SET
\* claims its target, if it is unclaimed.
LEMMA ApplySet ==
  ASSUME NEW acc \in Results, NEW e, e.type = "SET", e.target \in Targets,
         ValueOf(e) \in Values \cup {Error}, ~Raises(acc, e)
  PROVE  /\ Apply(acc, e) \in Results
         /\ e.target \in acc.claimed => Apply(acc, e) = acc
         /\ e.target \notin acc.claimed =>
              /\ ValueOf(e) \in Values
              /\ Apply(acc, e).scalars = [acc.scalars EXCEPT ![e.target] = ValueOf(e)]
              /\ Apply(acc, e).claimed = acc.claimed \cup {e.target}
              /\ Apply(acc, e).records = acc.records
              /\ Apply(acc, e).eligible = acc.eligible
<1>1. Apply(acc, e) = SetScalar(acc, e)
  BY DEF Apply, Marks, RecordTypes
<1>2. CASE e.target \in acc.claimed
  BY <1>1, <1>2 DEF SetScalar
<1>3. CASE e.target \notin acc.claimed
  <2>1. ValueOf(e) \in Values
    BY <1>3 DEF Raises, LooksAtValue, Marks, Failures
  <2>2. Apply(acc, e) = [acc EXCEPT !.scalars[e.target] = ValueOf(e), !.claimed = @ \cup {e.target}]
    BY <1>1, <1>3 DEF SetScalar
  <2>3. PICK s : s = [acc.scalars EXCEPT ![e.target] = ValueOf(e)]
    OBVIOUS
  <2>4. s \in [Targets -> Values \cup {Unset}]
    BY <2>1, <2>3 DEF Results
  <2>5. PICK c : c = acc.claimed \cup {e.target}
    OBVIOUS
  <2>6. c \in SUBSET Targets
    BY <2>5 DEF Results
  <2>7. Apply(acc, e) = [acc EXCEPT !.scalars = s, !.claimed = c]
    BY <2>2, <2>3, <2>5
  <2>8. /\ Apply(acc, e).scalars = s /\ Apply(acc, e).claimed = c
        /\ Apply(acc, e).records = acc.records /\ Apply(acc, e).eligible = acc.eligible
    BY <2>7 DEF Results
  <2>9. Apply(acc, e) \in Results
    BY <2>4, <2>6, <2>7 DEF Results
  <2> QED
    BY <1>3, <2>1, <2>3, <2>5, <2>8, <2>9
<1> QED
  BY <1>2, <1>3

\* An amount is added to what is there, in the context, or zero.
LEMMA ApplyAmount ==
  ASSUME NEW acc \in Results, NEW e, e.type \in {"ADD", "SUBTRACT"}, e.target \in Targets,
         ValueOf(e) \in Values \cup {Error}, ~Raises(acc, e)
  PROVE  /\ Apply(acc, e) \in Results
         /\ ValueOf(e) \in Values /\ Amount(e) \in Int
         /\ Numeric(InitialValue(e.target, acc)) \in Int
         /\ \E n \in Int :
              /\ n = Numeric(InitialValue(e.target, acc)) + Amount(e)
              /\ Apply(acc, e).scalars = [acc.scalars EXCEPT ![e.target] = Num(n)]
         /\ Apply(acc, e).claimed = acc.claimed
         /\ Apply(acc, e).records = acc.records
         /\ Apply(acc, e).eligible = acc.eligible
<1>1. ValueOf(e) \in Values
  BY DEF Raises, LooksAtValue, Marks, Failures
<1>2. Amount(e) \in Int
  <2>1. Numeric(ValueOf(e)) \in Int
    BY <1>1, NumericIsInteger
  <2> QED
    BY <2>1 DEF Amount
<1>3. InitialValue(e.target, acc) \in Values
  <2>1. Data \subseteq Values
    BY DEF Values
  <2>2. \A t \in DOMAIN Context : Context[t] \in Data
    BY DataAssumption DEF ToSet
  <2>3. acc.scalars[e.target] # Unset => acc.scalars[e.target] \in Values
    BY DEF Results
  <2>4. Num(0) \in Values
    BY NumIsValue
  <2> QED
    BY <2>1, <2>2, <2>3, <2>4 DEF InitialValue
<1>4. Numeric(InitialValue(e.target, acc)) \in Int
  BY <1>3, NumericIsInteger
<1>12. PICK n \in Int : n = Numeric(InitialValue(e.target, acc)) + Amount(e)
  BY <1>2, <1>4
<1>5. PICK v : v = Num(n)
  OBVIOUS
<1>6. v \in Values
  BY <1>5, NumIsValue
<1>7. PICK s : s = [acc.scalars EXCEPT ![e.target] = v]
  OBVIOUS
<1>8. s \in [Targets -> Values \cup {Unset}]
  BY <1>6, <1>7 DEF Results
<1>9. Apply(acc, e) = [acc EXCEPT !.scalars = s]
  <2>1. Apply(acc, e) = [acc EXCEPT !.scalars[e.target] = v]
    BY <1>5, <1>12 DEF Apply, Marks, RecordTypes
  <2> QED
    BY <1>7, <2>1
<1>10. /\ Apply(acc, e).scalars = s /\ Apply(acc, e).claimed = acc.claimed
       /\ Apply(acc, e).records = acc.records /\ Apply(acc, e).eligible = acc.eligible
  BY <1>9 DEF Results
<1>11. Apply(acc, e) \in Results
  BY <1>8, <1>9 DEF Results
<1> QED
  BY <1>1, <1>2, <1>4, <1>5, <1>7, <1>10, <1>11, <1>12

\* A mark is its meaning.
LEMMA ApplyMark ==
  ASSUME NEW acc \in Results, NEW e, e.type \in Marks
  PROVE  /\ Apply(acc, e) \in Results
         /\ Apply(acc, e).scalars = acc.scalars
         /\ Apply(acc, e).claimed = acc.claimed
         /\ Apply(acc, e).records = acc.records
         /\ Apply(acc, e).eligible = Bool(e.type = "MARK_ELIGIBLE")
<1>1. PICK m : m = Bool(e.type = "MARK_ELIGIBLE")
  OBVIOUS
<1>2. m \in {None, Bool(TRUE), Bool(FALSE)}
  BY <1>1
<1>3. Apply(acc, e) = [acc EXCEPT !.eligible = m]
  BY <1>1 DEF Apply, Marks, RecordTypes, Mark
<1> QED
  BY <1>1, <1>2, <1>3 DEF Results

\* A record is one more.
LEMMA ApplyRecord ==
  ASSUME NEW acc \in Results, NEW e, e.type \in RecordTypes, e.type \in STRING, e.target \in STRING,
         ValueOf(e) \in Values \cup {Error}, ~Raises(acc, e)
  PROVE  /\ Apply(acc, e) \in Results
         /\ Record(e) \in [type : STRING, target : STRING, value : Values]
         /\ Apply(acc, e).scalars = acc.scalars
         /\ Apply(acc, e).claimed = acc.claimed
         /\ Apply(acc, e).records = Append(acc.records, Record(e))
         /\ Apply(acc, e).eligible = acc.eligible
<1>1. ValueOf(e) \in Values
  BY DEF Raises, LooksAtValue, Marks, Failures, RecordTypes
<1>2. Record(e) \in [type : STRING, target : STRING, value : Values]
  BY <1>1 DEF Record
<1>3. Apply(acc, e) = [acc EXCEPT !.records = Append(@, Record(e))]
  BY DEF Apply, Marks, RecordTypes
<1>4. PICK s : s = Append(acc.records, Record(e))
  OBVIOUS
<1>5. s \in Seq([type : STRING, target : STRING, value : Values])
  BY <1>2, <1>4 DEF Results
<1>6. Apply(acc, e) = [acc EXCEPT !.records = s]
  BY <1>3, <1>4
<1> QED
  BY <1>2, <1>4, <1>5, <1>6 DEF Results

-----------------------------------------------------------------------------
(* The rules in turn.                                                      *)

Done == {"SCOPE_MISMATCH", "NOT_MATCHED", "EXCEPTION", "MATCHED"}
InHand == {r \in todo : status[r] = "MATCHED"}

\* One rule at a time is in hand, between its first and its last effect, and
\* a rule that is done with has the status of its outcome; no rule that
\* matched comes after, by priority, one that is not done with.
InTurn ==
  /\ Admissible(catalog)
  /\ \A r \in todo : status[r] \in {"PENDING", "MATCHED"}
  /\ Undisturbed => \A r \in catalog : status[r] = "PENDING" => r \in todo
  /\ \A r, q \in InHand : r = q
  /\ todo # {} /\ InHand = {} => applied = 0
  /\ \A r \in InHand : applied < Len(Effects[r])
  /\ \A r \in catalog : status[r] \in Done => Outcome(r, reading) = status[r]
  /\ \A r \in Matched, q \in todo : Priority[q] <= Priority[r]

Inv == TypeOK /\ InTurn

\* An evaluation begins with every rule of an admissible catalog waiting.
LEMMA InvInit ==
  ASSUME Init
  PROVE  Inv
<1>1. reading \in Readings /\ catalog \subseteq Rules /\ Admissible(catalog)
  BY DEF Init
<1>2. status \in [Rules -> Statuses]
  BY DEF Init, Statuses
<1>3. \A r \in Rules : status[r] = IF r \in catalog THEN "PENDING" ELSE "INACTIVE"
  BY DEF Init
<1>4. Start \in Results
  <2>1. [t \in Targets |-> Unset] \in [Targets -> Values \cup {Unset}]
    OBVIOUS
  <2>2. <<>> \in Seq([type : STRING, target : STRING, value : Values])
    OBVIOUS
  <2> QED
    BY <2>1, <2>2 DEF Start, Results
<1>5. TypeOK
  BY <1>1, <1>2, <1>3, <1>4 DEF Init, TypeOK
<1>6. InTurn
  BY <1>1, <1>3 DEF Init, InTurn, InHand, Matched, Undisturbed, Done
<1> QED
  BY <1>5, <1>6 DEF Inv

\* Every rule of the catalog has an effect.
LEMMA RulesHaveEffects ==
  ASSUME NEW C \in SUBSET Rules, Admissible(C), NEW r \in C
  PROVE  Len(Effects[r]) \in Nat /\ 0 < Len(Effects[r])
<1>1. Effects[r] # <<>>
  BY DEF Admissible, ValidRule
<1>2. Effects[r] \in Seq([type : STRING, target : STRING, value : Expressions])
  BY RulesAssumption
<1> QED
  BY <1>1, <1>2, EmptySeq

\* A rule is taken when none is in hand, and keeps the turns.
LEMMA TakesInTurn ==
  ASSUME Inv, NEW r \in todo, NEW outcome, Takes(r, outcome),
         \/ outcome = "RAISED" /\ todo' = {}
         \/ outcome = "MATCHED" /\ todo' = todo
         \/ outcome \in Done \ {"MATCHED"} /\ todo' = todo \ {r}
  PROVE  Inv' /\ InHand = {} /\ applied = 0 /\ status[r] = "PENDING"
<1>1. /\ reading' = reading /\ catalog' = catalog /\ applied' = applied /\ result' = result
      /\ status' = [status EXCEPT ![r] = outcome] /\ Outcome(r, reading) = outcome
  BY DEF Takes, input
<1>2. \A q \in todo : status[q] = "PENDING" /\ Priority[q] <= Priority[r]
  BY DEF Takes, IsNext
<1>3. /\ r \in catalog /\ r \in Rules /\ todo \subseteq catalog /\ catalog \subseteq Rules
      /\ todo' \subseteq todo
  BY DEF Inv, TypeOK
<1>4. InHand = {} /\ applied = 0 /\ status[r] = "PENDING"
  BY <1>2 DEF InHand, Inv, InTurn
<1>5. outcome \in Statuses \ {"INACTIVE", "PENDING"}
  BY DEF Statuses, Done
<1>6. \A q \in Rules : status'[q] = IF q = r THEN outcome ELSE status[q]
  BY <1>1 DEF Inv, TypeOK
<1>7. TypeOK'
  <2>1. status' \in [Rules -> Statuses]
    BY <1>1, <1>5 DEF Inv, TypeOK
  <2>2. \A q \in Rules : status'[q] = "INACTIVE" <=> q \notin catalog'
    BY <1>1, <1>3, <1>5, <1>6 DEF Inv, TypeOK
  <2> QED
    BY <1>1, <1>3, <2>1, <2>2 DEF Inv, TypeOK
<1>8. InTurn'
  <2>1. Admissible(catalog)'
    BY <1>1 DEF Inv, InTurn
  <2>2. \A q \in todo' : status'[q] \in {"PENDING", "MATCHED"}
    BY <1>2, <1>3, <1>6
  <2>3. Undisturbed' => \A q \in catalog' : status'[q] = "PENDING" => q \in todo'
    <3>1. SUFFICES ASSUME Undisturbed', NEW q \in catalog, status'[q] = "PENDING"
                   PROVE  q \in todo'
      BY <1>1
    <3>2. q # r /\ status[q] = "PENDING"
      BY <1>3, <1>5, <1>6, <3>1
    <3>3. outcome # "RAISED"
      BY <1>3, <1>6, <3>1 DEF Undisturbed
    <3>4. Undisturbed
      BY <1>4, <1>6, <3>1 DEF Undisturbed
    <3>5. q \in todo
      BY <3>2, <3>4 DEF Inv, InTurn
    <3> QED
      BY <3>2, <3>3, <3>5
  <2>4. \A p \in InHand' : p = r
    BY <1>2, <1>3, <1>6 DEF InHand
  <2>5. \A p \in InHand' : applied' < Len(Effects[p])
    <3>1. 0 < Len(Effects[r])
      BY <1>3, RulesHaveEffects DEF Inv, InTurn
    <3> QED
      BY <1>1, <1>4, <2>4, <3>1
  <2>6. \A q \in catalog' : status'[q] \in Done => Outcome(q, reading)' = status'[q]
    BY <1>1, <1>3, <1>6 DEF Inv, InTurn
  <2>7. \A p \in Matched', q \in todo' : Priority[q] <= Priority[p]
    BY <1>2, <1>3, <1>6 DEF Matched, Inv, InTurn
  <2> QED
    BY <1>1, <1>4, <2>1, <2>2, <2>3, <2>4, <2>5, <2>6, <2>7 DEF InTurn
<1> QED
  BY <1>4, <1>7, <1>8 DEF Inv

\* The next effect is one of the rule in hand.
LEMMA NextEffectOfRule ==
  ASSUME Inv, NEW r \in InHand
  PROVE  /\ r \in catalog /\ r \in Rules
         /\ applied + 1 \in DOMAIN Effects[r]
         /\ NextEffect(r) = Effects[r][applied + 1]
         /\ NextEffect(r).type \in EffectTypes
         /\ ValueOf(NextEffect(r)) \in Values \cup {Error}
<1>1. r \in catalog /\ r \in Rules /\ applied \in Nat /\ applied < Len(Effects[r])
  BY DEF Inv, TypeOK, InTurn, InHand
<1>2. Effects[r] \in Seq([type : STRING, target : STRING, value : Expressions])
  BY <1>1, RulesAssumption
<1>3. applied + 1 \in DOMAIN Effects[r]
  BY <1>1, <1>2
<1> QED
  BY <1>1, <1>3, EffectIsValue DEF NextEffect, Inv, TypeOK, InTurn

\* So does the next effect of the rule in hand.
LEMMA ApplyNextInTurn ==
  ASSUME Inv, NEW r \in todo, ApplyNext(r)
  PROVE  Inv'
<1>1. /\ reading' = reading /\ catalog' = catalog /\ status' = status
      /\ status[r] = "MATCHED" /\ ~Raises(result, NextEffect(r))
      /\ result' = Apply(result, NextEffect(r))
  BY DEF ApplyNext, input
<1>2. \/ applied + 1 < Len(Effects[r]) /\ applied' = applied + 1 /\ todo' = todo
      \/ applied' = 0 /\ todo' = todo \ {r}
  BY DEF ApplyNext
<1>3. r \in InHand
  BY <1>1 DEF InHand
<1>4. result' \in Results
  <2> DEFINE e == NextEffect(r)
  <2>1. /\ e.type \in EffectTypes /\ ValueOf(e) \in Values \cup {Error}
        /\ e.target \in Targets /\ e.target \in STRING /\ e.type \in STRING
    BY <1>3, NextEffectOfRule, EffectsOfRules
  <2>2. result \in Results
    BY DEF Inv, TypeOK
  <2> HIDE DEF e
  <2>3. result' = Apply(result, e) /\ ~Raises(result, e)
    BY <1>1 DEF e
  <2>4. CASE e.type = "SET"
    BY <2>1, <2>2, <2>3, <2>4, ApplySet
  <2>5. CASE e.type \in {"ADD", "SUBTRACT"}
    BY <2>1, <2>2, <2>3, <2>5, ApplyAmount
  <2>6. CASE e.type \in Marks
    BY <2>1, <2>2, <2>3, <2>6, ApplyMark
  <2>7. CASE e.type \in RecordTypes
    BY <2>1, <2>2, <2>3, <2>7, ApplyRecord
  <2>8. e.type = "SET" \/ e.type \in {"ADD", "SUBTRACT"} \/ e.type \in Marks \/ e.type \in RecordTypes
    BY <2>1 DEF EffectTypes
  <2> QED
    BY <2>4, <2>5, <2>6, <2>7, <2>8
<1>5. TypeOK'
  BY <1>1, <1>2, <1>4 DEF Inv, TypeOK
<1>6. InTurn'
  <2>1. todo' \subseteq todo /\ InHand' \subseteq InHand /\ \A p \in InHand' : p = r
    BY <1>1, <1>2, <1>3 DEF InHand, Inv, InTurn
  <2>2. Undisturbed' => \A q \in catalog' : status'[q] = "PENDING" => q \in todo'
    BY <1>1, <1>2 DEF Undisturbed, Inv, InTurn
  <2>3. todo' # {} /\ InHand' = {} => applied' = 0
    BY <1>1, <1>2, <1>3 DEF InHand
  <2>4. \A p \in InHand' : applied' < Len(Effects[p])
    <3>1. todo' = todo \ {r} => r \notin InHand'
      BY DEF InHand
    <3> QED
      BY <1>2, <2>1, <3>1
  <2>5. \A p \in Matched', q \in todo' : Priority[q] <= Priority[p]
    BY <1>1, <2>1 DEF Matched, Inv, InTurn
  <2> QED
    BY <1>1, <2>1, <2>2, <2>3, <2>4, <2>5 DEF Inv, InTurn
<1> QED
  BY <1>5, <1>6 DEF Inv

\* And an effect that raises, which ends the evaluation.
LEMMA RaiseInEffectInTurn ==
  ASSUME Inv, NEW r \in todo, RaiseInEffect(r)
  PROVE  Inv'
<1>1. /\ reading' = reading /\ catalog' = catalog /\ applied' = applied /\ result' = result
      /\ todo' = {} /\ status' = [status EXCEPT ![r] = "RAISED"] /\ status[r] = "MATCHED"
  BY DEF RaiseInEffect, input
<1>2. r \in catalog /\ r \in Rules /\ catalog \subseteq Rules
  BY DEF Inv, TypeOK
<1>3. \A q \in Rules : status'[q] = IF q = r THEN "RAISED" ELSE status[q]
  BY <1>1 DEF Inv, TypeOK
<1>4. TypeOK'
  <2>1. status' \in [Rules -> Statuses]
    BY <1>1 DEF Inv, TypeOK, Statuses
  <2>2. \A q \in Rules : status'[q] = "INACTIVE" <=> q \notin catalog'
    BY <1>1, <1>2, <1>3 DEF Inv, TypeOK
  <2> QED
    BY <1>1, <1>2, <2>1, <2>2 DEF Inv, TypeOK
<1>5. InTurn'
  <2>1. ~ Undisturbed'
    BY <1>2, <1>3 DEF Undisturbed
  <2>2. \A q \in catalog' : status'[q] \in Done => Outcome(q, reading)' = status'[q]
    BY <1>1, <1>2, <1>3 DEF Inv, InTurn, Done
  <2> QED
    BY <1>1, <2>1, <2>2 DEF Inv, InTurn, InHand
<1> QED
  BY <1>4, <1>5 DEF Inv

\* Every step keeps the turns and the types.
LEMMA InvStep ==
  ASSUME Inv, [Next]_vars
  PROVE  Inv'
<1>1. CASE UNCHANGED vars
  BY <1>1 DEF vars, Inv, TypeOK, InTurn, InHand, Undisturbed, Matched
<1>2. ASSUME NEW r \in todo,
             Skip(r) \/ Reject(r) \/ Except(r) \/ Match(r) \/ Raise(r)
      PROVE  Inv'
  <2>1. CASE Skip(r)
    BY <2>1, TakesInTurn DEF Skip, Done
  <2>2. CASE Reject(r)
    BY <2>2, TakesInTurn DEF Reject, Done
  <2>3. CASE Except(r)
    BY <2>3, TakesInTurn DEF Except, Done
  <2>4. CASE Match(r)
    BY <2>4, TakesInTurn DEF Match
  <2>5. CASE Raise(r)
    BY <2>5, TakesInTurn DEF Raise
  <2> QED
    BY <1>2, <2>1, <2>2, <2>3, <2>4, <2>5
<1> QED
  BY <1>1, <1>2, ApplyNextInTurn, RaiseInEffectInTurn DEF Next

\* The evaluation takes the rules in turn.
LEMMA InvHolds == Spec => []Inv
<1> QED
  BY InvInit, InvStep, PTL DEF Spec

\* The result of an evaluation is made of values, for any rules and any knowledge,
\* and the trace has one status for every rule.
THEOREM TypeCorrect == Spec => []TypeOK
<1>1. Inv => TypeOK
  BY DEF Inv
<1> QED
  BY <1>1, InvHolds, PTL

\* Valid conditions, exceptions and effects can be evaluated: no operator is unknown
\* to the evaluation and no operand missing, over any knowledge.
THEOREM ValidEvaluates == Spec => []ValidIsEvaluable
<1>1. ASSUME Inv
      PROVE  ValidIsEvaluable
  <2>1. reading \in Readings /\ MaxDepth \in 0 .. MaxDepth
    BY <1>1, TraversalAssumption DEF Inv, TypeOK
  <2>2. Malformed \notin Values \cup {Error}
    BY ValueTypes DEF Failures, Error, Malformed
  <2>3. ASSUME NEW r \in catalog, NEW e \in ToSet(Effects[r])
        PROVE  ValueOf(e) # Malformed
    <3>1. PICK i \in DOMAIN Effects[r] : e = Effects[r][i]
      BY DEF ToSet
    <3> QED
      BY <1>1, <2>1, <2>2, <3>1, EffectIsValue DEF Inv, TypeOK, InTurn
  <2> QED
    BY <2>1, <2>2, <2>3, EvaluationIsValue DEF ValidIsEvaluable
<1> QED
  BY <1>1, InvHolds, PTL

-----------------------------------------------------------------------------
(* Contradictions.                                                         *)

\* The effect map of a rule with one effect on each target has that effect.
LEMMA EffectOnTarget ==
  ASSUME OneEffectPerTarget, NEW r \in Rules, NEW e \in ToSet(Effects[r])
  PROVE  e.target \in TargetsOf(r) /\ EffectMap(r)[e.target] = e
<1>1. PICK i \in DOMAIN Effects[r] : e = Effects[r][i]
  BY DEF ToSet
<1>2. e.target \in TargetsOf(r)
  BY <1>1 DEF TargetsOf
<1> DEFINE Final(j) == /\ Effects[r][j].target = e.target
                       /\ \A k \in DOMAIN Effects[r] : k > j => Effects[r][k].target # e.target
<1>3. \A j \in DOMAIN Effects[r] : Effects[r][j].target = e.target => j = i
  BY <1>1 DEF OneEffectPerTarget
<1>4. ~ (i > i)
  <2>1. i \in Nat
    BY EffectsOfRules
  <2> QED
    BY <2>1
<1>5. Final(i)
  BY <1>1, <1>3, <1>4
<1>6. \A j \in DOMAIN Effects[r] : Final(j) => j = i
  BY <1>3
<1>7. (CHOOSE j \in DOMAIN Effects[r] : Final(j)) = i
  <2> HIDE DEF Final
  <2> QED
    BY <1>5, <1>6
<1>8. EffectMap(r)[e.target] = Effects[r][CHOOSE j \in DOMAIN Effects[r] : Final(j)]
  BY <1>2 DEF EffectMap
<1> QED
  BY <1>1, <1>2, <1>7, <1>8

\* Scopes that the same context matches overlap, if they are uniform.
LEMMA MatchedScopesOverlap ==
  ASSUME UniformScopes, NEW r \in Rules, NEW q \in Rules, Priority[r] = Priority[q],
         TargetsOf(r) \cap TargetsOf(q) # {}, ScopeMatches(r), ScopeMatches(q)
  PROVE  ScopesOverlap(r, q)
<1>1. SUFFICES ASSUME NEW key \in DOMAIN Scope[r] \cap DOMAIN Scope[q]
               PROVE  IF Scope[r][key].type = "list" /\ Scope[q][key].type = "list"
                      THEN ToSet(Scope[r][key].s) \cap ToSet(Scope[q][key].s) # {}
                      ELSE Scope[r][key] = Scope[q][key]
  BY DEF ScopesOverlap
<1>2. Actual(key) \in ToSet(Members(Scope[r][key])) /\ Actual(key) \in ToSet(Members(Scope[q][key]))
  BY DEF ScopeMatches
<1>3. Scope[r][key].type = "list" <=> Scope[q][key].type = "list"
  BY DEF UniformScopes
<1>4. CASE Scope[r][key].type = "list"
  BY <1>2, <1>3, <1>4 DEF Members
<1>5. CASE Scope[r][key].type # "list"
  BY <1>2, <1>3, <1>5 DEF Members, ToSet
<1> QED
  BY <1>4, <1>5

\* Of two rules that matched, activation compared what they do to a target.
LEMMA NoContradiction ==
  ASSUME OneEffectPerTarget, UniformScopes, Inv
  PROVE  NoContradictionApplies
<1>1. SUFFICES ASSUME NEW r \in Matched, NEW q \in Matched, Priority[r] = Priority[q],
                      NEW e \in ToSet(Effects[r]), NEW f \in ToSet(Effects[q]), e.target = f.target
               PROVE  e = f
  BY DEF NoContradictionApplies
<1>2. r \in Rules /\ q \in Rules /\ r \in catalog /\ q \in catalog
  BY DEF Matched, Inv, TypeOK
<1>3. /\ e.target \in TargetsOf(r) /\ EffectMap(r)[e.target] = e
      /\ f.target \in TargetsOf(q) /\ EffectMap(q)[f.target] = f
  BY <1>2, EffectOnTarget
<1>4. CASE r = q
  BY <1>1, <1>3, <1>4
<1>5. CASE r # q
  <2>1. Outcome(r, reading) = "MATCHED" /\ Outcome(q, reading) = "MATCHED"
    BY <1>2 DEF Matched, Inv, InTurn, Done
  <2>2. ScopeMatches(r) /\ ScopeMatches(q)
    BY <2>1 DEF Outcome
  <2>3. ScopesOverlap(r, q)
    BY <1>1, <1>2, <1>3, <2>2, MatchedScopesOverlap
  <2>4. ~EffectConflicts(r, q)
    BY <1>2, <1>5 DEF Inv, InTurn, Admissible
  <2> QED
    BY <1>1, <1>3, <2>3, <2>4 DEF EffectConflicts
<1> QED
  BY <1>4, <1>5

\* Where every rule has one effect on a target and no key is scoped to a list by one
\* and to a value by the other, rules of one priority that both match agree.
THEOREM ContradictionsAreKeptOut ==
  ASSUME OneEffectPerTarget, UniformScopes
  PROVE  Spec => []NoContradictionApplies
<1> QED
  BY NoContradiction, InvHolds, PTL

-----------------------------------------------------------------------------
(* Dependencies.                                                           *)

\* What the status of a rule hangs on is a dependency of the result.
Recorded ==
  \A r \in catalog :
    /\ status[r] = "NOT_MATCHED" => ConditionOf(r, reading).dependencies \subseteq dependencies
    /\ status[r] \in {"EXCEPTION", "MATCHED"} => Tracked(r) \subseteq dependencies

\* A rule that is taken leaves what its status hangs on.
LEMMA TakesRecords ==
  ASSUME Inv, Recorded, NEW r \in todo, NEW outcome, Takes(r, outcome),
         dependencies \subseteq dependencies',
         outcome = "NOT_MATCHED" => ConditionOf(r, reading).dependencies \subseteq dependencies',
         outcome \in {"EXCEPTION", "MATCHED"} => Tracked(r) \subseteq dependencies'
  PROVE  Recorded'
<1>1. reading' = reading /\ catalog' = catalog /\ status' = [status EXCEPT ![r] = outcome]
  BY DEF Takes, input
<1>2. r \in catalog /\ catalog \subseteq Rules
  BY DEF Inv, TypeOK
<1>3. \A q \in catalog : status'[q] = IF q = r THEN outcome ELSE status[q]
  BY <1>1, <1>2 DEF Inv, TypeOK
<1>4. \A q \in catalog : Tracked(q)' = Tracked(q)
  BY <1>1 DEF Tracked
<1>5. \A q \in catalog : ConditionOf(q, reading)' = ConditionOf(q, reading)
  BY <1>1
<1> QED
  BY <1>1, <1>2, <1>3, <1>4, <1>5 DEF Recorded

\* No step drops a dependency.
LEMMA RecordedStep ==
  ASSUME Inv, Recorded, [Next]_vars
  PROVE  Recorded'
<1>1. CASE UNCHANGED vars
  BY <1>1 DEF vars, Recorded, Tracked
<1>2. ASSUME NEW r \in todo,
             Skip(r) \/ Reject(r) \/ Except(r) \/ Match(r) \/ Raise(r)
      PROVE  Recorded'
  <2>1. CASE Skip(r)
    BY <2>1, TakesRecords DEF Skip
  <2>2. CASE Reject(r)
    BY <2>2, TakesRecords DEF Reject, Depends
  <2>3. CASE Except(r)
    BY <2>3, TakesRecords DEF Except, Depends
  <2>4. CASE Match(r)
    BY <2>4, TakesRecords DEF Match, Depends
  <2>5. CASE Raise(r)
    BY <2>5, TakesRecords DEF Raise
  <2> QED
    BY <1>2, <2>1, <2>2, <2>3, <2>4, <2>5
<1>3. ASSUME NEW r \in todo, ApplyNext(r)
      PROVE  Recorded'
  BY <1>3 DEF ApplyNext, input, Recorded, Tracked
<1>4. ASSUME NEW r \in todo, RaiseInEffect(r)
      PROVE  Recorded'
  <2>1. /\ reading' = reading /\ catalog' = catalog /\ dependencies' = dependencies
        /\ status' = [status EXCEPT ![r] = "RAISED"]
    BY <1>4 DEF RaiseInEffect, input
  <2>2. \A q \in catalog : status'[q] \in {status[q], "RAISED"}
    BY <2>1 DEF Inv, TypeOK
  <2> QED
    BY <2>1, <2>2 DEF Recorded, Tracked
<1> QED
  BY <1>1, <1>2, <1>3, <1>4 DEF Next

\* The dependencies of every status are among those of the result.
LEMMA RecordedHolds == Spec => []Recorded
<1>1. Init => Recorded
  BY DEF Init, Recorded
<1> QED
  BY <1>1, RecordedStep, InvHolds, PTL DEF Spec

\* A selector that selects the code of a row is invalidated with it.
LEMMA SelectorsAreInvalidated ==
  ASSUME NEW node \in Expressions, node.kind = "reference", NEW new \in Knowledge,
         new.kind = node.of, SelectsCode(node.selector, new.code)
  PROVE  <<node.of, node.selector>> \in SourcesOf(new)
<1> DEFINE code == node.selector.code
<1>1. /\ code \in Seq(STRING) \ {<<>>}
      /\ node.selector = Exactly(code) \/ (node.of = "fact" /\ node.selector = Below(code))
  BY ExpressionsAssumption
<1>2. new.code \in Seq(STRING)
  BY ExpressionsAssumption
<1>3. CASE node.selector = Exactly(code)
  <2>1. code = new.code
    BY <1>3 DEF SelectsCode, Exactly
  <2>2. Exactly(new.code) \in PropertySelectors(new.code)
    BY DEF PropertySelectors
  <2> QED
    BY <1>3, <2>1, <2>2 DEF SourcesOf
<1>4. CASE node.of = "fact" /\ node.selector = Below(code)
  <2> HIDE DEF code
  <2>1. IsStrictPrefix(code, new.code)
    BY <1>4 DEF SelectsCode, Below
  <2>2. Len(code) \in 1 .. Len(new.code) - 1 /\ code = SubSeq(new.code, 1, Len(code))
    BY <1>1, <1>2, <2>1 DEF IsStrictPrefix, IsPrefix
  <2>3. Below(code) \in PropertySelectors(new.code)
    BY <2>2 DEF PropertySelectors
  <2> QED
    BY <1>4, <2>3 DEF SourcesOf
<1> QED
  BY <1>1, <1>3, <1>4

\* What is found by a reference of which nothing is invalidated stays.
LEMMA ReferencesStay ==
  ASSUME reading \in Readings, NEW new \in Changes,
         NEW node \in Expressions, node.kind = "reference",
         SourcesOf(new) \cap Reference(node, reading).dependencies = {}
  PROVE  Reference(node, With(new)) = Reference(node, reading)
<1>1. /\ With(new).order = reading.order
      /\ With(new).rows = (reading.rows \ Replaced(new)) \cup {new}
  BY DEF With, Readings
<1>2. /\ <<node.of, node.selector>> \notin SourcesOf(new)
      /\ \A row \in Found(node, reading.rows) : <<"row", row>> \notin SourcesOf(new)
  BY DEF Reference
<1>3. \A row \in Found(node, reading.rows) : row \notin Replaced(new)
  BY <1>2 DEF SourcesOf
<1>4. new \notin Found(node, {new})
  <2>1. new \in Knowledge
    BY DEF Changes
  <2> QED
    BY <1>2, <2>1, SelectorsAreInvalidated DEF Found
<1>5. Found(node, With(new).rows) = Found(node, reading.rows)
  BY <1>1, <1>3, <1>4 DEF Found
<1> QED
  BY <1>1, <1>5 DEF Reference

\* So is a valid expression's whole evaluation, its dependencies included.
LEMMA EvaluationStays ==
  ASSUME reading \in Readings, NEW new \in Changes, NEW node \in Expressions,
         NEW levels \in 0 .. MaxDepth, Valid(node, levels),
         SourcesOf(new) \cap Evaluate(node, reading).dependencies = {}
  PROVE  Evaluate(node, With(new)) = Evaluate(node, reading)
<1>1. PICK y : y = With(new)
  OBVIOUS
<1>2. y \in Readings
  BY <1>1 DEF With, Readings, Changes
<1> DEFINE Moved(e) == /\ SourcesOf(new) \cap Evaluate(e, reading).dependencies = {}
                       /\ Evaluate(e, y) # Evaluate(e, reading)
           Bad == {n \in 0 .. MaxDepth : \E e \in Expressions : Valid(e, n) /\ Moved(e)}
<1>3. SUFFICES ASSUME Bad # {} PROVE FALSE
  BY <1>1
<1>4. Bad \in SUBSET Nat
  BY TraversalAssumption
<1>5. PICK m \in Bad : \A k \in Bad : m <= k
  BY <1>3, <1>4, LeastNatural
<1>6. PICK e \in Expressions : Valid(e, m) /\ Moved(e)
  BY <1>5
<1>7. CASE e.kind \in Leaves \cup {"list"}
  <2>1. /\ Evaluate(e, reading) = Leaf(e, reading, Query)
        /\ Evaluate(e, y) = Leaf(e, y, Query)
    BY <1>2, <1>7, TraversalAssumption
  <2>2. CASE e.kind = "reference"
    <3>1. Leaf(e, reading, Query) = Reference(e, reading) /\ Leaf(e, y, Query) = Reference(e, y)
      BY <2>2 DEF Leaf
    <3>2. SourcesOf(new) \cap Reference(e, reading).dependencies = {}
      BY <1>6, <2>1, <3>1
    <3> QED
      BY <1>1, <1>6, <2>1, <2>2, <3>1, <3>2, ReferencesStay
  <2>3. CASE e.kind # "reference"
    <3>1. Leaf(e, y, Query) = Leaf(e, reading, Query)
      BY <1>7, <2>3 DEF Leaf, Leaves
    <3> QED
      BY <1>6, <2>1, <3>1
  <2> QED
    BY <2>2, <2>3
<1>8. CASE e.kind \notin Leaves \cup {"list"}
  <2>1. PICK s : s = [i \in DOMAIN e.args |-> Evaluate(e.args[i], reading)]
    OBVIOUS
  <2>2. PICK t : t = [i \in DOMAIN e.args |-> Evaluate(e.args[i], y)]
    OBVIOUS
  <2>3. Evaluate(e, reading) = Combined(e, s) /\ Evaluate(e, y) = Combined(e, t)
    BY <1>2, <1>8, <2>1, <2>2, TraversalAssumption
  <2>4. e.args \in Seq(Expressions)
    BY <1>8, ExpressionsAssumption
  <2>5. m \in 0 .. MaxDepth /\ MaxDepth \in Nat
    BY TraversalAssumption
  <2>6. \A i \in DOMAIN e.args : m > 0 /\ Valid(e.args[i], m - 1)
    BY <1>6, <1>8, <2>5, TraversalAssumption
  <2>7. ASSUME NEW i \in DOMAIN e.args PROVE t[i] = s[i]
    <3>1. e.args[i] \in Expressions
      BY <2>4
    <3>2. m - 1 \in 0 .. MaxDepth /\ ~ (m <= m - 1) /\ Valid(e.args[i], m - 1)
      BY <2>5, <2>6
    <3>3. m - 1 \notin Bad
      BY <1>5, <3>2
    <3>4. s[i].dependencies \subseteq Evaluate(e, reading).dependencies
      BY <2>1, <2>3 DEF Combined
    <3>5. SourcesOf(new) \cap Evaluate(e.args[i], reading).dependencies = {}
      BY <1>6, <2>1, <3>4
    <3> QED
      BY <2>1, <2>2, <3>1, <3>2, <3>3, <3>5
  <2>8. t = s
    BY <2>1, <2>2, <2>7
  <2> QED
    BY <1>6, <2>3, <2>8
<1> QED
  BY <1>7, <1>8

\* Nor does validating it first change that.
LEMMA CheckStays ==
  ASSUME reading \in Readings, NEW new \in Changes, NEW node \in Expressions,
         SourcesOf(new) \cap Checked(node, reading).dependencies = {}
  PROVE  Checked(node, With(new)) = Checked(node, reading)
<1>1. MaxDepth \in 0 .. MaxDepth
  BY TraversalAssumption
<1> QED
  BY <1>1, EvaluationStays DEF Checked

\* The exceptions that are reached stay the same, and so do their evaluations.
LEMMA ExceptionsStay ==
  ASSUME reading \in Readings, NEW new \in Changes, NEW r \in Rules,
         SourcesOf(new) \cap Tracked(r) = {}
  PROVE  ExceptionsOf(r, With(new)) = ExceptionsOf(r, reading)
<1> DEFINE At(i, x) == Checked(Exceptions[r][i], x)
<1>1. PICK y : y = With(new)
  OBVIOUS
<1>2. /\ Exceptions[r] \in Seq(Expressions)
      /\ DOMAIN Exceptions[r] = 1 .. Len(Exceptions[r]) /\ Len(Exceptions[r]) \in Nat
  BY RulesAssumption
<1>3. ASSUME NEW i \in Reached(r, reading)
      PROVE  At(i, y) = At(i, reading)
  <2>1. Exceptions[r][i] \in Expressions
    BY <1>2, ElementOfSeq DEF Reached
  <2>2. At(i, reading) \in ExceptionsOf(r, reading)
    BY DEF ExceptionsOf
  <2>3. At(i, reading).dependencies \subseteq Tracked(r)
    BY <2>2 DEF Tracked
  <2> QED
    BY <1>1, <2>1, <2>3, CheckStays
<1>4. ASSUME NEW i \in Reached(r, reading)
      PROVE  i \in Reached(r, y)
  <2>1. ASSUME NEW j \in 1 .. i - 1
        PROVE  ~Ends(At(j, y))
    <3>1. i \in DOMAIN Exceptions[r] /\ ~Ends(At(j, reading))
      BY DEF Reached
    <3>2. j \in DOMAIN Exceptions[r] /\ \A k \in 1 .. j - 1 : k \in 1 .. i - 1
      BY <1>2, <3>1
    <3>3. j \in Reached(r, reading)
      BY <3>2 DEF Reached
    <3> QED
      BY <1>3, <3>1, <3>3
  <2> QED
    BY <2>1 DEF Reached
<1>5. ASSUME NEW i \in Reached(r, y)
      PROVE  i \in Reached(r, reading)
  <2> DEFINE Earlier == {j \in 1 .. i - 1 : Ends(At(j, reading))}
  <2>1. i \in DOMAIN Exceptions[r] /\ i \in Nat
    BY <1>2 DEF Reached
  <2>2. Earlier = {}
    <3>1. SUFFICES ASSUME Earlier # {} PROVE FALSE
      OBVIOUS
    <3>2. Earlier \in SUBSET Nat
      BY <2>1
    <3>3. PICK j \in Earlier : \A k \in Earlier : j <= k
      BY <3>1, <3>2, LeastNatural
    <3>4. j \in 1 .. i - 1 /\ Ends(At(j, reading))
      OBVIOUS
    <3>5. \A k \in 1 .. j - 1 : k \in 1 .. i - 1 /\ ~ (j <= k)
      BY <2>1, <3>4
    <3>6. \A k \in 1 .. j - 1 : ~Ends(At(k, reading))
      BY <3>3, <3>5
    <3>7. j \in DOMAIN Exceptions[r]
      BY <1>2, <2>1, <3>4
    <3>8. j \in Reached(r, reading)
      BY <3>6, <3>7 DEF Reached
    <3>9. ~Ends(At(j, y))
      BY <3>4 DEF Reached
    <3> QED
      BY <1>3, <3>4, <3>8, <3>9
  <2>3. \A j \in 1 .. i - 1 : ~Ends(At(j, reading))
    BY <2>2
  <2> QED
    BY <2>1, <2>3 DEF Reached
<1>6. Reached(r, y) = Reached(r, reading)
  BY <1>4, <1>5
<1> QED
  BY <1>1, <1>3, <1>6 DEF ExceptionsOf

\* A status of which no dependency is invalidated stays the outcome.
LEMMA OutcomeStays ==
  ASSUME Inv, Recorded, NEW new \in Changes, SourcesOf(new) \cap dependencies = {},
         NEW r \in catalog, status[r] \in Done
  PROVE  Outcome(r, With(new)) = status[r]
<1>1. /\ r \in Rules /\ reading \in Readings /\ Condition[r] \in Expressions
      /\ Outcome(r, reading) = status[r]
  BY RulesAssumption DEF Inv, TypeOK, InTurn
<1>2. CASE status[r] = "SCOPE_MISMATCH"
  BY <1>1, <1>2 DEF Outcome
<1>3. CASE status[r] = "NOT_MATCHED"
  <2>1. SourcesOf(new) \cap Checked(Condition[r], reading).dependencies = {}
    BY <1>3 DEF Recorded, ConditionOf
  <2>2. ConditionOf(r, With(new)) = ConditionOf(r, reading)
    BY <1>1, <2>1, CheckStays DEF ConditionOf
  <2> QED
    BY <1>1, <1>3, <2>2 DEF Outcome
<1>4. CASE status[r] \in {"EXCEPTION", "MATCHED"}
  <2>1. SourcesOf(new) \cap Tracked(r) = {}
    BY <1>4 DEF Recorded
  <2>2. SourcesOf(new) \cap Checked(Condition[r], reading).dependencies = {}
    BY <2>1 DEF Tracked, ConditionOf
  <2>3. ConditionOf(r, With(new)) = ConditionOf(r, reading)
    BY <1>1, <2>2, CheckStays DEF ConditionOf
  <2>4. ExceptionsOf(r, With(new)) = ExceptionsOf(r, reading)
    BY <1>1, <2>1, ExceptionsStay
  <2>5. Outcome(r, With(new)) = Outcome(r, reading)
    BY <2>3, <2>4 DEF Outcome
  <2> QED
    BY <1>1, <2>5
<1> QED
  BY <1>2, <1>3, <1>4 DEF Done

\* Whatever is accepted, if it meets no dependency of a result then no rule of the
\* catalog matches that did not, nor the reverse: for any rules, exceptions and
\* wildcards, and any knowledge.
THEOREM ChangesAreNoticed == Spec => []ChangeIsNoticed
<1>1. ASSUME Inv, Recorded
      PROVE  ChangeIsNoticed
  <2>1. SUFFICES ASSUME Answered, NEW new \in Changes, SourcesOf(new) \cap dependencies = {},
                        NEW r \in catalog
                 PROVE  Outcome(r, With(new)) = status[r]
    BY DEF ChangeIsNoticed
  <2>2. status[r] \in Done
    <3>1. r \in Rules /\ status[r] \in Statuses /\ status[r] # "INACTIVE"
      BY <1>1 DEF Inv, TypeOK
    <3>2. status[r] # "RAISED" /\ todo = {} /\ Undisturbed
      BY <2>1, <3>1 DEF Answered, Undisturbed
    <3>3. status[r] # "PENDING"
      BY <1>1, <3>2 DEF Inv, InTurn
    <3> QED
      BY <3>1, <3>2, <3>3 DEF Statuses, Done
  <2> QED
    BY <1>1, <2>1, <2>2, OutcomeStays
<1> QED
  BY <1>1, InvHolds, RecordedHolds, PTL

-----------------------------------------------------------------------------
(* The result that is declared.                                            *)

\* Effects of rules of the catalog, each a rule and an index.
EffectsMet(A) ==
  \A p \in A :
    /\ Rank(p) \in Int /\ EffectAt(p).type \in EffectTypes
    /\ ValueOf(EffectAt(p)) \in Values \cup {Error}
    /\ Amount(EffectAt(p)) \in Int

\* The effect p comes after those of A, and contradicts none of its own priority.
ComesAfter(A, p) ==
  \A q \in A :
    /\ Rank(p) <= Rank(q)
    /\ /\ Rank(p) = Rank(q)
       /\ \/ EffectAt(p).target = EffectAt(q).target
          \/ EffectAt(p).type \in Marks /\ EffectAt(q).type \in Marks
       => EffectAt(q) = EffectAt(p)

Extends(A, p) == IsFiniteSet(A) /\ p \notin A /\ EffectsMet(A \cup {p}) /\ ComesAfter(A, p)

\* An accumulator is what the effects in A declare together.  A target is claimed
\* once a SET of it was met, and then some SET decides.
Declares(A, acc) ==
  /\ \A t \in Targets :
       /\ acc.scalars[t] = DeclaredScalar(A, t)
       /\ t \in acc.claimed <=> Deciding(A, t) # {}
       /\ Deciding(A, t) = {} => On(A, t, {"SET"}) = {}
  /\ acc.eligible = DeclaredMark(A)
  /\ \A x : Occurrences(x, acc.records) = Cardinality(Recording(A, x))

\* What is declared of a target hangs on its SETs and its amounts only.
LEMMA ScalarOfSame ==
  ASSUME NEW A, NEW B, NEW t, On(B, t, {"SET"}) = On(A, t, {"SET"}),
         On(B, t, {"ADD", "SUBTRACT"}) = On(A, t, {"ADD", "SUBTRACT"})
  PROVE  /\ Deciding(B, t) = Deciding(A, t)
         /\ DeclaredScalar(B, t) = DeclaredScalar(A, t)
<1>1. Deciding(B, t) = Deciding(A, t)
  BY DEF Deciding
<1>2. Counted(B, t) = Counted(A, t)
  BY <1>1 DEF Counted
<1>3. Before(B, t) = Before(A, t)
  BY <1>1 DEF Before
<1> QED
  BY <1>1, <1>2, <1>3 DEF DeclaredScalar

\* A first SET decides, and nothing that came before it counts.
LEMMA FirstSetDecides ==
  ASSUME NEW A, NEW p, EffectsMet(A \cup {p}), ComesAfter(A, p),
         EffectAt(p).type = "SET", NEW t, t = EffectAt(p).target, On(A, t, {"SET"}) = {}
  PROVE  Deciding(A \cup {p}, t) = {p} /\ DeclaredScalar(A \cup {p}, t) = ValueOf(EffectAt(p))
<1> DEFINE B == A \cup {p}
<1>1. On(B, t, {"SET"}) = {p}
  BY DEF On, OfTypes
<1>2. On(B, t, {"ADD", "SUBTRACT"}) = On(A, t, {"ADD", "SUBTRACT"})
  BY DEF On, OfTypes
<1>3. Rank(p) \in Int /\ \A q \in A : Rank(q) \in Int /\ Rank(p) <= Rank(q)
  BY DEF EffectsMet, ComesAfter
<1> HIDE DEF B
<1>4. Deciding(B, t) = {p}
  BY <1>1, <1>3 DEF Deciding
<1>5. On(A, t, {"ADD", "SUBTRACT"}) \subseteq A
  BY DEF On, OfTypes
<1>6. \A q \in On(A, t, {"ADD", "SUBTRACT"}) : ~ (Rank(q) < Rank(p))
  BY <1>3, <1>5
<1>7. Counted(B, t) = {}
  BY <1>2, <1>4, <1>6 DEF Counted
<1>8. Before(B, t) = ValueOf(EffectAt(p))
  BY <1>4 DEF Before
<1> QED
  BY <1>4, <1>7, <1>8 DEF DeclaredScalar, B

\* The value that decides is that of any SET that decides, where these agree.
LEMMA AnyDecides ==
  ASSUME NEW A, NEW t, NEW e, Deciding(A, t) # {}, \A q \in Deciding(A, t) : EffectAt(q) = e
  PROVE  Before(A, t) = ValueOf(e)
<1>1. PICK d \in Deciding(A, t) : d = CHOOSE q \in Deciding(A, t) : TRUE
  OBVIOUS
<1> QED
  BY <1>1 DEF Before

\* A later SET changes nothing: it is of a lower priority, or the same.
LEMMA LaterSetIsLost ==
  ASSUME NEW A, NEW p, EffectsMet(A \cup {p}), ComesAfter(A, p),
         EffectAt(p).type = "SET", NEW t, t = EffectAt(p).target, Deciding(A, t) # {}
  PROVE  Deciding(A \cup {p}, t) # {} /\ DeclaredScalar(A \cup {p}, t) = DeclaredScalar(A, t)
<1> DEFINE B == A \cup {p}
<1>1. On(B, t, {"SET"}) = On(A, t, {"SET"}) \cup {p}
  BY DEF On, OfTypes
<1>2. On(B, t, {"ADD", "SUBTRACT"}) = On(A, t, {"ADD", "SUBTRACT"})
  BY DEF On, OfTypes
<1>3. Rank(p) \in Int /\ \A q \in A : Rank(q) \in Int /\ Rank(p) <= Rank(q)
  BY DEF EffectsMet, ComesAfter
<1>4. /\ On(A, t, {"SET"}) \subseteq A /\ Deciding(A, t) \subseteq On(A, t, {"SET"})
      /\ On(A, t, {"ADD", "SUBTRACT"}) \subseteq A
      /\ \A q \in On(A, t, {"SET"}) : EffectAt(q).target = t
  BY DEF Deciding, On, OfTypes
<1> HIDE DEF B
<1>5. PICK d \in Deciding(A, t) : TRUE
  OBVIOUS
<1>6. \A q \in On(A, t, {"SET"}) : Rank(q) <= Rank(d)
  BY <1>5 DEF Deciding
<1>7. d \in A /\ Rank(d) \in Int /\ Rank(p) <= Rank(d)
  BY <1>3, <1>4
<1>8. \A q \in On(B, t, {"SET"}) : q \in Deciding(B, t) <=> Rank(q) = Rank(d)
  <2>1. \A q \in On(B, t, {"SET"}) : Rank(q) \in Int /\ Rank(q) <= Rank(d)
    BY <1>1, <1>3, <1>4, <1>6, <1>7
  <2>2. d \in On(B, t, {"SET"})
    BY <1>1, <1>4
  <2>3. ASSUME NEW q \in On(B, t, {"SET"})
        PROVE  q \in Deciding(B, t) <=> \A o \in On(B, t, {"SET"}) : Rank(o) <= Rank(q)
    BY DEF Deciding
  <2>4. ASSUME NEW q \in On(B, t, {"SET"}), Rank(q) = Rank(d)
        PROVE  \A o \in On(B, t, {"SET"}) : Rank(o) <= Rank(q)
    BY <2>1, <2>4
  <2>5. ASSUME NEW q \in On(B, t, {"SET"}), \A o \in On(B, t, {"SET"}) : Rank(o) <= Rank(q)
        PROVE  Rank(q) = Rank(d)
    BY <1>7, <2>1, <2>2, <2>5
  <2> QED
    BY <2>3, <2>4, <2>5
<1>9. \A q \in On(A, t, {"SET"}) : q \in Deciding(A, t) <=> Rank(q) = Rank(d)
  <2>1. \A q \in On(A, t, {"SET"}) : Rank(q) \in Int
    BY <1>3, <1>4
  <2>2. ASSUME NEW q \in On(A, t, {"SET"})
        PROVE  q \in Deciding(A, t) <=> \A o \in On(A, t, {"SET"}) : Rank(o) <= Rank(q)
    BY DEF Deciding
  <2> QED
    BY <1>4, <1>5, <1>6, <1>7, <2>1, <2>2
<1>10. d \in Deciding(B, t)
  BY <1>1, <1>4, <1>8
<1>11. Deciding(B, t) \subseteq On(B, t, {"SET"})
  BY DEF Deciding
<1>12. Counted(B, t) = Counted(A, t)
  <2>1. \A q \in Deciding(B, t) : Rank(q) = Rank(d)
    BY <1>8, <1>11
  <2>2. \A q \in Deciding(A, t) : Rank(q) = Rank(d)
    BY <1>4, <1>9
  <2>3. \A o \in On(A, t, {"ADD", "SUBTRACT"}) : o \in Counted(B, t) <=> Rank(o) < Rank(d)
    BY <1>2, <1>10, <2>1 DEF Counted
  <2>4. \A o \in On(A, t, {"ADD", "SUBTRACT"}) : o \in Counted(A, t) <=> Rank(o) < Rank(d)
    BY <1>5, <2>2 DEF Counted
  <2>5. /\ Counted(B, t) \subseteq On(A, t, {"ADD", "SUBTRACT"})
        /\ Counted(A, t) \subseteq On(A, t, {"ADD", "SUBTRACT"})
    BY <1>2 DEF Counted
  <2> QED
    BY <2>3, <2>4, <2>5, Zenon
<1>13. Before(B, t) = Before(A, t)
  <2>1. CASE Rank(p) = Rank(d)
    <3>1. \A q \in Deciding(A, t) : EffectAt(q) = EffectAt(p)
      BY <1>4, <1>9, <2>1 DEF ComesAfter
    <3>2. \A q \in Deciding(B, t) : EffectAt(q) = EffectAt(p)
      BY <1>1, <1>8, <1>9, <1>11, <3>1
    <3> QED
      BY <1>5, <1>10, <3>1, <3>2, AnyDecides
  <2>2. CASE Rank(p) # Rank(d)
    <3>1. Deciding(B, t) = Deciding(A, t)
      BY <1>1, <1>4, <1>8, <1>9, <1>11, <2>2
    <3> QED
      BY <3>1 DEF Before
  <2> QED
    BY <2>1, <2>2
<1> QED
  BY <1>5, <1>10, <1>12, <1>13 DEF DeclaredScalar, B

\* An amount counts unless a SET of its own rank or a lower one decides, which none
\* can when the amount comes last and contradicts nothing.
LEMMA AmountCounts ==
  ASSUME NEW A, NEW p, EffectsMet(A \cup {p}), ComesAfter(A, p), p \notin A,
         EffectAt(p).type \in {"ADD", "SUBTRACT"}, NEW t, t = EffectAt(p).target
  PROVE  /\ Deciding(A \cup {p}, t) = Deciding(A, t)
         /\ Counted(A \cup {p}, t) = Counted(A, t) \cup {p}
         /\ Before(A \cup {p}, t) = Before(A, t)
<1> DEFINE B == A \cup {p}
<1>1. On(B, t, {"SET"}) = On(A, t, {"SET"})
  BY DEF On, OfTypes
<1>2. On(B, t, {"ADD", "SUBTRACT"}) = On(A, t, {"ADD", "SUBTRACT"}) \cup {p}
  BY DEF On, OfTypes
<1>3. Rank(p) \in Int /\ \A q \in A : Rank(q) \in Int /\ Rank(p) <= Rank(q)
  BY DEF EffectsMet, ComesAfter
<1>4. \A q \in On(A, t, {"SET"}) :
        q \in A /\ EffectAt(q).type = "SET" /\ EffectAt(q).target = t
  BY DEF On, OfTypes
<1> HIDE DEF B
<1>5. Deciding(B, t) = Deciding(A, t)
  BY <1>1 DEF Deciding
<1>6. Deciding(A, t) \subseteq On(A, t, {"SET"})
  BY DEF Deciding
<1>7. ASSUME NEW q \in Deciding(A, t) PROVE Rank(p) < Rank(q)
  <2>1. q \in A /\ EffectAt(q).type = "SET" /\ EffectAt(q).target = t
    BY <1>4, <1>6
  <2>2. EffectAt(q) # EffectAt(p)
    BY <2>1
  <2>3. Rank(p) # Rank(q)
    BY <2>1, <2>2 DEF ComesAfter
  <2> QED
    BY <1>3, <2>1, <2>3
<1>8. Counted(B, t) = Counted(A, t) \cup {p}
  BY <1>2, <1>5, <1>7 DEF Counted
<1>9. Before(B, t) = Before(A, t)
  BY <1>5 DEF Before
<1> QED
  BY <1>5, <1>8, <1>9 DEF B

\* What an amount is added to is what was declared before, which is a number or counts
\* as none.
LEMMA InitialIsDeclared ==
  ASSUME NEW acc, NEW A, EffectsMet(A), IsFiniteSet(A), NEW t \in Targets,
         acc.scalars[t] = DeclaredScalar(A, t)
  PROVE  /\ Numeric(Before(A, t)) \in Int
         /\ Total([p \in Counted(A, t) |-> Amount(EffectAt(p))]) \in Int
         /\ Numeric(InitialValue(t, acc)) =
              Numeric(Before(A, t)) + Total([p \in Counted(A, t) |-> Amount(EffectAt(p))])
<1> PICK f : f = [p \in Counted(A, t) |-> Amount(EffectAt(p))]
  OBVIOUS
<1>1. Counted(A, t) \subseteq A /\ Deciding(A, t) \subseteq A
  BY DEF Counted, Deciding, On, OfTypes
<1>2. IsFiniteSet(Counted(A, t)) /\ f \in [Counted(A, t) -> Int]
  BY <1>1, FS_Subset DEF EffectsMet
<1>3. Total(f) \in Int
  BY <1>2, TotalIsInteger
<1>4. Before(A, t) \in Values \cup {Error}
  <2>1. CASE Deciding(A, t) # {}
    BY <1>1, <2>1 DEF Before, EffectsMet
  <2>2. CASE Deciding(A, t) = {}
    <3>1. \A k \in DOMAIN Context : Context[k] \in Data
      BY DataAssumption DEF ToSet
    <3>2. Data \subseteq Values /\ Num(0) \in Values
      BY NumIsValue DEF Values
    <3> QED
      BY <2>2, <3>1, <3>2 DEF Before
  <2> QED
    BY <2>1, <2>2
<1>5. Numeric(Before(A, t)) \in Int /\ Before(A, t) # Unset
  BY <1>4, ValueTypes DEF Numeric, Error, Unset
<1>6. CASE Counted(A, t) # {}
  <2>1. PICK n \in Int : n = Numeric(Before(A, t)) + Total(f)
    BY <1>3, <1>5
  <2>2. acc.scalars[t] = Num(n)
    BY <1>6, <2>1 DEF DeclaredScalar
  <2>3. Num(n) # Unset /\ Numeric(Num(n)) = n
    BY DEF Num, Unset, Numeric
  <2> QED
    BY <1>3, <1>5, <2>1, <2>2, <2>3 DEF InitialValue
<1>7. CASE Counted(A, t) = {}
  <2>1. Total(f) = 0
    BY <1>7, TotalOfNone
  <2>2. InitialValue(t, acc) = Before(A, t)
    BY <1>5, <1>7 DEF InitialValue, DeclaredScalar, Before
  <2> QED
    BY <1>3, <1>5, <2>1, <2>2
<1> QED
  BY <1>6, <1>7

\* An amount more is declared as the sum that it makes.
LEMMA AmountIsDeclared ==
  ASSUME NEW A, NEW p, NEW acc, Extends(A, p), Declares(A, acc),
         EffectAt(p).type \in {"ADD", "SUBTRACT"}, EffectAt(p).target \in Targets,
         NEW t, t = EffectAt(p).target
  PROVE  \E n \in Int : /\ n = Numeric(InitialValue(t, acc)) + Amount(EffectAt(p))
                       /\ DeclaredScalar(A \cup {p}, t) = Num(n)
<1>13. /\ IsFiniteSet(A) /\ p \notin A /\ EffectsMet(A \cup {p}) /\ ComesAfter(A, p)
       /\ t \in Targets /\ acc.scalars[t] = DeclaredScalar(A, t)
  BY DEF Extends, Declares
<1>10. PICK f : f = [q \in Counted(A, t) |-> Amount(EffectAt(q))]
  OBVIOUS
<1>11. PICK g : g = [q \in Counted(A \cup {p}, t) |-> Amount(EffectAt(q))]
  OBVIOUS
<1>1. /\ Counted(A \cup {p}, t) = Counted(A, t) \cup {p}
      /\ Before(A \cup {p}, t) = Before(A, t)
  BY <1>13, AmountCounts
<1>2. Counted(A, t) \subseteq A
  BY DEF Counted, On, OfTypes
<1>3. EffectsMet(A)
  BY <1>13 DEF EffectsMet
<1>4. p \notin Counted(A, t) /\ IsFiniteSet(Counted(A, t)) /\ f \in [Counted(A, t) -> Int]
  BY <1>2, <1>3, <1>10, <1>13, FS_Subset DEF EffectsMet
<1>12. PICK a \in Int : a = Amount(EffectAt(p))
  BY <1>13 DEF EffectsMet
<1>5. /\ g \in [Counted(A, t) \cup {p} -> Int] /\ g[p] = a
      /\ \A q \in Counted(A, t) : g[q] = f[q]
  BY <1>1, <1>2, <1>3, <1>10, <1>11, <1>12, <1>13 DEF EffectsMet
<1>6. Total(f) \in Int /\ Total(g) = Total(f) + a
  BY <1>4, <1>5, TotalWithOneMore
<1>7. /\ Numeric(Before(A, t)) \in Int
      /\ Numeric(InitialValue(t, acc)) = Numeric(Before(A, t)) + Total(f)
  BY <1>3, <1>10, <1>13, InitialIsDeclared
<1>8. PICK n \in Int :
        /\ n = Numeric(InitialValue(t, acc)) + Amount(EffectAt(p))
        /\ n = Numeric(Before(A, t)) + Total(g)
  BY <1>6, <1>7, <1>12
<1>9. DeclaredScalar(A \cup {p}, t) = Num(Numeric(Before(A \cup {p}, t)) + Total(g))
  BY <1>1, <1>11 DEF DeclaredScalar
<1> QED
  BY <1>1, <1>8, <1>9

\* The last mark is what is declared: those of its priority are the same.
LEMMA LastMarkIsDeclared ==
  ASSUME NEW A, NEW p, EffectsMet(A \cup {p}), ComesAfter(A, p), EffectAt(p).type \in Marks
  PROVE  DeclaredMark(A \cup {p}) = Bool(EffectAt(p).type = "MARK_ELIGIBLE")
<1> DEFINE B == A \cup {p}
<1>1. p \in OfTypes(B, Marks) /\ \A q \in OfTypes(B, Marks) : q \in B /\ EffectAt(q).type \in Marks
  BY DEF OfTypes
<1>2. Rank(p) \in Int /\ \A q \in B : Rank(q) \in Int /\ Rank(p) <= Rank(q)
  BY DEF EffectsMet, ComesAfter
<1>3. p \in LastMarks(B)
  BY <1>1, <1>2 DEF LastMarks
<1>4. ASSUME NEW q \in LastMarks(B)
      PROVE  EffectAt(q) = EffectAt(p)
  <2>1. q \in B /\ EffectAt(q).type \in Marks /\ Rank(q) <= Rank(p)
    BY <1>1 DEF LastMarks
  <2>2. Rank(q) = Rank(p)
    BY <1>2, <2>1
  <2>3. CASE q = p
    BY <2>3
  <2>4. CASE q # p
    BY <2>1, <2>2, <2>4 DEF ComesAfter
  <2> QED
    BY <2>3, <2>4
<1> HIDE DEF B
<1>5. (\E q \in LastMarks(B) : EffectAt(q).type = "MARK_ELIGIBLE")
        <=> EffectAt(p).type = "MARK_ELIGIBLE"
  BY <1>3, <1>4
<1>6. LastMarks(B) # {}
  BY <1>3
<1>7. DeclaredMark(B) = Bool(\E q \in LastMarks(B) : EffectAt(q).type = "MARK_ELIGIBLE")
  BY <1>6 DEF DeclaredMark
<1> QED
  BY <1>5, <1>7 DEF B

\* A record more is counted once.
LEMMA OneRecordMore ==
  ASSUME NEW R, NEW s \in Seq(R), NEW z \in R, NEW x
  PROVE  /\ Occurrences(x, s) \in Nat
         /\ Occurrences(x, Append(s, z)) = Occurrences(x, s) + (IF x = z THEN 1 ELSE 0)
<1> DEFINE n == Len(s)
           I == {i \in DOMAIN s : s[i] = x}
           J == {i \in DOMAIN Append(s, z) : Append(s, z)[i] = x}
<1>1. n \in Nat /\ DOMAIN s = 1 .. n /\ DOMAIN Append(s, z) = 1 .. n + 1
  OBVIOUS
<1>2. /\ Append(s, z)[n + 1] = z /\ \A i \in 1 .. n : Append(s, z)[i] = s[i]
  OBVIOUS
<1>3. IsFiniteSet(I)
  <2>1. IsFiniteSet(1 .. n)
    BY <1>1, FS_Interval
  <2> QED
    BY <1>1, <2>1, FS_Subset
<1>4. J = IF x = z THEN I \cup {n + 1} ELSE I
  <2>1. \A i : i \in 1 .. n + 1 <=> i \in 1 .. n \/ i = n + 1
    BY <1>1
  <2>2. n + 1 \notin 1 .. n
    BY <1>1
  <2> HIDE DEF n
  <2> QED
    BY <1>1, <1>2, <2>1, <2>2
<1>5. n + 1 \notin I
  BY <1>1
<1>6. Cardinality(I) \in Nat
  BY <1>3, FS_CardinalityType
<1>7. Cardinality(J) = Cardinality(I) + (IF x = z THEN 1 ELSE 0)
  <2>1. CASE x = z
    <3>1. J = I \cup {n + 1}
      BY <1>4, <2>1
    <3> HIDE DEF I, J, n
    <3>2. Cardinality(I \cup {n + 1}) = Cardinality(I) + 1
      BY <1>3, <1>5, FS_AddElement
    <3> QED
      BY <2>1, <3>1, <3>2
  <2>2. CASE x # z
    <3>1. J = I
      BY <1>4, <2>2
    <3> HIDE DEF I, J, n
    <3> QED
      BY <1>6, <2>2, <3>1
  <2> QED
    BY <2>1, <2>2
<1> QED
  BY <1>6, <1>7 DEF Occurrences

\* So is the effect that left it.
LEMMA OneRecordingMore ==
  ASSUME NEW A, IsFiniteSet(A), NEW p, p \notin A, NEW x
  PROVE  /\ EffectAt(p).type \in RecordTypes /\ Record(EffectAt(p)) = x =>
              Cardinality(Recording(A \cup {p}, x)) = Cardinality(Recording(A, x)) + 1
         /\ EffectAt(p).type \notin RecordTypes \/ Record(EffectAt(p)) # x =>
              Recording(A \cup {p}, x) = Recording(A, x)
<1>1. Recording(A, x) \subseteq A
  BY DEF Recording, OfTypes
<1>2. IsFiniteSet(Recording(A, x)) /\ p \notin Recording(A, x)
  BY <1>1, FS_Subset
<1>3. ASSUME EffectAt(p).type \in RecordTypes /\ Record(EffectAt(p)) = x
      PROVE  Cardinality(Recording(A \cup {p}, x)) = Cardinality(Recording(A, x)) + 1
  <2>1. Recording(A \cup {p}, x) = Recording(A, x) \cup {p}
    BY <1>3 DEF Recording, OfTypes
  <2>2. Cardinality(Recording(A, x) \cup {p}) = Cardinality(Recording(A, x)) + 1
    BY <1>2, FS_AddElement
  <2> QED
    BY <2>1, <2>2
<1>4. ASSUME EffectAt(p).type \notin RecordTypes \/ Record(EffectAt(p)) # x
      PROVE  Recording(A \cup {p}, x) = Recording(A, x)
  BY <1>4 DEF Recording, OfTypes
<1> QED
  BY <1>3, <1>4

\* The targets that an effect does not change.
LEMMA OtherTargets ==
  ASSUME NEW A, NEW p, NEW t,
         EffectAt(p).target # t \/ EffectAt(p).type \notin {"SET", "ADD", "SUBTRACT"}
  PROVE  /\ Deciding(A \cup {p}, t) = Deciding(A, t)
         /\ DeclaredScalar(A \cup {p}, t) = DeclaredScalar(A, t)
         /\ On(A \cup {p}, t, {"SET"}) = On(A, t, {"SET"})
<1>1. /\ On(A \cup {p}, t, {"SET"}) = On(A, t, {"SET"})
      /\ On(A \cup {p}, t, {"ADD", "SUBTRACT"}) = On(A, t, {"ADD", "SUBTRACT"})
  BY DEF On, OfTypes
<1> QED
  BY <1>1, ScalarOfSame

\* Only a mark changes the mark that is declared.
LEMMA MarksStay ==
  ASSUME NEW A, NEW p, EffectAt(p).type \notin Marks
  PROVE  DeclaredMark(A \cup {p}) = DeclaredMark(A)
<1>1. OfTypes(A \cup {p}, Marks) = OfTypes(A, Marks)
  BY DEF OfTypes
<1> QED
  BY <1>1 DEF DeclaredMark, LastMarks

\* An effect that comes after those of A, and contradicts none, makes the accumulator
\* what they declare together with it.
LEMMA ApplyDeclares ==
  ASSUME NEW A, NEW p, NEW acc \in Results, Extends(A, p), Declares(A, acc),
         EffectAt(p).target \in Targets, EffectAt(p).target \in STRING,
         EffectAt(p).type \in STRING, ~Raises(acc, EffectAt(p))
  PROVE  Declares(A \cup {p}, Apply(acc, EffectAt(p)))
<1>13. IsFiniteSet(A) /\ p \notin A /\ EffectsMet(A \cup {p}) /\ ComesAfter(A, p)
  BY DEF Extends
<1>1. PICK e : e = EffectAt(p)
  OBVIOUS
<1>2. PICK new : new = Apply(acc, e)
  OBVIOUS
<1>3. /\ e.type \in EffectTypes /\ ValueOf(e) \in Values \cup {Error} /\ ~Raises(acc, e)
      /\ e.target \in Targets /\ e.target \in STRING /\ e.type \in STRING
  BY <1>1, <1>13 DEF EffectsMet
<1>4. \/ e.type = "SET" \/ e.type \in {"ADD", "SUBTRACT"}
      \/ e.type \in Marks \/ e.type \in RecordTypes
  BY <1>3 DEF EffectTypes
<1>5. acc.scalars \in [Targets -> Values \cup {Unset}]
  BY DEF Results
<1> DEFINE Scalars == \A t \in Targets :
              /\ new.scalars[t] = DeclaredScalar(A \cup {p}, t)
              /\ t \in new.claimed <=> Deciding(A \cup {p}, t) # {}
              /\ Deciding(A \cup {p}, t) = {} => On(A \cup {p}, t, {"SET"}) = {}
           Mine == new.eligible = DeclaredMark(A \cup {p})
           Records == \A x : Occurrences(x, new.records) = Cardinality(Recording(A \cup {p}, x))
<1>6. ASSUME NEW t \in Targets, e.target # t \/ e.type \notin {"SET", "ADD", "SUBTRACT"},
             new.scalars[t] = acc.scalars[t], t \in new.claimed <=> t \in acc.claimed
      PROVE  /\ new.scalars[t] = DeclaredScalar(A \cup {p}, t)
             /\ t \in new.claimed <=> Deciding(A \cup {p}, t) # {}
             /\ Deciding(A \cup {p}, t) = {} => On(A \cup {p}, t, {"SET"}) = {}
  BY <1>1, <1>6, OtherTargets DEF Declares
<1>7. ASSUME e.type \notin Marks, new.eligible = acc.eligible
      PROVE  Mine
  BY <1>1, <1>7, MarksStay DEF Declares
<1>8. ASSUME e.type \notin RecordTypes, new.records = acc.records
      PROVE  Records
  BY <1>1, <1>8, <1>13, OneRecordingMore DEF Declares
<1>9. CASE e.type = "SET"
  <2>1. e.type \notin Marks /\ e.type \notin RecordTypes
    BY <1>9 DEF Marks, RecordTypes
  <2>2. CASE e.target \in acc.claimed
    <3>1. new = acc
      BY <1>2, <1>3, <1>9, <2>2, ApplySet
    <3>2. Deciding(A, e.target) # {}
      BY <1>3, <2>2 DEF Declares
    <3>3. /\ Deciding(A \cup {p}, e.target) # {}
          /\ DeclaredScalar(A \cup {p}, e.target) = DeclaredScalar(A, e.target)
      BY <1>1, <1>9, <3>2, <1>13, LaterSetIsLost
    <3>4. ASSUME NEW t \in Targets
          PROVE  /\ new.scalars[t] = DeclaredScalar(A \cup {p}, t)
                 /\ t \in new.claimed <=> Deciding(A \cup {p}, t) # {}
                 /\ Deciding(A \cup {p}, t) = {} => On(A \cup {p}, t, {"SET"}) = {}
      <4>1. CASE t = e.target
        BY <2>2, <3>1, <3>3, <4>1 DEF Declares
      <4>2. CASE t # e.target
        BY <1>6, <3>1, <4>2
      <4> QED
        BY <4>1, <4>2
    <3> QED
      BY <1>1, <1>2, <1>7, <1>8, <2>1, <3>1, <3>4 DEF Declares
  <2>3. CASE e.target \notin acc.claimed
    <3>1. /\ new.scalars = [acc.scalars EXCEPT ![e.target] = ValueOf(e)]
          /\ new.claimed = acc.claimed \cup {e.target}
          /\ new.records = acc.records /\ new.eligible = acc.eligible
      BY <1>2, <1>3, <1>9, <2>3, ApplySet
    <3>2. On(A, e.target, {"SET"}) = {}
      BY <1>3, <2>3 DEF Declares
    <3>3. Deciding(A \cup {p}, e.target) = {p} /\ DeclaredScalar(A \cup {p}, e.target) = ValueOf(e)
      BY <1>1, <1>9, <3>2, <1>13, FirstSetDecides
    <3>4. ASSUME NEW t \in Targets
          PROVE  /\ new.scalars[t] = DeclaredScalar(A \cup {p}, t)
                 /\ t \in new.claimed <=> Deciding(A \cup {p}, t) # {}
                 /\ Deciding(A \cup {p}, t) = {} => On(A \cup {p}, t, {"SET"}) = {}
      <4>1. CASE t = e.target
        BY <1>5, <3>1, <3>3, <4>1
      <4>2. CASE t # e.target
        BY <1>5, <1>6, <3>1, <4>2
      <4> QED
        BY <4>1, <4>2
    <3> QED
      BY <1>1, <1>2, <1>7, <1>8, <2>1, <3>1, <3>4 DEF Declares
  <2> QED
    BY <2>2, <2>3
<1>10. CASE e.type \in {"ADD", "SUBTRACT"}
  <2>1. e.type \notin Marks /\ e.type \notin RecordTypes
    BY <1>10 DEF Marks, RecordTypes
  <2>2. PICK n \in Int :
          /\ n = Numeric(InitialValue(e.target, acc)) + Amount(e)
          /\ new.scalars = [acc.scalars EXCEPT ![e.target] = Num(n)]
    BY <1>2, <1>3, <1>10, ApplyAmount
  <2>3. new.claimed = acc.claimed /\ new.records = acc.records /\ new.eligible = acc.eligible
    BY <1>2, <1>3, <1>10, ApplyAmount
  <2>4. acc.scalars[e.target] = DeclaredScalar(A, e.target)
    BY <1>3 DEF Declares
  <2>5. DeclaredScalar(A \cup {p}, e.target) = Num(n)
    <3>1. PICK k \in Int :
            /\ k = Numeric(InitialValue(e.target, acc)) + Amount(e)
            /\ DeclaredScalar(A \cup {p}, e.target) = Num(k)
      BY <1>1, <1>3, <1>10, AmountIsDeclared
    <3>2. k = n
      BY <2>2, <3>1
    <3> QED
      BY <3>1, <3>2
  <2>6. Deciding(A \cup {p}, e.target) = Deciding(A, e.target)
    BY <1>1, <1>10, <1>13, AmountCounts
  <2>7. On(A \cup {p}, e.target, {"SET"}) = On(A, e.target, {"SET"})
    BY <1>1, <1>10 DEF On, OfTypes
  <2>8. ASSUME NEW t \in Targets
        PROVE  /\ new.scalars[t] = DeclaredScalar(A \cup {p}, t)
               /\ t \in new.claimed <=> Deciding(A \cup {p}, t) # {}
               /\ Deciding(A \cup {p}, t) = {} => On(A \cup {p}, t, {"SET"}) = {}
    <3>1. CASE t = e.target
      <4>1. new.scalars[t] = Num(n)
        BY <1>5, <2>2, <3>1
      <4> QED
        BY <2>3, <2>5, <2>6, <2>7, <3>1, <4>1 DEF Declares
    <3>2. CASE t # e.target
      <4>1. new.scalars[t] = acc.scalars[t]
        BY <1>5, <2>2, <3>2
      <4> QED
        BY <1>6, <2>3, <3>2, <4>1
    <3> QED
      BY <3>1, <3>2
  <2> QED
    BY <1>1, <1>2, <1>7, <1>8, <2>1, <2>3, <2>8 DEF Declares
<1>11. CASE e.type \in Marks
  <2>1. e.type \notin {"SET", "ADD", "SUBTRACT"} /\ e.type \notin RecordTypes
    BY <1>11 DEF Marks, RecordTypes
  <2>2. /\ new.scalars = acc.scalars /\ new.claimed = acc.claimed
        /\ new.records = acc.records /\ new.eligible = Bool(e.type = "MARK_ELIGIBLE")
    BY <1>2, <1>3, <1>11, ApplyMark
  <2>3. Mine
    BY <1>1, <1>11, <2>2, <1>13, LastMarkIsDeclared
  <2> QED
    BY <1>1, <1>2, <1>6, <1>8, <2>1, <2>2, <2>3 DEF Declares
<1>12. CASE e.type \in RecordTypes
  <2>1. e.type \notin {"SET", "ADD", "SUBTRACT"} /\ e.type \notin Marks
    BY <1>12 DEF Marks, RecordTypes
  <2>2. /\ new.scalars = acc.scalars /\ new.claimed = acc.claimed
        /\ new.records = Append(acc.records, Record(e)) /\ new.eligible = acc.eligible
    BY <1>2, <1>3, <1>12, ApplyRecord
  <2>3. ASSUME NEW x
        PROVE  Occurrences(x, new.records) = Cardinality(Recording(A \cup {p}, x))
    <3>5. PICK R : R = [type : STRING, target : STRING, value : Values]
      OBVIOUS
    <3>1. acc.records \in Seq(R) /\ Record(e) \in R
      BY <1>3, <1>12, <3>5, ApplyRecord DEF Results
    <3>2. Occurrences(x, acc.records) = Cardinality(Recording(A, x))
      BY DEF Declares
    <3>3. /\ Occurrences(x, acc.records) \in Nat
          /\ Occurrences(x, new.records) = Occurrences(x, acc.records) + (IF x = Record(e) THEN 1 ELSE 0)
      BY <2>2, <3>1, OneRecordMore
    <3>4. Cardinality(Recording(A \cup {p}, x)) =
            Cardinality(Recording(A, x)) + (IF x = Record(e) THEN 1 ELSE 0)
      <4>1. Cardinality(Recording(A, x)) \in Nat
        BY <3>2, <3>3
      <4>2. CASE x = Record(e)
        <5>1. Cardinality(Recording(A \cup {p}, x)) = Cardinality(Recording(A, x)) + 1
          BY <1>1, <1>12, <4>2, <1>13, OneRecordingMore
        <5> QED
          BY <4>2, <5>1
      <4>3. CASE x # Record(e)
        <5>1. Recording(A \cup {p}, x) = Recording(A, x)
          BY <1>1, <4>3, <1>13, OneRecordingMore
        <5> QED
          BY <4>1, <4>3, <5>1
      <4> QED
        BY <4>2, <4>3
    <3> QED
      BY <3>2, <3>3, <3>4
  <2> QED
    BY <1>1, <1>2, <1>6, <1>7, <2>1, <2>2, <2>3 DEF Declares
<1> QED
  BY <1>4, <1>9, <1>10, <1>11, <1>12

\* How many effects of a matched rule have been applied.
AppliedOf(r) == IF r \in todo THEN 1 .. applied ELSE DOMAIN Effects[r]

AppliedInPairs ==
  /\ \A r, i : <<r, i>> \in Applied <=> r \in Matched /\ i \in AppliedOf(r)
  /\ \A p \in Applied : p = <<p[1], p[2]>> /\ p[1] \in Matched /\ p[2] \in AppliedOf(p[1])

\* The effects applied are those of the matched rules, rule by rule.
LEMMA AppliedPairs == AppliedInPairs
<1>1. Applied = UNION {{r} \X AppliedOf(r) : r \in Matched}
  BY DEF Applied, AppliedOf
<1>2. ASSUME NEW r, NEW i, <<r, i>> \in Applied
      PROVE  r \in Matched /\ i \in AppliedOf(r)
  <2>1. PICK q \in Matched : <<r, i>> \in {q} \X AppliedOf(q)
    BY <1>1, <1>2
  <2> QED
    BY <2>1
<1>3. ASSUME NEW r \in Matched, NEW i \in AppliedOf(r)
      PROVE  <<r, i>> \in Applied
  BY <1>1, <1>3
<1>4. ASSUME NEW p \in Applied
      PROVE  p = <<p[1], p[2]>> /\ p[1] \in Matched /\ p[2] \in AppliedOf(p[1])
  <2>1. PICK q \in Matched : p \in {q} \X AppliedOf(q)
    BY <1>1
  <2> QED
    BY <2>1
<1> QED
  BY <1>2, <1>3, <1>4 DEF AppliedInPairs

\* The same after the step.
LEMMA AppliedPairsNext == AppliedInPairs'
BY AppliedPairs, PTL

\* What was applied are effects of rules of the catalog.
LEMMA AppliedAreEffects ==
  ASSUME Inv, NEW p \in Applied
  PROVE  /\ p[1] \in catalog /\ p[1] \in Rules /\ p[1] \in Matched
         /\ p[2] \in DOMAIN Effects[p[1]]
<1>1. p[1] \in Matched /\ p[2] \in AppliedOf(p[1])
  BY AppliedPairs DEF AppliedInPairs
<1>2. p[1] \in catalog /\ p[1] \in Rules
  BY <1>1 DEF Matched, Inv, TypeOK
<1>3. DOMAIN Effects[p[1]] = 1 .. Len(Effects[p[1]]) /\ Len(Effects[p[1]]) \in Nat
  BY <1>2, RulesAssumption
<1>4. CASE p[1] \in todo
  <2>1. applied \in Nat /\ applied < Len(Effects[p[1]]) /\ p[2] \in 1 .. applied
    BY <1>1, <1>4 DEF AppliedOf, Inv, TypeOK, InTurn, InHand, Matched
  <2> QED
    BY <1>1, <1>2, <1>3, <2>1
<1>5. CASE p[1] \notin todo
  BY <1>1, <1>2, <1>5 DEF AppliedOf
<1> QED
  BY <1>4, <1>5

\* A rule that is taken has no effect yet.
LEMMA TakesAppliesNone ==
  ASSUME Inv, NEW r \in todo, NEW outcome, Takes(r, outcome),
         \/ outcome = "MATCHED" /\ todo' = todo
         \/ outcome \in Done \ {"MATCHED"} /\ todo' = todo \ {r}
  PROVE  Applied' = Applied
<1>1. InHand = {} /\ applied = 0 /\ status[r] = "PENDING"
  BY TakesInTurn
<1>2. applied' = applied /\ status' = [status EXCEPT ![r] = outcome] /\ todo' \subseteq todo
  BY DEF Takes
<1>3. r \in Rules /\ status \in [Rules -> Statuses]
  BY DEF Inv, TypeOK
<1>4. \A q \in Rules : status'[q] = IF q = r THEN outcome ELSE status[q]
  BY <1>2, <1>3
<1>5. \A q \in Matched : q \notin todo /\ q \notin todo' /\ q # r /\ q \in Matched'
  BY <1>1, <1>2, <1>4 DEF Matched, InHand
<1>6. \A q \in Matched' : q \in Matched \/ (q = r /\ r \in todo')
  BY <1>3, <1>4 DEF Matched
<1>7. \A q \in Matched : AppliedOf(q)' = AppliedOf(q)
  BY <1>5 DEF AppliedOf
<1>8. r \in todo' => AppliedOf(r)' = {}
  BY <1>1, <1>2 DEF AppliedOf
<1>9. ASSUME NEW p \in Applied
      PROVE  p \in Applied'
  <2>1. p = <<p[1], p[2]>> /\ p[1] \in Matched /\ p[2] \in AppliedOf(p[1])
    BY AppliedPairs DEF AppliedInPairs
  <2>2. p[1] \in Matched' /\ p[2] \in AppliedOf(p[1])'
    BY <1>5, <1>7, <2>1
  <2>3. <<p[1], p[2]>> \in Applied'
    BY <2>2, AppliedPairsNext DEF AppliedInPairs
  <2> QED
    BY <2>1, <2>3
<1>10. ASSUME NEW p \in Applied'
       PROVE  p \in Applied
  <2>1. p = <<p[1], p[2]>> /\ p[1] \in Matched' /\ p[2] \in AppliedOf(p[1])'
    BY AppliedPairsNext DEF AppliedInPairs
  <2>2. p[1] \in Matched
    BY <1>6, <1>8, <2>1
  <2>3. <<p[1], p[2]>> \in Applied
    BY <1>7, <2>1, <2>2, AppliedPairs DEF AppliedInPairs
  <2> QED
    BY <2>1, <2>3
<1> QED
  BY <1>9, <1>10

\* The next effect is one more, after all that have been applied.
LEMMA ApplyNextApplies ==
  ASSUME Inv, NEW r \in todo, ApplyNext(r), NEW p, p = <<r, applied + 1>>
  PROVE  Applied' = Applied \cup {p} /\ p \notin Applied
<1>1. /\ r \in InHand /\ r \in Matched /\ applied \in Nat /\ applied < Len(Effects[r])
      /\ r \in Rules /\ Matched' = Matched
  BY DEF ApplyNext, InHand, Matched, Inv, TypeOK, InTurn
<1>2. DOMAIN Effects[r] = 1 .. Len(Effects[r]) /\ Len(Effects[r]) \in Nat
  BY <1>1, RulesAssumption
<1>3. \/ applied + 1 < Len(Effects[r]) /\ applied' = applied + 1 /\ todo' = todo
      \/ ~ (applied + 1 < Len(Effects[r])) /\ applied' = 0 /\ todo' = todo \ {r}
  BY DEF ApplyNext
<1>4. \A q \in Matched : q # r => q \notin todo /\ q \notin todo'
  BY <1>1, <1>3 DEF InHand, Matched, Inv, InTurn
<1>5. \A q \in Matched : q # r => AppliedOf(q)' = AppliedOf(q)
  BY <1>4 DEF AppliedOf
<1>6. AppliedOf(r) = 1 .. applied
  BY DEF AppliedOf
<1>7. AppliedOf(r)' = 1 .. (applied + 1)
  <2>1. CASE applied + 1 < Len(Effects[r])
    BY <1>3, <2>1 DEF AppliedOf
  <2>2. CASE ~ (applied + 1 < Len(Effects[r]))
    <3>1. Len(Effects[r]) = applied + 1
      BY <1>1, <1>2, <2>2
    <3>2. r \notin todo'
      BY <1>3, <2>2
    <3> QED
      BY <1>2, <3>1, <3>2 DEF AppliedOf
  <2> QED
    BY <2>1, <2>2
<1>8. \A i : i \in 1 .. (applied + 1) <=> i \in 1 .. applied \/ i = applied + 1
  BY <1>1
<1>9. applied + 1 \notin 1 .. applied
  BY <1>1
<1>10. p \notin Applied
  BY <1>6, <1>9, AppliedPairs DEF AppliedInPairs
<1>11. ASSUME NEW z \in Applied \cup {p}
       PROVE  z \in Applied'
  <2>1. z = <<z[1], z[2]>> /\ z[1] \in Matched /\ z[2] \in AppliedOf(z[1])'
    <3>1. CASE z \in Applied
      <4>1. z = <<z[1], z[2]>> /\ z[1] \in Matched /\ z[2] \in AppliedOf(z[1])
        BY <3>1, AppliedPairs DEF AppliedInPairs
      <4>2. z[1] = r => z[2] \in AppliedOf(r)'
        BY <1>6, <1>7, <1>8, <4>1
      <4> QED
        BY <1>5, <4>1, <4>2
    <3>2. CASE z = p
      <4>1. z[1] = r /\ z[2] = applied + 1 /\ z = <<z[1], z[2]>>
        BY <3>2
      <4> QED
        BY <1>1, <1>7, <1>8, <4>1
    <3> QED
      BY <3>1, <3>2
  <2>2. <<z[1], z[2]>> \in Applied'
    BY <1>1, <2>1, AppliedPairsNext DEF AppliedInPairs
  <2> QED
    BY <2>1, <2>2
<1>12. ASSUME NEW z \in Applied'
       PROVE  z \in Applied \cup {p}
  <2>1. z = <<z[1], z[2]>> /\ z[1] \in Matched /\ z[2] \in AppliedOf(z[1])'
    BY <1>1, AppliedPairsNext DEF AppliedInPairs
  <2>2. CASE z[1] = r
    BY <1>1, <1>6, <1>7, <1>8, <2>1, <2>2, AppliedPairs DEF AppliedInPairs
  <2>3. CASE z[1] # r
    BY <1>5, <2>1, <2>3, AppliedPairs DEF AppliedInPairs
  <2> QED
    BY <2>2, <2>3
<1> QED
  BY <1>10, <1>11, <1>12

\* What is met of the effects applied, and of the next one.
LEMMA AppliedEffects ==
  ASSUME Inv, NEW r \in InHand, NEW p, p = <<r, applied + 1>>
  PROVE  /\ EffectsMet(Applied \cup {p})
         /\ EffectAt(p) = NextEffect(r) /\ EffectAt(p) \in ToSet(Effects[r])
         /\ \A q \in Applied : EffectAt(q) \in ToSet(Effects[q[1]])
<1>1. /\ r \in catalog /\ r \in Rules /\ applied + 1 \in DOMAIN Effects[r]
      /\ NextEffect(r) = Effects[r][applied + 1]
  BY NextEffectOfRule
<1>2. p[1] = r /\ p[2] = applied + 1
  OBVIOUS
<1>3. EffectAt(p) = NextEffect(r)
  BY <1>1, <1>2 DEF EffectAt
<1>4. reading \in Readings /\ catalog \in SUBSET Rules /\ Admissible(catalog)
  BY DEF Inv, TypeOK, InTurn
<1>5. ASSUME NEW q \in Applied \cup {p}
      PROVE  q[1] \in catalog /\ q[1] \in Rules /\ q[2] \in DOMAIN Effects[q[1]]
  BY <1>1, <1>2, AppliedAreEffects
<1>6. ASSUME NEW q \in Applied \cup {p}
      PROVE  /\ Rank(q) \in Int /\ EffectAt(q).type \in EffectTypes
             /\ ValueOf(EffectAt(q)) \in Values \cup {Error}
             /\ Amount(EffectAt(q)) \in Int
             /\ EffectAt(q) \in ToSet(Effects[q[1]])
  <2>1. q[1] \in catalog /\ q[1] \in Rules /\ q[2] \in DOMAIN Effects[q[1]]
    BY <1>5
  <2>2. EffectAt(q) = Effects[q[1]][q[2]] /\ Rank(q) = Priority[q[1]]
    BY DEF EffectAt, Rank
  <2>3. Rank(q) \in Int
    BY <2>1, <2>2, RulesAssumption
  <2>4. EffectAt(q).type \in EffectTypes /\ ValueOf(EffectAt(q)) \in Values \cup {Error}
    BY <1>4, <2>1, <2>2, EffectIsValue
  <2>5. Numeric(Error) = 0
    BY DEF Numeric, Error
  <2>6. Numeric(ValueOf(EffectAt(q))) \in Int
    BY <2>4, <2>5, NumericIsInteger
  <2>7. Amount(EffectAt(q)) \in Int
    BY <2>6 DEF Amount
  <2> QED
    BY <2>1, <2>2, <2>3, <2>4, <2>7 DEF ToSet
<1>7. EffectAt(p) \in ToSet(Effects[r])
  BY <1>2, <1>6
<1> QED
  BY <1>3, <1>6, <1>7 DEF EffectsMet

\* The next effect comes after those applied, and contradicts none of its priority.
LEMMA NextEffectExtends ==
  ASSUME OneEffectPerTarget, MarksOfOneTarget, UniformScopes,
         Inv, IsFiniteSet(Applied), NEW r \in todo, ApplyNext(r), NEW p, p = <<r, applied + 1>>
  PROVE  Extends(Applied, p)
<1>1. r \in InHand /\ r \in Matched /\ r \in Rules
  BY DEF ApplyNext, InHand, Matched, Inv, TypeOK
<1>2. p \notin Applied
  BY ApplyNextApplies
<1>3. /\ EffectsMet(Applied \cup {p}) /\ EffectAt(p) \in ToSet(Effects[r])
      /\ \A q \in Applied : EffectAt(q) \in ToSet(Effects[q[1]])
  BY <1>1, AppliedEffects
<1>4. p[1] = r
  OBVIOUS
<1>5. NoContradictionApplies
  BY NoContradiction
<1>6. ASSUME NEW q \in Applied
      PROVE  Rank(p) <= Rank(q)
  BY <1>4, AppliedAreEffects DEF Rank, Inv, InTurn
<1>7. ASSUME NEW q \in Applied, Rank(p) = Rank(q),
             \/ EffectAt(p).target = EffectAt(q).target
             \/ EffectAt(p).type \in Marks /\ EffectAt(q).type \in Marks
      PROVE  EffectAt(q) = EffectAt(p)
  <2>1. q[1] \in Rules /\ q[1] \in Matched /\ Priority[r] = Priority[q[1]]
    BY <1>4, <1>7, AppliedAreEffects DEF Rank
  <2>2. EffectAt(p).target = EffectAt(q).target
    BY <1>1, <1>3, <1>7, <2>1 DEF MarksOfOneTarget
  <2> QED
    BY <1>1, <1>3, <1>5, <2>1, <2>2 DEF NoContradictionApplies
<1>8. ComesAfter(Applied, p)
  BY <1>6, <1>7 DEF ComesAfter
<1> QED
  BY <1>2, <1>3, <1>8 DEF Extends

\* While no value raised, the result is what the effects applied declare together.
Declared == Undisturbed => IsFiniteSet(Applied) /\ Declares(Applied, result)

\* Nothing is declared by no effects.
LEMMA DeclaredInit ==
  ASSUME Init
  PROVE  Declared
<1>1. Matched = {}
  BY DEF Init, Matched
<1>2. Applied = {}
  BY <1>1 DEF Applied
<1>3. result = Start
  BY DEF Init
<1>4. ASSUME NEW t \in Targets
      PROVE  /\ Start.scalars[t] = DeclaredScalar({}, t)
             /\ t \in Start.claimed <=> Deciding({}, t) # {}
             /\ On({}, t, {"SET"}) = {}
  <2>1. Deciding({}, t) = {} /\ Counted({}, t) = {} /\ On({}, t, {"SET"}) = {}
    BY DEF Deciding, Counted, On, OfTypes
  <2> QED
    BY <2>1 DEF DeclaredScalar, Start
<1>5. Start.eligible = DeclaredMark({})
  BY DEF Start, DeclaredMark, LastMarks, OfTypes
<1>6. ASSUME NEW x
      PROVE  Occurrences(x, Start.records) = Cardinality(Recording({}, x))
  <2>1. {i \in DOMAIN Start.records : Start.records[i] = x} = {} /\ Recording({}, x) = {}
    BY DEF Start, Recording, OfTypes
  <2> QED
    BY <2>1 DEF Occurrences
<1>7. Declares({}, Start)
  BY <1>4, <1>5, <1>6 DEF Declares
<1> QED
  BY <1>2, <1>3, <1>7, FS_EmptySet DEF Declared

\* What is declared hangs on the effects applied and on what was read.
LEMMA DeclaresNext ==
  ASSUME reading' = reading, NEW A, NEW acc, Declares(A, acc), Applied' = A, result' = acc
  PROVE  Declares(Applied, result)'
<1>1. ASSUME NEW t
      PROVE  DeclaredScalar(Applied, t)' = DeclaredScalar(A, t)
  BY DEF DeclaredScalar, Before, Amount, ValueOf
<1>2. ASSUME NEW x
      PROVE  Recording(Applied, x)' = Recording(A, x)
  BY DEF Recording, Record, ValueOf
<1> QED
  BY <1>1, <1>2 DEF Declares

\* A step that applies nothing leaves what is declared.
LEMMA DeclaredKept ==
  ASSUME Declared, Undisturbed' => Undisturbed, reading' = reading, result' = result,
         Undisturbed' => Applied' = Applied
  PROVE  Declared'
<1>1. SUFFICES ASSUME Undisturbed' PROVE IsFiniteSet(Applied)' /\ Declares(Applied, result)'
  BY DEF Declared
<1>2. PICK A, acc : A = Applied /\ acc = result
  OBVIOUS
<1>3. IsFiniteSet(A) /\ Declares(A, acc)
  BY <1>1, <1>2 DEF Declared
<1>4. Applied' = A /\ result' = acc
  BY <1>1, <1>2
<1> QED
  BY <1>3, <1>4, DeclaresNext

\* So does a rule that is taken.
LEMMA TakesDeclares ==
  ASSUME Inv, Declared, NEW r \in todo, NEW outcome, Takes(r, outcome),
         \/ outcome = "RAISED" /\ todo' = {}
         \/ outcome = "MATCHED" /\ todo' = todo
         \/ outcome \in Done \ {"MATCHED"} /\ todo' = todo \ {r}
  PROVE  Declared'
<1>1. /\ reading' = reading /\ result' = result
      /\ status' = [status EXCEPT ![r] = outcome]
  BY DEF Takes, input
<1>2. status[r] = "PENDING"
  BY TakesInTurn
<1>3. r \in Rules /\ status \in [Rules -> Statuses]
  BY DEF Inv, TypeOK
<1>4. Undisturbed' => Undisturbed /\ outcome # "RAISED"
  BY <1>1, <1>2, <1>3 DEF Undisturbed
<1>5. Undisturbed' => Applied' = Applied
  BY <1>4, TakesAppliesNone
<1> QED
  BY <1>1, <1>4, <1>5, DeclaredKept

\* The next effect extends those applied, and is declared with them.
LEMMA ApplyNextDeclares ==
  ASSUME OneEffectPerTarget, MarksOfOneTarget, UniformScopes,
         Inv, Declared, NEW r \in todo, ApplyNext(r)
  PROVE  Declared'
<1>1. /\ reading' = reading /\ status' = status /\ ~Raises(result, NextEffect(r))
      /\ result' = Apply(result, NextEffect(r)) /\ r \in InHand
  BY DEF ApplyNext, input, InHand
<1>2. SUFFICES ASSUME Undisturbed' PROVE IsFiniteSet(Applied)' /\ Declares(Applied, result)'
  BY DEF Declared
<1>3. Undisturbed
  BY <1>1, <1>2 DEF Undisturbed
<1>4. IsFiniteSet(Applied) /\ Declares(Applied, result)
  BY <1>3 DEF Declared
<1>5. PICK p : p = <<r, applied + 1>>
  OBVIOUS
<1>6. Extends(Applied, p) /\ Applied' = Applied \cup {p}
  BY <1>4, <1>5, NextEffectExtends, ApplyNextApplies
<1>7. EffectAt(p) = NextEffect(r)
  BY <1>1, <1>5, AppliedEffects
<1>8. /\ EffectAt(p).target \in Targets /\ EffectAt(p).target \in STRING
      /\ EffectAt(p).type \in STRING
  BY <1>1, <1>7, NextEffectOfRule, EffectsOfRules
<1>9. result \in Results
  BY DEF Inv, TypeOK
<1>10. Declares(Applied \cup {p}, Apply(result, EffectAt(p)))
  BY <1>1, <1>4, <1>6, <1>7, <1>8, <1>9, ApplyDeclares
<1>11. PICK A, acc : A = Applied \cup {p} /\ acc = Apply(result, EffectAt(p))
  OBVIOUS
<1>12. Declares(A, acc) /\ Applied' = A /\ result' = acc
  BY <1>1, <1>6, <1>7, <1>10, <1>11
<1>13. Declares(Applied, result)'
  BY <1>1, <1>12, DeclaresNext
<1>14. IsFiniteSet(Applied)'
  BY <1>4, <1>6, FS_AddElement
<1> QED
  BY <1>13, <1>14

\* Every step keeps the result to what is declared.
LEMMA DeclaredStep ==
  ASSUME OneEffectPerTarget, MarksOfOneTarget, UniformScopes, Inv, Declared, [Next]_vars
  PROVE  Declared'
<1>1. CASE UNCHANGED vars
  <2>1. /\ reading' = reading /\ result' = result /\ todo' = todo
        /\ status' = status /\ applied' = applied
    BY <1>1 DEF vars
  <2>2. Applied' = Applied /\ (Undisturbed' => Undisturbed)
    BY <2>1 DEF Applied, Matched, Undisturbed
  <2> QED
    BY <2>1, <2>2, DeclaredKept
<1>2. ASSUME NEW r \in todo,
             Skip(r) \/ Reject(r) \/ Except(r) \/ Match(r) \/ Raise(r)
      PROVE  Declared'
  <2>1. CASE Skip(r)
    BY <2>1, TakesDeclares DEF Skip, Done
  <2>2. CASE Reject(r)
    BY <2>2, TakesDeclares DEF Reject, Done
  <2>3. CASE Except(r)
    BY <2>3, TakesDeclares DEF Except, Done
  <2>4. CASE Match(r)
    BY <2>4, TakesDeclares DEF Match
  <2>5. CASE Raise(r)
    BY <2>5, TakesDeclares DEF Raise
  <2> QED
    BY <1>2, <2>1, <2>2, <2>3, <2>4, <2>5
<1>3. ASSUME NEW r \in todo, RaiseInEffect(r)
      PROVE  Declared'
  <2>1. status' = [status EXCEPT ![r] = "RAISED"] /\ r \in Rules /\ status \in [Rules -> Statuses]
    BY <1>3 DEF RaiseInEffect, Inv, TypeOK
  <2>2. ~ Undisturbed'
    BY <2>1 DEF Undisturbed
  <2> QED
    BY <2>2 DEF Declared
<1> QED
  BY <1>1, <1>2, <1>3, ApplyNextDeclares DEF Next

\* After every effect the result is what the effects applied declare together, in
\* whatever order the rules of one priority came: for any rules with one effect on a
\* target, marks of one target and uniform scopes.
THEOREM ResultsAreDeclared ==
  ASSUME OneEffectPerTarget, MarksOfOneTarget, UniformScopes
  PROVE  Spec => []ResultIsDeclared
<1>1. Declared => ResultIsDeclared
  BY DEF Declared, Declares, ResultIsDeclared
<1>2. Init => Declared
  BY DeclaredInit
<1>3. Inv /\ Declared /\ [Next]_vars => Declared'
  BY DeclaredStep
<1> QED
  BY <1>1, <1>2, <1>3, InvHolds, PTL DEF Spec
=============================================================================
