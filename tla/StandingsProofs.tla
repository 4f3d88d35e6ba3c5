---------------------------- MODULE StandingsProofs ----------------------------
(***************************************************************************)
(* The positions of the standings follow the races.  Points are summed     *)
(* over a set of results of any size, one by one in the order in which     *)
(* CHOOSE takes them.  The provers have no induction over sets, so what    *)
(* holds of every sum is shown from a smallest set of which it would not:  *)
(* without one of its results it is a smaller set, of which it does.       *)
(***************************************************************************)
EXTENDS Standings, Integers, FiniteSetTheorems, WellFoundedInduction, TLAPS

(* A set of naturals that has a member has a least one. *)
LEMMA LeastNatural ==
    ASSUME NEW N, N \subseteq Nat, N # {}
    PROVE  \E n \in N : \A m \in N : n <= m
<1> DEFINE R == OpToRel(<, Nat)
<1>1. IsWellFoundedOn(R, Nat)
  BY NatLessThanWellFounded
<1>2. \A m, n \in Nat : m < n => <<m, n>> \in R
  BY DEF OpToRel
<1> HIDE DEF R
<1>3. PICK n \in N : \A m \in N : ~ (<<m, n>> \in R)
  BY <1>1, WFMin
<1>4. \A m \in N : m \in Nat /\ n \in Nat /\ ~(m < n)
  BY <1>2, <1>3
<1>5. \A m \in N : n <= m
  BY <1>4
<1> QED BY <1>5

(* Of finite sets one is the smallest. *)
LEMMA SmallestSet ==
    ASSUME NEW F, F # {}, \A s \in F : IsFiniteSet(s)
    PROVE  \E s \in F : \A t \in F : Cardinality(s) <= Cardinality(t)
<1> DEFINE N == {Cardinality(s) : s \in F}
<1>1. N \subseteq Nat /\ N # {}
  BY FS_CardinalityType
<1> HIDE DEF N
<1>2. PICK n \in N : \A m \in N : n <= m
  BY <1>1, LeastNatural
<1> QED BY <1>2 DEF N

-----------------------------------------------------------------------------
(* The points of a set of results. *)
Total(S) == MapThenSumSet(PointsForResult, S)

(* The result that MapThenSumSet takes next, and the functions it computes   *)
(* with: what such a function g says of a set follows from smaller ones.     *)
Pick(s) == CHOOSE x \in s : TRUE

Added(g, s) == IF s = {} THEN 0 ELSE PointsForResult(Pick(s)) + g[s \ {Pick(s)}]

Adds(g, S) == g = [s \in SUBSET S |-> Added(g, s)]

(* The sum is what such a function, if there is one, says of the whole set.  *)
LEMMA TotalByChoice ==
    ASSUME NEW S
    PROVE  Total(S) = (CHOOSE g : Adds(g, S))[S]
BY DEF Total, MapThenSumSet, MapThenFoldSet, Adds, Added, Pick

(* It takes a result of the set. *)
LEMMA PickOne == \A s : s # {} => Pick(s) \in s
BY DEF Pick

(* A smaller set, with one member less. *)
LEMMA WithoutPick ==
    ASSUME NEW s, IsFiniteSet(s), s # {}
    PROVE  /\ s \ {Pick(s)} \subseteq s
           /\ IsFiniteSet(s \ {Pick(s)})
           /\ Cardinality(s) \in Nat
           /\ Cardinality(s \ {Pick(s)}) \in Nat
           /\ Cardinality(s \ {Pick(s)}) = Cardinality(s) - 1
<1>1. Pick(s) \in s
  BY PickOne
<1> QED BY <1>1, FS_RemoveElement, FS_CardinalityType

(* There is such a function: it is built for larger and larger subsets. *)
LEMMA AddsExists ==
    ASSUME NEW S, IsFiniteSet(S)
    PROVE  \E g : Adds(g, S)
<1> DEFINE Level(n) == {s \in SUBSET S : Cardinality(s) <= n}
           AddsTo(g, n) == g = [s \in Level(n) |-> Added(g, s)]
           N == {n \in Nat : ~ \E g : AddsTo(g, n)}
<1>0. \A s \in SUBSET S : IsFiniteSet(s) /\ Cardinality(s) \in Nat
  BY FS_Subset, FS_CardinalityType
<1>1. ASSUME NEW n \in Nat, NEW h, n # 0 => AddsTo(h, n - 1)
      PROVE  \E g : AddsTo(g, n)
  <2> DEFINE g == [s \in Level(n) |-> Added(h, s)]
  <2>1. ASSUME NEW s \in Level(n), s # {}
        PROVE  g[s \ {Pick(s)}] = h[s \ {Pick(s)}]
    <3> DEFINE t == s \ {Pick(s)}
    <3>1. s \in SUBSET S /\ Cardinality(s) <= n
      OBVIOUS
    <3>2. /\ t \in SUBSET S /\ Cardinality(t) \in Nat /\ Cardinality(s) \in Nat
          /\ Cardinality(t) = Cardinality(s) - 1
      BY <1>0, <2>1, <3>1, WithoutPick
    <3> HIDE DEF t
    <3>3. n # 0 /\ t \in Level(n - 1) /\ t \in Level(n)
      BY <3>1, <3>2
    <3>4. h = [u \in Level(n - 1) |-> Added(h, u)]
      BY <1>1, <3>3
    <3> HIDE DEF Level
    <3>5. h[t] = Added(h, t)
      BY <3>3, <3>4
    <3>6. g[t] = Added(h, t)
      BY <3>3
    <3> QED BY <3>5, <3>6 DEF t
  <2> HIDE DEF Level
  <2>2. \A s \in Level(n) : Added(h, s) = Added(g, s)
    <3> HIDE DEF g
    <3> QED BY <2>1 DEF Added
  <2>3. g = [s \in Level(n) |-> Added(g, s)]
    <3>1. g = [s \in Level(n) |-> Added(h, s)]
      OBVIOUS
    <3> HIDE DEF g
    <3>2. [s \in Level(n) |-> Added(h, s)] = [s \in Level(n) |-> Added(g, s)]
      BY <2>2
    <3> QED BY <3>1, <3>2
  <2> HIDE DEF g
  <2> QED BY <2>3
<1>2. N = {}
  <2> SUFFICES ASSUME N # {} PROVE FALSE
    OBVIOUS
  <2> HIDE DEF AddsTo
  <2>1. PICK n \in N : \A m \in N : n <= m
    <3>1. N \subseteq Nat
      OBVIOUS
    <3> HIDE DEF N
    <3> QED BY <3>1, LeastNatural
  <2>2. n \in Nat /\ ~ \E g : AddsTo(g, n)
    BY <2>1
  <2>3. n # 0 => n - 1 \in Nat /\ n - 1 \notin N
    BY <2>1, <2>2
  <2>4. \E h : n # 0 => AddsTo(h, n - 1)
    BY <2>3
  <2> QED BY <1>1, <2>2, <2>4
<1>3. PICK g : AddsTo(g, Cardinality(S))
  <2>1. Cardinality(S) \in Nat
    BY FS_CardinalityType
  <2> HIDE DEF AddsTo
  <2> QED BY <1>2, <2>1
<1>4. Level(Cardinality(S)) = SUBSET S
  BY FS_Subset
<1> HIDE DEF Level
<1> QED BY <1>3, <1>4 DEF Adds

(* Such functions agree wherever they both apply. *)
LEMMA AddsAgree ==
    ASSUME NEW S, NEW T, NEW g, NEW h, IsFiniteSet(S), Adds(g, S), Adds(h, T)
    PROVE  \A s : s \subseteq S /\ s \subseteq T => g[s] = h[s]
<1> DEFINE F == {s \in SUBSET S : s \subseteq T /\ g[s] # h[s]}
<1>1. SUFFICES F = {}
  OBVIOUS
<1>2. SUFFICES ASSUME F # {} PROVE FALSE
  OBVIOUS
<1>3. \A s \in F : IsFiniteSet(s)
  BY FS_Subset
<1>4. PICK s \in F : \A t \in F : Cardinality(s) <= Cardinality(t)
  <2> HIDE DEF F
  <2> QED BY <1>2, <1>3, SmallestSet
<1> DEFINE t == s \ {Pick(s)}
<1>5. g[s] = Added(g, s) /\ h[s] = Added(h, s)
  BY DEF Adds
<1>6. CASE s = {}
  BY <1>5, <1>6 DEF Added
<1>7. CASE s # {}
  <2>1. t \subseteq s /\ Cardinality(s) \in Nat /\ Cardinality(t) = Cardinality(s) - 1
    BY <1>3, <1>7, WithoutPick
  <2>2. t \notin F
    <3> HIDE DEF F
    <3> QED BY <1>4, <2>1
  <2>3. g[t] = h[t]
    BY <2>1, <2>2
  <2> HIDE DEF F
  <2>4. Added(g, s) = Added(h, s)
    BY <2>3 DEF Added
  <2> QED BY <1>5, <2>4 DEF F
<1> QED BY <1>6, <1>7

(* The sum, result by result in the order of choice. *)
LEMMA TotalUnfolds ==
    ASSUME NEW S, IsFiniteSet(S)
    PROVE  Total(S) = IF S = {} THEN 0 ELSE PointsForResult(Pick(S)) + Total(S \ {Pick(S)})
<1> DEFINE G(s) == CHOOSE g : Adds(g, s)
           T == S \ {Pick(S)}
<1>1. IsFiniteSet(T) /\ T \subseteq S
  BY FS_Subset
<1> HIDE DEF T
<1>2. Adds(G(S), S) /\ Adds(G(T), T)
  BY <1>1, AddsExists
<1>3. Total(S) = G(S)[S] /\ Total(T) = G(T)[T]
  BY TotalByChoice
<1> HIDE DEF G
<1>4. G(S)[T] = G(T)[T]
  BY <1>1, <1>2, AddsAgree
<1>5. G(S)[S] = Added(G(S), S)
  BY <1>2 DEF Adds
<1> QED BY <1>3, <1>4, <1>5 DEF Added, T

(* A result gives a number of points, whatever its position. *)
LEMMA PointsAreNatural == \A r : PointsForResult(r) \in Nat
<1>1. DOMAIN PointsByPosition = 1 .. 5
  BY DEF PointsByPosition
<1>2. \A n \in 1 .. 5 : PointsByPosition[n] \in Nat
  BY DEF PointsByPosition
<1> QED BY <1>1, <1>2 DEF PointsForResult

(* A sum of points is a number. *)
LEMMA TotalIsNatural ==
    ASSUME NEW S, IsFiniteSet(S)
    PROVE  Total(S) \in Nat
<1> DEFINE F == {s \in SUBSET S : Total(s) \notin Nat}
<1>1. SUFFICES ASSUME F # {} PROVE FALSE
  OBVIOUS
<1>2. \A s \in F : IsFiniteSet(s)
  BY FS_Subset
<1>3. PICK s \in F : \A t \in F : Cardinality(s) <= Cardinality(t)
  <2> HIDE DEF F
  <2> QED BY <1>1, <1>2, SmallestSet
<1> DEFINE t == s \ {Pick(s)}
<1>4. Total(s) = IF s = {} THEN 0 ELSE PointsForResult(Pick(s)) + Total(t)
  BY <1>2, TotalUnfolds
<1>5. s # {}
  BY <1>4
<1>6. t \subseteq s /\ Cardinality(s) \in Nat /\ Cardinality(t) = Cardinality(s) - 1
  BY <1>2, <1>5, WithoutPick
<1>7. t \notin F
  <2> HIDE DEF F
  <2> QED BY <1>3, <1>6
<1>8. Total(t) \in Nat
  BY <1>6, <1>7
<1> HIDE DEF t
<1>9. Total(s) \in Nat
  BY <1>4, <1>5, <1>8, PointsAreNatural
<1> QED BY <1>9

(* It is the points of any one result and the sum of the others. *)
LEMMA TotalRemoves ==
    ASSUME NEW S, IsFiniteSet(S), NEW y \in S
    PROVE  Total(S) = PointsForResult(y) + Total(S \ {y})
<1> DEFINE Fails(s) == \E z \in s : Total(s) # PointsForResult(z) + Total(s \ {z})
           F == {s \in SUBSET S : Fails(s)}
<1>1. SUFFICES ASSUME F # {} PROVE FALSE
  OBVIOUS
<1>2. \A s \in SUBSET S : IsFiniteSet(s) /\ Cardinality(s) \in Nat /\ Total(s) \in Nat
  BY FS_Subset, FS_CardinalityType, TotalIsNatural
<1>3. PICK s \in F : \A t \in F : Cardinality(s) <= Cardinality(t)
  <2>1. \A s \in F : IsFiniteSet(s)
    BY <1>2
  <2> HIDE DEF F
  <2> QED BY <1>1, <2>1, SmallestSet
<1>4. PICK z \in s : Total(s) # PointsForResult(z) + Total(s \ {z})
  BY <1>3
<1> DEFINE x == Pick(s)
<1>5. /\ s \subseteq S /\ x \in s
      /\ Total(s) = PointsForResult(x) + Total(s \ {x})
  BY <1>2, <1>4, PickOne, TotalUnfolds
<1>6. x # z
  BY <1>4, <1>5
<1>7. ASSUME NEW u \in s PROVE s \ {u} \in SUBSET S /\ ~Fails(s \ {u})
  <2>1. /\ s \ {u} \in SUBSET S
        /\ Cardinality(s \ {u}) = Cardinality(s) - 1
    BY <1>2, <1>5, FS_RemoveElement
  <2>2. s \ {u} \notin F
    <3> HIDE DEF F
    <3> QED BY <1>2, <1>3, <1>5, <2>1
  <2> QED BY <2>1, <2>2
<1>8. Total(s \ {x}) = PointsForResult(z) + Total((s \ {x}) \ {z})
  BY <1>4, <1>5, <1>6, <1>7
<1>9. Total(s \ {z}) = PointsForResult(x) + Total((s \ {z}) \ {x})
  BY <1>4, <1>5, <1>6, <1>7
<1>10. Total((s \ {x}) \ {z}) = Total((s \ {z}) \ {x})
  <2>1. (s \ {x}) \ {z} = (s \ {z}) \ {x}
    OBVIOUS
  <2> QED BY <2>1
<1>11. /\ Total((s \ {z}) \ {x}) \in Nat
       /\ PointsForResult(x) \in Nat /\ PointsForResult(z) \in Nat
  BY <1>2, <1>5, PointsAreNatural
<1> HIDE DEF x, F, Fails
<1> QED BY <1>4, <1>5, <1>8, <1>9, <1>10, <1>11

(* The sum over two sets that share nothing is the sum of their sums. *)
LEMMA TotalOfUnion ==
    ASSUME NEW A, NEW B, IsFiniteSet(A), IsFiniteSet(B), A \cap B = {}
    PROVE  Total(A \cup B) = Total(A) + Total(B)
<1> DEFINE F == {b \in SUBSET B : Total(A \cup b) # Total(A) + Total(b)}
<1>1. SUFFICES ASSUME F # {} PROVE FALSE
  OBVIOUS
<1>2. \A b \in SUBSET B : /\ IsFiniteSet(b) /\ Cardinality(b) \in Nat /\ Total(b) \in Nat
                          /\ IsFiniteSet(A \cup b) /\ Total(A) \in Nat
  BY FS_Subset, FS_CardinalityType, FS_Union, TotalIsNatural
<1>3. PICK b \in F : \A c \in F : Cardinality(b) <= Cardinality(c)
  <2>1. \A b \in F : IsFiniteSet(b)
    BY <1>2
  <2> HIDE DEF F
  <2> QED BY <1>1, <2>1, SmallestSet
<1>4. b # {}
  <2>1. Total({}) = 0
    BY FS_EmptySet, TotalUnfolds
  <2>2. A \cup {} = A
    OBVIOUS
  <2>3. Total(A) \in Nat
    BY <1>2
  <2>4. Total(A \cup {}) = Total(A) + Total({})
    BY <2>1, <2>2, <2>3
  <2> QED BY <1>3, <2>4
<1>5. PICK y \in b : TRUE
  BY <1>4
<1> DEFINE c == b \ {y}
<1>6. c \in SUBSET B /\ Cardinality(c) = Cardinality(b) - 1
  BY <1>2, <1>5, FS_RemoveElement
<1>7. c \notin F
  <2> HIDE DEF F
  <2>1. Cardinality(b) \in Nat
    BY <1>2, <1>3 DEF F
  <2> QED BY <1>3, <1>6, <2>1
<1>8. Total(A \cup c) = Total(A) + Total(c)
  BY <1>6, <1>7
<1>9. Total(b) = PointsForResult(y) + Total(c)
  BY <1>2, TotalRemoves
<1>10. (A \cup b) \ {y} = A \cup c
  OBVIOUS
<1>11. Total(A \cup b) = PointsForResult(y) + Total(A \cup c)
  BY <1>2, <1>10, TotalRemoves
<1>12. /\ Total(A) \in Nat /\ Total(c) \in Nat /\ PointsForResult(y) \in Nat
       /\ Total(A \cup b) # Total(A) + Total(b)
  BY <1>2, <1>6, PointsAreNatural
<1> HIDE DEF c, F
<1> QED BY <1>8, <1>9, <1>11, <1>12

-----------------------------------------------------------------------------
(* A participant's results of some completed races, and the races of a book. *)
Won(book, participant, races) ==
    {r \in book : r.of = participant /\ r.race \in races /\ r.completed}

RacesOf(book) == {r.race : r \in book}

(* The points of one race more. *)
LEMMA RacesAdd ==
    ASSUME NEW book, IsFiniteSet(book), NEW p, NEW races, NEW race, race \notin races
    PROVE  /\ Total(Won(book, p, races \cup {race}))
                = Total(Won(book, p, races)) + Total(Won(book, p, {race}))
           /\ Total(Won(book, p, races)) \in Nat
           /\ Total(Won(book, p, {race})) \in Nat
<1> DEFINE A == Won(book, p, races)
           B == Won(book, p, {race})
<1>1. A \subseteq book /\ B \subseteq book /\ A \cap B = {}
  BY DEF Won
<1>2. Won(book, p, races \cup {race}) = A \cup B
  BY DEF Won
<1>3. IsFiniteSet(A) /\ IsFiniteSet(B)
  BY <1>1, FS_Subset
<1> HIDE DEF A, B
<1>4. Total(A \cup B) = Total(A) + Total(B) /\ Total(A) \in Nat /\ Total(B) \in Nat
  BY <1>1, <1>3, TotalOfUnion, TotalIsNatural
<1> QED BY <1>2, <1>4 DEF A, B

(* Race by race the points of one are no less than the other's: then so is   *)
(* their sum over any number of races.                                       *)
LEMMA PointsAddUp ==
    ASSUME NEW book, IsFiniteSet(book), NEW i, NEW j, NEW races, IsFiniteSet(races),
           \A race \in races : Total(Won(book, i, {race})) >= Total(Won(book, j, {race}))
    PROVE  Total(Won(book, i, races)) >= Total(Won(book, j, races))
<1> DEFINE Less(s) == ~(Total(Won(book, i, s)) >= Total(Won(book, j, s)))
           F == {s \in SUBSET races : Less(s)}
<1>1. SUFFICES ASSUME F # {} PROVE FALSE
  OBVIOUS
<1>2. \A s \in SUBSET races : IsFiniteSet(s) /\ Cardinality(s) \in Nat
  BY FS_Subset, FS_CardinalityType
<1>3. PICK s \in F : \A t \in F : Cardinality(s) <= Cardinality(t)
  <2>1. \A t \in F : IsFiniteSet(t)
    BY <1>2
  <2> HIDE DEF F
  <2> QED BY <1>1, <2>1, SmallestSet
<1>4. s \in SUBSET races /\ Less(s)
  BY <1>3
<1>5. s # {}
  <2>1. SUFFICES ASSUME s = {} PROVE FALSE
    OBVIOUS
  <2>2. Won(book, i, s) = {} /\ Won(book, j, s) = {}
    BY <2>1 DEF Won
  <2>3. Total({}) \in Nat
    BY FS_EmptySet, TotalIsNatural
  <2> HIDE DEF F
  <2> QED BY <1>4, <2>2, <2>3
<1>6. PICK race \in s : TRUE
  BY <1>5
<1> DEFINE t == s \ {race}
<1>7. t \in SUBSET races /\ Cardinality(t) = Cardinality(s) - 1
  BY <1>2, <1>4, <1>6, FS_RemoveElement
<1>8. t \notin F
  <2> HIDE DEF F
  <2> QED BY <1>2, <1>3, <1>4, <1>7
<1>9. ~Less(t)
  BY <1>7, <1>8
<1>10. t \cup {race} = s /\ race \notin t
  BY <1>6
<1> HIDE DEF F, t
<1>11. ASSUME NEW p
       PROVE  /\ Total(Won(book, p, s)) = Total(Won(book, p, t)) + Total(Won(book, p, {race}))
              /\ Total(Won(book, p, t)) \in Nat
              /\ Total(Won(book, p, {race})) \in Nat
  <2>1. /\ Total(Won(book, p, t \cup {race}))
             = Total(Won(book, p, t)) + Total(Won(book, p, {race}))
        /\ Total(Won(book, p, t)) \in Nat
        /\ Total(Won(book, p, {race})) \in Nat
    <3> HIDE DEF Less
    <3> QED BY <1>10, RacesAdd
  <2> QED BY <1>10, <2>1
<1>12. Total(Won(book, i, {race})) >= Total(Won(book, j, {race}))
  BY <1>4, <1>6
<1> QED BY <1>4, <1>9, <1>11, <1>12

(* And more in one race is more in all. *)
LEMMA PointsDecide ==
    ASSUME NEW book, IsFiniteSet(book), NEW i, NEW j, NEW races, IsFiniteSet(races),
           \A race \in races : Total(Won(book, i, {race})) >= Total(Won(book, j, {race})),
           NEW race \in races, Total(Won(book, i, {race})) > Total(Won(book, j, {race}))
    PROVE  Total(Won(book, i, races)) > Total(Won(book, j, races))
<1> DEFINE t == races \ {race}
<1>1. IsFiniteSet(t) /\ t \cup {race} = races /\ race \notin t /\ t \subseteq races
  BY FS_Subset
<1> HIDE DEF t
<1>2. Total(Won(book, i, t)) >= Total(Won(book, j, t))
  BY <1>1, PointsAddUp
<1>3. ASSUME NEW p
      PROVE  /\ Total(Won(book, p, races)) = Total(Won(book, p, t)) + Total(Won(book, p, {race}))
             /\ Total(Won(book, p, t)) \in Nat
             /\ Total(Won(book, p, {race})) \in Nat
  BY <1>1, RacesAdd
<1> QED BY <1>2, <1>3

-----------------------------------------------------------------------------
(* A book as the database holds it. *)
Proper(book) ==
    /\ IsFiniteSet(book)
    /\ \A r \in book : r.status = "FINISHED" => r.time \in Nat

(* Its races and those who take part are finite in number. *)
LEMMA BookIsFinite ==
    ASSUME NEW book, Proper(book)
    PROVE  IsFiniteSet(RacesOf(book)) /\ IsFiniteSet(Participants(book))
<1>1. IsFiniteSet(book) /\ IsFiniteSet(CompletedResults(book))
  BY FS_Subset DEF Proper, CompletedResults
<1>2. IsFiniteSet(RacesOf(book))
  <2> DEFINE f == [r \in book |-> r.race]
  <2>1. f \in Surjection(book, RacesOf(book))
    BY DEF Surjection, RacesOf
  <2> QED BY <1>1, <2>1, FS_Surjection
<1>3. IsFiniteSet(Participants(book))
  <2> DEFINE f == [r \in CompletedResults(book) |-> r.of]
  <2>1. f \in Surjection(CompletedResults(book), Participants(book))
    BY DEF Surjection, Participants
  <2> QED BY <1>1, <2>1, FS_Surjection
<1> QED BY <1>2, <1>3

(* The points of an aggregated row are those of all races. *)
LEMMA AggregatedPoints ==
    ASSUME NEW book, NEW p
    PROVE  Aggregated(book, p).points = Total(Won(book, p, RacesOf(book)))
<1>1. {r \in CompletedResults(book) : r.of = p} = Won(book, p, RacesOf(book))
  BY DEF CompletedResults, Won, RacesOf
<1> QED BY <1>1 DEF Aggregated, Total

(* The best time of a row is a number or missing. *)
LEMMA BestIsTime ==
    ASSUME NEW book, Proper(book), NEW p
    PROVE  Aggregated(book, p).best \subseteq Nat
<1> DEFINE own == {r \in CompletedResults(book) : r.of = p}
           finished == {r \in own : r.status = "FINISHED"}
           times == {r.time : r \in finished}
<1>1. CASE finished = {}
  BY <1>1 DEF Aggregated
<1>2. CASE finished # {}
  <2>1. times \subseteq Nat /\ times # {}
    BY <1>2 DEF Proper, CompletedResults
  <2>2. Min(times) \in times
    <3> HIDE DEF times
    <3>1. \E n \in times : \A m \in times : n <= m
      BY <2>1, LeastNatural
    <3> QED BY <3>1 DEF Min
  <2>3. Aggregated(book, p).best = {Min(times)}
    BY <1>2 DEF Aggregated
  <2> HIDE DEF times
  <2> QED BY <2>1, <2>2, <2>3
<1> QED BY <1>1, <1>2

(* A row of the standings counts in naturals. *)
LEMMA AggregatedTypes ==
    ASSUME NEW book, Proper(book), NEW p
    PROVE  LET row == Aggregated(book, p)
           IN  /\ row.points \in Nat /\ row.wins \in Nat /\ row.seconds \in Nat
               /\ row.completed \in Nat /\ row.best \subseteq Nat
<1> DEFINE own == {r \in CompletedResults(book) : r.of = p}
           finished == {r \in own : r.status = "FINISHED"}
           placed(n) == {r \in finished : r.position = n}
<1>1. IsFiniteSet(book)
  BY DEF Proper
<1>2. /\ finished \subseteq book
      /\ \A n : placed(n) \subseteq book
      /\ Won(book, p, RacesOf(book)) \subseteq book
  BY DEF CompletedResults, Won
<1>3. /\ Aggregated(book, p).wins = Cardinality(placed(1))
      /\ Aggregated(book, p).seconds = Cardinality(placed(2))
      /\ Aggregated(book, p).completed = Cardinality(finished)
  BY DEF Aggregated
<1> HIDE DEF finished, placed
<1>4. \A s \in SUBSET book : IsFiniteSet(s) /\ Cardinality(s) \in Nat
  BY <1>1, FS_Subset, FS_CardinalityType
<1>5. Total(Won(book, p, RacesOf(book))) \in Nat
  BY <1>2, <1>4, TotalIsNatural
<1> QED BY <1>2, <1>3, <1>4, <1>5, AggregatedPoints, BestIsTime

(* No row stands above itself. *)
LEMMA NeverAboveItself ==
    ASSUME NEW a, a.points \in Nat, a.wins \in Nat, a.seconds \in Nat, a.completed \in Nat,
           a.best \subseteq Nat
    PROVE  ~RankedAbove(a, a)
<1>1. ~TimeBefore(a.best, a.best)
  BY DEF TimeBefore
<1> QED BY <1>1 DEF RankedAbove

(* One with more points stands above another, as does every row above it.    *)
LEMMA AboveByPoints ==
    ASSUME NEW a, NEW b, a.points \in Nat, b.points \in Nat, a.points > b.points
    PROVE  /\ RankedAbove(a, b)
           /\ \A c : c.points \in Nat /\ RankedAbove(c, a) => RankedAbove(c, b)
BY DEF RankedAbove

(* The position of a participant is better than that of another when it won  *)
(* no fewer points in any completed race, and more in one.                   *)
THEOREM MorePointsRankHigher ==
    ASSUME NEW book, Proper(book),
           NEW i \in Participants(book), NEW j \in Participants(book),
           \A race \in RacesOf(book) :
              Total(Won(book, i, {race})) >= Total(Won(book, j, {race})),
           \E race \in RacesOf(book) :
              Total(Won(book, i, {race})) > Total(Won(book, j, {race}))
    PROVE  DenseRank(book, Participants(book), i) < DenseRank(book, Participants(book), j)
<1> DEFINE P == Participants(book)
           score == [p \in P |-> Aggregated(book, p)]
           Above(q) == {score[p] : p \in {p \in P : RankedAbove(score[p], score[q])}}
<1>1. IsFiniteSet(book) /\ IsFiniteSet(RacesOf(book)) /\ IsFiniteSet(P)
  BY BookIsFinite DEF Proper
<1>2. Total(Won(book, i, RacesOf(book))) > Total(Won(book, j, RacesOf(book)))
  BY <1>1, PointsDecide
<1>3. \A p \in P : /\ score[p].points \in Nat /\ score[p].wins \in Nat
                    /\ score[p].seconds \in Nat /\ score[p].completed \in Nat
                    /\ score[p].best \subseteq Nat
  BY AggregatedTypes
<1>4. score[i].points > score[j].points
  BY <1>2, AggregatedPoints
<1>5. \A q \in P : DenseRank(book, P, q) = Cardinality(Above(q)) + 1
  BY DEF DenseRank
<1> HIDE DEF score
<1>6. \A p \in P : RankedAbove(score[p], score[i]) => RankedAbove(score[p], score[j])
  BY <1>3, <1>4, AboveByPoints
<1>7. Above(i) \subseteq Above(j)
  BY <1>6
<1>8. score[i] \in Above(j)
  BY <1>3, <1>4, AboveByPoints
<1>9. score[i] \notin Above(i)
  BY <1>3, NeverAboveItself
<1>10. \A q : IsFiniteSet(Above(q))
  <2> SUFFICES ASSUME NEW q PROVE IsFiniteSet(Above(q))
    OBVIOUS
  <2> DEFINE A == {p \in P : RankedAbove(score[p], score[q])}
             f == [p \in A |-> score[p]]
  <2>1. IsFiniteSet(A)
    BY <1>1, FS_Subset
  <2>2. f \in Surjection(A, Above(q))
    BY DEF Surjection
  <2> HIDE DEF A
  <2> QED BY <2>1, <2>2, FS_Surjection
<1> HIDE DEF Above, P
<1>11. /\ Cardinality(Above(i)) \in Nat /\ Cardinality(Above(j)) \in Nat
       /\ Cardinality(Above(i)) <= Cardinality(Above(j))
       /\ Cardinality(Above(i)) # Cardinality(Above(j))
  BY <1>7, <1>8, <1>9, <1>10, FS_Subset, FS_CardinalityType
<1>12. DenseRank(book, P, i) < DenseRank(book, P, j)
  <2>1. i \in P /\ j \in P
    BY DEF P
  <2> QED BY <1>5, <1>11, <2>1
<1> QED BY <1>12 DEF P
=============================================================================
