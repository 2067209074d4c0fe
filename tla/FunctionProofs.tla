--------------------------- MODULE FunctionProofs ---------------------------
(***************************************************************************)
(* What the functions of the code compute, whatever state they are called  *)
(* in: PointsCalculator against PointsRules for every table.  First two    *)
(* principles of induction, over a set and not over a predicate, so that   *)
(* they can be cited; and the sums of the community modules.               *)
(***************************************************************************)
EXTENDS PointsCalculator, PointsRules, FiniteSetTheorems, WellFoundedInduction,
        TLAPS

(* A set of numbers that is not empty has a least one. *)
LEMMA LeastNumber ==
  ASSUME NEW T, T \subseteq Nat, T # {}
  PROVE  \E n \in T : \A m \in T : n <= m
  <1> DEFINE R == OpToRel(<, Nat)
  <1>1. IsWellFoundedOn(R, Nat)
    BY NatLessThanWellFounded, Zenon
  <1>2. \A m, n \in Nat : m < n => <<m, n>> \in R
    BY DEF OpToRel
  <1> HIDE DEF R
  <1>3. PICK n \in T : \A m \in T : ~(<<m, n>> \in R)
    BY <1>1, WFMin, Zenon
  <1>4. \A m \in T : m \in Nat /\ n \in Nat /\ ~(m < n)
    BY <1>2, <1>3
  <1> QED
    BY <1>3, <1>4

(* Induction over the numbers, of a set instead of a predicate. *)
LEMMA Counting ==
  ASSUME NEW S, 0 \in S, \A n \in Nat : n \in S => n + 1 \in S
  PROVE  Nat \subseteq S
  <1> SUFFICES ASSUME Nat \ S # {}
               PROVE  FALSE
    OBVIOUS
  <1>1. PICK n \in Nat \ S : \A m \in Nat \ S : n <= m
    BY LeastNumber, Zenon
  <1>2. n - 1 \in Nat /\ n - 1 \notin Nat \ S
    BY <1>1
  <1> QED
    BY <1>1, <1>2

(* The same over the subsets of a finite set. *)
LEMMA Gathering ==
  ASSUME NEW S, IsFiniteSet(S), NEW Good, {} \in Good,
         \A T \in SUBSET S : \A x \in S \ T : T \in Good => T \cup {x} \in Good
  PROVE  SUBSET S \subseteq Good
  <1> DEFINE Done == {n \in Nat : \A T \in SUBSET S : Cardinality(T) = n => T \in Good}
  <1>1. \A T \in SUBSET S : IsFiniteSet(T) /\ Cardinality(T) \in Nat
    BY FS_Subset, FS_CardinalityType
  <1>2. 0 \in Done
    BY <1>1, FS_EmptySet
  <1>3. ASSUME NEW n \in Nat, n \in Done
        PROVE  n + 1 \in Done
    <2> SUFFICES ASSUME NEW T \in SUBSET S, Cardinality(T) = n + 1
                 PROVE  T \in Good
      OBVIOUS
    <2>1. PICK x \in T : TRUE
      BY <1>1, FS_EmptySet
    <2>2. Cardinality(T \ {x}) = n
      <3>1. IsFiniteSet(T) /\ x \in T
        BY <1>1, <2>1
      <3>2. Cardinality(T \ {x}) = Cardinality(T) - 1
        BY <3>1, FS_RemoveElement
      <3> QED
        BY <3>2
    <2>3. T \ {x} \in Good
      BY <1>3, <2>2
    <2>4. (T \ {x}) \cup {x} \in Good
      BY <2>1, <2>3
    <2>5. (T \ {x}) \cup {x} = T
      BY <2>1
    <2> QED
      BY <2>4, <2>5
  <1>4. Nat \subseteq Done
    <2> HIDE DEF Done
    <2> QED
      BY <1>2, <1>3, Counting
  <1> QED
    BY <1>1, <1>4
-----------------------------------------------------------------------------
(* SumFunctionOnSet takes the elements one by one, in the order CHOOSE has *)
(* them, with the sums of all the subsets as a recursive function.         *)
AnyOf(S) == CHOOSE x \in S : TRUE
NextSum(g, fun, T) == IF T = {} THEN 0 ELSE fun[AnyOf(T)] + g[T \ {AnyOf(T)}]
Adds(g, fun, S) == g = [T \in SUBSET S |-> NextSum(g, fun, T)]

LEMMA SumIsChosen ==
  ASSUME NEW fun, NEW S
  PROVE  SumFunctionOnSet(fun, S) = (CHOOSE g : Adds(g, fun, S))[S]
  BY DEF SumFunctionOnSet, FoldFunctionOnSet, MapThenFoldSet, Adds, NextSum, AnyOf

LEMMA AnyIsOne ==
  ASSUME NEW S, S # {}
  PROVE  AnyOf(S) \in S
  BY DEF AnyOf

LEMMA SumsExist ==
  ASSUME NEW S, IsFiniteSet(S), NEW fun
  PROVE  \E g : Adds(g, fun, S)
  <1> DEFINE Small(n) == {T \in SUBSET S : Cardinality(T) <= n}
             Upto(g, n) == g = [T \in Small(n) |-> NextSum(g, fun, T)]
             Done == {n \in Nat : \E g : Upto(g, n)}
  <1>1. \A T \in SUBSET S : IsFiniteSet(T) /\ Cardinality(T) \in Nat
    BY FS_Subset, FS_CardinalityType
  <1>2. 0 \in Done
    <2>1. \A T \in Small(0) : T = {}
      BY <1>1, FS_EmptySet
    <2>2. Upto([T \in Small(0) |-> 0], 0)
      BY <2>1 DEF NextSum
    <2> QED
      BY <2>2
  <1>3. ASSUME NEW n \in Nat, n \in Done
        PROVE  n + 1 \in Done
    <2>1. PICK g : Upto(g, n)
      BY <1>3
    <2> DEFINE h == [T \in Small(n + 1) |-> NextSum(g, fun, T)]
    <2>2. \A T \in Small(n) : T \in Small(n + 1) /\ h[T] = g[T]
      <3>1. \A T \in Small(n) : T \in Small(n + 1)
        BY <1>1
      <3>2. \A T \in Small(n) : g[T] = NextSum(g, fun, T)
        BY <2>1
      <3> QED
        BY <3>1, <3>2
    <2>3. \A T \in Small(n + 1) : T # {} => T \ {AnyOf(T)} \in Small(n)
      <3> SUFFICES ASSUME NEW T \in Small(n + 1), T # {}
                   PROVE  T \ {AnyOf(T)} \in Small(n)
        OBVIOUS
      <3>1. Cardinality(T \ {AnyOf(T)}) = Cardinality(T) - 1
        BY <1>1, AnyIsOne, FS_RemoveElement
      <3> QED
        BY <1>1, <3>1
    <2>4. \A T \in Small(n + 1) : NextSum(g, fun, T) = NextSum(h, fun, T)
      <3> HIDE DEF h, Small
      <3> QED
        BY <2>2, <2>3 DEF NextSum
    <2>5. Upto(h, n + 1)
      BY <2>4
    <2> HIDE DEF h, Upto
    <2> QED
      BY <2>5
  <1>4. Nat \subseteq Done
    <2> HIDE DEF Done
    <2> QED
      BY <1>2, <1>3, Counting
  <1>5. Cardinality(S) \in Nat /\ Small(Cardinality(S)) = SUBSET S
    BY <1>1, FS_Subset
  <1>6. PICK g : Upto(g, Cardinality(S))
    BY <1>4, <1>5
  <1> QED
    BY <1>5, <1>6 DEF Adds

LEMMA SumsAgree ==
  ASSUME NEW S, IsFiniteSet(S), NEW R \in SUBSET S, NEW fun, NEW g, NEW h,
         Adds(g, fun, S), Adds(h, fun, R)
  PROVE  \A T \in SUBSET R : g[T] = h[T]
  <1> DEFINE Done == {n \in Nat : \A T \in SUBSET R :
                                      Cardinality(T) <= n => g[T] = h[T]}
  <1>1. \A T \in SUBSET R : IsFiniteSet(T) /\ Cardinality(T) \in Nat
    BY FS_Subset, FS_CardinalityType
  <1>2. \A T \in SUBSET R : g[T] = NextSum(g, fun, T) /\ h[T] = NextSum(h, fun, T)
    BY DEF Adds
  <1>3. 0 \in Done
    <2>1. \A T \in SUBSET R : Cardinality(T) <= 0 => T = {}
      BY <1>1, FS_EmptySet
    <2> QED
      BY <1>2, <2>1 DEF NextSum
  <1>4. ASSUME NEW n \in Nat, n \in Done
        PROVE  n + 1 \in Done
    <2> SUFFICES ASSUME NEW T \in SUBSET R, Cardinality(T) <= n + 1, T # {}
                 PROVE  g[T] = h[T]
      BY <1>2 DEF NextSum
    <2>1. Cardinality(T \ {AnyOf(T)}) = Cardinality(T) - 1
      BY <1>1, AnyIsOne, FS_RemoveElement
    <2>2. T \ {AnyOf(T)} \in SUBSET R /\ Cardinality(T \ {AnyOf(T)}) <= n
      BY <1>1, <2>1
    <2>3. g[T \ {AnyOf(T)}] = h[T \ {AnyOf(T)}]
      BY <1>4, <2>2
    <2> QED
      BY <1>2, <2>3 DEF NextSum
  <1>5. Nat \subseteq Done
    <2> HIDE DEF Done
    <2> QED
      BY <1>3, <1>4, Counting
  <1> QED
    BY <1>1, <1>5

LEMMA SumUnfolds ==
  ASSUME NEW S, IsFiniteSet(S), NEW fun
  PROVE  SumFunctionOnSet(fun, S) =
            IF S = {} THEN 0
            ELSE fun[AnyOf(S)] + SumFunctionOnSet(fun, S \ {AnyOf(S)})
  <1> DEFINE g == CHOOSE f : Adds(f, fun, S)
             R == S \ {AnyOf(S)}
             h == CHOOSE f : Adds(f, fun, R)
  <1>1. IsFiniteSet(R) /\ R \in SUBSET S
    BY FS_Subset
  <1>2. Adds(g, fun, S) /\ Adds(h, fun, R)
    BY <1>1, SumsExist
  <1>3. SumFunctionOnSet(fun, S) = g[S] /\ SumFunctionOnSet(fun, R) = h[R]
    BY SumIsChosen
  <1> HIDE DEF g, h
  <1>4. g[R] = h[R]
    BY <1>1, <1>2, SumsAgree
  <1>5. g[S] = NextSum(g, fun, S)
    BY <1>2 DEF Adds
  <1> QED
    BY <1>3, <1>4, <1>5 DEF NextSum

LEMMA SumOfNone ==
  ASSUME NEW fun
  PROVE  SumFunctionOnSet(fun, {}) = 0
  BY FS_EmptySet, SumUnfolds

LEMMA SumIsInt ==
  ASSUME NEW S, IsFiniteSet(S), NEW fun, \A x \in S : fun[x] \in Int
  PROVE  \A T \in SUBSET S : SumFunctionOnSet(fun, T) \in Int
  <1> DEFINE Done == {n \in Nat : \A T \in SUBSET S :
                         Cardinality(T) <= n => SumFunctionOnSet(fun, T) \in Int}
  <1>1. \A T \in SUBSET S : IsFiniteSet(T) /\ Cardinality(T) \in Nat
    BY FS_Subset, FS_CardinalityType
  <1>2. 0 \in Done
    <2>1. \A T \in SUBSET S : Cardinality(T) <= 0 => T = {}
      BY <1>1, FS_EmptySet
    <2> QED
      BY <2>1, SumOfNone
  <1>3. ASSUME NEW n \in Nat, n \in Done
        PROVE  n + 1 \in Done
    <2> SUFFICES ASSUME NEW T \in SUBSET S, Cardinality(T) <= n + 1, T # {}
                 PROVE  SumFunctionOnSet(fun, T) \in Int
      BY SumOfNone
    <2>1. AnyOf(T) \in T /\ IsFiniteSet(T) /\ fun[AnyOf(T)] \in Int
      BY <1>1, AnyIsOne
    <2>2. Cardinality(T \ {AnyOf(T)}) = Cardinality(T) - 1
      BY <2>1, FS_RemoveElement
    <2>3. T \ {AnyOf(T)} \in SUBSET S /\ Cardinality(T \ {AnyOf(T)}) <= n
      BY <1>1, <2>2
    <2>4. SumFunctionOnSet(fun, T \ {AnyOf(T)}) \in Int
      BY <1>3, <2>3
    <2>5. SumFunctionOnSet(fun, T) =
             fun[AnyOf(T)] + SumFunctionOnSet(fun, T \ {AnyOf(T)})
      BY <2>1, SumUnfolds, Zenon
    <2> HIDE DEF Done
    <2> QED
      BY <2>1, <2>4, <2>5
  <1>4. Nat \subseteq Done
    <2> HIDE DEF Done
    <2> QED
      BY <1>2, <1>3, Counting
  <1> QED
    BY <1>1, <1>4

(* Any element may be taken out of a sum first. *)
LEMMA SumTakesOut ==
  ASSUME NEW S, IsFiniteSet(S), NEW fun, \A x \in S : fun[x] \in Int, NEW x \in S
  PROVE  SumFunctionOnSet(fun, S) = fun[x] + SumFunctionOnSet(fun, S \ {x})
  <1> DEFINE Sum(T) == SumFunctionOnSet(fun, T)
             Splits(T) == \A y \in T : Sum(T) = fun[y] + Sum(T \ {y})
             Done == {n \in Nat : \A T \in SUBSET S :
                                      Cardinality(T) <= n => Splits(T)}
  <1>1. \A T \in SUBSET S : IsFiniteSet(T) /\ Cardinality(T) \in Nat
    BY FS_Subset, FS_CardinalityType
  <1>2. \A T \in SUBSET S : Sum(T) \in Int
    BY SumIsInt
  <1>3. \A T \in SUBSET S : T # {} => Sum(T) = fun[AnyOf(T)] + Sum(T \ {AnyOf(T)})
    BY <1>1, SumUnfolds
  <1> HIDE DEF Sum
  <1>4. 0 \in Done
    <2>1. \A T \in SUBSET S : Cardinality(T) <= 0 => T = {}
      BY <1>1, FS_EmptySet
    <2> QED
      BY <2>1
  <1>5. ASSUME NEW n \in Nat, n \in Done
        PROVE  n + 1 \in Done
    <2> SUFFICES ASSUME NEW T \in SUBSET S, Cardinality(T) <= n + 1, NEW y \in T
                 PROVE  Sum(T) = fun[y] + Sum(T \ {y})
      OBVIOUS
    <2> DEFINE a == AnyOf(T)
    <2>1. a \in T
      BY AnyIsOne
    <2> HIDE DEF a
    <2>2. Sum(T) = fun[a] + Sum(T \ {a})
      BY <1>3 DEF a
    <2>3. CASE y = a
      BY <2>2, <2>3
    <2>4. CASE y # a
      <3>1. \A z \in T : T \ {z} \in SUBSET S /\ Cardinality(T \ {z}) <= n
        <4>1. \A z \in T : Cardinality(T \ {z}) = Cardinality(T) - 1
          BY <1>1, FS_RemoveElement
        <4> QED
          BY <1>1, <4>1
      <3>2. \A z \in T : Splits(T \ {z})
        BY <1>5, <3>1
      <3>3. /\ Sum(T \ {a}) = fun[y] + Sum((T \ {a}) \ {y})
            /\ Sum(T \ {y}) = fun[a] + Sum((T \ {y}) \ {a})
        BY <2>1, <2>4, <3>2
      <3>4. (T \ {a}) \ {y} = (T \ {y}) \ {a}
        OBVIOUS
      <3>5. /\ fun[a] \in Int /\ fun[y] \in Int
            /\ Sum((T \ {y}) \ {a}) \in Int
        BY <1>2, <2>1
      <3>6. Sum(T) = fun[a] + (fun[y] + Sum((T \ {y}) \ {a}))
        BY <2>2, <3>3, <3>4
      <3> HIDE DEF Done, Splits
      <3>7. Sum(T) = fun[y] + (fun[a] + Sum((T \ {y}) \ {a}))
        BY <3>5, <3>6
      <3> QED
        BY <3>3, <3>7
    <2> QED
      BY <2>3, <2>4
  <1>6. Nat \subseteq Done
    <2> HIDE DEF Done
    <2> QED
      BY <1>4, <1>5, Counting
  <1> QED
    BY <1>1, <1>6 DEF Sum

LEMMA SumTakesIn ==
  ASSUME NEW S, IsFiniteSet(S), NEW x, x \notin S,
         NEW fun, \A y \in S \cup {x} : fun[y] \in Int
  PROVE  SumFunctionOnSet(fun, S \cup {x}) = fun[x] + SumFunctionOnSet(fun, S)
  <1>1. IsFiniteSet(S \cup {x}) /\ (S \cup {x}) \ {x} = S
    BY FS_AddElement
  <1> QED
    BY <1>1, SumTakesOut

(* What is added does not depend on what the function is elsewhere. *)
LEMMA SumOfSame ==
  ASSUME NEW S, IsFiniteSet(S), NEW fun, NEW other, \A x \in S : fun[x] = other[x],
         \A x \in S : fun[x] \in Int
  PROVE  SumFunctionOnSet(fun, S) = SumFunctionOnSet(other, S)
  <1> DEFINE Good == {T \in SUBSET S :
                      SumFunctionOnSet(fun, T) = SumFunctionOnSet(other, T)}
  <1>1. {} \in Good
    BY SumOfNone
  <1>2. ASSUME NEW T \in SUBSET S, NEW x \in S \ T, T \in Good
        PROVE  T \cup {x} \in Good
    <2>1. IsFiniteSet(T)
      BY FS_Subset
    <2>2. /\ SumFunctionOnSet(fun, T \cup {x}) = fun[x] + SumFunctionOnSet(fun, T)
          /\ SumFunctionOnSet(other, T \cup {x}) = other[x] + SumFunctionOnSet(other, T)
      BY <2>1, SumTakesIn
    <2> QED
      BY <1>2, <2>2
  <1>3. SUBSET S \subseteq Good
    <2> HIDE DEF Good
    <2> QED
      BY <1>1, <1>2, Gathering
  <1> QED
    BY <1>3

(* The sum over two sets that are apart. *)
LEMMA SumOfBoth ==
  ASSUME NEW S, IsFiniteSet(S), NEW R, IsFiniteSet(R), S \cap R = {},
         NEW fun, \A x \in S \cup R : fun[x] \in Int
  PROVE  SumFunctionOnSet(fun, S \cup R) =
            SumFunctionOnSet(fun, S) + SumFunctionOnSet(fun, R)
  <1> DEFINE Good == {T \in SUBSET S : SumFunctionOnSet(fun, T \cup R) =
                      SumFunctionOnSet(fun, T) + SumFunctionOnSet(fun, R)}
  <1>0. SumFunctionOnSet(fun, R) \in Int
    BY SumIsInt
  <1>1. {} \in Good
    BY <1>0, SumOfNone
  <1>2. ASSUME NEW T \in SUBSET S, NEW x \in S \ T, T \in Good
        PROVE  T \cup {x} \in Good
    <2>1. IsFiniteSet(T) /\ IsFiniteSet(T \cup R)
      BY FS_Subset, FS_Union
    <2>2. /\ SumFunctionOnSet(fun, T \cup {x}) = fun[x] + SumFunctionOnSet(fun, T)
          /\ SumFunctionOnSet(fun, (T \cup R) \cup {x})
                = fun[x] + SumFunctionOnSet(fun, T \cup R)
      BY <2>1, SumTakesIn
    <2>3. (T \cup R) \cup {x} = (T \cup {x}) \cup R
      OBVIOUS
    <2>4. SumFunctionOnSet(fun, T) \in Int /\ fun[x] \in Int
      BY SumIsInt
    <2>5. SumFunctionOnSet(fun, T \cup R) =
             SumFunctionOnSet(fun, T) + SumFunctionOnSet(fun, R)
      BY <1>2
    <2>6. SumFunctionOnSet(fun, (T \cup {x}) \cup R) =
             fun[x] + (SumFunctionOnSet(fun, T) + SumFunctionOnSet(fun, R))
      BY <2>2, <2>3, <2>5, Zenon
    <2>7. SumFunctionOnSet(fun, (T \cup {x}) \cup R) =
             (fun[x] + SumFunctionOnSet(fun, T)) + SumFunctionOnSet(fun, R)
      BY <1>0, <2>4, <2>6
    <2> QED
      BY <2>2, <2>7
  <1>3. SUBSET S \subseteq Good
    <2> HIDE DEF Good
    <2> QED
      BY <1>1, <1>2, Gathering
  <1> QED
    BY <1>3
-----------------------------------------------------------------------------
(* A count over the four seats is a number.                                *)
LEMMA CountIsNat == \A S \in SUBSET FourSeats : Cardinality(S) \in 0..4
<1>1. IsFiniteSet(0..3) /\ Cardinality(0..3) = 4
  <2>1. /\ IsFiniteSet(0..3)
        /\ Cardinality(0..3) = IF 0 > 3 THEN 0 ELSE 3 - 0 + 1
    <3>1. 0 \in Int /\ 3 \in Int
      OBVIOUS
    <3> QED
      BY <3>1, FS_Interval, Zenon
  <2> QED
    BY <2>1
<1>2. ASSUME NEW S \in SUBSET (0..3)
      PROVE  Cardinality(S) \in Nat /\ Cardinality(S) <= 4
  BY <1>1, FS_Subset, FS_CardinalityType
<1> QED
  BY <1>2 DEF FourSeats

(* The cards of a table, laid down seat by seat from the starter's on.     *)
LEMMA PlacedCards ==
    ASSUME NEW table \in [1..4 -> Card], NEW starter \in FourSeats
    PROVE  /\ Placed(table, starter) \in [FourSeats -> Card]
           /\ \A p \in 1..4 :
                Placed(table, starter)[(starter + p - 1) % 4] = table[p]
<1>1. \A s \in FourSeats : ((s - starter) % 4) + 1 \in 1..4
  BY DEF FourSeats
<1>2. \A p \in 1..4 : /\ (starter + p - 1) % 4 \in FourSeats
                      /\ ((((starter + p - 1) % 4) - starter) % 4) + 1 = p
  BY DEF FourSeats
<1> QED
  BY <1>1, <1>2 DEF Placed

(* find_taker's three iterations leave the seat of the best card of the    *)
(* starter's colour.                                                       *)
LEMMA FindTakerWins ==
    ASSUME NEW table \in [1..4 -> Card], NEW starter \in FourSeats
    PROVE  LET taker == FindTaker(Placed(table, starter), starter)
           IN  /\ taker \in FourSeats
               /\ \E p \in 1..4 : Wins(table, p) /\ taker = (starter + p - 1) % 4
<1> DEFINE placed == Placed(table, starter)
           Seat(p) == (starter + p - 1) % 4
           first == Better(placed, starter, starter, 1)
           second == Better(placed, starter, first, 2)
           third == Better(placed, starter, second, 3)
           Best(p, n) == /\ p \in 1..n
                         /\ table[p].colour = table[1].colour
                         /\ \A q \in 1..n : table[q].colour = table[1].colour
                                             => table[q].figure <= table[p].figure
<1>1. /\ Seat(1) = starter
      /\ \A i \in 1..3 : (starter + i) % 4 = Seat(i + 1)
      /\ \A p \in 1..4 : Seat(p) \in FourSeats /\ placed[Seat(p)] = table[p]
  BY PlacedCards DEF FourSeats
<1>2. \A p \in 1..4 : table[p].figure \in Int
  BY DEF Card, Figures
<1> HIDE DEF Seat, placed
<1>3. ASSUME NEW i \in 1..3, NEW p \in 1..i, Best(p, i)
      PROVE  \E q \in 1..i + 1 : /\ Best(q, i + 1)
                                 /\ Better(placed, starter, Seat(p), i) = Seat(q)
  <2> DEFINE wins == /\ table[i + 1].colour = table[1].colour
                     /\ table[i + 1].figure > table[p].figure
  <2>1. Better(placed, starter, Seat(p), i) = IF wins THEN Seat(i + 1) ELSE Seat(p)
    BY <1>1 DEF Better
  <2>2. CASE wins
    BY <1>2, <1>3, <2>1, <2>2
  <2>3. CASE ~wins
    BY <1>2, <1>3, <2>1, <2>3
  <2> QED
    BY <2>2, <2>3
<1>4. Best(1, 1)
  BY <1>2
<1> HIDE DEF Best
<1>5. PICK p2 \in 1..2 : Best(p2, 2) /\ first = Seat(p2)
  BY <1>1, <1>3, <1>4
<1>6. PICK p3 \in 1..3 : Best(p3, 3) /\ second = Seat(p3)
  BY <1>3, <1>5
<1>7. PICK p4 \in 1..4 : Best(p4, 4) /\ third = Seat(p4)
  BY <1>3, <1>6
<1>8. FindTaker(placed, starter) = Seat(p4)
  BY <1>7 DEF FindTaker
<1>9. Wins(table, p4)
  BY <1>7 DEF Best, Wins
<1> QED
  BY <1>1, <1>8, <1>9 DEF Seat, placed
-----------------------------------------------------------------------------
(* Whatever is counted, calculate_points returns a seat and an integer.    *)
LEMMA PointsType ==
    ASSUME NEW placed, NEW trick_type, NEW number
    PROVE  Points(placed, trick_type, number) \in Int
<1>1. /\ NoTricks(placed, number) \in Int
      /\ NoHearts(placed, number) \in Int
      /\ NoQueens(placed, number) \in Int
      /\ NoMisters(placed, number) \in Int
      /\ NoHeartsKing(placed, number) \in Int
      /\ NoSeventhLastTrick(placed, number) \in Int
  <2>1. \A n \in 0..4 : n \in Int /\ 5 * n \in Int /\ 2 * n \in Int
                        /\ 18 * n \in Int /\ 10 * n \in Int
    OBVIOUS
  <2>2. NoHearts(placed, number) \in Int
    BY <2>1, CountIsNat DEF NoHearts, HowMany
  <2>3. NoQueens(placed, number) \in Int
    BY <2>1, CountIsNat DEF NoQueens, HowMany
  <2>4. NoMisters(placed, number) \in Int
    BY <2>1, CountIsNat DEF NoMisters, HowMany
  <2>5. NoHeartsKing(placed, number) \in Int
    BY <2>1, CountIsNat DEF NoHeartsKing, HowMany
  <2>6. NoSeventhLastTrick(placed, number) \in Int
    BY <2>1, CountIsNat DEF NoSeventhLastTrick, HowMany
  <2> QED
    BY <2>2, <2>3, <2>4, <2>5, <2>6 DEF NoTricks
<1>2. Bandit(placed, number) \in Int
  BY <1>1 DEF Bandit
<1> QED
  BY <1>1, <1>2 DEF Points

(* What the critical section after a trick computes.                       *)
LEMMA ResultType ==
    ASSUME NEW table \in [1..4 -> Card], NEW starter \in FourSeats,
           NEW type, NEW number
    PROVE  LET result == CalculatePoints(table, starter, type, number)
           IN  /\ result.taker \in FourSeats
               /\ result.points \in Int
               /\ \E p \in 1..4 : /\ Wins(table, p)
                                  /\ result.taker = (starter + p - 1) % 4
  BY FindTakerWins, PointsType DEF CalculatePoints
-----------------------------------------------------------------------------
(* What a table costs, added up card by card.                              *)
Mark(counts) == IF counts THEN 1 ELSE 0

LEMMA CountIsSum ==
  ASSUME NEW S \in SUBSET FourSeats
  PROVE  Cardinality(S) = Mark(0 \in S) + Mark(1 \in S) + Mark(2 \in S) + Mark(3 \in S)
  <1> DEFINE S0 == S \ {0}  S1 == S0 \ {1}  S2 == S1 \ {2}  S3 == S2 \ {3}
  <1>1. IsFiniteSet(0..3)
    <2>1. 0 \in Int /\ 3 \in Int
      OBVIOUS
    <2> QED
      BY <2>1, FS_Interval, Zenon
  <1>2. IsFiniteSet(S)
    BY <1>1, FS_Subset DEF FourSeats
  <1>3. IsFiniteSet(S0) /\ IsFiniteSet(S1) /\ IsFiniteSet(S2) /\ S3 = {}
    BY <1>2, FS_RemoveElement DEF FourSeats
  <1>4. /\ Cardinality(S) \in Nat /\ Cardinality(S0) \in Nat
        /\ Cardinality(S1) \in Nat /\ Cardinality(S2) \in Nat
        /\ Cardinality(S3) = 0
    BY <1>2, <1>3, FS_CardinalityType, FS_EmptySet
  <1>5. \A T, x : IsFiniteSet(T) =>
           Cardinality(T \ {x}) = IF x \in T THEN Cardinality(T) - 1 ELSE Cardinality(T)
    BY FS_RemoveElement
  <1>6. /\ 1 \in S0 <=> 1 \in S
        /\ 2 \in S1 <=> 2 \in S
        /\ 3 \in S2 <=> 3 \in S
    OBVIOUS
  <1>7. /\ Cardinality(S0) = Cardinality(S) - Mark(0 \in S)
        /\ Cardinality(S1) = Cardinality(S0) - Mark(1 \in S0)
        /\ Cardinality(S2) = Cardinality(S1) - Mark(2 \in S1)
        /\ Cardinality(S3) = Cardinality(S2) - Mark(3 \in S2)
    <2> HIDE DEF S0, S1, S2, S3
    <2>1. Cardinality(S0) = Cardinality(S) - Mark(0 \in S)
      BY <1>2, <1>4, <1>5 DEF S0, Mark
    <2>2. Cardinality(S1) = Cardinality(S0) - Mark(1 \in S0)
      BY <1>3, <1>4, <1>5 DEF S1, Mark
    <2>3. Cardinality(S2) = Cardinality(S1) - Mark(2 \in S1)
      BY <1>3, <1>4, <1>5 DEF S2, Mark
    <2>4. Cardinality(S3) = Cardinality(S2) - Mark(3 \in S2)
      BY <1>3, <1>4, <1>5 DEF S3, Mark
    <2> QED
      BY <2>1, <2>2, <2>3, <2>4
  <1>8. /\ Mark(1 \in S0) = Mark(1 \in S)
        /\ Mark(2 \in S1) = Mark(2 \in S)
        /\ Mark(3 \in S2) = Mark(3 \in S)
    BY <1>6 DEF Mark
  <1>9. /\ Mark(0 \in S) \in Int /\ Mark(1 \in S) \in Int
        /\ Mark(2 \in S) \in Int /\ Mark(3 \in S) \in Int
    BY DEF Mark
  <1> HIDE DEF S0, S1, S2, S3
  <1> QED
    BY <1>4, <1>7, <1>8, <1>9

(* The seats whose card counts are as many as the cards that count.        *)
LEMMA CardsAreCounted ==
  ASSUME NEW table \in [1..4 -> Card], NEW starter \in FourSeats, NEW Counted
  PROVE  Cardinality({s \in FourSeats : Placed(table, starter)[s] \in Counted}) =
            Mark(table[1] \in Counted) + Mark(table[2] \in Counted)
            + Mark(table[3] \in Counted) + Mark(table[4] \in Counted)
  <1> DEFINE placed == Placed(table, starter)
             S == {s \in FourSeats : placed[s] \in Counted}
  <1>1. Cardinality(S) = Mark(0 \in S) + Mark(1 \in S) + Mark(2 \in S) + Mark(3 \in S)
    BY CountIsSum
  <1>2. \A s \in FourSeats : s \in S <=> placed[s] \in Counted
    OBVIOUS
  <1>3. 0 \in FourSeats /\ 1 \in FourSeats /\ 2 \in FourSeats /\ 3 \in FourSeats
    BY DEF FourSeats
  <1>4. \A p \in 1..4 : placed[(starter + p - 1) % 4] = table[p]
    BY PlacedCards
  <1> HIDE DEF placed, S
  <1>5. CASE starter = 0
    <2>1. /\ placed[0] = table[1] /\ placed[1] = table[2]
          /\ placed[2] = table[3] /\ placed[3] = table[4]
      BY <1>4, <1>5
    <2> QED
      BY <1>1, <1>2, <1>3, <2>1 DEF S, placed
  <1>6. CASE starter = 1
    <2>1. /\ placed[1] = table[1] /\ placed[2] = table[2]
          /\ placed[3] = table[3] /\ placed[0] = table[4]
      BY <1>4, <1>6
    <2> QED
      BY <1>1, <1>2, <1>3, <2>1 DEF S, placed, Mark
  <1>7. CASE starter = 2
    <2>1. /\ placed[2] = table[1] /\ placed[3] = table[2]
          /\ placed[0] = table[3] /\ placed[1] = table[4]
      BY <1>4, <1>7
    <2> QED
      BY <1>1, <1>2, <1>3, <2>1 DEF S, placed, Mark
  <1>8. CASE starter = 3
    <2>1. /\ placed[3] = table[1] /\ placed[0] = table[2]
          /\ placed[1] = table[3] /\ placed[2] = table[4]
      BY <1>4, <1>8
    <2> QED
      BY <1>1, <1>2, <1>3, <2>1 DEF S, placed, Mark
  <1> QED
    BY <1>5, <1>6, <1>7, <1>8 DEF FourSeats

LEMMA SumOfFour ==
  ASSUME NEW f, \A p \in 1..4 : f[p] \in Int
  PROVE  SumFunctionOnSet(f, 1..4) = f[1] + f[2] + f[3] + f[4]
  <1> DEFINE Sum(S) == SumFunctionOnSet(f, S)
  <1>1. /\ 1..4 \ {1} = 2..4 /\ 2..4 \ {2} = 3..4 /\ 3..4 \ {3} = {4} /\ {4} \ {4} = {}
        /\ 2..4 \subseteq 1..4 /\ 3..4 \subseteq 1..4 /\ {4} \subseteq 1..4
        /\ 1 \in 1..4 /\ 2 \in 2..4 /\ 3 \in 3..4
    OBVIOUS
  <1>2. IsFiniteSet(1..4)
    <2>1. 1 \in Int /\ 4 \in Int
      OBVIOUS
    <2> QED
      BY <2>1, FS_Interval, Zenon
  <1>3. IsFiniteSet(2..4) /\ IsFiniteSet(3..4) /\ IsFiniteSet({4})
    BY <1>1, <1>2, FS_Subset
  <1>4. Sum(1..4) = f[1] + Sum(2..4)
    BY <1>1, <1>2, SumTakesOut
  <1>5. Sum(2..4) = f[2] + Sum(3..4)
    BY <1>1, <1>3, SumTakesOut
  <1>6. Sum(3..4) = f[3] + Sum({4})
    BY <1>1, <1>3, SumTakesOut
  <1>7. Sum({4}) = f[4] + Sum({})
    BY <1>1, <1>3, SumTakesOut
  <1>8. Sum({}) = 0
    BY SumOfNone
  <1> HIDE DEF Sum
  <1>9. f[1] \in Int /\ f[2] \in Int /\ f[3] \in Int /\ f[4] \in Int
    OBVIOUS
  <1> QED
    BY <1>4, <1>5, <1>6, <1>7, <1>8, <1>9 DEF Sum

Hearts == {card \in Card : card.colour = "H"}
Queens == {card \in Card : card.figure = Q}
Misters == {card \in Card : card.figure \in {J, K}}
HeartsKing == {card \in Card : card.colour = "H" /\ card.figure = K}

(* The loops of PointsCalculator by the cards of the table.                *)
LEMMA LoopsCount ==
  ASSUME NEW table \in [1..4 -> Card], NEW starter \in FourSeats, NEW number
  PROVE  LET placed == Placed(table, starter)
             Marks(S) == Mark(table[1] \in S) + Mark(table[2] \in S)
                            + Mark(table[3] \in S) + Mark(table[4] \in S)
         IN  /\ NoHearts(placed, number) = Marks(Hearts)
             /\ NoQueens(placed, number) = 5 * Marks(Queens)
             /\ NoMisters(placed, number) = 2 * Marks(Misters)
             /\ NoHeartsKing(placed, number) = 18 * Marks(HeartsKing)
             /\ NoSeventhLastTrick(placed, number) =
                    IF number \in {7, 13} THEN 40 ELSE 0
  <1> DEFINE placed == Placed(table, starter)
             Marks(S) == Mark(table[1] \in S) + Mark(table[2] \in S)
                            + Mark(table[3] \in S) + Mark(table[4] \in S)
             Late == {card \in Card : number \in {7, 13}}
  <1>1. \A S : Cardinality({s \in FourSeats : placed[s] \in S}) = Marks(S)
    BY CardsAreCounted
  <1>2. \A s \in FourSeats : placed[s] \in Card
    BY PlacedCards
  <1>3. \A p \in 1..4 : table[p] \in Card
    OBVIOUS
  <1> HIDE DEF placed
  <1>4. {s \in FourSeats : placed[s].colour = "H"} = {s \in FourSeats : placed[s] \in Hearts}
    BY <1>2 DEF Hearts
  <1>5. {s \in FourSeats : placed[s].figure = Q} = {s \in FourSeats : placed[s] \in Queens}
    BY <1>2 DEF Queens
  <1>6. {s \in FourSeats : placed[s].figure \in {J, K}}
            = {s \in FourSeats : placed[s] \in Misters}
    BY <1>2 DEF Misters
  <1>7. {s \in FourSeats : placed[s].colour = "H" /\ placed[s].figure = K}
            = {s \in FourSeats : placed[s] \in HeartsKing}
    BY <1>2 DEF HeartsKing
  <1>8. {s \in FourSeats : number \in {7, 13}} = {s \in FourSeats : placed[s] \in Late}
    BY <1>2
  <1>9. Marks(Late) = IF number \in {7, 13} THEN 4 ELSE 0
    BY <1>3 DEF Mark
  <1> HIDE DEF Marks, Late
  <1>10. NoHearts(placed, number) = Marks(Hearts)
    BY <1>1, <1>4 DEF NoHearts, HowMany
  <1>11. NoQueens(placed, number) = 5 * Marks(Queens)
    BY <1>1, <1>5 DEF NoQueens, HowMany
  <1>12. NoMisters(placed, number) = 2 * Marks(Misters)
    BY <1>1, <1>6 DEF NoMisters, HowMany
  <1>13. NoHeartsKing(placed, number) = 18 * Marks(HeartsKing)
    BY <1>1, <1>7 DEF NoHeartsKing, HowMany
  <1>14. NoSeventhLastTrick(placed, number) = 10 * Marks(Late)
    BY <1>1, <1>8 DEF NoSeventhLastTrick, HowMany
  <1>15. NoSeventhLastTrick(placed, number) = IF number \in {7, 13} THEN 40 ELSE 0
    BY <1>9, <1>14
  <1> QED
    BY <1>10, <1>11, <1>12, <1>13, <1>15 DEF placed, Marks

(* What one card costs, by the rules it falls under.                       *)
LEMMA CardCostsByRule ==
  ASSUME NEW card \in Card, NEW type
  PROVE  CardValue(type, card) =
            (IF type \in {2, 7} THEN Mark(card \in Hearts) ELSE 0)
            + (IF type \in {3, 7} THEN 5 * Mark(card \in Queens) ELSE 0)
            + (IF type \in {4, 7} THEN 2 * Mark(card \in Misters) ELSE 0)
            + (IF type \in {5, 7} THEN 18 * Mark(card \in HeartsKing) ELSE 0)
  <1>1. /\ card \in Hearts <=> card.colour = "H"
        /\ card \in Queens <=> card.figure = Q
        /\ card \in Misters <=> card.figure \in {J, K}
        /\ card \in HeartsKing <=> card.figure = K /\ card.colour = "H"
    BY DEF Hearts, Queens, Misters, HeartsKing
  <1> QED
    BY <1>1 DEF CardValue, Mark

(* calculate_points charges the cost of the table: what is counted seat by *)
(* seat is what the cards cost one by one, wherever the leader sits.       *)
LEMMA PointsAreCosts ==
  ASSUME NEW table \in [1..4 -> Card], NEW starter \in FourSeats,
         NEW type \in Int, NEW number
  PROVE  Points(Placed(table, starter), type, number) = Cost(type, table, number)
  <1> DEFINE placed == Placed(table, starter)
             value == [p \in DOMAIN table |-> CardValue(type, table[p])]
             h(p) == Mark(table[p] \in Hearts)
             q(p) == Mark(table[p] \in Queens)
             m(p) == Mark(table[p] \in Misters)
             k(p) == Mark(table[p] \in HeartsKing)
  <1>1. \A p \in 1..4 : h(p) \in 0..1 /\ q(p) \in 0..1 /\ m(p) \in 0..1 /\ k(p) \in 0..1
    BY DEF Mark
  <1>2. \A p \in 1..4 : value[p] =
            (IF type \in {2, 7} THEN h(p) ELSE 0) + (IF type \in {3, 7} THEN 5 * q(p) ELSE 0)
            + (IF type \in {4, 7} THEN 2 * m(p) ELSE 0)
            + (IF type \in {5, 7} THEN 18 * k(p) ELSE 0)
    BY CardCostsByRule
  <1>3. /\ NoHearts(placed, number) = h(1) + h(2) + h(3) + h(4)
        /\ NoQueens(placed, number) = 5 * (q(1) + q(2) + q(3) + q(4))
        /\ NoMisters(placed, number) = 2 * (m(1) + m(2) + m(3) + m(4))
        /\ NoHeartsKing(placed, number) = 18 * (k(1) + k(2) + k(3) + k(4))
        /\ NoSeventhLastTrick(placed, number) = IF number \in {7, 13} THEN 40 ELSE 0
    BY LoopsCount
  <1>4. DOMAIN table = 1..4 /\ DOMAIN value = 1..4
    OBVIOUS
  <1>5. Cost(type, table, number) = TrickValue(type, number) + SumFunctionOnSet(value, 1..4)
    BY <1>4 DEF Cost, SumFunction
  <1> HIDE DEF value, h, q, m, k, placed
  <1>6. \A p \in 1..4 : value[p] \in Int
    BY <1>1, <1>2
  <1>7. SumFunctionOnSet(value, 1..4) = value[1] + value[2] + value[3] + value[4]
    BY <1>6, SumOfFour
  <1>8. \A p \in {1, 2, 3, 4} :
            /\ h(p) \in Int /\ q(p) \in Int /\ m(p) \in Int /\ k(p) \in Int
            /\ value[p] =
                (IF type \in {2, 7} THEN h(p) ELSE 0) + (IF type \in {3, 7} THEN 5 * q(p) ELSE 0)
                + (IF type \in {4, 7} THEN 2 * m(p) ELSE 0)
                + (IF type \in {5, 7} THEN 18 * k(p) ELSE 0)
    BY <1>1, <1>2
  <1>9. CASE type = 7
    <2>1. \A p \in {1, 2, 3, 4} : value[p] = h(p) + 5 * q(p) + 2 * m(p) + 18 * k(p)
      BY <1>8, <1>9
    <2>2. Points(placed, type, number) = 1 + NoHearts(placed, number)
             + NoQueens(placed, number) + NoMisters(placed, number)
             + NoHeartsKing(placed, number) + NoSeventhLastTrick(placed, number)
      BY <1>9 DEF Points, Bandit, NoTricks
    <2>3. TrickValue(type, number) = 1 + (IF number \in {7, 13} THEN 40 ELSE 0)
      BY <1>9 DEF TrickValue
    <2> QED
      BY <1>3, <1>5, <1>7, <1>8, <2>1, <2>2, <2>3 DEF placed
  <1>10. CASE type # 7
    <2>1. TrickValue(type, number) =
             (IF type = 1 THEN 1 ELSE 0)
             + (IF type = 6 THEN (IF number \in {7, 13} THEN 40 ELSE 0) ELSE 0)
             - (IF type \in 1..6 THEN 0 ELSE 1)
      BY <1>10 DEF TrickValue
    <2>2. \A p \in {1, 2, 3, 4} : value[p] =
                IF type = 2 THEN h(p) ELSE IF type = 3 THEN 5 * q(p)
                ELSE IF type = 4 THEN 2 * m(p) ELSE IF type = 5 THEN 18 * k(p) ELSE 0
      BY <1>8, <1>10
    <2>3. Points(placed, type, number) =
             IF type = 1 THEN 1 ELSE IF type = 2 THEN NoHearts(placed, number)
             ELSE IF type = 3 THEN NoQueens(placed, number)
             ELSE IF type = 4 THEN NoMisters(placed, number)
             ELSE IF type = 5 THEN NoHeartsKing(placed, number)
             ELSE IF type = 6 THEN NoSeventhLastTrick(placed, number) ELSE -1
      BY <1>10 DEF Points, NoTricks
    <2> QED
      BY <1>3, <1>5, <1>7, <1>8, <2>1, <2>2, <2>3 DEF placed
  <1> QED
    BY <1>9, <1>10
-----------------------------------------------------------------------------
(* Sums over the seats, over the numbers up to one, over cards.            *)
LEMMA SumOfSeats ==
  ASSUME NEW f \in [FourSeats -> Int]
  PROVE  SumFunction(f) = f[0] + f[1] + f[2] + f[3]
  <1> DEFINE Sum(S) == SumFunctionOnSet(f, S)
  <1>1. /\ 0..3 \ {0} = 1..3 /\ 1..3 \ {1} = 2..3 /\ 2..3 \ {2} = {3} /\ {3} \ {3} = {}
        /\ 1..3 \subseteq 0..3 /\ 2..3 \subseteq 0..3 /\ {3} \subseteq 0..3
        /\ 0 \in 0..3 /\ 1 \in 1..3 /\ 2 \in 2..3
    OBVIOUS
  <1>2. IsFiniteSet(0..3)
    <2>1. 0 \in Int /\ 3 \in Int
      OBVIOUS
    <2> QED
      BY <2>1, FS_Interval, Zenon
  <1>3. IsFiniteSet(1..3) /\ IsFiniteSet(2..3) /\ IsFiniteSet({3})
    BY <1>1, <1>2, FS_Subset
  <1>4. DOMAIN f = 0..3 /\ \A s \in 0..3 : f[s] \in Int
    BY DEF FourSeats
  <1>5. Sum(0..3) = f[0] + Sum(1..3)
    BY <1>1, <1>2, <1>4, SumTakesOut
  <1>6. Sum(1..3) = f[1] + Sum(2..3)
    BY <1>1, <1>3, <1>4, SumTakesOut
  <1>7. Sum(2..3) = f[2] + Sum({3})
    BY <1>1, <1>3, <1>4, SumTakesOut
  <1>8. Sum({3}) = f[3] + Sum({})
    BY <1>1, <1>3, <1>4, SumTakesOut
  <1>9. Sum({}) = 0
    BY SumOfNone
  <1>10. SumFunction(f) = Sum(0..3)
    BY <1>4 DEF SumFunction
  <1> HIDE DEF Sum
  <1>11. f[0] \in Int /\ f[1] \in Int /\ f[2] \in Int /\ f[3] \in Int
    BY <1>4
  <1> QED
    BY <1>5, <1>6, <1>7, <1>8, <1>9, <1>10, <1>11

(* A sum grown by a value at one more index. *)
LEMMA SumGrows ==
  ASSUME NEW g, NEW f, NEW x, IsFiniteSet(DOMAIN g), x \notin DOMAIN g,
         DOMAIN f = DOMAIN g \cup {x}, \A y \in DOMAIN g : f[y] = g[y],
         \A y \in DOMAIN f : f[y] \in Int
  PROVE  SumFunction(f) = f[x] + SumFunction(g)
  <1> DEFINE S == DOMAIN g
  <1>1. SumFunctionOnSet(f, S \cup {x}) = f[x] + SumFunctionOnSet(f, S)
    BY SumTakesIn
  <1>2. SumFunctionOnSet(f, S) = SumFunctionOnSet(g, S)
    BY SumOfSame
  <1> QED
    BY <1>1, <1>2 DEF SumFunction

LEMMA ValuesAreInt ==
  ASSUME NEW type
  PROVE  /\ \A card : CardValue(type, card) \in Int
         /\ \A number : TrickValue(type, number) \in Int
  BY DEF CardValue, TrickValue

LEMMA SumFunctionIsInt ==
  ASSUME NEW f, IsFiniteSet(DOMAIN f), \A x \in DOMAIN f : f[x] \in Int
  PROVE  SumFunction(f) \in Int
  BY SumIsInt DEF SumFunction

LEMMA CostsAreInt ==
  ASSUME NEW table \in [1..4 -> Card], NEW type, NEW number
  PROVE  Cost(type, table, number) \in Int
  <1> DEFINE value == [p \in DOMAIN table |-> CardValue(type, table[p])]
  <1>1. IsFiniteSet(1..4)
    <2>1. 1 \in Int /\ 4 \in Int
      OBVIOUS
    <2> QED
      BY <2>1, FS_Interval, Zenon
  <1>2. DOMAIN value = 1..4 /\ \A p \in DOMAIN value : value[p] \in Int
    BY ValuesAreInt
  <1> HIDE DEF value
  <1>3. SumFunction(value) \in Int
    BY <1>1, <1>2, SumFunctionIsInt
  <1> QED
    BY <1>3, ValuesAreInt DEF Cost, value

(* The cards of a table leave a set of cards cheaper by what the table     *)
(* costs, but for the price of the trick itself.                           *)
LEMMA TableLeaves ==
  ASSUME NEW held, IsFiniteSet(held), NEW type, NEW number,
         NEW table \in [1..4 -> held],
         \A p, q \in 1..4 : p # q => table[p] # table[q]
  PROVE  TrickValue(type, number) + SumFunction([card \in held |-> CardValue(type, card)])
            = Cost(type, table, number)
              + SumFunction([card \in held \ {table[p] : p \in 1..4} |->
                                CardValue(type, card)])
  <1> DEFINE Sum(S) == SumFunction([card \in S |-> CardValue(type, card)])
             v(p) == CardValue(type, table[p])
             value == [p \in DOMAIN table |-> CardValue(type, table[p])]
             R == held \ {table[p] : p \in 1..4}
             R1 == R \cup {table[1]}   R2 == R1 \cup {table[2]}   R3 == R2 \cup {table[3]}
  <1>1. \A card : CardValue(type, card) \in Int
    BY ValuesAreInt
  <1>2. \A S, x : IsFiniteSet(S) /\ x \notin S =>
           Sum(S \cup {x}) = CardValue(type, x) + Sum(S)
    <2> SUFFICES ASSUME NEW S, NEW x, IsFiniteSet(S), x \notin S
                 PROVE  Sum(S \cup {x}) = CardValue(type, x) + Sum(S)
      OBVIOUS
    <2> DEFINE f == [card \in S \cup {x} |-> CardValue(type, card)]
               g == [card \in S |-> CardValue(type, card)]
    <2>1. /\ DOMAIN f = DOMAIN g \cup {x} /\ DOMAIN g = S
          /\ f[x] = CardValue(type, x)
          /\ \A y \in DOMAIN g : f[y] = g[y]
          /\ \A y \in DOMAIN f : f[y] \in Int
      BY <1>1
    <2> HIDE DEF f, g
    <2>2. SumFunction(f) = f[x] + SumFunction(g)
      BY <2>1, SumGrows
    <2> QED
      BY <2>1, <2>2 DEF f, g
  <1>3. /\ table[1] \notin R /\ table[2] \notin R1 /\ table[3] \notin R2 /\ table[4] \notin R3
        /\ R3 \cup {table[4]} = held
        /\ R \subseteq held /\ R1 \subseteq held /\ R2 \subseteq held /\ R3 \subseteq held
    OBVIOUS
  <1>4. IsFiniteSet(R) /\ IsFiniteSet(R1) /\ IsFiniteSet(R2) /\ IsFiniteSet(R3)
    BY <1>3, FS_Subset
  <1>5. DOMAIN table = 1..4 /\ \A p \in 1..4 : value[p] = v(p) /\ v(p) \in Int
    BY <1>1
  <1>6. Sum(R) \in Int
    <2> DEFINE f == [card \in R |-> CardValue(type, card)]
    <2>1. \A card \in R : f[card] \in Int
      BY <1>1
    <2>2. DOMAIN f = R
      OBVIOUS
    <2> HIDE DEF f, R
    <2>3. SumFunctionOnSet(f, R) \in Int
      BY <1>4, <2>1, SumIsInt
    <2>4. SumFunction(f) \in Int
      BY <2>2, <2>3 DEF SumFunction
    <2> QED
      BY <2>4 DEF f
  <1>7. Cost(type, table, number) = TrickValue(type, number) + (v(1) + v(2) + v(3) + v(4))
    <2>1. DOMAIN value = 1..4 /\ \A p \in 1..4 : value[p] \in Int
      BY <1>5
    <2>2. Cost(type, table, number) = TrickValue(type, number) + SumFunctionOnSet(value, 1..4)
      BY <2>1 DEF Cost, SumFunction
    <2> HIDE DEF value
    <2>3. SumFunctionOnSet(value, 1..4) = value[1] + value[2] + value[3] + value[4]
      BY <2>1, SumOfFour
    <2> QED
      BY <1>5, <2>2, <2>3
  <1>8. TrickValue(type, number) \in Int
    BY ValuesAreInt
  <1> HIDE DEF Sum, R
  <1>9. /\ Sum(R1) = v(1) + Sum(R)
        /\ Sum(R2) = v(2) + Sum(R1)
        /\ Sum(R3) = v(3) + Sum(R2)
        /\ Sum(held) = v(4) + Sum(R3)
    <2> HIDE DEF R1, R2, R3
    <2>1. Sum(R1) = v(1) + Sum(R)
      BY <1>2, <1>3, <1>4 DEF R1
    <2>2. Sum(R2) = v(2) + Sum(R1)
      BY <1>2, <1>3, <1>4 DEF R2
    <2>3. Sum(R3) = v(3) + Sum(R2)
      BY <1>2, <1>3, <1>4 DEF R3
    <2>4. Sum(R3 \cup {table[4]}) = v(4) + Sum(R3)
      BY <1>2, <1>3, <1>4
    <2> QED
      BY <1>3, <2>1, <2>2, <2>3, <2>4
  <1>10. v(1) \in Int /\ v(2) \in Int /\ v(3) \in Int /\ v(4) \in Int
    BY <1>5
  <1> HIDE DEF v
  <1>11. TrickValue(type, number) + Sum(held) = Cost(type, table, number) + Sum(R)
    BY <1>6, <1>7, <1>8, <1>9, <1>10
  <1> QED
    BY <1>11 DEF Sum, R
=============================================================================
