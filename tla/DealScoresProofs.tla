-------------------------- MODULE DealScoresProofs --------------------------
(***************************************************************************)
(* For every game file and number of tricks: in the bookkeeping of         *)
(* DealScores.tla every trick goes to the seat of its best card, a seat    *)
(* pays what its tricks cost, and the totals are what the deals cost.      *)
(***************************************************************************)
EXTENDS DealScores, FunctionProofs

(* A table of a trick holds a card of each hand, the leader's first.       *)
LEMMA TablesType ==
    ASSUME cards \in [FourSeats -> SUBSET Card], last_taker \in FourSeats
    PROVE  \A table \in Tables :
              /\ table \in [1..4 -> Card]
              /\ \A p \in 1..4 : table[p] \in cards[(last_taker + p - 1) % 4]
<1>1. \A p \in 1..4 : (last_taker + p - 1) % 4 \in FourSeats
  BY DEF FourSeats
<1>2. \A p \in 1..4 : cards[(last_taker + p - 1) % 4] \subseteq Card
  BY <1>1
<1> QED
  BY <1>2 DEF Tables

(* The deals of the game file are deals.                                   *)
LEMMA DealTypes ==
    /\ Len(GameFile) \in Nat
    /\ \A d \in 1..Len(GameFile) :
          /\ GameFile[d].trick_type \in 0..9
          /\ GameFile[d].seat \in FourSeats
          /\ GameFile[d].cards \in [FourSeats -> SUBSET Card]
<1>1. GameFile \in Seq(Deals)
  BY DealAssumption
<1>2. \A d \in Deals : /\ d.trick_type \in 0..9 /\ d.seat \in FourSeats
                       /\ d.cards \in [FourSeats -> SUBSET Card]
  BY DEF Deals
<1>3. Len(GameFile) \in Nat /\ \A d \in 1..Len(GameFile) : GameFile[d] \in Deals
  BY <1>1
<1> QED
  BY <1>2, <1>3

-----------------------------------------------------------------------------
(* What is paid. *)
LEMMA CardCostsAreInt ==
    ASSUME NEW d, NEW held, IsFiniteSet(held)
    PROVE  CardCosts(d, held) \in Int
<1> DEFINE f == [card \in held |-> CardValue(GameFile[d].trick_type, card)]
<1>1. DOMAIN f = held /\ \A card \in held : f[card] \in Int
  BY ValuesAreInt
<1> HIDE DEF f
<1>2. SumFunction(f) \in Int
  BY <1>1, SumFunctionIsInt
<1> QED
  BY <1>2 DEF CardCosts, f

(* The numbers from one on lose it when the trick with it is over. *)
LEMMA NumberCostsStep ==
    ASSUME NEW d, NEW n \in Nat, n < Tricks
    PROVE  /\ NumberCosts(d, n + 1..Tricks) =
                TrickValue(GameFile[d].trick_type, n + 1) + NumberCosts(d, n + 2..Tricks)
           /\ NumberCosts(d, n + 1..Tricks) \in Int
           /\ NumberCosts(d, n + 2..Tricks) \in Int
<1> DEFINE Value(i) == TrickValue(GameFile[d].trick_type, i)
           f == [i \in n + 1..Tricks |-> Value(i)]
           g == [i \in n + 2..Tricks |-> Value(i)]
<1>1. \A i : Value(i) \in Int
  BY ValuesAreInt
<1>2. IsFiniteSet(n + 1..Tricks) /\ IsFiniteSet(n + 2..Tricks)
  <2>1. n + 1 \in Int /\ n + 2 \in Int /\ Tricks \in Int
    BY DealAssumption
  <2> QED
    BY <2>1, FS_Interval, Zenon
<1>3. /\ DOMAIN f = n + 1..Tricks /\ DOMAIN g = n + 2..Tricks
      /\ n + 1 \notin DOMAIN g /\ DOMAIN f = DOMAIN g \cup {n + 1}
      /\ f[n + 1] = Value(n + 1)
  BY DealAssumption
<1>4. /\ \A i \in DOMAIN g : f[i] = g[i]
      /\ \A i \in DOMAIN f : f[i] \in Int
      /\ \A i \in DOMAIN g : g[i] \in Int
  BY <1>1, <1>3
<1> HIDE DEF f, g
<1>5. SumFunction(f) = f[n + 1] + SumFunction(g)
  BY <1>2, <1>3, <1>4, SumGrows
<1>6. SumFunction(f) \in Int /\ SumFunction(g) \in Int
  BY <1>2, <1>3, <1>4, SumFunctionIsInt
<1> QED
  BY <1>3, <1>5, <1>6 DEF NumberCosts, f, g

(* After the last card and the last trick nothing is left to pay. *)
LEMMA NothingIsFree ==
    ASSUME NEW d
    PROVE  CardCosts(d, {}) = 0 /\ NumberCosts(d, Tricks + 1..Tricks) = 0
<1>1. \A f : DOMAIN f = {} => SumFunction(f) = 0
  BY SumOfNone DEF SumFunction
<1>2. Tricks + 1..Tricks = {}
  BY DealAssumption
<1>3. /\ DOMAIN [card \in {} |-> CardValue(GameFile[d].trick_type, card)] = {}
      /\ DOMAIN [i \in {} |-> TrickValue(GameFile[d].trick_type, i)] = {}
  OBVIOUS
<1> QED
  BY <1>1, <1>2, <1>3 DEF CardCosts, NumberCosts

(* Four finite hands are a finite set of cards. *)
LEMMA FourHands ==
    ASSUME NEW hands, \A s \in FourSeats : IsFiniteSet(hands[s])
    PROVE  IsFiniteSet(UNION {hands[s] : s \in FourSeats})
<1>1. UNION {hands[s] : s \in FourSeats} = (hands[0] \cup hands[1]) \cup (hands[2] \cup hands[3])
  <2>1. FourSeats = {0, 1, 2, 3}
    BY DEF FourSeats
  <2> QED
    BY <2>1, Zenon
<1>2. /\ IsFiniteSet(hands[0]) /\ IsFiniteSet(hands[1])
      /\ IsFiniteSet(hands[2]) /\ IsFiniteSet(hands[3])
  BY DEF FourSeats
<1>3. IsFiniteSet(hands[0] \cup hands[1]) /\ IsFiniteSet(hands[2] \cup hands[3])
  BY <1>2, FS_Union
<1>4. IsFiniteSet((hands[0] \cup hands[1]) \cup (hands[2] \cup hands[3]))
  BY <1>3, FS_Union
<1> QED
  BY <1>1, <1>4

(* The hands of a deal are finite. *)
LEMMA HandsOfDeals ==
    ASSUME NEW d \in 1..Len(GameFile)
    PROVE  /\ \A s \in FourSeats : /\ IsFiniteSet(GameFile[d].cards[s])
                                   /\ Cardinality(GameFile[d].cards[s]) <= Tricks
           /\ \A s, t \in FourSeats :
                 s # t => GameFile[d].cards[s] \cap GameFile[d].cards[t] = {}
           /\ DealCost(d) \in Int
<1>1. DOMAIN GameFile = 1..Len(GameFile)
  BY DealAssumption
<1>2. \A s \in FourSeats : /\ IsFiniteSet(GameFile[d].cards[s])
                           /\ Cardinality(GameFile[d].cards[s]) <= Tricks
  BY <1>1, HandsFit
<1>3. IsFiniteSet(UNION {GameFile[d].cards[s] : s \in FourSeats})
  BY <1>2, FourHands
<1>4. NumberCosts(d, 1..Tricks) \in Int
  <2>1. 0 \in Nat /\ 0 < Tricks /\ 0 + 1 = 1
    BY DealAssumption
  <2>2. NumberCosts(d, 0 + 1..Tricks) \in Int
    BY <2>1, NumberCostsStep
  <2> QED
    BY <2>1, <2>2
<1>5. DealCost(d) \in Int
  BY <1>3, <1>4, CardCostsAreInt DEF DealCost
<1> QED
  BY <1>1, <1>2, <1>5, DealAssumption
-----------------------------------------------------------------------------
(* What a deal still has to pay: its cards in hand and its tricks to come. *)
ToPay ==
    CardCosts(deal, UNION {cards[s] : s \in FourSeats})
    + NumberCosts(deal, trick + 1..Tricks)

(* The hands are apart, finite, and short enough to be gone by the end.    *)
HandsShrink ==
    /\ \A s \in FourSeats : /\ IsFiniteSet(cards[s])
                            /\ Cardinality(cards[s]) <= Tricks - trick
    /\ \A s, t \in FourSeats : s # t => cards[s] \cap cards[t] = {}

(* The deals whose scores are in the totals. *)
Scored == 1..IF main = "run_deal" THEN deal - 1 ELSE deal

(* The types, the claims, and what they need between two tricks: the       *)
(* leader of the next is the taker of the last, and what was paid and what *)
(* is still to pay are together what the deal costs.                       *)
Inv ==
    /\ TypeOK
    /\ WinnersTake
    /\ ScoresMatchTricks
    /\ main = "run_deal" =>
          /\ last_taker = Leader(Len(taken_tricks) + 1)
          /\ Len(taken_tricks) = trick
          /\ HandsShrink
          /\ SumFunction(scores) + ToPay = DealCost(deal)
    /\ SumFunction(total_scores) = SumFunction([d \in Scored |-> DealCost(d)])

LEMMA ZeroSum == SumFunction(Zero) = 0
<1>1. /\ Zero \in [FourSeats -> Int]
      /\ Zero[0] = 0 /\ Zero[1] = 0 /\ Zero[2] = 0 /\ Zero[3] = 0
  BY DEF Zero, FourSeats
<1>2. SumFunction(Zero) = Zero[0] + Zero[1] + Zero[2] + Zero[3]
  BY <1>1, SumOfSeats
<1> QED
  BY <1>1, <1>2

LEMMA InitInv == Init => Inv
<1> SUFFICES ASSUME Init PROVE Inv
  OBVIOUS
<1>1. TypeOK /\ WinnersTake /\ ScoresMatchTricks /\ main # "run_deal"
  BY DealAssumption
  DEF Init, TypeOK, WinnersTake, ScoresMatchTricks, Zero, FourSeats, Card, Leader
<1>2. SumFunction(total_scores) = 0
  BY ZeroSum DEF Init
<1>3. SumFunction([d \in Scored |-> DealCost(d)]) = 0
  <2>1. Scored = {}
    BY DEF Scored, Init
  <2>2. DOMAIN [d \in {} |-> DealCost(d)] = {}
    OBVIOUS
  <2> QED
    BY <2>1, <2>2, SumOfNone DEF SumFunction
<1> QED
  BY <1>1, <1>2, <1>3 DEF Inv

LEMMA BeginInv == Inv /\ DealBegin => Inv'
<1> SUFFICES ASSUME Inv, DealBegin PROVE Inv'
  OBVIOUS
<1> USE DEF Inv
<1>1. /\ deal' \in 1..Len(GameFile) /\ deal' = deal + 1
      /\ main = "run_game" /\ main' = "run_deal" /\ trick' = 0
      /\ cards' = GameFile[deal'].cards
      /\ last_taker' = GameFile[deal'].seat
      /\ taken_tricks' = <<>> /\ taken_takers' = <<>>
      /\ scores' = Zero
      /\ UNCHANGED <<round_scores, total_scores>>
  BY DealTypes DEF DealBegin, ClearTakers, ClearScores, TypeOK
<1>2. TypeOK'
  <2>1. /\ cards' \in [FourSeats -> SUBSET Card]
        /\ last_taker' \in FourSeats
    BY <1>1, DealTypes
  <2>2. /\ taken_tricks' \in Seq([1..4 -> Card])
        /\ taken_takers' \in Seq(FourSeats)
        /\ Len(taken_tricks') = Len(taken_takers')
        /\ scores' \in [FourSeats -> Int]
    BY <1>1 DEF Zero
  <2>3. /\ trick' \in 0..Tricks
        /\ deal' \in 0..Len(GameFile) /\ deal' > 0
    BY <1>1, DealTypes, DealAssumption
  <2> QED
    BY <1>1, <2>1, <2>2, <2>3 DEF TypeOK
<1>3. WinnersTake' /\ (last_taker = Leader(Len(taken_tricks) + 1))'
  BY <1>1 DEF WinnersTake, Leader
<1>4. ScoresMatchTricks'
  <2>1. \A s \in FourSeats : TakenBy(s)' = {} /\ scores'[s] = 0
    BY <1>1 DEF TakenBy, Zero
  <2> QED
    BY <2>1, SumOfNone DEF ScoresMatchTricks
<1>5. HandsShrink' /\ Len(taken_tricks') = trick'
  BY <1>1, HandsOfDeals, DealAssumption DEF HandsShrink
<1>6. SumFunction(scores') + ToPay' = DealCost(deal')
  <2>1. SumFunction(scores') = 0
    BY <1>1, ZeroSum
  <2>2. ToPay' = DealCost(deal')
    BY <1>1, 0 + 1 = 1 DEF ToPay, DealCost
  <2> QED
    BY <1>1, <2>1, <2>2, HandsOfDeals
<1>7. Scored' = Scored
  BY <1>1 DEF Scored, TypeOK
<1> QED
  BY <1>1, <1>2, <1>3, <1>4, <1>5, <1>6, <1>7 DEF DealCost, CardCosts, NumberCosts

(* The hands after a trick: each has one card less.                        *)
LEMMA HandsAfter ==
    ASSUME Inv, main = "run_deal", NEW table \in Tables
    PROVE  LET U == UNION {cards[s] : s \in FourSeats}
               T == {table[p] : p \in 1..4}
           IN  /\ table \in [1..4 -> U]
               /\ \A p, q \in 1..4 : p # q => table[p] # table[q]
               /\ UNION {cards[s] \ T : s \in FourSeats} = U \ T
               /\ \A s \in FourSeats : /\ IsFiniteSet(cards[s] \ T)
                                       /\ Cardinality(cards[s] \ T) <= Cardinality(cards[s]) - 1
<1> DEFINE U == UNION {cards[s] : s \in FourSeats}
           T == {table[p] : p \in 1..4}
           Seat(p) == (last_taker + p - 1) % 4
<1>1. /\ table \in [1..4 -> Card]
      /\ \A p \in 1..4 : table[p] \in cards[Seat(p)]
  BY TablesType DEF Inv, TypeOK
<1>2. /\ \A p \in 1..4 : Seat(p) \in FourSeats
      /\ \A p, q \in 1..4 : p # q => Seat(p) # Seat(q)
      /\ \A s \in FourSeats : \E p \in 1..4 : Seat(p) = s
  <2>1. last_taker \in FourSeats
    BY DEF Inv, TypeOK
  <2>2. \A s \in FourSeats : Seat(((s - last_taker) % 4) + 1) = s
    BY <2>1 DEF FourSeats
  <2>3. \A s \in FourSeats : ((s - last_taker) % 4) + 1 \in 1..4
    BY <2>1 DEF FourSeats
  <2> QED
    BY <2>1, <2>2, <2>3 DEF FourSeats
<1>3. HandsShrink
  BY DEF Inv
<1> HIDE DEF Seat
<1>4. table \in [1..4 -> U]
  BY <1>1, <1>2
<1>5. \A p, q \in 1..4 : p # q => table[p] # table[q]
  BY <1>1, <1>2, <1>3 DEF HandsShrink
<1>6. UNION {cards[s] \ T : s \in FourSeats} = U \ T
  OBVIOUS
<1>7. ASSUME NEW s \in FourSeats
      PROVE  /\ IsFiniteSet(cards[s] \ T)
             /\ Cardinality(cards[s] \ T) <= Cardinality(cards[s]) - 1
  <2>1. PICK p \in 1..4 : Seat(p) = s
    BY <1>2
  <2>2. IsFiniteSet(cards[s]) /\ table[p] \in cards[s] /\ table[p] \in T
    BY <1>1, <1>3, <2>1 DEF HandsShrink
  <2>3. /\ IsFiniteSet(cards[s] \ {table[p]})
        /\ Cardinality(cards[s] \ {table[p]}) = Cardinality(cards[s]) - 1
    BY <2>2, FS_RemoveElement
  <2>4. cards[s] \ T \subseteq cards[s] \ {table[p]}
    BY <2>2
  <2> HIDE DEF T
  <2> QED
    BY <2>3, <2>4, FS_Subset
<1> QED
  BY <1>4, <1>5, <1>6, <1>7

LEMMA TakenInv == Inv /\ TrickTaken => Inv'
<1> SUFFICES ASSUME Inv, TrickTaken PROVE Inv'
  OBVIOUS
<1>0. /\ TypeOK /\ WinnersTake /\ HandsShrink
      /\ \A s \in FourSeats : scores[s] = SumFunctionOnSet(TrickCosts, TakenBy(s))
      /\ last_taker = Leader(Len(taken_tricks) + 1)
      /\ Len(taken_tricks) = trick
      /\ SumFunction(scores) + ToPay = DealCost(deal)
      /\ SumFunction(total_scores) = SumFunction([d \in Scored |-> DealCost(d)])
  BY DEF Inv, TrickTaken, ScoresMatchTricks
<1>20. /\ cards \in [FourSeats -> SUBSET Card]
       /\ last_taker \in FourSeats
       /\ scores \in [FourSeats -> Int]
  BY <1>0 DEF TypeOK
<1> DEFINE type == GameFile[deal].trick_type
           Result(table) == CalculatePoints(table, last_taker, type, trick + 1)
<1>1. PICK table \in Tables :
        /\ cards' = [s \in FourSeats |-> cards[s] \ {table[p] : p \in 1..4}]
        /\ last_taker' = Result(table).taker
        /\ scores' = [scores EXCEPT ![Result(table).taker]
                                      = @ + Result(table).points]
        /\ taken_tricks' = Append(taken_tricks, table)
        /\ taken_takers' = Append(taken_takers, Result(table).taker)
  BY DEF TrickTaken
<1> DEFINE taker == Result(table).taker
           cost == Cost(type, table, trick + 1)
<1>2. /\ main = "run_deal" /\ main' = "run_deal"
      /\ trick' = trick + 1 /\ trick \in Nat /\ trick < Tricks
      /\ deal \in 1..Len(GameFile) /\ deal' = deal
      /\ UNCHANGED <<round_scores, total_scores>>
  BY <1>0, DealTypes DEF TrickTaken, TypeOK
<1>3. table \in [1..4 -> Card]
  BY <1>20, TablesType
<1>4. /\ taker \in FourSeats
      /\ \E p \in 1..4 : Wins(table, p) /\ taker = (last_taker + p - 1) % 4
      /\ Result(table).points = cost
      /\ cost \in Int
  <2>1. type \in Int /\ last_taker \in FourSeats
    BY <1>2, <1>20, DealTypes, 0..9 \subseteq Int
  <2>2. Points(Placed(table, last_taker), type, trick + 1) = cost
    BY <1>3, <2>1, PointsAreCosts
  <2> QED
    BY <1>3, <2>1, <2>2, ResultType DEF CalculatePoints
<1>5. /\ scores' = [scores EXCEPT ![taker] = @ + cost]
      /\ last_taker' = taker
      /\ taken_takers' = Append(taken_takers, taker)
  BY <1>1, <1>4
<1> HIDE DEF Result, taker, cost
<1>6. TypeOK'
  <2>1. cards' \in [FourSeats -> SUBSET Card]
    BY <1>1, <1>20
  <2>4. scores' \in [FourSeats -> Int]
    BY <1>4, <1>5, <1>20
  <2>2. /\ taken_tricks' \in Seq([1..4 -> Card])
        /\ taken_takers' \in Seq(FourSeats)
        /\ Len(taken_takers') = Len(taken_tricks')
    BY <1>0, <1>1, <1>3, <1>4, <1>5 DEF TypeOK
  <2>3. trick' \in 0..Tricks
    BY <1>2, DealAssumption
  <2> QED
    BY <1>0, <1>2, <1>4, <1>5, <2>1, <2>2, <2>3, <2>4 DEF TypeOK
<1>7. /\ Len(taken_tricks) = trick /\ Len(taken_tricks') = trick + 1
      /\ DOMAIN taken_tricks = 1..trick
      /\ DOMAIN taken_tricks' = 1..trick + 1
      /\ taken_tricks'[trick + 1] = table
      /\ taken_takers'[trick + 1] = taker
      /\ \A i \in 1..trick : /\ taken_tricks'[i] = taken_tricks[i]
                             /\ taken_takers'[i] = taken_takers[i]
  BY <1>0, <1>1, <1>2, <1>3, <1>4, <1>5 DEF TypeOK
<1>8. \A i \in 1..trick + 1 : Leader(i)' = Leader(i)
  BY <1>2, <1>7 DEF Leader
<1>9. (last_taker = Leader(Len(taken_tricks) + 1))'
  <2>1. Len(taken_tricks') + 1 # 1 /\ (Len(taken_tricks') + 1) - 1 = trick + 1
    BY <1>2, <1>7
  <2> QED
    BY <1>5, <1>7, <2>1 DEF Leader
<1>10. WinnersTake'
  <2> SUFFICES ASSUME NEW i \in 1..trick + 1
               PROVE  \E p \in 1..4 : /\ Wins(taken_tricks'[i], p)
                                      /\ taken_takers'[i] = (Leader(i) + p - 1) % 4
    BY <1>7, <1>8 DEF WinnersTake
  <2>1. CASE i = trick + 1
    <3>1. last_taker = Leader(trick + 1)
      BY <1>0
    <3> QED
      BY <1>4, <1>7, <2>1, <3>1
  <2>2. CASE i \in 1..trick
    BY <1>0, <1>7, <2>2 DEF WinnersTake
  <2> QED
    BY <1>2, <2>1, <2>2
<1>11. ScoresMatchTricks'
  <2>1. \A s \in FourSeats : scores'[s] = IF s = taker THEN scores[s] + cost ELSE scores[s]
    BY <1>0, <1>4, <1>5, <1>20
  <2>2. /\ TrickCosts'[trick + 1] = cost
        /\ \A i \in 1..trick : TrickCosts'[i] = TrickCosts[i]
    BY <1>2, <1>7 DEF TrickCosts, cost
  <2>3. \A i \in 1..trick + 1 : TrickCosts'[i] \in Int
    <3>1. \A i \in 1..trick + 1 : taken_tricks'[i] \in [1..4 -> Card]
      BY <1>6, <1>7 DEF TypeOK
    <3> QED
      BY <1>7, <3>1, CostsAreInt DEF TrickCosts
  <2>4. ASSUME NEW s \in FourSeats
        PROVE  /\ IsFiniteSet(TakenBy(s)) /\ TakenBy(s) \subseteq 1..trick
               /\ TakenBy(s)' = IF s = taker THEN TakenBy(s) \cup {trick + 1} ELSE TakenBy(s)
    <3>1. 1 \in Int /\ trick \in Int
      BY <1>2
    <3>2. IsFiniteSet(1..trick)
      BY <3>1, FS_Interval, Zenon
    <3>3. TakenBy(s) = {i \in 1..trick : taken_takers[i] = s}
      BY <1>7 DEF TakenBy
    <3>4. TakenBy(s)' = {i \in 1..trick + 1 : taken_takers'[i] = s}
      BY <1>7 DEF TakenBy
    <3>5. 1..trick + 1 = 1..trick \cup {trick + 1}
      BY <1>2
    <3> QED
      BY <1>7, <3>2, <3>3, <3>4, <3>5, FS_Subset
  <2>5. ASSUME NEW s \in FourSeats
        PROVE  scores'[s] = SumFunctionOnSet(TrickCosts', TakenBy(s)')
    <3>1. SumFunctionOnSet(TrickCosts', TakenBy(s)) = SumFunctionOnSet(TrickCosts, TakenBy(s))
      <4>1. \A i \in TakenBy(s) : TrickCosts'[i] = TrickCosts[i] /\ TrickCosts'[i] \in Int
        BY <1>2, <2>2, <2>3, <2>4
      <4> QED
        BY <2>4, <4>1, SumOfSame
    <3>2. CASE s = taker
      <4>1. SumFunctionOnSet(TrickCosts', TakenBy(s) \cup {trick + 1}) =
               TrickCosts'[trick + 1] + SumFunctionOnSet(TrickCosts', TakenBy(s))
        <5>1. /\ trick + 1 \notin TakenBy(s)
              /\ \A i \in TakenBy(s) \cup {trick + 1} : TrickCosts'[i] \in Int
          BY <1>2, <2>3, <2>4
        <5> QED
          BY <2>4, <5>1, SumTakesIn
      <4>2. scores[s] \in Int
        BY <1>20
      <4>3. SumFunctionOnSet(TrickCosts', TakenBy(s)) = scores[s]
        BY <1>0, <3>1
      <4>4. TakenBy(s)' = TakenBy(s) \cup {trick + 1}
        BY <2>4, <3>2
      <4>5. SumFunctionOnSet(TrickCosts', TakenBy(s)') = cost + scores[s]
        BY <2>2, <4>1, <4>3, <4>4
      <4>6. scores'[s] = scores[s] + cost
        BY <2>1, <3>2
      <4> HIDE DEF cost
      <4> QED
        BY <1>4, <4>2, <4>5, <4>6
    <3>3. CASE s # taker
      BY <1>0, <2>1, <2>4, <3>1, <3>3
    <3> QED
      BY <3>2, <3>3
  <2> QED
    BY <2>5 DEF ScoresMatchTricks
<1> DEFINE T == {table[p] : p \in 1..4}
           U == UNION {cards[s] : s \in FourSeats}
<1>15. /\ cards' = [s \in FourSeats |-> cards[s] \ T]
       /\ table \in [1..4 -> U]
       /\ \A p, q \in 1..4 : p # q => table[p] # table[q]
       /\ UNION {cards[s] \ T : s \in FourSeats} = U \ T
       /\ \A s \in FourSeats : /\ IsFiniteSet(cards[s] \ T)
                               /\ Cardinality(cards[s] \ T) <= Cardinality(cards[s]) - 1
  BY <1>1, <1>2, HandsAfter
<1>16. HandsShrink /\ IsFiniteSet(U)
  BY <1>0, FourHands DEF HandsShrink
<1>12. HandsShrink'
  <2> HIDE DEF T
  <2>1. ASSUME NEW s \in FourSeats
        PROVE  IsFiniteSet(cards'[s]) /\ Cardinality(cards'[s]) <= Tricks - trick'
    <3>1. /\ Cardinality(cards[s]) \in Nat /\ Cardinality(cards'[s]) \in Nat
          /\ Cardinality(cards[s]) <= Tricks - trick
          /\ IsFiniteSet(cards'[s])
          /\ Cardinality(cards'[s]) <= Cardinality(cards[s]) - 1
      BY <1>15, <1>16, FS_CardinalityType DEF HandsShrink
    <3> QED
      BY <1>2, <3>1, DealAssumption
  <2>2. \A s, t \in FourSeats : s # t => cards'[s] \cap cards'[t] = {}
    BY <1>15, <1>16 DEF HandsShrink
  <2> QED
    BY <2>1, <2>2 DEF HandsShrink
<1>13. SumFunction(scores') + ToPay' = DealCost(deal)
  <2> DEFINE price == TrickValue(type, trick + 1)
             numbers == NumberCosts(deal, trick + 2..Tricks)
  <2>1. ToPay = CardCosts(deal, U) + (price + numbers)
    BY <1>2, NumberCostsStep DEF ToPay
  <2>2. UNION {cards'[s] : s \in FourSeats} = U \ T
    BY <1>15
  <2>3. ToPay' = CardCosts(deal, U \ T) + numbers
    <3>1. (trick + 1) + 1 = trick + 2
      BY <1>2
    <3> HIDE DEF U, T
    <3> QED
      BY <1>2, <2>2, <3>1 DEF ToPay, CardCosts, NumberCosts
  <2>4. price + CardCosts(deal, U) = cost + CardCosts(deal, U \ T)
    BY <1>15, <1>16, TableLeaves DEF CardCosts, cost
  <2>5. SumFunction(scores') = SumFunction(scores) + cost
    <3>1. /\ \A s \in {0, 1, 2, 3} :
                /\ scores[s] \in Int
                /\ scores'[s] = IF s = taker THEN scores[s] + cost ELSE scores[s]
          /\ taker \in {0, 1, 2, 3}
      BY <1>4, <1>5, <1>20 DEF FourSeats
    <3>2. /\ SumFunction(scores) = scores[0] + scores[1] + scores[2] + scores[3]
          /\ SumFunction(scores') = scores'[0] + scores'[1] + scores'[2] + scores'[3]
      BY <1>6, <1>20, SumOfSeats DEF TypeOK
    <3> QED
      BY <1>4, <3>1, <3>2
  <2>6. /\ price \in Int /\ numbers \in Int
        /\ CardCosts(deal, U) \in Int /\ CardCosts(deal, U \ T) \in Int
        /\ SumFunction(scores) \in Int
    <3>1. IsFiniteSet(U \ T)
      BY <1>16, FS_Difference
    <3>2. SumFunction(scores) \in Int
      <4>1. /\ SumFunction(scores) = scores[0] + scores[1] + scores[2] + scores[3]
            /\ scores[0] \in Int /\ scores[1] \in Int /\ scores[2] \in Int /\ scores[3] \in Int
        BY <1>20, SumOfSeats DEF FourSeats
      <4> QED
        BY <4>1
    <3> HIDE DEF U, T
    <3> QED
      BY <1>2, <1>16, <3>1, <3>2, CardCostsAreInt, ValuesAreInt, NumberCostsStep
  <2>7. SumFunction(scores) + ToPay = DealCost(deal)
    BY <1>0
  <2> HIDE DEF price, numbers, U, T
  <2> QED
    BY <1>4, <2>1, <2>3, <2>4, <2>5, <2>6, <2>7
<1>14. SumFunction(total_scores') = SumFunction([d \in Scored' |-> DealCost(d)])
  BY <1>0, <1>2 DEF Scored
<1> QED
  BY <1>2, <1>6, <1>7, <1>9, <1>10, <1>11, <1>12, <1>13, <1>14
     DEF Inv, DealCost, CardCosts, NumberCosts

LEMMA EndInv == Inv /\ DealEnd => Inv'
<1> SUFFICES ASSUME Inv, DealEnd PROVE Inv'
  OBVIOUS
<1>1. /\ TypeOK /\ WinnersTake /\ HandsShrink
      /\ SumFunction(scores) + ToPay = DealCost(deal)
      /\ SumFunction(total_scores) = SumFunction([d \in 1..deal - 1 |-> DealCost(d)])
  BY DEF Inv, DealEnd, Scored
<1>2. /\ scores \in [FourSeats -> Int] /\ total_scores \in [FourSeats -> Int]
      /\ deal \in 1..Len(GameFile) /\ main' = "run_game" /\ trick = Tricks
      /\ total_scores' = [s \in FourSeats |-> total_scores[s] + scores[s]]
      /\ UNCHANGED <<deal, trick, cards, last_taker, taken_tricks, taken_takers, scores>>
  BY <1>1, DealTypes DEF DealEnd, TypeOK, AddRound
<1>3. TypeOK'
  BY <1>1, <1>2 DEF DealEnd, TypeOK
<1>4. WinnersTake'
  BY <1>1, <1>2 DEF WinnersTake, Leader
<1>5. SumFunction(total_scores') = SumFunction(total_scores) + SumFunction(scores)
  <2>1. \A s \in {0, 1, 2, 3} : /\ total_scores[s] \in Int /\ scores[s] \in Int
                                /\ total_scores'[s] = total_scores[s] + scores[s]
    BY <1>2 DEF FourSeats
  <2>2. total_scores' \in [FourSeats -> Int]
    BY <1>3 DEF TypeOK
  <2>3. /\ SumFunction(scores) = scores[0] + scores[1] + scores[2] + scores[3]
        /\ SumFunction(total_scores) = total_scores[0] + total_scores[1]
                                          + total_scores[2] + total_scores[3]
        /\ SumFunction(total_scores') = total_scores'[0] + total_scores'[1]
                                          + total_scores'[2] + total_scores'[3]
    BY <1>2, <2>2, SumOfSeats
  <2> QED
    BY <2>1, <2>3
(* The hands are empty and the tricks are over: everything is paid.        *)
<1>6. SumFunction(scores) = DealCost(deal)
  <2>1. \A s \in FourSeats : cards[s] = {}
    <3>1. \A s \in FourSeats : IsFiniteSet(cards[s]) /\ Cardinality(cards[s]) <= 0
      BY <1>1, <1>2, DealAssumption DEF HandsShrink
    <3> QED
      BY <3>1, FS_EmptySet, FS_CardinalityType
  <2>2. UNION {cards[s] : s \in FourSeats} = {}
    BY <2>1
  <2>3. ToPay = 0
    <3>1. ToPay = CardCosts(deal, {}) + NumberCosts(deal, Tricks + 1..Tricks)
      BY <1>2, <2>2, Zenon DEF ToPay
    <3> QED
      BY <3>1, NothingIsFree
  <2>4. SumFunction(scores) \in Int
    <3>1. /\ SumFunction(scores) = scores[0] + scores[1] + scores[2] + scores[3]
          /\ scores[0] \in Int /\ scores[1] \in Int /\ scores[2] \in Int /\ scores[3] \in Int
      BY <1>2, SumOfSeats DEF FourSeats
    <3> QED
      BY <3>1
  <2> QED
    BY <1>1, <2>3, <2>4
<1>7. SumFunction([d \in 1..deal |-> DealCost(d)]) =
         DealCost(deal) + SumFunction([d \in 1..deal - 1 |-> DealCost(d)])
  <2> DEFINE f == [d \in 1..deal |-> DealCost(d)]
             g == [d \in 1..deal - 1 |-> DealCost(d)]
  <2>1. IsFiniteSet(1..deal - 1)
    <3>1. 1 \in Int /\ deal - 1 \in Int
      BY <1>2
    <3> QED
      BY <3>1, FS_Interval, Zenon
  <2>2. /\ DOMAIN f = 1..deal /\ DOMAIN g = 1..deal - 1
        /\ 1..deal = 1..deal - 1 \cup {deal} /\ deal \notin 1..deal - 1
        /\ f[deal] = DealCost(deal)
    BY <1>2
  <2>3. \A d \in 1..deal - 1 : f[d] = g[d]
    BY <1>2
  <2>4. \A d \in 1..deal : f[d] \in Int
    BY <1>2, HandsOfDeals, DealTypes
  <2> HIDE DEF f, g
  <2>5. SumFunction(f) = f[deal] + SumFunction(g)
    BY <2>1, <2>2, <2>3, <2>4, SumGrows
  <2> QED
    BY <2>2, <2>5 DEF f, g
<1>8. SumFunction(total_scores') = SumFunction([d \in 1..deal |-> DealCost(d)])
  <2>1. SumFunction(total_scores) \in Int /\ DealCost(deal) \in Int
    <3>1. SumFunction(total_scores) = total_scores[0] + total_scores[1]
                                           + total_scores[2] + total_scores[3]
      BY <1>2, SumOfSeats
    <3>2. \A s \in {0, 1, 2, 3} : total_scores[s] \in Int
      BY <1>2 DEF FourSeats
    <3>3. SumFunction(total_scores) \in Int
      BY <3>1, <3>2
    <3> QED
      BY <1>2, <3>3, HandsOfDeals
  <2> QED
    BY <1>1, <1>5, <1>6, <1>7, <2>1
<1> QED
  BY <1>2, <1>3, <1>4, <1>8
     DEF Inv, ScoresMatchTricks, Scored, DealCost, CardCosts, NumberCosts

LEMMA NextInv == Inv /\ [Next]_vars => Inv'
<1>1. Inv /\ UNCHANGED vars => Inv'
  <2> SUFFICES ASSUME Inv, UNCHANGED vars PROVE Inv'
    OBVIOUS
  <2>1. TypeOK' /\ WinnersTake'
    BY DEF vars, Inv, TypeOK, WinnersTake, Leader
  <2>2. TrickCosts' = TrickCosts /\ \A s : TakenBy(s)' = TakenBy(s)
    BY DEF vars, TrickCosts, TakenBy
  <2>3. ScoresMatchTricks' /\ HandsShrink' = HandsShrink
    BY <2>2 DEF vars, Inv, ScoresMatchTricks, HandsShrink
  <2>4. ToPay' = ToPay /\ Scored' = Scored /\ Leader(Len(taken_tricks) + 1)' = Leader(Len(taken_tricks) + 1)
    BY DEF vars, ToPay, Scored, Leader, CardCosts, NumberCosts
  <2> QED
    BY <2>1, <2>3, <2>4 DEF vars, Inv, DealCost, CardCosts, NumberCosts
<1> QED
  BY <1>1, BeginInv, TakenInv, EndInv DEF Next
-----------------------------------------------------------------------------
(* The scores, takers and tricks always have their types.                  *)
THEOREM TypeCorrect == Spec => []TypeOK
<1>1. Inv => TypeOK
  BY DEF Inv
<1> QED
  BY <1>1, InitInv, NextInv, PTL DEF Spec

(* In every deal each TAKEN names the seat of the best card of the colour  *)
(* led, and the seat it names leads the next trick.                        *)
THEOREM BestCardTakes == Spec => []WinnersTake
<1>1. Inv => WinnersTake
  BY DEF Inv
<1> QED
  BY <1>1, InitInv, NextInv, PTL DEF Spec

(* What run_deal adds up, trick after trick, under the seat it found taking *)
(* is at any time what the tricks TAKEN names that seat for cost by rule.  *)
THEOREM ScoresAreTheTricks == Spec => []ScoresMatchTricks
<1>1. Inv => ScoresMatchTricks
  BY DEF Inv
<1> QED
  BY <1>1, InitInv, NextInv, PTL DEF Spec

(* However the deals were played and whoever led, between two of them the  *)
(* totals are what all the cards and all the tricks dealt so far cost.     *)
THEOREM EverythingIsPaid == Spec => []TotalsAddUp
<1>1. Inv => TotalsAddUp
  BY DEF Inv, TotalsAddUp, Scored
<1> QED
  BY <1>1, InitInv, NextInv, PTL DEF Spec

(* calculate_points is the rules, for every table of a pack, whatever seat *)
(* its cards came from, every type, of the game or not, and every number   *)
(* of a trick: in particular for those AgreesWithRules names.              *)
THEOREM PointsAreTheRules == PointsFollow(Int, Int) /\ (Spec => []AgreesWithRules)
<1>1. PointsFollow(Int, Int)
  <2> SUFFICES ASSUME NEW table \in [1..4 -> Deck], NEW starter \in FourSeats,
                      NEW type \in Int, NEW number \in Int
               PROVE  LET result == CalculatePoints(table, starter, type, number) IN
                      /\ \E p \in 1..4 :
                            Wins(table, p) /\ result.taker = (starter + p - 1) % 4
                      /\ result.points = Cost(type, table, number)
    BY DEF PointsFollow
  <2>1. table \in [1..4 -> Card]
    BY DealAssumption
  <2>2. CalculatePoints(table, starter, type, number).points = Cost(type, table, number)
    BY <2>1, PointsAreCosts DEF CalculatePoints
  <2>3. CalculatePoints(table, starter, type, number).taker
            = FindTaker(Placed(table, starter), starter)
    BY DEF CalculatePoints
  <2> QED
    BY <2>1, <2>2, <2>3, FindTakerWins
<1>2. AgreesWithRules
  <2>1. 1..8 \subseteq Int /\ 1..13 \subseteq Int
    OBVIOUS
  <2> QED
    BY <1>1, <2>1 DEF PointsFollow, AgreesWithRules
<1> QED
  BY <1>1, <1>2, PTL
-----------------------------------------------------------------------------
(* The loop of run_game over read_next_deal, as DealsOf writes it down: the *)
(* deals from each position on, with those from five lines further.        *)
ReadOn(file, further, position) ==
    IF Reader!EndOfFile(file, position) THEN <<>>
    ELSE <<Reader!ReadDeal(file, position)>> \o further[position + 5]
Reads(from, file) == from = [position \in Nat |-> ReadOn(file, from, position)]

LEMMA ReadsIsChosen ==
    ASSUME NEW file, file # Reader!NoFile
    PROVE  Reader!DealsOf(file) = (CHOOSE from : Reads(from, file))[0]
  BY DEF Reader!DealsOf, Reads, ReadOn

(* From the end of the file on there are none, so that there is one way to *)
(* read from every position before it.                                     *)
LEMMA ReadingEnds ==
    ASSUME NEW file, Len(file) \in Nat
    PROVE  \E from : Reads(from, file)
<1> DEFINE After(n) == {position \in Nat : position + n >= Len(file)}
           Upto(from, n) == from = [position \in After(n) |-> ReadOn(file, from, position)]
           Done == {n \in Nat : \E from : Upto(from, n)}
<1>1. 0 \in Done
  <2>1. \A position \in After(0) : Reader!EndOfFile(file, position)
    BY DEF Reader!EndOfFile, Reader!Line
  <2>2. Upto([position \in After(0) |-> <<>>], 0)
    BY <2>1 DEF ReadOn
  <2> QED
    BY <2>2
<1>2. ASSUME NEW n \in Nat, n \in Done
      PROVE  n + 1 \in Done
  <2>1. PICK from : Upto(from, n)
    BY <1>2
  <2> DEFINE more == [position \in After(n + 1) |-> ReadOn(file, from, position)]
  <2>2. \A position \in After(n) :
           position \in After(n + 1) /\ more[position] = from[position]
    BY <2>1
  <2>3. \A position \in After(n + 1) : position + 5 \in After(n)
    OBVIOUS
  <2>4. \A position \in After(n + 1) :
           ReadOn(file, from, position) = ReadOn(file, more, position)
    <3> HIDE DEF more, After
    <3> QED
      BY <2>2, <2>3 DEF ReadOn
  <2>5. Upto(more, n + 1)
    BY <2>4
  <2> HIDE DEF more, Upto
  <2> QED
    BY <2>5
<1>3. Nat \subseteq Done
  <2> HIDE DEF Done
  <2> QED
    BY <1>1, <1>2, Counting
<1>4. PICK from : Upto(from, Len(file))
  BY <1>3
<1>5. After(Len(file)) = Nat
  OBVIOUS
<1> QED
  BY <1>4, <1>5 DEF Reads

(* A file is read as these deals if they stand at every fifth position and *)
(* it ends after them.                                                     *)
LEMMA ReadOneByOne ==
    ASSUME NEW file, file # Reader!NoFile, Len(file) \in Nat,
           NEW deals, deals \in Seq(Deals),
           \A k \in 1..Len(deals) : /\ ~Reader!EndOfFile(file, 5 * (k - 1))
                                    /\ Reader!ReadDeal(file, 5 * (k - 1)) = deals[k],
           Reader!EndOfFile(file, 5 * Len(deals))
    PROVE  Reader!DealsOf(file) = deals
<1> DEFINE from == CHOOSE f : Reads(f, file)
<1>1. Reads(from, file)
  BY ReadingEnds
<1>2. Reader!DealsOf(file) = from[0]
  BY ReadsIsChosen
<1> HIDE DEF from
<1>3. \A position \in Nat : from[position] = ReadOn(file, from, position)
  BY <1>1 DEF Reads
<1> DEFINE L == Len(deals)
           Rest(k) == SubSeq(deals, k + 1, L)
           Done == {n \in Nat : n <= L => from[5 * (L - n)] = Rest(L - n)}
<1>4. /\ L \in Nat /\ Rest(L) = <<>> /\ Rest(0) = deals
      /\ \A k \in 0..L - 1 : <<deals[k + 1]>> \o Rest(k + 1) = Rest(k)
  OBVIOUS
<1>5. /\ Reader!EndOfFile(file, 5 * L)
      /\ \A k \in 0..L - 1 : /\ ~Reader!EndOfFile(file, 5 * k)
                             /\ Reader!ReadDeal(file, 5 * k) = deals[k + 1]
  <2>1. \A k \in 0..L - 1 : k + 1 \in 1..L /\ (k + 1) - 1 = k
    BY <1>4
  <2> QED
    BY <2>1
<1> HIDE DEF L, Rest
<1>6. 0 \in Done
  <2>1. 5 * L \in Nat /\ L - 0 = L
    BY <1>4
  <2>2. from[5 * L] = <<>>
    BY <1>3, <1>5, <2>1 DEF ReadOn
  <2> QED
    BY <1>4, <2>1, <2>2
<1>7. ASSUME NEW n \in Nat, n \in Done
      PROVE  n + 1 \in Done
  <2> SUFFICES ASSUME n + 1 <= L
               PROVE  from[5 * (L - (n + 1))] = Rest(L - (n + 1))
    OBVIOUS
  <2> DEFINE k == L - (n + 1)
  <2>1. /\ k \in 0..L - 1 /\ k + 1 = L - n /\ n <= L
        /\ 5 * k \in Nat /\ 5 * k + 5 = 5 * (k + 1)
    BY <1>4
  <2>2. from[5 * (k + 1)] = Rest(k + 1)
    BY <1>7, <2>1
  <2> HIDE DEF k
  <2>3. from[5 * k] = <<deals[k + 1]>> \o Rest(k + 1)
    BY <1>3, <1>5, <2>1, <2>2 DEF ReadOn
  <2>4. from[5 * k] = Rest(k)
    BY <1>4, <2>1, <2>3
  <2> QED
    BY <2>4 DEF k
<1>8. Nat \subseteq Done
  <2> HIDE DEF Done
  <2> QED
    BY <1>6, <1>7, Counting
<1>9. from[0] = Rest(0)
  <2>1. L \in Done
    <3> HIDE DEF Done
    <3> QED
      BY <1>4, <1>8
  <2>2. L <= L /\ L - L = 0 /\ 5 * 0 = 0
    BY <1>4
  <2> QED
    BY <2>1, <2>2
<1> QED
  BY <1>2, <1>4, <1>9
-----------------------------------------------------------------------------
(* The lines of some deals. *)
LEMMA LinesOfText ==
    ASSUME NEW deals, deals \in Seq(Deals)
    PROVE  /\ Len(Text(deals)) = 5 * Len(deals) /\ Len(deals) \in Nat
           /\ DOMAIN Text(deals) = 1..5 * Len(deals)
           /\ \A k \in 1..Len(deals), i \in 0..4 :
                 Text(deals)[5 * (k - 1) + 1 + i] = LineOf(deals[k], i)
<1> DEFINE L == Len(deals)
<1>1. L \in Nat /\ \A k \in 1..L : deals[k] \in Deals
  OBVIOUS
<1>2. \A i \in 1..5 * L : (i - 1) \div 5 + 1 \in 1..L /\ (i - 1) % 5 \in 0..4
  BY <1>1
<1>3. \A i \in 1..5 * L :
         Text(deals)[i] = LineOf(deals[(i - 1) \div 5 + 1], (i - 1) % 5)
  BY DEF Text
<1>4. DOMAIN Text(deals) = 1..5 * L
  BY DEF Text
<1>5. Len(Text(deals)) = 5 * L
  BY <1>1 DEF Text
<1>6. ASSUME NEW k \in 1..L, NEW i \in 0..4
      PROVE  Text(deals)[5 * (k - 1) + 1 + i] = LineOf(deals[k], i)
  <2>1. /\ 5 * (k - 1) + 1 + i \in 1..5 * L
        /\ ((5 * (k - 1) + 1 + i) - 1) \div 5 + 1 = k
        /\ ((5 * (k - 1) + 1 + i) - 1) % 5 = i
    BY <1>1
  <2> QED
    BY <1>3, <2>1
<1> QED
  BY <1>1, <1>4, <1>5, <1>6

Lines == {LineOf(d, k) : d \in Deals, k \in 0..4} \cup {Reader!Empty}

LEMMA TextIsLines ==
    ASSUME NEW deals, deals \in Seq(Deals)
    PROVE  Text(deals) \in Seq(Lines)
<1> DEFINE L == Len(deals)
<1>1. L \in Nat /\ \A k \in 1..L : deals[k] \in Deals
  OBVIOUS
<1>2. \A i \in 1..5 * L : (i - 1) \div 5 + 1 \in 1..L /\ (i - 1) % 5 \in 0..4
  BY <1>1
<1>3. \A i \in 1..5 * L : LineOf(deals[(i - 1) \div 5 + 1], (i - 1) % 5) \in Lines
  BY <1>1, <1>2 DEF Lines
<1>4. 5 * L \in Nat
  BY <1>1
<1> QED
  BY <1>3, <1>4 DEF Text

(* The deal of which n lines are there: the hands after them are empty.    *)
HandsOf(d, n) == [s \in FourSeats |-> IF s < n - 1 THEN d.cards[s] ELSE {}]
CutDeal(d, n) == [d EXCEPT !.cards = HandsOf(d, n)]

(* What is read at the position of a deal, if the file has its head and as *)
(* many of its hands as it has lines.                                      *)
LEMMA DealIsRead ==
    ASSUME NEW file, Len(file) \in Nat, NEW position \in Nat, NEW d \in Deals,
           NEW n \in 1..5, position + n <= Len(file),
           n < 5 => position + n = Len(file),
           \A i \in 0..n - 1 : file[position + 1 + i] = LineOf(d, i)
    PROVE  /\ ~Reader!EndOfFile(file, position)
           /\ Reader!ReadDeal(file, position) = CutDeal(d, n)
<1>1. /\ d.seat \in FourSeats /\ d.cards \in [FourSeats -> SUBSET Card]
      /\ d = [trick_type |-> d.trick_type, seat |-> d.seat, cards |-> d.cards]
  BY DEF Deals
<1>2. Reader!Line(file, position + 1) = Reader!HeadLine(d.trick_type, d.seat)
  BY DEF Reader!Line, LineOf
<1>3. ~Reader!EndOfFile(file, position)
  BY <1>2 DEF Reader!EndOfFile, Reader!HeadLine, Reader!Empty
<1>4. \A s \in FourSeats :
         Reader!HandOf(file, position, s) = IF s < n - 1 THEN d.cards[s] ELSE {}
  <2> SUFFICES ASSUME NEW s \in FourSeats
               PROVE  Reader!HandOf(file, position, s) = IF s < n - 1 THEN d.cards[s] ELSE {}
    OBVIOUS
  <2>1. CASE s < n - 1
    <3>1. /\ s + 1 \in 0..n - 1 /\ position + 1 + (s + 1) = position + 2 + s
          /\ position + 2 + s <= Len(file) /\ s + 1 # 0 /\ (s + 1) - 1 = s
      BY <2>1 DEF FourSeats
    <3>2. Reader!Line(file, position + 2 + s) = Reader!Hand(d.cards[s])
      BY <3>1 DEF Reader!Line, LineOf
    <3> QED
      BY <2>1, <3>2 DEF Reader!HandOf, Reader!Cards, Reader!Hand
  <2>2. CASE ~(s < n - 1)
    <3>1. Reader!Line(file, position + 2 + s) = Reader!Empty
      BY <2>2 DEF Reader!Line, FourSeats
    <3> QED
      BY <2>2, <3>1 DEF Reader!HandOf, Reader!Cards, Reader!Empty
  <2> QED
    BY <2>1, <2>2
<1>5. [s \in 0..3 |-> Reader!HandOf(file, position, s)] = HandsOf(d, n)
  BY <1>4 DEF FourSeats, HandsOf
<1>6. /\ Reader!Line(file, position + 1).type = d.trick_type
      /\ Reader!Line(file, position + 1).seat = d.seat
  BY <1>2 DEF Reader!HeadLine
<1>7. Reader!ReadDeal(file, position) =
         [trick_type |-> d.trick_type, seat |-> d.seat, cards |-> HandsOf(d, n)]
  BY <1>5, <1>6, Zenon DEF Reader!ReadDeal
<1>8. CutDeal(d, n) =
         [trick_type |-> d.trick_type, seat |-> d.seat, cards |-> HandsOf(d, n)]
  BY DEF Deals, CutDeal
<1> QED
  BY <1>3, <1>7, <1>8

(* A deal of which all five lines are there. *)
LEMMA WholeDealIsRead ==
    ASSUME NEW file, Len(file) \in Nat, NEW position \in Nat, NEW d \in Deals,
           position + 5 <= Len(file),
           \A i \in 0..4 : file[position + 1 + i] = LineOf(d, i)
    PROVE  ~Reader!EndOfFile(file, position) /\ Reader!ReadDeal(file, position) = d
<1>1. /\ ~Reader!EndOfFile(file, position)
      /\ Reader!ReadDeal(file, position) = CutDeal(d, 5)
  <2>1. 5 \in 1..5 /\ ~(5 < 5) /\ 5 - 1 = 4
    OBVIOUS
  <2> QED
    BY <2>1, DealIsRead
<1>2. HandsOf(d, 5) = d.cards
  BY DEF FourSeats, Deals, HandsOf
<1>3. [d EXCEPT !.cards = d.cards] = d
  BY DEF Deals
<1> QED
  BY <1>1, <1>2, <1>3 DEF CutDeal

LEMMA NoFileIsNone ==
    /\ Reader!DealsOf(Reader!NoFile) = <<>>
    /\ Len(Reader!NoFile) = 1
    /\ Reader!NoFile[1].line = "no file"
    /\ Reader!Empty.line = "empty"
    /\ \A d \in Deals : LineOf(d, 0).line = "head"
<1>1. Reader!DealsOf(Reader!NoFile) = <<>>
  BY DEF Reader!DealsOf
<1>2. /\ Len(Reader!NoFile) = 1 /\ Reader!NoFile[1].line = "no file"
      /\ Reader!Empty.line = "empty"
  BY DEF Reader!NoFile, Reader!Empty
<1>3. \A d \in Deals : LineOf(d, 0).line = "head"
  BY DEF LineOf, Reader!HeadLine
<1> QED
  BY <1>1, <1>2, <1>3

(* A file with the lines of some deals, and then nothing or an empty line. *)
LEMMA WholeDealsAreRead ==
    ASSUME NEW deals, deals \in Seq(Deals), NEW file, Len(file) \in Nat,
           Len(file) >= 5 * Len(deals),
           \A i \in 1..5 * Len(deals) : file[i] = Text(deals)[i],
           Len(file) > 5 * Len(deals) => file[5 * Len(deals) + 1] = Reader!Empty
    PROVE  Reader!DealsOf(file) = deals
<1>1. Len(deals) \in Nat /\ \A k \in 1..Len(deals) : deals[k] \in Deals
  OBVIOUS
<1>2. \A k \in 1..Len(deals), i \in 0..4 : file[5 * (k - 1) + 1 + i] = LineOf(deals[k], i)
  <2>1. \A k \in 1..Len(deals), i \in 0..4 : 5 * (k - 1) + 1 + i \in 1..5 * Len(deals)
    BY <1>1
  <2> QED
    BY <2>1, LinesOfText
<1>3. \A k \in 1..Len(deals) : /\ ~Reader!EndOfFile(file, 5 * (k - 1))
                               /\ Reader!ReadDeal(file, 5 * (k - 1)) = deals[k]
  <2> SUFFICES ASSUME NEW k \in 1..Len(deals)
               PROVE  /\ ~Reader!EndOfFile(file, 5 * (k - 1))
                      /\ Reader!ReadDeal(file, 5 * (k - 1)) = deals[k]
    OBVIOUS
  <2>1. /\ 5 * (k - 1) \in Nat /\ 5 * (k - 1) + 5 <= Len(file)
        /\ deals[k] \in Deals /\ Len(file) \in Nat
    BY <1>1
  <2>2. \A i \in 0..4 : file[5 * (k - 1) + 1 + i] = LineOf(deals[k], i)
    BY <1>2
  <2> DEFINE position == 5 * (k - 1)  d == deals[k]
  <2>3. /\ position \in Nat /\ position + 5 <= Len(file) /\ Len(file) \in Nat
        /\ \A i \in 0..4 : file[position + 1 + i] = LineOf(d, i)
        /\ d \in Deals
    BY <2>1, <2>2
  <2> HIDE DEF position, d
  <2>4. ~Reader!EndOfFile(file, position) /\ Reader!ReadDeal(file, position) = d
    BY <2>3, WholeDealIsRead
  <2> QED
    BY <2>4 DEF position, d
<1>4. Reader!EndOfFile(file, 5 * Len(deals))
  BY <1>1 DEF Reader!EndOfFile, Reader!Line
<1>5. file # Reader!NoFile
  <2>1. CASE Len(deals) = 0
    <3>1. Len(file) > 0 => file[1] = Reader!Empty
      BY <2>1
    <3>2. Len(Reader!NoFile) = 1
      BY NoFileIsNone, Zenon
    <3>3. Reader!NoFile[1] # Reader!Empty
      BY NoFileIsNone, Zenon
    <3> QED
      BY <3>1, <3>2, <3>3
  <2>2. CASE Len(deals) > 0
    <3>1. 1 \in 1..Len(deals) /\ 0 \in 0..4 /\ 5 * (1 - 1) + 1 + 0 = 1
      BY <1>1, <2>2
    <3>2. file[1] = LineOf(deals[1], 0)
      BY <1>2, <3>1
    <3> QED
      BY <1>1, <3>1, <3>2, NoFileIsNone
  <2> QED
    BY <1>1, <2>1, <2>2
<1> QED
  BY <1>3, <1>4, <1>5, ReadOneByOne

(* A file cut inside its last deal, n of whose lines are there. *)
LEMMA CutDealIsRead ==
    ASSUME NEW deals, deals \in Seq(Deals), deals # <<>>, NEW n \in 1..4
    PROVE  Reader!DealsOf(SubSeq(Text(deals), 1, 5 * (Len(deals) - 1) + n)) =
              [deals EXCEPT ![Len(deals)].cards =
                  [s \in FourSeats |-> IF s < n - 1 THEN @[s] ELSE {}]]
<1> DEFINE L == Len(deals)
           file == SubSeq(Text(deals), 1, 5 * (L - 1) + n)
           last == CutDeal(deals[L], n)
           cut == [deals EXCEPT ![L] = last]
<1>1. /\ L \in Nat /\ L > 0 /\ \A k \in 1..L : deals[k] \in Deals
      /\ Len(Text(deals)) = 5 * L
  <2>1. L \in Nat /\ L > 0 /\ \A k \in 1..L : deals[k] \in Deals
    OBVIOUS
  <2> QED
    BY <2>1, LinesOfText
<1>2. deals[L] \in Deals
  BY <1>1
<1>3. last \in Deals
  <2>1. HandsOf(deals[L], n) \in [FourSeats -> SUBSET Card]
    BY <1>2 DEF Deals, HandsOf
  <2> QED
    BY <1>2, <2>1 DEF Deals, CutDeal
<1>4. /\ cut \in Seq(Deals) /\ Len(cut) = L /\ cut[L] = last
      /\ \A k \in 1..L - 1 : cut[k] = deals[k]
  <2> HIDE DEF last
  <2> QED
    BY <1>1, <1>3
<1>5. /\ Len(file) = 5 * (L - 1) + n
      /\ \A i \in 1..5 * (L - 1) + n : file[i] = Text(deals)[i]
  <2>1. 5 * (L - 1) + n \in Nat /\ 5 * (L - 1) + n <= Len(Text(deals))
    BY <1>1
  <2> QED
    BY <2>1, LinesOfText
<1> HIDE DEF file, cut, last
<1>6. ASSUME NEW k \in 1..L - 1
      PROVE  /\ ~Reader!EndOfFile(file, 5 * (k - 1))
             /\ Reader!ReadDeal(file, 5 * (k - 1)) = cut[k]
  <2>1. /\ 5 * (k - 1) \in Nat /\ 5 * (k - 1) + 5 <= Len(file)
        /\ Len(file) \in Nat /\ k \in 1..L
        /\ \A i \in 0..4 : 5 * (k - 1) + 1 + i \in 1..5 * (L - 1) + n
    BY <1>1, <1>5
  <2>2. \A i \in 0..4 : file[5 * (k - 1) + 1 + i] = LineOf(deals[k], i)
    BY <1>5, <2>1, LinesOfText
  <2> DEFINE position == 5 * (k - 1)  d == deals[k]
  <2>3. /\ position \in Nat /\ position + 5 <= Len(file) /\ Len(file) \in Nat
        /\ \A i \in 0..4 : file[position + 1 + i] = LineOf(d, i)
        /\ d \in Deals
    BY <1>1, <2>1, <2>2
  <2>4. cut[k] = d
    BY <1>4
  <2> HIDE DEF L, position, d
  <2>5. ~Reader!EndOfFile(file, position) /\ Reader!ReadDeal(file, position) = d
    BY <2>3, WholeDealIsRead
  <2> QED
    BY <2>4, <2>5 DEF position
<1>7. /\ ~Reader!EndOfFile(file, 5 * (L - 1))
      /\ Reader!ReadDeal(file, 5 * (L - 1)) = last
  <2>1. /\ 5 * (L - 1) \in Nat /\ 5 * (L - 1) + n = Len(file)
        /\ Len(file) \in Nat /\ L \in 1..L /\ n \in 1..5
        /\ \A i \in 0..n - 1 : /\ 5 * (L - 1) + 1 + i \in 1..5 * (L - 1) + n
                               /\ i \in 0..4
    BY <1>1, <1>5
  <2>2. \A i \in 0..n - 1 : file[5 * (L - 1) + 1 + i] = LineOf(deals[L], i)
    BY <1>5, <2>1, LinesOfText
  <2>3. deals[L] \in Deals
    BY <1>1
  <2>4. /\ 5 * (L - 1) + n <= Len(file)
        /\ n < 5 => 5 * (L - 1) + n = Len(file)
    BY <2>1
  <2> DEFINE position == 5 * (L - 1)  d == deals[L]
  <2>6. /\ position \in Nat /\ position + n <= Len(file)
        /\ n < 5 => position + n = Len(file)
        /\ \A i \in 0..n - 1 : file[position + 1 + i] = LineOf(d, i)
        /\ d \in Deals /\ Len(file) \in Nat /\ n \in 1..5
    BY <2>1, <2>2, <2>3, <2>4
  <2> HIDE DEF L, position, d
  <2>5. /\ ~Reader!EndOfFile(file, position)
        /\ Reader!ReadDeal(file, position) = CutDeal(d, n)
    BY <2>6, DealIsRead
  <2> QED
    BY <2>5 DEF last, position, d
<1>8. Reader!EndOfFile(file, 5 * L)
  BY <1>1, <1>5 DEF Reader!EndOfFile, Reader!Line
<1>9. file # Reader!NoFile
  <2>1. 1 \in 1..L /\ 0 \in 0..4 /\ 5 * (1 - 1) + 1 + 0 = 1 /\ 1 \in 1..5 * (L - 1) + n
    BY <1>1
  <2>2. file[1] = LineOf(deals[1], 0)
    BY <1>5, <2>1, LinesOfText
  <2> QED
    BY <1>1, <2>1, <2>2, NoFileIsNone
<1>10. \A k \in 1..L : /\ ~Reader!EndOfFile(file, 5 * (k - 1))
                       /\ Reader!ReadDeal(file, 5 * (k - 1)) = cut[k]
  <2> SUFFICES ASSUME NEW k \in 1..L
               PROVE  /\ ~Reader!EndOfFile(file, 5 * (k - 1))
                      /\ Reader!ReadDeal(file, 5 * (k - 1)) = cut[k]
    OBVIOUS
  <2>1. k = L \/ k \in 1..L - 1
    BY <1>1
  <2> HIDE DEF L
  <2> QED
    BY <1>4, <1>6, <1>7, <2>1
<1>11. Reader!DealsOf(file) = cut
  <2>1. Len(file) \in Nat
    BY <1>1, <1>5
  <2> HIDE DEF L
  <2> QED
    BY <1>4, <1>8, <1>9, <1>10, <2>1, ReadOneByOne
<1>12. cut = [deals EXCEPT ![Len(deals)].cards =
                 [s \in FourSeats |-> IF s < n - 1 THEN @[s] ELSE {}]]
  BY DEF cut, last, CutDeal, HandsOf
<1> QED
  BY <1>11, <1>12 DEF file

(* The deals of a game are those of its file in their order, for every     *)
(* file: whole, cut, gone, or with an empty line between two deals.        *)
THEOREM FileGivesTheDeals == Spec => []DealsInOrder
<1>1. DealsInOrder
  <2> SUFFICES ASSUME NEW deals \in SomeDeals, NEW more \in SomeDeals
               PROVE  /\ Reader!DealsOf(Text(deals)) = deals
                      /\ Reader!DealsOf(Text(deals) \o <<Reader!Empty>> \o Text(more)) = deals
    BY NoFileIsNone, CutDealIsRead, DealAssumption DEF DealsInOrder
  <2>1. deals \in Seq(Deals) /\ more \in Seq(Deals)
    BY DealAssumption
  <2>2. Reader!DealsOf(Text(deals)) = deals
    <3>1. /\ Len(Text(deals)) \in Nat /\ Len(Text(deals)) >= 5 * Len(deals)
          /\ ~(Len(Text(deals)) > 5 * Len(deals))
      BY <2>1, LinesOfText
    <3> QED
      BY <2>1, <3>1, WholeDealsAreRead
  <2> DEFINE file == Text(deals) \o <<Reader!Empty>> \o Text(more)
  <2>3. /\ Len(file) = 5 * Len(deals) + 1 + 5 * Len(more)
        /\ Len(deals) \in Nat /\ Len(more) \in Nat
        /\ \A i \in 1..5 * Len(deals) : file[i] = Text(deals)[i]
        /\ file[5 * Len(deals) + 1] = Reader!Empty
    <3> DEFINE text == Text(deals)  rest == Text(more)
    <3>1. /\ text \in Seq(Lines) /\ rest \in Seq(Lines) /\ Reader!Empty \in Lines
      BY <2>1, TextIsLines DEF Lines
    <3>2. /\ Len(text) = 5 * Len(deals) /\ Len(rest) = 5 * Len(more)
          /\ Len(deals) \in Nat /\ Len(more) \in Nat
      BY <2>1, LinesOfText
    <3> HIDE DEF text, rest
    <3>3. /\ Len(file) = Len(text) + 1 + Len(rest)
          /\ \A i \in 1..Len(text) : file[i] = text[i]
          /\ file[Len(text) + 1] = Reader!Empty
      BY <3>1 DEF text, rest
    <3> QED
      BY <3>2, <3>3 DEF text
  <2>4. Reader!DealsOf(file) = deals
    <3> HIDE DEF file
    <3> QED
      BY <2>1, <2>3, WholeDealsAreRead
  <2> QED
    BY <2>2, <2>4
<1> QED
  BY <1>1, PTL
=============================================================================
