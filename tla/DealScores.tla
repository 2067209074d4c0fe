----------------------------- MODULE DealScores -----------------------------
(***************************************************************************)
(* The bookkeeping of run_game and run_deal (serwer.cpp): what the main    *)
(* thread does with four cards on the table, and how the points of the     *)
(* tricks become the scores of the deal and of the game.  How the cards    *)
(* come to the table is the business of Serwer.tla; here a trick is one    *)
(* step, and its table is what CardPlayedOnce and PlayedInTurn make it: a  *)
(* card of each seat in turn, following the leader's colour.               *)
(***************************************************************************)
EXTENDS PointsCalculator, PointsRules

Reader == INSTANCE FileReader

CONSTANTS
    Tricks,     \* tricks in a deal: the literal 13 of run_deal
    GameFile,   \* the deals FileReader returns, [trick_type, seat, cards]
    Deck,       \* the cards of which calculate_points is given tables
    SomeDeals   \* the games written to the files FileReader is given

Deals == [trick_type : 0..9, seat : FourSeats, cards : [FourSeats -> SUBSET Card]]

ASSUME DealAssumption ==
    /\ Tricks \in Nat \ {0}
    /\ GameFile \in Seq(Deals)
    /\ \A d \in DOMAIN GameFile : \A s, t \in FourSeats :
          s # t => GameFile[d].cards[s] \cap GameFile[d].cards[t] = {}
    /\ Deck \subseteq Card
    /\ SomeDeals \subseteq Seq(Deals)

(* No hand has more cards than there are tricks: 13 in the program.        *)
ASSUME HandsFit ==
    \A d \in DOMAIN GameFile : \A s \in FourSeats :
        /\ IsFiniteSet(GameFile[d].cards[s])
        /\ Cardinality(GameFile[d].cards[s]) <= Tricks

VARIABLES
    main,           \* "run_game", between two deals, or "run_deal"
    deal,           \* how many deals were read
    trick,          \* tricks of this deal taken so far: i of run_deal
    cards,
    last_taker,
    taken_tricks,
    taken_takers,
    scores,         \* the local of run_deal
    round_scores,
    total_scores

vars == <<main, deal, trick, cards, last_taker, taken_tricks, taken_takers,
          scores, round_scores, total_scores>>

Zero == [s \in FourSeats |-> 0]

Init ==
    /\ main = "run_game" /\ deal = 0 /\ trick = 0
    /\ cards = [s \in FourSeats |-> {}]
    /\ last_taker = 0
    /\ taken_tricks = <<>> /\ taken_takers = <<>>
    /\ scores = Zero /\ round_scores = Zero /\ total_scores = Zero

KeepScores == UNCHANGED scores
ClearScores == scores' = Zero

KeepTakers == UNCHANGED taken_takers
ClearTakers == taken_takers' = <<>>

(* run_game takes the next deal of the file and run_deal opens it.         *)
DealBegin ==
    /\ main = "run_game"
    /\ deal < Len(GameFile)
    /\ main' = "run_deal"
    /\ deal' = deal + 1
    /\ trick' = 0
    /\ cards' = GameFile[deal + 1].cards
    /\ last_taker' = GameFile[deal + 1].seat
    /\ taken_tricks' = <<>>
    /\ ClearTakers
    /\ ClearScores
    /\ UNCHANGED <<round_scores, total_scores>>

(* The tables a trick can end with. *)
Tables ==
    LET Hand(p) == cards[(last_taker + p - 1) % 4]
    IN  {table \in {<<a, b, c, d>> : a \in Hand(1), b \in Hand(2), c \in Hand(3),
                                    d \in Hand(4)} :
            \A p \in 1..4 :
                PlayedRightColour(table[p], Hand(p), SubSeq(table, 1, p - 1))}

(* The critical section after "Got four cards".                            *)
TrickTaken ==
    /\ main = "run_deal"
    /\ trick < Tricks
    /\ \E table \in Tables :
         LET result == CalculatePoints(table, last_taker,
                           GameFile[deal].trick_type, trick + 1)
         IN
         /\ cards' = [s \in FourSeats |-> cards[s] \ {table[p] : p \in 1..4}]
         /\ last_taker' = result.taker
         /\ scores' = [scores EXCEPT ![result.taker] = @ + result.points]
         /\ taken_tricks' = Append(taken_tricks, table)
         /\ taken_takers' = Append(taken_takers, result.taker)
    /\ trick' = trick + 1
    /\ UNCHANGED <<main, deal, round_scores, total_scores>>

AddLastRound(s) == total_scores[s] + round_scores[s]
AddRound(s) == total_scores[s] + scores[s]

(* The critical section after "End of the deal". *)
DealEnd ==
    /\ main = "run_deal"
    /\ trick = Tricks
    /\ total_scores' = [s \in FourSeats |-> AddRound(s)]
    /\ round_scores' = scores
    /\ main' = "run_game"
    /\ UNCHANGED <<deal, trick, cards, last_taker, taken_tricks, taken_takers,
                   scores>>

Next == DealBegin \/ TrickTaken \/ DealEnd

Spec == Init /\ [][Next]_vars
-----------------------------------------------------------------------------
TypeOK ==
    /\ main \in {"run_game", "run_deal"}
    /\ deal \in 0..Len(GameFile)
    /\ main = "run_deal" => deal > 0
    /\ trick \in 0..Tricks
    /\ cards \in [FourSeats -> SUBSET Card]
    /\ last_taker \in FourSeats
    /\ taken_tricks \in Seq([1..4 -> Card])
    /\ taken_takers \in Seq(FourSeats)
    /\ Len(taken_takers) = Len(taken_tricks)
    /\ scores \in [FourSeats -> Int]
    /\ round_scores \in [FourSeats -> Int]
    /\ total_scores \in [FourSeats -> Int]

(* Whoever saw the deal so far can check the scores: those of a seat are   *)
(* the costs of the tricks whose TAKEN named it, whatever seats led them.  *)
TrickCosts ==
    [i \in DOMAIN taken_tricks |->
        Cost(GameFile[deal].trick_type, taken_tricks[i], i)]
TakenBy(s) == {i \in DOMAIN taken_tricks : taken_takers[i] = s}
ScoresMatchTricks ==
    main = "run_deal" =>
        \A s \in FourSeats : scores[s] = SumFunctionOnSet(TrickCosts, TakenBy(s))

(* How a deal is played decides who pays, never how much is paid: between  *)
(* deals the total scores of the four seats add up to the costs of all the *)
(* cards and all the tricks of the deals played.                           *)
CardCosts(d, held) ==
    SumFunction([card \in held |-> CardValue(GameFile[d].trick_type, card)])
NumberCosts(d, numbers) ==
    SumFunction([i \in numbers |-> TrickValue(GameFile[d].trick_type, i)])
DealCost(d) ==
    CardCosts(d, UNION {GameFile[d].cards[s] : s \in FourSeats})
    + NumberCosts(d, 1..Tricks)
TotalsAddUp ==
    main = "run_game" =>
        SumFunction(total_scores) = SumFunction([d \in 1..deal |-> DealCost(d)])

(* Every TAKEN of the deal names the seat that played the best card of the *)
(* leader's colour, the leader being the one named by the TAKEN before it. *)
Leader(i) == IF i = 1 THEN GameFile[deal].seat ELSE taken_takers[i - 1]
WinnersTake ==
    \A i \in DOMAIN taken_tricks :
        \E p \in 1..4 : /\ Wins(taken_tricks[i], p)
                        /\ taken_takers[i] = (Leader(i) + p - 1) % 4
-----------------------------------------------------------------------------
(* What is said of functions depends on no state, so that it is evaluated  *)
(* in the first one.                                                       *)

(* calculate_points names the seat that played the best card of the        *)
(* leader's colour, and the cost of the table whatever seats its cards     *)
(* came from: the same four cards led from another seat cost the same.     *)
PointsFollow(types, numbers) ==
    \A table \in [1..4 -> Deck], starter \in FourSeats,
       type \in types, number \in numbers :
        LET result == CalculatePoints(table, starter, type, number) IN
        /\ \E p \in 1..4 :
              Wins(table, p) /\ result.taker = (starter + p - 1) % 4
        /\ result.points = Cost(type, table, number)

(* Of the types of the game and one that is none, for its thirteen tricks. *)
AgreesWithRules == Init => PointsFollow(1..8, 1..13)

(* The lines of a deal, a head and four hands, and of the deals of a game. *)
LineOf(d, k) ==
    IF k = 0 THEN Reader!HeadLine(d.trick_type, d.seat)
    ELSE Reader!Hand(d.cards[k - 1])
Text(deals) ==
    [i \in 1..5 * Len(deals) |-> LineOf(deals[(i - 1) \div 5 + 1], (i - 1) % 5)]

(* The deals of the game are those of the file, each once and in order,    *)
(* with the hands at the seats it gives them to, up to its end or to an    *)
(* empty line between two deals; a file that is gone is a game of none.    *)
(* One cut inside a deal is played as if the rest of its hands were empty. *)
DealsInOrder == Init =>
    \A deals, more \in SomeDeals :
        /\ Reader!DealsOf(Text(deals)) = deals
        /\ Reader!DealsOf(Text(deals) \o <<Reader!Empty>> \o Text(more)) = deals
        /\ Reader!DealsOf(Reader!NoFile) = <<>>
        /\ \A n \in 1..4 : deals # <<>> =>
              Reader!DealsOf(SubSeq(Text(deals), 1, 5 * (Len(deals) - 1) + n)) =
                  [deals EXCEPT ![Len(deals)].cards =
                      [s \in FourSeats |-> IF s < n - 1 THEN @[s] ELSE {}]]
=============================================================================
