-------------------------- MODULE PointsCalculator --------------------------
(***************************************************************************)
(* points_calculator.cpp: who takes a trick and what it costs.  A table is *)
(* the sequence of the four cards in the order they were played, starter   *)
(* the seat of the first one; the program keeps colors and figures by      *)
(* seat, here placed[s] is the card of seat s.                             *)
(***************************************************************************)
EXTENDS Cards

FourSeats == 0..3

(* The constructor: the i-th card goes to the i-th seat from the starter.  *)
PlacedFromNorth(played_cards, starter) == [s \in FourSeats |-> played_cards[s + 1]]
Placed(played_cards, starter) ==
    [s \in FourSeats |-> played_cards[((s - starter) % 4) + 1]]

(* One iteration of find_taker's loop: the seat of the best card so far,   *)
(* against the i-th seat after the starter.                                *)
BetterAny(placed, starter, best, i) ==
    LET s == (starter + i) % 4 IN
    IF placed[s].figure > placed[best].figure THEN s ELSE best
Better(placed, starter, best, i) ==
    LET s == (starter + i) % 4 IN
    IF /\ placed[s].colour = placed[starter].colour
       /\ placed[s].figure > placed[best].figure
    THEN s ELSE best

FindTaker(placed, starter) ==
    LET first == Better(placed, starter, starter, 1)
        second == Better(placed, starter, first, 2)
    IN  Better(placed, starter, second, 3)

(* The loops of no_hearts, no_queens, ...: the seats whose card counts.    *)
HowMany(placed, Counts(_)) == Cardinality({s \in FourSeats : Counts(placed[s])})

NoTricks(placed, trick) == 1
NoHearts(placed, trick) == HowMany(placed, LAMBDA card : card.colour = "H")
NoQueens(placed, trick) == 5 * HowMany(placed, LAMBDA card : card.figure = Q)
NoMisters(placed, trick) ==
    2 * HowMany(placed, LAMBDA card : card.figure \in {J, K})
NoHeartsKing(placed, trick) ==
    18 * HowMany(placed, LAMBDA card : card.colour = "H" /\ card.figure = K)

(* The loop over the four cards adds ten each time, whatever the card.     *)
NoSeventhLastTrick(placed, trick) ==
    10 * HowMany(placed, LAMBDA card : trick \in {7, 13})

Bandit(placed, trick) ==
    NoTricks(placed, trick) + NoHearts(placed, trick) + NoQueens(placed, trick)
      + NoMisters(placed, trick) + NoHeartsKing(placed, trick)
      + NoSeventhLastTrick(placed, trick)

(* calculate_points: a type the game does not have costs -1.               *)
Points(placed, trick_type, trick) ==
    CASE trick_type = 1 -> NoTricks(placed, trick)
      [] trick_type = 2 -> NoHearts(placed, trick)
      [] trick_type = 3 -> NoQueens(placed, trick)
      [] trick_type = 4 -> NoMisters(placed, trick)
      [] trick_type = 5 -> NoHeartsKing(placed, trick)
      [] trick_type = 6 -> NoSeventhLastTrick(placed, trick)
      [] trick_type = 7 -> Bandit(placed, trick)
      [] OTHER -> -1

CalculatePoints(played_cards, starter, trick_type, trick) ==
    LET placed == Placed(played_cards, starter)
    IN  [taker |-> FindTaker(placed, starter),
         points |-> Points(placed, trick_type, trick)]
=============================================================================
