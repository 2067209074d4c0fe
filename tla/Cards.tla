------------------------------- MODULE Cards -------------------------------
(***************************************************************************)
(* The cards of the game and the two rules of trick taking that both the   *)
(* server (serwer.cpp) and its PointsCalculator (points_calculator.cpp)    *)
(* decide by.  A card is written "10H" in the program; here it is a record *)
(* of its figure (J, Q, K, A are 11..14, as PointsCalculator has them) and *)
(* its colour.  The program plays with four seats, N, E, S and W, mapped   *)
(* to 0..3 by seats_to_array; a table is the sequence of the cards played  *)
(* in the current trick, the leader's card first.                          *)
(***************************************************************************)
EXTENDS Integers, Sequences, FiniteSets

Figures == 2..14
Colours == {"C", "D", "H", "S"}
Card == [figure : Figures, colour : Colours]

J == 11
Q == 12
K == 13

(* The colour test of parse_message: the leader of a trick plays anything, *)
(* everybody else the leader's colour or, holding none of it, anything.    *)
PlayedRightColour(card, hand, table) ==
    table # <<>> =>
        \/ card.colour = table[1].colour
        \/ \A held \in hand : held.colour # table[1].colour

(* Position p of a full table holds the best card of the leader's colour.  *)
Wins(table, p) ==
    /\ p \in DOMAIN table
    /\ table[p].colour = table[1].colour
    /\ \A q \in DOMAIN table :
          table[q].colour = table[1].colour => table[q].figure <= table[p].figure
=============================================================================
