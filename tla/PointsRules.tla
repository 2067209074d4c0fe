---------------------------- MODULE PointsRules ----------------------------
(***************************************************************************)
(* The rules PointsCalculator is checked against: what a table costs, from *)
(* its cards alone and not from where they lie.  The numbers are those of  *)
(* the program: it has no other statement of them.                         *)
(***************************************************************************)
EXTENDS Cards, Functions

CardValue(trick_type, card) ==
    (IF trick_type \in {2, 7} /\ card.colour = "H" THEN 1 ELSE 0)
    + (IF trick_type \in {3, 7} /\ card.figure = Q THEN 5 ELSE 0)
    + (IF trick_type \in {4, 7} /\ card.figure \in {J, K} THEN 2 ELSE 0)
    + (IF trick_type \in {5, 7} /\ card.figure = K /\ card.colour = "H"
       THEN 18 ELSE 0)

TrickValue(trick_type, number) ==
    (IF trick_type \in {1, 7} THEN 1 ELSE 0)
    + (IF trick_type \in {6, 7} /\ number \in {7, 13} THEN 40 ELSE 0)
    - (IF trick_type \in 1..7 THEN 0 ELSE 1)

Cost(trick_type, table, number) ==
    TrickValue(trick_type, number)
    + SumFunction([p \in DOMAIN table |-> CardValue(trick_type, table[p])])
=============================================================================
