---------------------------- MODULE MCDealScores ----------------------------
(***************************************************************************)
(* Two deals of three tricks: a bandit, where every rule counts, with the  *)
(* leader's hand short of a colour, and a deal of misters led by another   *)
(* seat.  PointsCalculator and FileReader, which are functions, on small   *)
(* decks and files: their properties depend on no state and are evaluated  *)
(* in the first one.                                                       *)
(***************************************************************************)
EXTENDS DealScores, SequencesExt, TLC

Of(figure, colour) == [figure |-> figure, colour |-> colour]

BanditDeal ==
    [trick_type |-> 7, seat |-> 2,
     cards |-> (0 :> {Of(K, "H"), Of(2, "S"), Of(9, "S")})
            @@ (1 :> {Of(Q, "S"), Of(10, "H"), Of(J, "C")})
            @@ (2 :> {Of(5, "H"), Of(14, "S"), Of(Q, "C")})
            @@ (3 :> {Of(J, "S"), Of(3, "H"), Of(4, "D")})]
Misters ==
    [trick_type |-> 4, seat |-> 1,
     cards |-> (0 :> {Of(K, "C"), Of(3, "D"), Of(4, "C")})
            @@ (1 :> {Of(J, "C"), Of(2, "C"), Of(Q, "D")})
            @@ (2 :> {Of(10, "C"), Of(K, "D"), Of(14, "C")})
            @@ (3 :> {Of(J, "D"), Of(6, "H"), Of(7, "S")})]
TwoDeals == <<BanditDeal, Misters>>

(* Cards of which some count under every type, ranked within a colour and  *)
(* across; 8 is no type of the game; 7 and 13 are the tricks that count.   *)
SixCards == {Of(K, "H"), Of(10, "H"), Of(Q, "H"), Of(J, "S"), Of(2, "S"), Of(14, "C")}

(* Files of up to three deals.                                             *)
UpToThree == BoundedSeq({BanditDeal, Misters}, 3)
=============================================================================
