------------------------------ MODULE MCKierki ------------------------------
(***************************************************************************)
(* Small instances of the whole game for TLC.                              *)
(***************************************************************************)
EXTENDS KierkiProperties, TLC

CONSTANTS c1, c2, c3

Two(colour) == [figure |-> 2, colour |-> colour]
Three(colour) == [figure |-> 3, colour |-> colour]

(* Which client comes to which seat: each to its own; or the first and the *)
(* last to one, and the second to the other.                               *)
OwnSeats == {[c \in Connections |->
    CASE c = c1 -> 0 [] c = c2 -> 1 [] c = c3 -> 2]}
FirstReplaced ==
    {wish \in [Connections -> Seats] : wish[c1] = wish[c3] /\ wish[c2] # wish[c1]}

(* Two tricks: seat 1 leads, with a heart and a spade in each hand.        *)
TwoTricks ==
    <<[seat |-> 1,
       cards |-> (0 :> {Two("H"), Three("S")}) @@ (1 :> {Three("H"), Two("S")})]>>

(* Three seats, two deals of one trick: another leader and other cards; in *)
(* the first seat 2 cannot follow, in the second it takes the trick.       *)
TwoDeals ==
    <<[seat |-> 1,
       cards |-> (0 :> {Two("H")}) @@ (1 :> {Three("H")}) @@ (2 :> {Two("S")})],
      [seat |-> 0,
       cards |-> (0 :> {Two("S")}) @@ (1 :> {Three("D")}) @@ (2 :> {Three("S")})]>>

Dealt == UNION {UNION {GameFile[d].cards[s] : s \in Seats} : d \in DOMAIN GameFile}
AnyTrickOrGarbage == [trick : 1..Tricks + 1, card : Dealt] \cup {Garbage}
=============================================================================
