------------------------------ MODULE MCSerwer ------------------------------
(***************************************************************************)
(* Small instances of the server for TLC.  The configurations choose one   *)
(* of the game files and one of the sets of messages below; two seats      *)
(* instead of four, one or two tricks instead of thirteen.                 *)
(***************************************************************************)
EXTENDS SerwerProperties, TLC

CONSTANTS c1, c2, c3    \* the connections, where symmetry needs their names

Two(colour) == [figure |-> 2, colour |-> colour]
Three(colour) == [figure |-> 3, colour |-> colour]

(* Two seats, two tricks: seat 1 leads; both hold a heart and a spade, so  *)
(* the colour rule refuses half of what they might play.                   *)
TwoTricks ==
    <<[seat |-> 1,
       cards |-> (0 :> {Two("H"), Three("S")}) @@ (1 :> {Three("H"), Two("S")})]>>

(* Two seats, one trick. *)
OneTrick ==
    <<[seat |-> 1, cards |-> (0 :> {Two("H")}) @@ (1 :> {Three("H")})]>>

(* TRICK messages with any card of the game and any number of a trick, or  *)
(* none at all.                                                            *)
Dealt == UNION {UNION {GameFile[d].cards[s] : s \in Seats} : d \in DOMAIN GameFile}
AnyTrick == [trick : 1..Tricks, card : Dealt]
Silence == {}

AllAlike == Permutations({c1, c2, c3})
LeaversAlike == Permutations({c1, c2})
=============================================================================
