----------------------------- MODULE TrickGame -----------------------------
(***************************************************************************)
(* What the server promises its four players, with no server in sight: a   *)
(* sequence of deals in which the seats play one card each, in turn, from  *)
(* the leader on, following the leader's colour when they can; the best    *)
(* card of the leader's colour takes the trick and its owner leads next.   *)
(* No pipe, thread, barrier, disconnection or retransmission can be seen   *)
(* here.  Serwer implements this specification (Serwer!Game).              *)
(***************************************************************************)
EXTENDS Cards

CONSTANTS
    N,          \* number of seats: 4 in the program
    GameFile    \* sequence of [seat |-> leader, cards |-> [seat -> hand]]

Seats == 0 .. N - 1

VARIABLES
    dealt,      \* number of deals of the game file dealt so far
    hands,      \* hands[s]: the cards seat s still holds
    table,      \* the cards of the current trick, in the order played
    leader      \* the seat that leads the current trick

vars == <<dealt, hands, table, leader>>

Init ==
    /\ dealt = 0
    /\ hands = [s \in Seats |-> {}]
    /\ table = <<>>
    /\ leader \in Seats

(* The next deal starts only when every card of the last one was played.   *)
Deal ==
    /\ dealt < Len(GameFile)
    /\ \A s \in Seats : hands[s] = {}
    /\ table = <<>>
    /\ dealt' = dealt + 1
    /\ hands' = GameFile[dealt + 1].cards
    /\ leader' = GameFile[dealt + 1].seat
    /\ UNCHANGED table

(* Seat s plays a card: it is the one whose turn it is, the card is one it *)
(* holds, and it follows the colour of the leader's card.                  *)
Play(s, card) ==
    /\ Len(table) < N
    /\ s = (leader + Len(table)) % N
    /\ card \in hands[s]
    /\ PlayedRightColour(card, hands[s], table)
    /\ hands' = [hands EXCEPT ![s] = @ \ {card}]
    /\ table' = Append(table, card)
    /\ UNCHANGED <<dealt, leader>>

(* A full table goes to the owner of the winning card, who leads next.     *)
Take ==
    /\ Len(table) = N
    /\ \E p \in 1..N : /\ Wins(table, p)
                       /\ leader' = (leader + p - 1) % N
    /\ table' = <<>>
    /\ UNCHANGED <<dealt, hands>>

Next ==
    \/ Deal
    \/ \E s \in Seats : \E card \in hands[s] : Play(s, card)
    \/ Take

Spec == Init /\ [][Next]_vars
=============================================================================
