-------------------------- MODULE KierkiProperties --------------------------
(***************************************************************************)
(* What the server and its clients should guarantee together.              *)
(***************************************************************************)
EXTENDS Kierki, SerwerProperties

(* Types, and what they bound: a client never gets past the last trick of  *)
(* a deal, and whatever it answers is an input the server of Serwer knows. *)
KTypeOK ==
    /\ wanted \in [Connections -> Seats]
    /\ client \in [Connections -> [
          trick_number : 1..Tricks + 1, my_cards : SUBSET Card,
          played_cards : SUBSET Card, taken_tricks : Seq(Seq(Card)),
          got_score : BOOLEAN, got_total : BOOLEAN]]
    /\ answers \in [Connections -> Seq(Inputs)]
    /\ typed \in [Connections -> 0..MaxTyped] /\ resends \in 0..MaxResends
    /\ trick_type_global \in 0..deals_read
    /\ taken_takers \in Seq(Seats) /\ Len(taken_takers) = Len(taken_tricks)
    /\ capacity \in Nat /\ capacity >= Len(taken_tricks)
    /\ greeting \in [Connections -> [
          step : {"none", "deal", "begin", "taken", "sent"},
          deal : 0..trick_type_global, i : Nat, valid : BOOLEAN]]
    /\ told \in [Connections -> [type : 0..deals_read, hand : 0..deals_read]]

(* The client plays the deal the server plays: it was sent its cards.      *)
InDeal(c) ==
    /\ Serves(c) /\ server # "run_deal"
    /\ deals_read > 0 /\ told[c].hand = deals_read

Pending(c) ==
    {answers[c][i] : i \in DOMAIN answers[c]} \cup
    (IF Serves(c)
     THEN {barrier_messages[seat[c]][i] : i \in DOMAIN barrier_messages[seat[c]]}
     ELSE {})

(* A player that is asked knows what it is asked for: the type and the     *)
(* cards of this deal, and every trick before this one.  Otherwise an      *)
(* automatic player ignores the TRICK and the game waits for ever.         *)
AskedInStep ==
    \A c \in Connections : Serves(c) /\ b_was_destined_to_play[c] =>
        /\ told[c] = [type |-> deals_read, hand |-> deals_read]
        /\ client[c].trick_number = trick_number

(* Every card the server would still accept from a seat, its client still  *)
(* counts among its own, played or not: the tricks it was told of before   *)
(* it came, answers refused, repeated or too late take none away.          *)
HandKept ==
    \A c \in Connections : InDeal(c) =>
        cards[seat[c]] \subseteq client[c].my_cards \cup client[c].played_cards

(* The tricks a player is shown as its own are those of this deal that its *)
(* seat has taken, up to the last one it was told of, each once.           *)
TricksAgree ==
    \A c \in Connections : InDeal(c) =>
        LET before == client[c].trick_number - 1
            won == {i \in 1..before : taken_takers[i] = seat[c]}
            shown == client[c].taken_tricks
        IN  /\ before <= Len(taken_tricks)
            /\ Len(shown) = Cardinality(won)
            /\ {shown[j] : j \in DOMAIN shown} = {taken_tricks[i] : i \in won}

(* What an automatic player sends is played: no answer of its is refused.  *)
AnswersAreLegal ==
    \A c \in Automatic : Serves(c) /\ pc[c] = "poll" /\ ~b_is_barrier[c]
            /\ answers[c] # <<>> =>
        /\ Head(answers[c]) # Garbage
        /\ Legal(c, Head(answers[c]))

(* Once every seat is served by a client that stays, whoever left before,  *)
(* the whole game file is played and the server ends: the barrier in which *)
(* it waits for the one that left is woken, and the newcomer knows enough  *)
(* to play.                                                                *)
ReplacedGameFinishes ==
    (\A s \in Seats : \E c \in Connections \ Leavers :
        Serves(c) /\ seat[c] = s) ~> server = "closed"
=============================================================================
