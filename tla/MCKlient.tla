------------------------------ MODULE MCKlient ------------------------------
(***************************************************************************)
(* A client with a hand of two cards against any server with two seats.    *)
(* The texts of the messages, which are functions: every TRICK a player    *)
(* may send and every trick the server may be at; every TRICK and TAKEN of *)
(* a small deck and every trick the client may be at; a DEAL of each type  *)
(* and starter.  What is said of them depends on no state and is evaluated *)
(* in the first ones.                                                      *)
(***************************************************************************)
EXTENDS KlientProperties, SequencesExt

Wire == INSTANCE Messages

Of(figure, colour) == [figure |-> figure, colour |-> colour]

(* The client follows a colour it holds; its heart is taken.               *)
TwoCards == {Of(2, "H"), Of(3, "S")}
HeartLed == {<<Of(3, "H")>>}
HeartsTaken == {<<Of(3, "H"), Of(2, "H")>>}
-----------------------------------------------------------------------------
(* Figures of one character, of two and of a letter.                       *)
Deck == {Of(2, "C"), Of(10, "H"), Of(K, "S")}
Thirteen == [i \in 1..13 |-> Of(i + 1, <<"C", "D", "H", "S">>[1 + (i % 4)])]
CardTexts(cards) == [i \in DOMAIN cards |-> Wire!CardText[cards[i]]]

(* The server takes an answer for the card and the trick it was sent for,  *)
(* or for no card at all: cut at the wrong place, it names none.           *)
AnswerIsRead == Init =>
    \A number, trick \in Wire!TrickNumbers, card \in Card :
        LET text == Wire!send_trick(number, <<card>>)
            parsed == Wire!parse_message(text, trick)
        IN  /\ Wire!TRICK_client_check(text)
            /\ IF trick = number
               THEN parsed = [number |-> trick, card |-> Wire!CardText[card]]
               ELSE parsed.number # trick \/ parsed.card \notin Wire!CardTexts

(* The automatic client answers the TRICK of its own trick, and no other,  *)
(* with the colour of the first card, or freely when it leads.             *)
ColourIsRead == Init =>
    \A number, trick \in Wire!TrickNumbers, table \in BoundedSeq(Deck, 3) :
        LET text == Wire!send_trick(number, table) IN
        /\ Wire!TRICK_check(text, trick) <=> trick = number
        /\ trick = number =>
              Wire!expected_color(text, trick) =
                  IF table = <<>> THEN "" ELSE table[1].colour

(* A TAKEN is read for the trick it is about only, with its cards and the  *)
(* seat that took it.                                                      *)
TakenIsRead == Init =>
    \A number \in Wire!TrickNumbers, table \in [1..4 -> Deck], taker \in Wire!SeatNames :
        LET text == Wire!send_taken(number, table, taker) IN
        /\ \A trick \in {1, 9, 10, number} :
              Wire!TAKEN_check(text, trick) <=> trick = number
        /\ Wire!taken(text, number) = [taker |-> taker, cards |-> CardTexts(table)]

(* The hand is the thirteen cards, although the type and the starter of a  *)
(* deal may look like a card ("3S").                                       *)
HandIsRead == Init =>
    \A type \in 1..7, starter \in Wire!SeatNames :
        Wire!hand(Wire!send_deal(type, starter, Thirteen)) = CardTexts(Thirteen)
=============================================================================
