------------------------------ MODULE Messages ------------------------------
(***************************************************************************)
(* The messages with a number and cards as they go over the wire: what     *)
(* senders.cpp writes, what regex.cpp accepts, and where serwer.cpp and    *)
(* klient.cpp cut.  Numbers and figures have one or two characters and     *)
(* nothing separates them, and the reader cuts by its own trick's number,  *)
(* not by the one it was sent.  A text is a sequence of characters.        *)
(***************************************************************************)
EXTENDS Cards, SequencesExt

DELIMETER == <<"\r", "\n">>
Digit == <<"1", "2", "3", "4", "5", "6", "7", "8", "9">>
SeatNames == {"N", "E", "S", "W"}
TrickNumbers == 1..13

(* std::to_string, for the numbers of tricks.                              *)
ToString1(n) ==
    IF n < 10 THEN <<Digit[n]>>
    ELSE <<"1", IF n = 10 THEN "0" ELSE Digit[n - 10]>>

FigureText(figure) ==
    IF figure <= 10 THEN ToString1(figure)
    ELSE <<<<"J", "Q", "K", "A">>[figure - 10]>>
CardText == [card \in Card |-> Append(FigureText(card.figure), card.colour)]
CardTexts == {CardText[card] : card \in Card}
Texts(cards) == FlattenSeq([i \in DOMAIN cards |-> CardText[cards[i]]])

send_trick(number, cards) ==
    <<"T", "R", "I", "C", "K">> \o ToString1(number) \o Texts(cards) \o DELIMETER
send_taken(number, cards, taker) ==
    <<"T", "A", "K", "E", "N">> \o ToString1(number) \o Texts(cards) \o <<taker>>
        \o DELIMETER
send_deal(type, starter, cards) ==
    <<"D", "E", "A", "L">> \o ToString1(type) \o <<starter>> \o Texts(cards)
        \o DELIMETER

(* string::substr: from a position counted from 0, to the end at most.     *)
substr(text, from, count) ==
    SubSeq(text, from + 1, Min({from + count, Len(text)}))

(* extract_cards: the matches of a card, leftmost first, not overlapping.  *)
(* No card's text is the beginning of another's.                           *)
TextAt(text, i) ==
    {t \in {substr(text, i - 1, count) : count \in {2, 3}} : t \in CardTexts}
extract_cards(text) ==
    LET from[i \in 1..Len(text) + 1] ==
            IF i > Len(text) THEN <<>>
            ELSE IF TextAt(text, i) = {} THEN from[i + 1]
            ELSE LET found == CHOOSE t \in TextAt(text, i) : TRUE
                 IN  <<found>> \o from[i + Len(found)]
    IN from[1]

(* A text that is cards and nothing else: the part of the regular          *)
(* expressions between the number and the end.                             *)
OnlyCards(text, counts) ==
    LET cards == extract_cards(text)
    IN  FlattenSeq(cards) = text /\ Len(cards) \in counts

(* "^" prefix cards suffix "$", the suffix of a fixed length.              *)
Matches(text, prefix, counts, suffix) ==
    /\ Len(text) >= Len(prefix) + suffix
    /\ IsPrefix(prefix, text)
    /\ OnlyCards(SubSeq(text, Len(prefix) + 1, Len(text) - suffix), counts)
    /\ IsSuffix(DELIMETER, text)

TRICK_client_check(text) ==
    \E n \in TrickNumbers :
        Matches(text, <<"T", "R", "I", "C", "K">> \o ToString1(n), {1}, 2)
TRICK_check(text, trick_nr) ==
    Matches(text, <<"T", "R", "I", "C", "K">> \o ToString1(trick_nr), 0..3, 2)
TAKEN_check(text, trick_nr) ==
    /\ Matches(text, <<"T", "A", "K", "E", "N">> \o ToString1(trick_nr), {4}, 3)
    /\ text[Len(text) - 2] \in SeatNames
-----------------------------------------------------------------------------
(* parse_message: one digit of the number or two, as the server's trick    *)
(* has; stoi stops at the first character that is no digit.                *)
CutsOneLate(trick) == trick <= 10
CutsOne(trick) == trick < 10

Value(character) == SelectInSeq(Digit, LAMBDA digit : digit = character)
stoi(text) ==
    IF Len(text) > 1 /\ text[2] \in Range(Digit) \cup {"0"}
    THEN 10 * Value(text[1]) + Value(text[2])
    ELSE Value(text[1])

parse_message(text, current_trick) ==
    IF CutsOne(current_trick)
    THEN [number |-> stoi(substr(text, 5, 1)),
          card |-> substr(text, 6, Len(text) - 8)]
    ELSE [number |-> stoi(substr(text, 5, 2)),
          card |-> substr(text, 7, Len(text) - 9)]

(* The client on TRICK: expected_color, of the first card after the cut,   *)
(* unless the text is too short to have one.                               *)
NoCardsLong(text) == Len(text) <= 10
NoCards(text) == Len(text) <= 9
expected_color(text, trick_loc) ==
    IF NoCards(text) THEN ""
    ELSE Last(extract_cards(IF CutsOne(trick_loc)
                            THEN substr(text, 6, Len(text) - 8)
                            ELSE substr(text, 7, Len(text) - 9))[1])

(* On TAKEN: the taker and the cards.                                      *)
TakerAtEnd(text) == Len(text) - 1
TakerAt(text) == Len(text) - 2
taken(text, trick_loc) ==
    [taker |-> text[TakerAt(text)],
     cards |-> extract_cards(IF CutsOne(trick_loc)
                             THEN substr(text, 6, Len(text) - 9)
                             ELSE substr(text, 7, Len(text) - 10))]

(* On DEAL: what follows the type and the starter.                         *)
hand_whole(text) == extract_cards(text)
hand(text) == extract_cards(substr(text, 6, Len(text) - 8))
=============================================================================
