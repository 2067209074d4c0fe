--------------------------- MODULE KlientMessages ---------------------------
(***************************************************************************)
(* The messages the server sends and what the client's worker thread       *)
(* (handle_client of klient.cpp) makes of one of them, as operators on the *)
(* members of Klient it changes; which card the automatic player chooses.  *)
(* A hand is a set: its order only decides which of several cards strategy *)
(* returns, and depends on the order of the game file.                     *)
(***************************************************************************)
EXTENDS Cards

CONSTANTS
    N,          \* cards in a full trick: 4 in the program
    Tricks,     \* cards in a DEAL: 13 in the program
    NoCard      \* the "" strategy returns with an empty hand

(* senders.cpp; type and starter of a DEAL only concern the user.          *)
Deal(deal, hand) == [type |-> "DEAL", deal |-> deal, hand |-> hand]
Trick(number, table) ==
    [type |-> "TRICK", number |-> number, table |-> table]
Taken(number, table, taker) ==
    [type |-> "TAKEN", number |-> number, table |-> table, taker |-> taker]
Score == [type |-> "SCORE"]
Total == [type |-> "TOTAL"]
Wrong == [type |-> "WRONG"]
Busy == [type |-> "BUSY"]

(* The members of Klient that only the messages of the server change.      *)
NewClient ==
    [trick_number |-> 1, my_cards |-> {}, played_cards |-> {},
     taken_tricks |-> <<>>, got_score |-> FALSE, got_total |-> FALSE]

OnTable(table) == {table[p] : p \in DOMAIN table}

(* The checks of regex.cpp: a DEAL has 13 cards, a TAKEN four and a TRICK  *)
(* at most three, and both the number of the client's own trick.           *)
DEAL_check(message) ==
    message.type = "DEAL" /\ Cardinality(message.hand) = Tricks
TAKEN_check_any(message, trick_number) ==
    message.type = "TAKEN" /\ Len(message.table) = N
TAKEN_check(message, trick_number) ==
    /\ message.type = "TAKEN"
    /\ message.number = trick_number
    /\ Len(message.table) = N
TRICK_check(message, trick_number) ==
    /\ message.type = "TRICK"
    /\ message.number = trick_number
    /\ Len(message.table) < N

(* DEAL: played_cards is not cleared. *)
OnDealKeepingFlags(client, message) ==
    [client EXCEPT !.trick_number = 1, !.taken_tricks = <<>>,
                   !.my_cards = message.hand]
OnDealKeepingTrick(client, message) ==
    [client EXCEPT !.got_score = FALSE, !.got_total = FALSE,
                   !.taken_tricks = <<>>, !.my_cards = message.hand]
OnDeal(client, message) ==
    [client EXCEPT !.trick_number = 1, !.got_score = FALSE,
                   !.got_total = FALSE, !.taken_tricks = <<>>,
                   !.my_cards = message.hand]

(* TAKEN: what was played is taken back, what was taken is given up.       *)
StillHeldForgetting(client, table) == client.my_cards \ OnTable(table)
StillHeld(client, table) ==
    (client.my_cards \cup client.played_cards) \ OnTable(table)
OnTaken(client, message, seat) ==
    [client EXCEPT
        !.my_cards = StillHeld(client, message.table),
        !.played_cards = {},
        !.taken_tricks = IF message.taker = seat
                         THEN Append(@, message.table) ELSE @,
        !.trick_number = @ + 1]

(* Every message but BUSY, and TRICK as far as it changes no card.         *)
Received(client, message, seat) ==
    CASE DEAL_check(message) -> OnDeal(client, message)
      [] TAKEN_check(message, client.trick_number) ->
            OnTaken(client, message, seat)
      [] message = Score -> [client EXCEPT !.got_score = TRUE]
      [] message = Total -> [client EXCEPT !.got_total = TRUE]
      [] OTHER -> client

(* strategy: the last card when it leads, else the first of the colour or, *)
(* without any, the last.                                                  *)
StrategyIgnoringColour(client, table) ==
    IF client.my_cards = {} THEN {NoCard} ELSE client.my_cards
Strategy(client, table) ==
    IF client.my_cards = {} THEN {NoCard}
    ELSE {card \in client.my_cards :
             PlayedRightColour(card, client.my_cards, table)}

OnTrickKeepingEmpty(client, card) ==
    [client EXCEPT !.my_cards = @ \ {card}, !.played_cards = @ \cup {card}]
OnTrick(client, card) ==
    [client EXCEPT !.my_cards = @ \ {card},
                   !.played_cards = @ \cup ({card} \ {NoCard})]
=============================================================================
