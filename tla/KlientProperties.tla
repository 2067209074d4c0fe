-------------------------- MODULE KlientProperties --------------------------
(***************************************************************************)
(* What the client of Klient.tla should guarantee.                         *)
(***************************************************************************)
EXTENDS Klient

TypeOK ==
    /\ is_ai \in BOOLEAN
    /\ main \in {"prepare", "poll", "tell", "command", "join", "exited"}
    /\ worker \in {"none", "poll", "close", "gone"}
    /\ status \in {0, 1}
    /\ access_mutex \in {Unlocked, Locked}
    /\ messages_to_send \in Seq(Card)
    /\ client_write_pipe \in Seq({CARD_PLAY})
    /\ client_read_pipe \in Seq({DISCONNECTED, SERVER_DISCONNECT, NORMAL_END})
    /\ client \in [trick_number : Nat, my_cards : SUBSET Card,
                   played_cards : SUBSET Card, taken_tricks : Seq(Seq(Card)),
                   got_score : BOOLEAN, got_total : BOOLEAN]
    /\ to_server \in Seq([trick : Nat, card : Card \cup {NoCard}])
    /\ typed \in Seq(Card)
    /\ said \in {"nothing", "busy", "deal", "score", "total"}
    /\ sent \in 0..MaxSent
    /\ connected \in BOOLEAN

(* handle_client takes front() of messages_to_send for each byte it reads, *)
(* without looking whether there is one: there is one, however fast the    *)
(* user types and however late the worker comes.                           *)
CardForEveryByte ==
    Len(messages_to_send)
        = Len(client_write_pipe) + (IF main = "tell" THEN 1 ELSE 0)

(* What the user types reaches the server once, in the order typed, while  *)
(* messages of the server come in between.                                 *)
TypedInOrder ==
    worker = "poll" /\ ~is_ai =>
        typed = [i \in DOMAIN to_server |-> to_server[i].card]
                    \o messages_to_send

(* The process reports success only when the server refused it or ended    *)
(* the game after the scores of the last deal it dealt: a server lost in   *)
(* the middle of a later deal is not success, whatever came before.        *)
StatusTellsTheEnd ==
    main = "exited" /\ status = 0 => said \in {"busy", "total"}

(* A client the server refuses or leaves ends: neither thread waits for    *)
(* the other or for the mutex, which the automatic client keeps at BUSY,   *)
(* whatever the user types meanwhile.                                      *)
ClientEnds == (~connected \/ said = "busy") ~> main = "exited"
=============================================================================
