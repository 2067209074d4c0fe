-------------------------- MODULE SerwerProperties --------------------------
(***************************************************************************)
(* What the server of Serwer.tla should guarantee: invariants, action and  *)
(* liveness properties, and the refinement of TrickGame.                   *)
(***************************************************************************)
EXTENDS Serwer

Closing == {"close", "join", "closed"}
Serves(c) == pc[c] \in Serving
InPipe(s, byte) ==
    \E i \in DOMAIN server_write_pipes[s] : server_write_pipes[s][i] = byte

(* The cards of the trick being played: none between a trick and the next. *)
Table ==
    IF server = "run_deal" \/ Len(taken_tricks) = trick_number
    THEN <<>>
    ELSE cards_on_table

TypeOK ==
    /\ server \in MainStates
    /\ caller \in {"read_deal", "scan", "trick"}
    /\ deals_read \in 0..Len(GameFile)
    /\ turn \in 0..N - 1
    /\ b_received_card \in BOOLEAN
    /\ ready \subseteq Seats
    /\ barrier_ready \subseteq Seats
    /\ aborted \in BOOLEAN
    /\ listening \in BOOLEAN
    /\ occupied \in Nat
    /\ b_is_barrier_ongoing \in BOOLEAN
    /\ seats_status \in [Seats -> Connections \cup {Free}]
    /\ cards \in [Seats -> SUBSET Card]
    /\ cards_on_table \in Seq(Card)
    /\ taken_tricks \in Seq(Seq(Card))
    /\ trick_number \in 0..Tricks
    /\ last_taker \in Seats
    /\ player_turn \in Seats \cup {Nobody}
    /\ barrier_messages \in [Seats -> Seq(Inputs)]
    /\ server_read_pipes \in [Seats -> Seq(ToServer)]
    /\ server_write_pipes \in [Seats -> Seq(ToClient)]
    /\ pc \in [Connections -> ThreadStates]
    /\ seat \in [Connections -> Seats \cup {Nobody}]
    /\ b_was_destined_to_play \in [Connections -> BOOLEAN]
    /\ b_is_barrier \in [Connections -> BOOLEAN]
    /\ current_trick \in [Connections -> Nat]

(* Two threads never serve one seat: neither a newcomer racing another for *)
(* a free seat in reserve_spot, nor one that takes the seat close_thread   *)
(* has just given back while the old thread still has work to do.          *)
SeatExclusive ==
    \A c \in Connections : Serves(c) => seats_status[seat[c]] = c

(* No card is ever in two places, two hands, a hand and a trick, twice in  *)
(* a trick or in two tricks of a deal, however clients come, go, repeat    *)
(* themselves or answer for the one that sat there before.                 *)
CardPlayedOnce ==
    /\ \A s, t \in Seats : s # t => cards[s] \cap cards[t] = {}
    /\ server # "run_deal" =>
         LET tricks == Append(taken_tricks, Table) IN
           \A i \in DOMAIN tricks : \A p \in DOMAIN tricks[i] :
             /\ \A s \in Seats : tricks[i][p] \notin cards[s]
             /\ \A j \in DOMAIN tricks : \A q \in DOMAIN tricks[j] :
                   tricks[i][p] = tricks[j][q] => i = j /\ p = q

(* While nobody leaves, no card is lost either: each card dealt is still   *)
(* in the hand it was dealt to, or was played in a trick of this deal; a   *)
(* card pushed after the table was taken would vanish with the table.      *)
NoCardLost ==
    server # "run_deal" /\ deals_read > 0 =>
      LET tricks == Append(taken_tricks, Table) IN
        \A s \in Seats : \A card \in GameFile[deals_read].cards[s] :
            \/ card \in cards[s]
            \/ \E i \in DOMAIN tricks : \E p \in DOMAIN tricks[i] :
                  tricks[i][p] = card

(* PointsCalculator attributes the p-th card of the table to the p-th seat *)
(* from the leader on: so the p-th card was dealt to that seat, and there  *)
(* is at most one card a seat.                                             *)
PlayedInTurn ==
    /\ Len(Table) <= N
    /\ \A p \in DOMAIN Table :
          Table[p] \in GameFile[deals_read].cards[(last_taker + p - 1) % N]

(* Whoever is being asked for a card, by a CARD_PLAY in its pipe or by the *)
(* TRICK already sent to it, is the player whose turn it is.               *)
RequestIsCurrent ==
    /\ \A s \in Seats : InPipe(s, CARD_PLAY) => player_turn = s
    /\ \A c \in Connections :
          Serves(c) /\ b_was_destined_to_play[c] => player_turn = seat[c]

(* A TAKEN still to be read is about the trick just taken: the table and   *)
(* last_taker the thread will read when it gets there are that trick's.    *)
TakenIsCurrent ==
    \A s \in Seats : InPipe(s, TAKEN) /\ server \notin Closing =>
        /\ Len(taken_tricks) = trick_number
        /\ trick_number > 0
        /\ cards_on_table = taken_tricks[trick_number]

(* barrier() returns only when every seat has answered it: no thread goes  *)
(* on to the next phase with a BARRIER_RESPONSE of the last one unread.    *)
BarrierSynchronises ==
    \A s \in Seats :
        InPipe(s, BARRIER_RESPONSE) => server \in InBarrier \cup Closing

(* During a barrier occupied is the number of seats that have answered it. *)
BarrierCounts ==
    server \in {"barrier_poll", "barrier_scan"} =>
        occupied = Cardinality({s \in Seats : ~InPipe(s, BARRIER_RESPONSE)})

(* Nothing that connected players send, however early, late, wrong or      *)
(* repeated, makes the server give up.                                     *)
NoAbort == ~aborted

(* The server implements the game of TrickGame.  A deal begins when        *)
(* run_deal has set the leader; a trick ends when its taker is recorded.   *)
Game == INSTANCE TrickGame WITH
    dealt <- IF server = "run_deal" THEN deals_read - 1 ELSE deals_read,
    hands <- IF server = "run_deal" THEN [s \in Seats |-> {}] ELSE cards,
    table <- Table,
    leader <- last_taker
GameSpec == Game!Spec

(* When the first deal is read every seat has had a player.                *)
EveryoneCame ==
    server = "read_deal" /\ deals_read = 0 =>
        \A s \in Seats : \E c \in Connections : seat[c] = s

(* A CARD_PLAY that reaches barrier() does not end the game.               *)
BarrierTakesCards ==
    [][\A j \in Seats :
          BarrierScan(j) /\ Head(server_read_pipes[j]) = CARD_PLAY
              => server' # "close"]_vars

(* A thread that had a seat and has left the loop of client_poll, or lost  *)
(* its client while it greeted it.                                         *)
HasLeft(c) == seat[c] # Nobody /\ pc[c] \in {"bye", "gone"}

(* run_deal never waits for one particular seat to write: whatever its     *)
(* scan is about to read is there, though a nested barrier() has read the  *)
(* pipes of the same poll, as long as no more than one player has left.    *)
ScanFindsBytes ==
    server = "scan" /\ Cardinality({c \in Connections : HasLeft(c)}) <= 1 =>
        \A j \in Seats : IsNext(j, ready) => server_read_pipes[j] # <<>>

(* While the game is on, a seat that is taken has a thread.                *)
SeatGivenBack ==
    \A c \in Connections : \A s \in Seats :
        seats_status[s] = c /\ server \notin Closing => pc[c] # "gone"

(* Once every seat is served, and nobody leaves, the whole game file is    *)
(* played and the server ends: no wake-up of a barrier is lost, no card    *)
(* message of run_deal is swallowed, every thread is joined.               *)
GameFinishes ==
    (\A s \in Seats : \E c \in Connections : Serves(c) /\ seat[c] = s)
        ~> server = "closed"
=============================================================================
