----------------------------- MODULE TurnProofs -----------------------------
(***************************************************************************)
(* The game while nobody leaves it, for every number of seats, tricks,     *)
(* deals and connections and any messages of the players: a barrier ends   *)
(* only when every seat has answered it, a card is asked for of the player *)
(* whose turn it is and of nobody else, and the main thread finds in its   *)
(* pipes nothing but the byte it waits for, so it never gives up.  It      *)
(* follows that the server implements the game of TrickGame.               *)
(***************************************************************************)
EXTENDS SerwerProofs

(* Nobody has left, or nobody can. *)
NobodyLeft == Droppers = {} \/ \A c \in Connections : ~HasLeft(c)

InTrick == {"turn", "ask", "await", "scan", "taken"}
Dealt(s) == GameFile[deals_read].cards[s]

(* No thread greets a newcomer or says goodbye; while the deals are played *)
(* every seat is taken, and the pipe of a seat nobody has taken yet still  *)
(* holds the BARRIER_RESPONSE of the barrier that waits for it.            *)
NobodyMoves == \A c \in Connections : pc[c] \notin {"greet", "bye"}
SeatsTaken ==
    /\ deals_read > 0 \/ server \notin InBarrier =>
          \A s \in Seats : seats_status[s] # Free
    /\ Waits => \A s \in Seats :
          seats_status[s] = Free => server_write_pipes[s] # <<>>

(* What the pipe of a seat may hold, by where the main thread is. *)
Announced(s, pipe) ==
    /\ Has(pipe, BARRIER_RESPONSE) => Waits
    /\ Waits => EndsWith(pipe, BARRIER_RESPONSE)
    /\ Has(pipe, TAKEN) => server \in InBarrier /\ caller = "trick"
    /\ Has(pipe, DISCONNECTED) => server \in {"join", "closed"}
Requested(s, pipe) ==
    Has(pipe, CARD_PLAY) =>
        /\ server = "await" /\ s = Asked /\ player_turn = Asked
        /\ AtEnd(pipe, CARD_PLAY)
        /\ \A c \in Connections : ~b_was_destined_to_play[c]
PipesAnnounce == \A s \in Seats : Announced(s, server_write_pipes[s])
PipesRequest == \A s \in Seats : Requested(s, server_write_pipes[s])

(* The last thread to answer a barrier is alone in reporting it, and one   *)
(* byte at a time comes back: the one the main thread waits for.           *)
Notifies ==
    \A c \in Connections : pc[c] = "notify" =>
        /\ server = "barrier_poll" /\ occupied = N
        /\ \A s \in Seats : server_read_pipes[s] = <<>>
        /\ \A d \in Connections : pc[d] = "notify" => d = c
BarrierDone(s) ==
    /\ server_read_pipes[s] = <<BARRIER_RESPONSE>>
    /\ occupied = N
    /\ \/ server = "barrier_poll"
       \/ server = "barrier_scan" /\ barrier_ready = {s}
CardCame(s) ==
    /\ server_read_pipes[s] = <<CARD_PLAY>>
    /\ s = Asked /\ player_turn = Nobody
    /\ \/ server = "await"
       \/ server = "scan" /\ ready = {s}
Reported ==
    /\ \A s \in Seats : server_read_pipes[s] # <<>> =>
          /\ \A t \in Seats \ {s} : server_read_pipes[t] = <<>>
          /\ BarrierDone(s) \/ CardCame(s)
    /\ server = "barrier_scan" =>
          /\ occupied = N
          /\ \A s \in barrier_ready : server_read_pipes[s] # <<>>
    /\ server = "scan" => \A s \in ready : server_read_pipes[s] # <<>>

(* Whose turn it is, and how many cards are on the table by then. *)
Destined ==
    \A c \in Connections : b_was_destined_to_play[c] =>
        Serves(c) /\ server = "await" /\ seat[c] = Asked /\ player_turn = Asked
Turns ==
    /\ server \notin {"ask", "await", "scan"} => player_turn = Nobody
    /\ server = "ask" => player_turn = Asked
    /\ server = "await" =>
          /\ ~b_received_card
          /\ \/ player_turn = Asked /\ Len(cards_on_table) = turn
             \/ player_turn = Nobody /\ Len(cards_on_table) = turn + 1
    /\ server = "scan" =>
          /\ player_turn = Nobody /\ Len(cards_on_table) = turn + 1
          /\ b_received_card <=> ready = {}
    /\ server \in {"turn", "ask"} => Len(cards_on_table) = turn
    /\ server = "taken" => Len(cards_on_table) = N

(* The cards of a deal: in the hands they were dealt to, or on the table,  *)
(* each at the place of its player.                                        *)
HandsDealt ==
    /\ deals_read > 0 => \A s \in Seats : cards[s] \subseteq Dealt(s)
    /\ server = "run_deal" => \A s \in Seats : cards[s] = Dealt(s)
TableDealt ==
    server \in InTrick => \A p \in DOMAIN cards_on_table :
        cards_on_table[p] \in Dealt((last_taker + p - 1) % N)

(* A barrier follows a trick or a deal, never a disconnection. *)
DealStates ==
    /\ server \in InTrick \cup {"run_deal", "trick", "scores"} => deals_read > 0
    /\ server \in InBarrier =>
          /\ caller # "scan"
          /\ caller = "trick" =>
                /\ deals_read > 0 /\ trick_number > 0
                /\ cards_on_table = taken_tricks[trick_number]
    /\ server \in Closing => trick_number = Len(taken_tricks)
    /\ ~aborted

Calm ==
    /\ NobodyMoves /\ SeatsTaken
    /\ PipesAnnounce /\ PipesRequest
    /\ Notifies /\ Reported /\ BarrierCounts
    /\ Destined /\ Turns
    /\ HandsDealt /\ TableDealt /\ NoCardLost
    /\ DealStates
CalmInv == NobodyLeft => Calm
-----------------------------------------------------------------------------
(* The steps of a client thread, as far as the invariant can tell, while   *)
(* nobody leaves.                                                          *)
GoesOn(c) ==
    /\ pc'[c] \notin {"greet", "bye", "notify"}
    /\ Serves(c) => pc'[c] \in Serving
Roams(c) ==
    /\ UNCHANGED <<gameVars, occupied, seats_status, pipeVars, seat,
                   b_was_destined_to_play>>
    /\ GoesOn(c)
Arrives(c, s) ==
    /\ seats_status[s] = Free
    /\ seats_status' = [seats_status EXCEPT ![s] = c]
    /\ seat' = [seat EXCEPT ![c] = s]
    /\ UNCHANGED <<gameVars, occupied, pipeVars, b_was_destined_to_play>>
    /\ pc[c] = "iam"
    /\ GoesOn(c)
Plays(c, card) ==
    /\ Serves(c)
    /\ b_was_destined_to_play[c]
    /\ card \in cards[seat[c]]
    /\ PlayedRightColour(card, cards[seat[c]], cards_on_table)
    /\ cards' = [cards EXCEPT ![seat[c]] = @ \ {card}]
    /\ cards_on_table' = Append(cards_on_table, card)
    /\ player_turn' = Nobody
    /\ WriteToServer(seat[c], CARD_PLAY)
    /\ Answered(c)
    /\ UNCHANGED <<taken_tricks, trick_number, last_taker, occupied, seats_status,
                   server_write_pipes, seat>>
    /\ GoesOn(c)
Reads(c, byte) ==
    /\ ReadFromServer(c, byte)
    /\ UNCHANGED <<gameVars, seats_status, server_read_pipes, seat>>
    /\ \/ /\ byte = CARD_PLAY
          /\ b_was_destined_to_play' = [b_was_destined_to_play EXCEPT ![c] = TRUE]
          /\ UNCHANGED occupied
          /\ GoesOn(c)
       \/ /\ byte = BARRIER_RESPONSE
          /\ UNCHANGED b_was_destined_to_play
          /\ occupied' = occupied + 1
          /\ pc'[c] = IF occupied + 1 = N THEN "notify" ELSE "top"
       \/ /\ byte = DISCONNECTED
          /\ UNCHANGED b_was_destined_to_play
          /\ pc'[c] = "gone"
       \/ /\ byte \in {DEAL, TAKEN, SCORES, BARRIER_END}
          /\ UNCHANGED <<occupied, b_was_destined_to_play>>
          /\ GoesOn(c)

LEMMA ParseKinds ==
  ASSUME TypeInv, NEW c \in Connections, NEW message, NEW after \in Serving,
         after \notin {"greet", "notify"}, Serves(c),
         NobodyLeft', UNCHANGED <<mainVars, server_write_pipes, seat>>,
         Parse(c, message, after)
  PROVE  Roams(c) \/ \E card : Plays(c, card)
  <1>1. \A where : Goto(c, where) => pc'[c] = where
    BY DEF Goto, TypeInv, TypeOK
  <1>2. after \notin {"greet", "bye", "notify"}
    BY DEF Serving
  <1>3. ~(c \in Droppers /\ CloseThread(c))
    <2> SUFFICES ASSUME c \in Droppers, pc'[c] = "bye" PROVE FALSE
      BY <1>1 DEF CloseThread
    <2>1. seat'[c] # Nobody
      BY ServerAssumption DEF TypeInv, ServesASeat, Seats, Nobody
    <2> QED
      BY <2>1 DEF NobodyLeft, HasLeft
  <1>4. CASE Legal(c, message) /\ PlayCard(c, message, after)
    <2>1. Plays(c, message.card)
      BY <1>1, <1>2, <1>4 DEF Legal, PlayCard, Plays, GoesOn, barrierVars
    <2> QED
      BY <2>1
  <1>5. CASE /\ Goto(c, after)
             /\ UNCHANGED <<gameVars, barrierVars, seats_status, server_read_pipes,
                            b_was_destined_to_play>>
    BY <1>1, <1>2, <1>5 DEF Roams, GoesOn, barrierVars, pipeVars
  <1> QED
    BY <1>3, <1>4, <1>5 DEF Parse

LEMMA ThreadKinds ==
  ASSUME TypeInv, NobodyMoves, SeatsTaken, NobodyLeft', NEW c \in Connections,
         OwnStep(c) \/ PipeStep(c) \/ Environment(c)
  PROVE  \/ Roams(c) \/ Notify(c)
         \/ \E s \in Seats : Arrives(c, s)
         \/ \E card : Plays(c, card)
         \/ \E byte : Reads(c, byte)
  <1>0. UNCHANGED mainVars
    BY ThreadsLeaveMain
  <1>1. \A where : Goto(c, where) => pc'[c] = where
    BY DEF Goto, TypeInv, TypeOK
  <1>2. Serves(c) => seat[c] # Nobody
    BY ServerAssumption DEF TypeInv, ServesASeat, Seats, Nobody
  <1> USE DEF GoesOn, Serves, Serving
  <1>3. CASE Drain(c)
    <2> DEFINE queued == barrier_messages[seat[c]]
               after == IF Len(queued) > 1 THEN pc[c]
                        ELSE IF pc[c] = "drain" THEN "poll" ELSE "top"
    <2>1. /\ after \in Serving /\ after \notin {"greet", "notify"}
          /\ Serves(c) /\ UNCHANGED <<server_write_pipes, seat>>
      BY <1>3 DEF Drain
    <2>2. Parse(c, Head(queued), after)
      BY <1>3 DEF Drain
    <2> HIDE DEF queued, after
    <2> QED
      BY <1>0, <2>1, <2>2, ParseKinds
  <1>4. CASE OwnStep(c) /\ ~Drain(c) /\ ~Notify(c)
    BY <1>1, <1>4 DEF OwnStep, Greet, Enter, LoopTop, Bye, NobodyMoves, Roams,
       barrierVars
  <1>5. ASSUME NEW message \in Inputs, SocketMessage(c, message)
        PROVE  Roams(c) \/ \E card : Plays(c, card)
    <2>1. AfterSocket(c) \subseteq {"top", "pipe"}
      BY DEF AfterSocket
    <2>2. Serves(c) /\ UNCHANGED <<server_write_pipes, seat>>
      BY <1>5 DEF SocketMessage
    <2>3. CASE b_is_barrier[c]
      BY <1>1, <1>5, <2>1, <2>3 DEF SocketMessage, Roams, barrierVars, pipeVars
    <2>4. CASE ~b_is_barrier[c]
      <3>1. PICK after \in AfterSocket(c) : Parse(c, message, after)
        BY <1>5, <2>4 DEF SocketMessage
      <3>2. after \in Serving /\ after \notin {"greet", "notify"}
        BY <2>1
      <3> QED
        BY <1>0, <2>2, <3>1, <3>2, ParseKinds
    <2> QED
      BY <2>3, <2>4
  <1>6. ~SocketClosed(c) /\ ~SendFails(c)
    <2> SUFFICES ASSUME c \in Droppers, pc'[c] = "bye", Serves(c), UNCHANGED seat
                 PROVE  FALSE
      BY <1>1 DEF SocketClosed, SendFails, CloseThread, ReadFromServer
    <2> QED
      BY <1>2 DEF NobodyLeft, HasLeft
  <1>7. CASE Accept(c) \/ NoSeat(c) \/ GreetFails(c)
    BY <1>1, <1>7 DEF Accept, NoSeat, GreetFails, NobodyMoves, Roams, barrierVars
  <1>10. CASE Timeout(c)
    BY <1>1, <1>10, TimeoutGoesOn DEF Timeout, Roams, barrierVars, pipeVars
  <1>8. ASSUME NEW s \in Seats, Reserve(c, s) PROVE Arrives(c, s)
    <2>1. ~(deals_read > 0)
      BY <1>8 DEF Reserve, SeatIsFree, SeatsTaken
    <2> QED
      BY <1>1, <1>8, <2>1 DEF Reserve, DealIsOn, SeatIsFree, Arrives, barrierVars
  <1>9. CASE PipeStep(c)
    <2>1. CASE OnCardPlay(c)
      <3>1. Reads(c, CARD_PLAY)
        BY <1>1, <2>1 DEF OnCardPlay, Reads, barrierVars
      <3> QED
        BY <3>1
    <2>2. CASE OnAnnouncement(c)
      <3>1. \E byte : Reads(c, byte)
        BY <1>1, <2>2 DEF OnAnnouncement, Reads, barrierVars
      <3> QED
        BY <3>1
    <2>3. CASE OnBarrierResponse(c)
      <3>1. Reads(c, BARRIER_RESPONSE)
        BY <1>1, <2>3 DEF OnBarrierResponse, LastAnswer, Reads
      <3> QED
        BY <3>1
    <2>4. CASE OnBarrierEnd(c)
      <3>1. Reads(c, BARRIER_END)
        BY <1>1, <2>4 DEF OnBarrierEnd, Reads, barrierVars
      <3> QED
        BY <3>1
    <2>5. CASE OnDisconnected(c)
      <3>1. Reads(c, DISCONNECTED)
        BY <1>1, <2>5 DEF OnDisconnected, Leave, Reads
      <3> QED
        BY <3>1
    <2> QED
      BY <1>9, <2>1, <2>2, <2>3, <2>4, <2>5 DEF PipeStep
  <1> QED
    BY <1>3, <1>4, <1>5, <1>6, <1>7, <1>8, <1>9, <1>10 DEF OwnStep, Environment

(* Whoever left stays away. *)
LEMMA LeftForGood == TypeInv /\ [Next]_vars /\ NobodyLeft' => NobodyLeft
  BY LeftStays DEF NobodyLeft
-----------------------------------------------------------------------------
TurnInv == SeatInv /\ CardInv /\ CalmInv

(* A step of thread c, at a time when nobody has left. *)
CalmStep(c) ==
    /\ SeatInv /\ CardInv /\ Calm
    /\ SeatInv' /\ CardInv'
    /\ UNCHANGED mainVars
    /\ \A d \in Connections \ {c} : pc'[d] = pc[d]

(* What holds by where the main thread stands and by the cards.            *)
LEMMA SameGame ==
  ASSUME Calm, UNCHANGED <<mainVars, gameVars>>
  PROVE  /\ UNCHANGED Asked
         /\ Turns' /\ HandsDealt' /\ TableDealt' /\ NoCardLost' /\ DealStates'
  <1> USE DEF Calm, mainVars, gameVars
  <1>1. UNCHANGED Asked
    BY DEF Asked
  <1>2. Turns'
    BY <1>1 DEF Turns
  <1>3. HandsDealt' /\ TableDealt'
    BY DEF HandsDealt, TableDealt, Dealt
  <1>4. NoCardLost'
    BY DEF NoCardLost, Table
  <1>5. DealStates'
    BY DEF DealStates
  <1> QED
    BY <1>1, <1>2, <1>3, <1>4, <1>5

LEMMA RoamsCalm ==
  ASSUME NEW c \in Connections, CalmStep(c), Roams(c)
  PROVE  Calm'
  <1> USE DEF CalmStep, Roams, GoesOn
  <1>1. Turns' /\ HandsDealt' /\ TableDealt' /\ NoCardLost' /\ DealStates' /\ UNCHANGED Asked
    BY SameGame
  <1>2. UNCHANGED <<server, caller, deals_read, player_turn, ready, barrier_ready,
                    server_read_pipes, server_write_pipes, seats_status, occupied,
                    seat, b_was_destined_to_play>>
    BY DEF mainVars, gameVars, pipeVars
  <1>3. NobodyMoves' /\ SeatsTaken'
    BY <1>2 DEF Calm, NobodyMoves, SeatsTaken, Waits
  <1>4. PipesAnnounce' /\ PipesRequest' /\ BarrierCounts'
    BY <1>1, <1>2 DEF Calm, PipesAnnounce, PipesRequest, Announced, Requested, Waits,
       BarrierCounts, InPipe
  <1>5. Notifies' /\ Reported'
    BY <1>1, <1>2 DEF Calm, Notifies, Reported, BarrierDone, CardCame
  <1>6. Destined'
    BY <1>1, <1>2 DEF Calm, Destined, Serves
  <1> QED
    BY <1>1, <1>3, <1>4, <1>5, <1>6 DEF Calm

LEMMA ArrivesCalm ==
  ASSUME NEW c \in Connections, NEW s \in Seats, CalmStep(c), Arrives(c, s)
  PROVE  Calm'
  <1> USE DEF CalmStep, Arrives, GoesOn
  <1>1. Turns' /\ HandsDealt' /\ TableDealt' /\ NoCardLost' /\ DealStates' /\ UNCHANGED Asked
    BY SameGame
  <1>2. UNCHANGED <<server, caller, deals_read, player_turn, ready, barrier_ready,
                    server_read_pipes, server_write_pipes, occupied,
                    b_was_destined_to_play>>
    BY DEF mainVars, gameVars, pipeVars
  <1>3. NobodyMoves' /\ SeatsTaken'
    <2>1. \A t \in Seats : seats_status'[t] = Free => seats_status[t] = Free
      BY DEF SeatInv, TypeInv, TypeOK
    <2> QED
      BY <1>2, <2>1 DEF Calm, NobodyMoves, SeatsTaken, Waits
  <1>4. PipesAnnounce' /\ PipesRequest' /\ BarrierCounts'
    BY <1>1, <1>2 DEF Calm, PipesAnnounce, PipesRequest, Announced, Requested, Waits,
       BarrierCounts, InPipe
  <1>5. Notifies' /\ Reported'
    BY <1>1, <1>2 DEF Calm, Notifies, Reported, BarrierDone, CardCame
  <1>6. server \in InBarrier
    BY DEF Calm, SeatsTaken
  <1>7. Destined'
    BY <1>1, <1>2, <1>6 DEF Calm, Destined, Serves, InBarrier
  <1> QED
    BY <1>1, <1>3, <1>4, <1>5, <1>7 DEF Calm

LEMMA NotifyCalm ==
  ASSUME NEW c \in Connections, CalmStep(c), Notify(c)
  PROVE  Calm'
  <1> USE DEF CalmStep
  <1>0. UNCHANGED gameVars
    BY DEF Notify
  <1>1. Turns' /\ HandsDealt' /\ TableDealt' /\ NoCardLost' /\ DealStates' /\ UNCHANGED Asked
    BY <1>0, SameGame
  <1>2. UNCHANGED <<server, caller, deals_read, player_turn, ready, barrier_ready,
                    server_write_pipes, seats_status, occupied, seat,
                    b_was_destined_to_play>>
    BY DEF Notify, mainVars, gameVars, barrierVars
  <1>3. pc[c] = "notify" /\ pc'[c] = "top" /\ seat[c] \in Seats
    BY DEF Notify, Goto, SeatInv, TypeInv, TypeOK, ServesASeat, Serves, Serving
  <1>4. /\ server = "barrier_poll" /\ occupied = N
        /\ \A t \in Seats : server_read_pipes[t] = <<>>
        /\ \A d \in Connections : pc[d] = "notify" => d = c
    BY <1>3 DEF Calm, Notifies
  <1>5. \A t \in Seats : server_read_pipes'[t] =
            IF t = seat[c] THEN <<BARRIER_RESPONSE>> ELSE <<>>
    <2>1. Append(<<>>, BARRIER_RESPONSE) = <<BARRIER_RESPONSE>>
      OBVIOUS
    <2> QED
      BY <1>3, <1>4, <2>1 DEF Notify, WriteToServer, SeatInv, TypeInv, TypeOK
  <1>6. NobodyMoves' /\ SeatsTaken'
    BY <1>2, <1>3 DEF Calm, NobodyMoves, SeatsTaken, Waits
  <1>7. PipesAnnounce' /\ PipesRequest' /\ BarrierCounts'
    BY <1>1, <1>2 DEF Calm, PipesAnnounce, PipesRequest, Announced, Requested, Waits,
       BarrierCounts, InPipe
  <1>8. Notifies'
    BY <1>3, <1>4 DEF Notifies
  <1>9. Reported'
    BY <1>1, <1>2, <1>3, <1>4, <1>5 DEF Calm, Reported, BarrierDone, CardCame
  <1>10. Destined'
    BY <1>1, <1>2, <1>3 DEF Calm, Destined, Serves, Serving
  <1> QED
    BY <1>1, <1>6, <1>7, <1>8, <1>9, <1>10 DEF Calm

LEMMA AskedIsASeat == TypeOK => Asked \in Seats /\ Asked # Nobody
  <1> SUFFICES ASSUME TypeOK PROVE Asked \in Seats /\ Asked # Nobody
    OBVIOUS
  <1>1. last_taker + turn \in Nat
    BY ServerAssumption DEF TypeOK, Seats
  <1>2. Asked \in Seats
    BY <1>1, ModInSeats DEF Asked
  <1> QED
    BY <1>2, ServerAssumption DEF Seats, Nobody

(* The cards a hand has lost are the cards of the tricks: a card that      *)
(* moves from the hand to the table is not lost.                           *)
InTricks(card, tricks) ==
    \E i \in DOMAIN tricks : \E p \in DOMAIN tricks[i] : tricks[i][p] = card

LEMMA CardStaysInPlay ==
  ASSUME NEW tricks \in Seq(Seq(Card)), NEW table \in Seq(Card), NEW card \in Card
  PROVE  LET new == Append(tricks, Append(table, card)) IN
           /\ InTricks(card, new)
           /\ \A other : InTricks(other, Append(tricks, table)) => InTricks(other, new)
  <1> DEFINE n == Len(tricks)
             m == Len(table)
             old == Append(tricks, table)
             more == Append(table, card)
             new == Append(tricks, more)
  <1>1. /\ n \in Nat /\ m \in Nat
        /\ DOMAIN old = 1..n + 1 /\ DOMAIN new = 1..n + 1
        /\ \A i \in 1..n : old[i] = tricks[i] /\ new[i] = tricks[i]
        /\ old[n + 1] = table /\ new[n + 1] = more
    BY AppendIsSeq
  <1>2. /\ DOMAIN table = 1..m
        /\ DOMAIN more = 1..m + 1
        /\ \A p \in 1..m : more[p] = table[p]
        /\ more[m + 1] = card
    OBVIOUS
  <1> HIDE DEF n, m, old, new, more
  <1>3. InTricks(card, new)
    <2>1. n + 1 \in DOMAIN new /\ m + 1 \in DOMAIN new[n + 1] /\ new[n + 1][m + 1] = card
      BY <1>1, <1>2
    <2> QED
      BY <2>1 DEF InTricks
  <1>4. ASSUME NEW other, NEW i \in DOMAIN old, NEW p \in DOMAIN old[i], old[i][p] = other
        PROVE  InTricks(other, new)
    <2>1. i \in DOMAIN new /\ p \in DOMAIN new[i] /\ new[i][p] = other
      <3>1. CASE i = n + 1
        BY <1>1, <1>2, <1>4, <3>1
      <3>2. CASE i # n + 1
        BY <1>1, <1>4, <3>2
      <3> QED
        BY <3>1, <3>2
    <2> QED
      BY <2>1 DEF InTricks
  <1> QED
    BY <1>3, <1>4 DEF InTricks, old, new, more

LEMMA PlaysCalm ==
  ASSUME NEW c \in Connections, NEW card, CalmStep(c), Plays(c, card)
  PROVE  Calm'
  <1> USE DEF CalmStep
  <1>1. /\ TypeOK /\ Calm /\ SeatExclusive /\ Recorded
        /\ UNCHANGED <<server, caller, deals_read, turn, ready, barrier_ready, aborted,
                       b_received_card, taken_tricks, trick_number, last_taker, occupied,
                       seats_status, server_write_pipes, seat>>
    BY DEF SeatInv, CardInv, TypeInv, mainVars, Plays
  <1>2. /\ Serves(c) /\ server = "await" /\ seat[c] = Asked /\ player_turn = Asked
        /\ b_was_destined_to_play[c]
    BY DEF Plays, Calm, Destined
  <1>3. Asked \in Seats /\ Asked # Nobody /\ UNCHANGED Asked
    BY <1>1, AskedIsASeat DEF Asked
  <1>4. \A t \in Seats : server_read_pipes[t] = <<>>
    BY <1>2, <1>3 DEF Calm, Reported, BarrierDone, CardCame
  <1>5. \A t \in Seats : server_read_pipes'[t] =
            IF t = Asked THEN <<CARD_PLAY>> ELSE <<>>
    <2>1. Append(<<>>, CARD_PLAY) = <<CARD_PLAY>>
      OBVIOUS
    <2> QED
      BY <1>1, <1>2, <1>3, <1>4, <2>1 DEF Plays, WriteToServer, TypeOK
  <1>6. \A d \in Connections : ~b_was_destined_to_play'[d]
    <2>1. \A d \in Connections : b_was_destined_to_play[d] => d = c
      BY <1>1, <1>2 DEF Calm, Destined, SeatExclusive
    <2> QED
      BY <1>1, <2>1 DEF Plays, Answered, TypeOK
  <1>7. player_turn' = Nobody /\ cards_on_table' = Append(cards_on_table, card)
    BY DEF Plays
  <1>8. deals_read > 0 /\ trick_number = Len(taken_tricks) + 1
    BY <1>1, <1>2 DEF Calm, DealStates, InTrick, Recorded, Playing
  <1>9. card \in cards[Asked] /\ card \in Dealt(Asked) /\ card \in Card
    BY <1>1, <1>2, <1>3, <1>8 DEF Plays, Calm, HandsDealt, TypeOK
  <1>10. /\ Len(cards_on_table) = turn /\ turn \in Nat /\ cards_on_table \in Seq(Card)
         /\ ~b_received_card
    BY <1>1, <1>2, <1>3, ServerAssumption DEF Calm, Turns, TypeOK
  <1>11. /\ Len(cards_on_table') = turn + 1
         /\ DOMAIN cards_on_table' = 1..turn + 1
         /\ DOMAIN cards_on_table = 1..turn
         /\ \A p \in 1..turn : cards_on_table'[p] = cards_on_table[p]
         /\ cards_on_table'[turn + 1] = card
    BY <1>7, <1>9, <1>10
  <1>12. NobodyMoves' /\ SeatsTaken'
    BY <1>1, <1>2 DEF Plays, GoesOn, Calm, NobodyMoves, SeatsTaken, Waits
  <1>13. PipesAnnounce' /\ BarrierCounts'
    BY <1>1, <1>2 DEF Calm, PipesAnnounce, Announced, Waits, BarrierCounts
  <1>14. PipesRequest'
    BY <1>1, <1>2 DEF Calm, PipesRequest, Requested
  <1>15. Notifies'
    BY <1>1, <1>2 DEF Plays, GoesOn, Calm, Notifies
  <1>16. Reported'
    BY <1>1, <1>2, <1>3, <1>5, <1>7 DEF Reported, CardCame
  <1>17. Destined'
    BY <1>6 DEF Destined
  <1>18. Turns'
    BY <1>1, <1>2, <1>7, <1>10, <1>11 DEF Turns
  <1>19. HandsDealt'
    <2>1. \A s \in Seats : cards'[s] \subseteq cards[s]
      BY <1>1 DEF Plays, TypeOK
    <2> QED
      BY <1>1, <1>2, <2>1 DEF Calm, HandsDealt, Dealt
  <1>20. TableDealt'
    <2>1. (last_taker + (turn + 1) - 1) % N = Asked
      <3>1. last_taker + (turn + 1) - 1 = last_taker + turn
        BY <1>1, <1>10, ServerAssumption DEF TypeOK, Seats
      <3> QED
        BY <3>1 DEF Asked
    <2>2. \A p \in 1..turn : cards_on_table[p] \in Dealt((last_taker + p - 1) % N)
      BY <1>2, <1>11 DEF Calm, TableDealt, InTrick
    <2>3. ASSUME NEW p \in 1..turn + 1
          PROVE  cards_on_table'[p] \in Dealt((last_taker + p - 1) % N)
      <3>1. CASE p = turn + 1
        BY <1>9, <1>11, <2>1, <3>1
      <3>2. CASE p # turn + 1
        BY <1>10, <1>11, <2>2, <3>2
      <3> QED
        BY <3>1, <3>2
    <2> QED
      BY <1>1, <1>11, <2>3 DEF TableDealt, Dealt
  <1>21. NoCardLost'
    <2>1. Table = cards_on_table /\ Table' = Append(cards_on_table, card)
      <3>1. Len(taken_tricks) # trick_number
        BY <1>1, <1>8 DEF TypeOK
      <3> QED
        BY <1>1, <1>2, <1>7, <3>1 DEF Table
    <2> DEFINE old == Append(taken_tricks, Table)
               new == Append(taken_tricks, Table')
    <2>2. InTricks(card, new) /\ \A other : InTricks(other, old) => InTricks(other, new)
      BY <1>1, <1>9, <1>10, <2>1, CardStaysInPlay DEF TypeOK
    <2>3. \A s \in Seats : \A other \in Dealt(s) : other \in cards[s] \/ InTricks(other, old)
      BY <1>2, <1>8 DEF Calm, NoCardLost, InTricks, Dealt
    <2> HIDE DEF old, new
    <2>4. \A s \in Seats : \A other \in cards[s] : other \in cards'[s] \/ other = card
      BY <1>1 DEF Plays, TypeOK
    <2>5. \A s \in Seats : \A other \in Dealt(s) : other \in cards'[s] \/ InTricks(other, new)
      BY <2>2, <2>3, <2>4
    <2> QED
      BY <1>1, <2>5 DEF NoCardLost, InTricks, Dealt, new
  <1>22. DealStates'
    BY <1>1, <1>2 DEF Calm, DealStates, InBarrier, Closing
  <1> QED
    BY <1>12, <1>13, <1>14, <1>15, <1>16, <1>17, <1>18, <1>19, <1>20, <1>21, <1>22
    DEF Calm

LEMMA SeatsAreFinite == IsFiniteSet(Seats) /\ Cardinality(Seats) = N
  <1>1. 0 \in Int /\ N - 1 \in Int /\ N \in Nat \ {0}
    BY ServerAssumption
  <1>2. IsFiniteSet(0..N - 1)
    BY <1>1, FS_Interval
  <1>3. Cardinality(0..N - 1) = IF 0 > N - 1 THEN 0 ELSE (N - 1) - 0 + 1
    BY <1>1, FS_Interval
  <1> QED
    BY <1>1, <1>2, <1>3 DEF Seats

Unanswered(pipes) == {s \in Seats : ~Has(pipes[s], BARRIER_RESPONSE)}

LEMMA CountsUnanswered ==
  /\ BarrierCounts <=>
       (Waits => occupied = Cardinality(Unanswered(server_write_pipes)))
  /\ BarrierCounts' <=>
       (Waits' => occupied' = Cardinality(Unanswered(server_write_pipes')))
  <1>1. {s \in Seats : ~InPipe(s, BARRIER_RESPONSE)} = Unanswered(server_write_pipes)
    BY DEF InPipe, Unanswered, Has
  <1>2. {s \in Seats : ~InPipe(s, BARRIER_RESPONSE)'} = Unanswered(server_write_pipes')
    BY DEF InPipe, Unanswered, Has
  <1> QED
    BY <1>1, <1>2 DEF BarrierCounts, Waits

LEMMA AllAnswered ==
  ASSUME NEW pipes, Cardinality(Unanswered(pipes)) = N
  PROVE  \A s \in Seats : ~Has(pipes[s], BARRIER_RESPONSE)
  <1>1. Unanswered(pipes) \in SUBSET Seats
    BY DEF Unanswered
  <1>2. Unanswered(pipes) = Seats
    BY <1>1, SeatsAreFinite, FS_Subset
  <1> QED
    BY <1>2 DEF Unanswered

LEMMA ReadsCalm ==
  ASSUME NEW c \in Connections, NEW byte, CalmStep(c), Reads(c, byte)
  PROVE  Calm'
  <1> USE DEF CalmStep
  <1> DEFINE q == seat[c]
             pipe == server_write_pipes[q]
  <1>1. /\ TypeOK /\ Calm /\ SeatExclusive
        /\ pc' \in [Connections -> ThreadStates]
        /\ Serves(c) /\ q \in Seats /\ seats_status[q] = c /\ c # Free
    BY ServerAssumption DEF SeatInv, TypeInv, TypeOK, Reads, ReadFromServer, Serves, Serving,
       SeatExclusive, ServesASeat
  <1>2. UNCHANGED <<server, caller, deals_read, turn, ready, barrier_ready, player_turn,
                    last_taker, server_read_pipes, seats_status, seat>>
    BY DEF Reads, mainVars, gameVars
  <1>3. Turns' /\ HandsDealt' /\ TableDealt' /\ NoCardLost' /\ DealStates' /\ UNCHANGED Asked
    BY SameGame DEF Reads
  <1>4. pipe \in Seq(ToClient) /\ pipe # <<>> /\ Head(pipe) = byte
    BY <1>1 DEF Reads, ReadFromServer, TypeOK
  <1>5. \A s \in Seats : server_write_pipes'[s] =
            IF s = q THEN Tail(pipe) ELSE server_write_pipes[s]
    BY <1>1 DEF Reads, ReadFromServer, TypeOK
  <1> HIDE DEF pipe
  <1>6. /\ Has(pipe, byte)
        /\ \A b : Has(Tail(pipe), b) => Has(pipe, b)
        /\ \A b : Has(pipe, b) /\ byte # b => Has(Tail(pipe), b)
        /\ \A b : AtEnd(pipe, b) => AtEnd(Tail(pipe), b)
        /\ \A b : EndsWith(pipe, b) => EndsWith(Tail(pipe), b)
        /\ \A b : AtEnd(pipe, b) /\ byte = b => Tail(pipe) = <<>>
        /\ \A b : EndsWith(pipe, b) => AtEnd(pipe, b) /\ Has(pipe, b)
    BY <1>4, Consumed
  <1>7. PipesAnnounce'
    <2>1. ASSUME NEW s \in Seats PROVE Announced(s, server_write_pipes'[s])
      <3>1. Announced(s, server_write_pipes[s])
        BY <1>1 DEF Calm, PipesAnnounce
      <3>2. CASE s = q
        BY <1>5, <1>6, <3>1, <3>2 DEF Announced, pipe
      <3>3. CASE s # q
        BY <1>5, <3>1, <3>3
      <3> QED
        BY <3>2, <3>3
    <2> QED
      BY <1>2, <2>1 DEF PipesAnnounce, Announced, Waits
  <1>8. SeatsTaken'
    BY <1>1, <1>2, <1>5 DEF Calm, SeatsTaken, Waits
  <1>9. Announced(q, pipe) /\ Requested(q, pipe)
    BY <1>1 DEF Calm, PipesAnnounce, PipesRequest, pipe
  <1>10. CASE byte = CARD_PLAY
    <2>1. /\ server = "await" /\ q = Asked /\ player_turn = Asked /\ Tail(pipe) = <<>>
          /\ \A d \in Connections : ~b_was_destined_to_play[d]
      BY <1>6, <1>9, <1>10 DEF Requested
    <2>2. /\ b_was_destined_to_play' = [b_was_destined_to_play EXCEPT ![c] = TRUE]
          /\ UNCHANGED occupied /\ GoesOn(c)
      BY <1>10 DEF Reads, CARD_PLAY, BARRIER_RESPONSE, DISCONNECTED, DEAL, TAKEN, SCORES,
         BARRIER_END
    <2>3. NobodyMoves' /\ Notifies' /\ Reported' /\ BarrierCounts'
      BY <1>1, <1>2, <1>3, <2>1, <2>2 DEF GoesOn, Calm, NobodyMoves, Notifies, Reported,
         BarrierDone, CardCame, BarrierCounts
    <2>4. PipesRequest'
      <3>1. \A s \in Seats : ~Has(server_write_pipes'[s], CARD_PLAY)
        BY <1>1, <1>5, <2>1, EmptyPipe DEF Calm, PipesRequest, Requested
      <3> QED
        BY <3>1 DEF PipesRequest, Requested
    <2>5. Destined'
      BY <1>1, <1>2, <1>3, <2>1, <2>2 DEF TypeOK, Destined, GoesOn, Serves
    <2> QED
      BY <1>3, <1>7, <1>8, <2>3, <2>4, <2>5 DEF Calm
  (* Another request stays where it is, unless it was read. *)
  <1>11. ASSUME UNCHANGED b_was_destined_to_play
         PROVE  PipesRequest'
    <2>1. ASSUME NEW s \in Seats PROVE Requested(s, server_write_pipes'[s])
      <3>1. Requested(s, server_write_pipes[s])
        BY <1>1 DEF Calm, PipesRequest
      <3>2. CASE s = q
        BY <1>5, <1>6, <3>1, <3>2 DEF Requested, pipe
      <3>3. CASE s # q
        BY <1>5, <3>1, <3>3
      <3> QED
        BY <3>2, <3>3
    <2> QED
      BY <1>2, <1>3, <1>11, <2>1 DEF PipesRequest, Requested
  <1>12. CASE byte = BARRIER_RESPONSE
    <2>1. Waits /\ Tail(pipe) = <<>>
      BY <1>6, <1>9, <1>12 DEF Announced
    <2>2. /\ UNCHANGED b_was_destined_to_play
          /\ occupied' = occupied + 1
          /\ pc'[c] = IF occupied + 1 = N THEN "notify" ELSE "top"
      BY <1>12 DEF Reads, CARD_PLAY, BARRIER_RESPONSE, DISCONNECTED, DEAL, TAKEN, SCORES,
         BARRIER_END
    <2> DEFINE old == Unanswered(server_write_pipes)
               new == Unanswered(server_write_pipes')
    <2>3. old \in SUBSET Seats /\ q \notin old /\ new = old \cup {q}
      BY <1>1, <1>5, <1>6, <1>12, <2>1, EmptyPipe DEF Unanswered, pipe
    <2>4. occupied = Cardinality(old)
      BY <1>1, <2>1, CountsUnanswered DEF Calm
    <2> HIDE DEF old, new
    <2>5. IsFiniteSet(old)
      BY <2>3, SeatsAreFinite, FS_Subset
    <2>6. Cardinality(new) = occupied'
      BY <2>2, <2>3, <2>4, <2>5, FS_AddElement
    <2>7. BarrierCounts'
      BY <2>6, CountsUnanswered DEF new
    <2>8. occupied # N
      <3>1. ASSUME occupied = N PROVE FALSE
        <4>1. ~Has(pipe, BARRIER_RESPONSE)
          BY <1>1, <2>4, <3>1, AllAnswered DEF old, pipe
        <4> QED
          BY <1>6, <1>12, <4>1
      <3> QED
        BY <3>1
    <2>9. server = "barrier_poll" /\ \A s \in Seats : server_read_pipes[s] = <<>>
      BY <1>1, <2>1, <2>8 DEF Calm, Reported, BarrierDone, CardCame, Waits
    <2>10. \A d \in Connections : pc[d] # "notify"
      BY <1>1, <2>8 DEF Calm, Notifies
    <2>11. Notifies' /\ Reported' /\ NobodyMoves'
      BY <1>1, <1>2, <2>2, <2>9, <2>10 DEF Calm, Notifies, Reported, NobodyMoves
    <2>12. Destined'
      BY <1>1, <2>1, <2>2 DEF Calm, Destined, Waits
    <2> QED
      BY <1>3, <1>7, <1>8, <1>11, <2>2, <2>7, <2>11, <2>12 DEF Calm
  <1>13. CASE byte = DISCONNECTED
    <2>1. server \in {"join", "closed"}
      BY <1>6, <1>9, <1>13 DEF Announced
    <2>2. UNCHANGED b_was_destined_to_play /\ pc'[c] = "gone"
      BY <1>13 DEF Reads, CARD_PLAY, BARRIER_RESPONSE, DISCONNECTED, DEAL, TAKEN, SCORES,
         BARRIER_END
    <2>3. /\ \A s \in Seats : server_read_pipes[s] = <<>>
          /\ \A d \in Connections : pc[d] # "notify" /\ ~b_was_destined_to_play[d]
      BY <1>1, <2>1 DEF Calm, Reported, BarrierDone, CardCame, Notifies, Destined
    <2>4. NobodyMoves' /\ Notifies' /\ Reported' /\ BarrierCounts' /\ Destined'
      BY <1>1, <1>2, <2>1, <2>2, <2>3 DEF Calm, NobodyMoves, Notifies, Reported,
         BarrierCounts, Destined
    <2> QED
      BY <1>3, <1>7, <1>8, <1>11, <2>2, <2>4 DEF Calm
  <1>14. CASE byte \in {DEAL, TAKEN, SCORES, BARRIER_END}
    <2>1. UNCHANGED <<occupied, b_was_destined_to_play>> /\ GoesOn(c)
      BY <1>14 DEF Reads, CARD_PLAY, BARRIER_RESPONSE, DISCONNECTED, DEAL, TAKEN, SCORES,
         BARRIER_END
    <2>2. BarrierCounts'
      <3>1. byte # BARRIER_RESPONSE
        BY <1>14 DEF BARRIER_RESPONSE, DEAL, TAKEN, SCORES, BARRIER_END
      <3>2. Unanswered(server_write_pipes') = Unanswered(server_write_pipes)
        BY <1>1, <1>5, <1>6, <3>1 DEF Unanswered, pipe
      <3>3. Waits => occupied' = Cardinality(Unanswered(server_write_pipes'))
        BY <1>1, <2>1, <3>2, CountsUnanswered DEF Calm
      <3>4. Waits' = Waits
        BY <1>2 DEF Waits
      <3> QED
        BY <3>3, <3>4, CountsUnanswered
    <2>3. NobodyMoves' /\ Notifies' /\ Reported' /\ Destined'
      BY <1>1, <1>2, <1>3, <2>1 DEF Calm, GoesOn, NobodyMoves, Notifies, Reported,
         BarrierDone, CardCame, Destined, Serves
    <2> QED
      BY <1>3, <1>7, <1>8, <1>11, <2>1, <2>2, <2>3 DEF Calm
  <1> QED
    BY <1>10, <1>12, <1>13, <1>14 DEF Reads
-----------------------------------------------------------------------------
(* A step of the main thread, at a time when nobody has left. *)
CalmMove ==
    /\ SeatInv /\ CardInv /\ Calm
    /\ SeatInv' /\ CardInv'
    /\ UNCHANGED <<threadVars, seats_status>>

LEMMA MoveFacts ==
  ASSUME CalmMove
  PROVE  /\ TypeOK /\ TypeOK' /\ Recorded /\ Recorded'
         /\ UNCHANGED <<pc, seat, b_was_destined_to_play, seats_status>>
         /\ NobodyMoves'
  BY DEF CalmMove, SeatInv, CardInv, TypeInv, threadVars, Calm, NobodyMoves

LEMMA Broadcasts ==
  ASSUME TypeOK, NEW byte \in ToClient, Broadcast(byte)
  PROVE  \A s \in Seats :
           /\ server_write_pipes'[s] # <<>>
           /\ \A b : Has(server_write_pipes'[s], b) <=>
                       Has(server_write_pipes[s], b) \/ byte = b
           /\ ~Has(server_write_pipes[s], byte) => EndsWith(server_write_pipes'[s], byte)
  <1> SUFFICES ASSUME NEW s \in Seats
               PROVE  /\ server_write_pipes'[s] # <<>>
                      /\ \A b : Has(server_write_pipes'[s], b) <=>
                                  Has(server_write_pipes[s], b) \/ byte = b
                      /\ ~Has(server_write_pipes[s], byte) =>
                                  EndsWith(server_write_pipes'[s], byte)
    OBVIOUS
  <1>1. server_write_pipes[s] \in Seq(ToClient)
    BY DEF TypeOK
  <1>2. server_write_pipes'[s] = Append(server_write_pipes[s], byte)
    BY DEF Broadcast
  <1> QED
    BY <1>1, <1>2, Written

(* Nothing is on its way to the main thread and no card is asked for.      *)
Quiet ==
    /\ \A s \in Seats : /\ server_read_pipes[s] = <<>>
                       /\ ~Has(server_write_pipes[s], CARD_PLAY)
    /\ \A c \in Connections : pc[c] # "notify" /\ ~b_was_destined_to_play[c]

LEMMA QuietBefore ==
  ASSUME Calm, server \notin {"barrier_poll", "barrier_scan", "await", "scan"}
  PROVE  Quiet
  BY DEF Calm, PipesRequest, Requested, Notifies, Reported, BarrierDone, CardCame, Destined,
     Quiet

LEMMA QuietAfter ==
  ASSUME Quiet', server' \notin {"barrier_scan", "scan"}
  PROVE  PipesRequest' /\ Notifies' /\ Reported' /\ Destined'
  <1>1. PipesRequest' /\ Notifies' /\ Destined'
    BY DEF Quiet, PipesRequest, Requested, Notifies, Destined
  <1>2. Reported'
    BY DEF Quiet, Reported
  <1> QED
    BY <1>1, <1>2

LEMMA QuietStays ==
  ASSUME Quiet, UNCHANGED <<pc, b_was_destined_to_play, server_read_pipes>>,
         \/ UNCHANGED server_write_pipes
         \/ /\ TypeOK
            /\ \E byte \in ToClient \ {CARD_PLAY} : Broadcast(byte)
  PROVE  Quiet'
  BY Broadcasts DEF Quiet

(* The main thread moves on and leaves the cards alone. *)
LEMMA CardsStay ==
  ASSUME Calm, server # "run_deal", server' # "run_deal",
         server' \in InTrick => server \in InTrick,
         UNCHANGED <<deals_read, cards, cards_on_table, taken_tricks, trick_number,
                     last_taker>>
  PROVE  HandsDealt' /\ TableDealt' /\ NoCardLost'
  <1>1. HandsDealt' /\ TableDealt'
    BY DEF Calm, HandsDealt, TableDealt, Dealt
  <1>2. NoCardLost'
    BY DEF Calm, NoCardLost, Table
  <1> QED
    BY <1>1, <1>2

LEMMA BarrierBeginCalm == CalmMove /\ BarrierBegin => Calm'
  <1> SUFFICES ASSUME CalmMove, BarrierBegin PROVE Calm'
    OBVIOUS
  <1>1. /\ TypeOK /\ Calm /\ NobodyMoves'
        /\ UNCHANGED <<pc, seat, b_was_destined_to_play, seats_status>>
    BY MoveFacts DEF CalmMove
  <1>2. /\ server = "barrier" /\ server' = "barrier_poll" /\ occupied' = 0
        /\ Broadcast(BARRIER_RESPONSE)
        /\ UNCHANGED <<caller, deals_read, aborted, gameVars, server_read_pipes>>
    BY ServerAssumption DEF BarrierBegin, LoopOrReturn, ResetCount
  <1>3. /\ \A s \in Seats : server_write_pipes'[s] # <<>>
        /\ \A s \in Seats : \A b : Has(server_write_pipes'[s], b) <=>
              Has(server_write_pipes[s], b) \/ BARRIER_RESPONSE = b
        /\ \A s \in Seats : ~Has(server_write_pipes[s], BARRIER_RESPONSE) =>
              EndsWith(server_write_pipes'[s], BARRIER_RESPONSE)
    BY <1>1, <1>2, Broadcasts DEF ToClient
  <1>4. Quiet'
    BY <1>1, <1>2, QuietBefore, QuietStays DEF ToClient, BARRIER_RESPONSE, CARD_PLAY
  <1>5. PipesRequest' /\ Notifies' /\ Reported' /\ Destined'
    BY <1>2, <1>4, QuietAfter
  <1>6. PipesAnnounce'
    BY <1>1, <1>2, <1>3
    DEF Calm, PipesAnnounce, Announced, Waits, InBarrier, BARRIER_RESPONSE, TAKEN,
        DISCONNECTED
  <1>7. SeatsTaken'
    BY <1>1, <1>2, <1>3 DEF Calm, SeatsTaken, InBarrier
  <1>8. BarrierCounts'
    <2>1. Unanswered(server_write_pipes') = {}
      BY <1>3 DEF Unanswered
    <2> QED
      BY <1>2, <2>1, FS_EmptySet, CountsUnanswered
  <1>9. HandsDealt' /\ TableDealt' /\ NoCardLost'
    BY <1>1, <1>2, CardsStay DEF InTrick, gameVars
  <1>10. Turns' /\ DealStates'
    BY <1>1, <1>2 DEF Calm, Turns, DealStates, InTrick, InBarrier, Closing, gameVars
  <1> QED
    BY <1>1, <1>5, <1>6, <1>7, <1>8, <1>9, <1>10 DEF Calm

LEMMA BarrierPollCalm == CalmMove /\ BarrierPoll => Calm'
  <1> SUFFICES ASSUME CalmMove, BarrierPoll PROVE Calm'
    OBVIOUS
  <1>1. /\ TypeOK /\ Calm /\ NobodyMoves'
        /\ UNCHANGED <<pc, seat, b_was_destined_to_play, seats_status>>
    BY MoveFacts DEF CalmMove
  <1>2. /\ server = "barrier_poll" /\ server' = "barrier_scan"
        /\ barrier_ready' = Readable /\ Readable # {}
        /\ UNCHANGED <<caller, deals_read, turn, ready, aborted, b_received_card, occupied,
                       server_read_pipes, server_write_pipes>>
        /\ UNCHANGED gameVars
    BY DEF BarrierPoll, pipeVars, barrierVars
  <1>3. PICK j \in Seats : server_read_pipes[j] # <<>>
    BY <1>2 DEF Readable
  <1>4. /\ BarrierDone(j) /\ occupied = N
        /\ \A t \in Seats \ {j} : server_read_pipes[t] = <<>>
    BY <1>1, <1>2, <1>3 DEF Calm, Reported, CardCame, BarrierDone
  <1>5. barrier_ready' = {j}
    BY <1>2, <1>3, <1>4 DEF Readable
  <1>6. Reported'
    BY <1>2, <1>3, <1>4, <1>5 DEF Reported, BarrierDone
  <1>7. \A c \in Connections : pc[c] # "notify" /\ ~b_was_destined_to_play[c]
    BY <1>1, <1>2, <1>3 DEF Calm, Notifies, Destined
  <1>8. Notifies' /\ Destined'
    BY <1>1, <1>7 DEF Notifies, Destined
  <1>9. SeatsTaken' /\ PipesAnnounce' /\ PipesRequest' /\ BarrierCounts'
    BY <1>1, <1>2 DEF Calm, SeatsTaken, PipesAnnounce, Announced, PipesRequest, Requested,
       BarrierCounts, InPipe, Waits, InBarrier
  <1>10. HandsDealt' /\ TableDealt' /\ NoCardLost'
    BY <1>1, <1>2, CardsStay DEF InTrick, gameVars
  <1>11. Turns' /\ DealStates'
    BY <1>1, <1>2 DEF Calm, Turns, DealStates, InTrick, InBarrier, Closing, gameVars
  <1> QED
    BY <1>1, <1>6, <1>8, <1>9, <1>10, <1>11 DEF Calm

LEMMA BarrierScanCalm ==
  ASSUME CalmMove, NEW j \in Seats, BarrierScan(j)
  PROVE  Calm'
  <1>1. /\ TypeOK /\ Calm /\ NobodyMoves'
        /\ UNCHANGED <<pc, seat, b_was_destined_to_play, seats_status>>
    BY MoveFacts DEF CalmMove
  <1>2. /\ server = "barrier_scan" /\ j \in barrier_ready
        /\ server_read_pipes' = [server_read_pipes EXCEPT ![j] = Tail(@)]
        /\ UNCHANGED <<caller, deals_read, turn, ready, b_received_card, occupied>>
        /\ UNCHANGED gameVars
    BY DEF BarrierScan, IsNext, ReadFromClients, barrierVars
  <1>3. /\ server_read_pipes[j] = <<BARRIER_RESPONSE>> /\ occupied = N
        /\ barrier_ready = {j}
        /\ \A t \in Seats \ {j} : server_read_pipes[t] = <<>>
    BY <1>1, <1>2 DEF Calm, Reported, BarrierDone, CardCame
  <1>4. Head(<<BARRIER_RESPONSE>>) = BARRIER_RESPONSE /\ Tail(<<BARRIER_RESPONSE>>) = <<>>
    OBVIOUS
  <1>5. /\ barrier_ready' = {} /\ UNCHANGED <<server, aborted, server_write_pipes>>
    BY <1>3, <1>4 DEF BarrierScan, BARRIER_RESPONSE, DISCONNECTED
  <1>6. \A s \in Seats : server_read_pipes'[s] = <<>>
    BY <1>1, <1>2, <1>3, <1>4 DEF TypeOK
  <1>7. Reported'
    BY <1>2, <1>3, <1>5, <1>6 DEF Reported
  <1>8. Notifies' /\ Destined'
    BY <1>1, <1>2, <1>5 DEF Calm, Notifies, Destined
  <1>9. SeatsTaken' /\ PipesAnnounce' /\ PipesRequest' /\ BarrierCounts'
    BY <1>1, <1>2, <1>5 DEF Calm, SeatsTaken, PipesAnnounce, Announced, PipesRequest,
       Requested, BarrierCounts, InPipe, Waits, InBarrier
  <1>10. HandsDealt' /\ TableDealt' /\ NoCardLost'
    BY <1>1, <1>2, <1>5, CardsStay DEF InTrick, gameVars
  <1>11. Turns' /\ DealStates'
    BY <1>1, <1>2, <1>5 DEF Calm, Turns, DealStates, InTrick, InBarrier, Closing, gameVars
  <1> QED
    BY <1>1, <1>7, <1>8, <1>9, <1>10, <1>11 DEF Calm

(* The barrier ends: every seat has answered, and its pipe is empty.       *)
LEMMA BarrierCheckCalm == CalmMove /\ BarrierCheck => Calm'
  <1> SUFFICES ASSUME CalmMove, BarrierCheck PROVE Calm'
    OBVIOUS
  <1>1. /\ TypeOK /\ Calm /\ NobodyMoves'
        /\ UNCHANGED <<pc, seat, b_was_destined_to_play, seats_status>>
    BY MoveFacts DEF CalmMove
  <1>2. /\ server = "barrier_scan" /\ barrier_ready = {} /\ occupied = N
        /\ UNCHANGED <<caller, deals_read, turn, ready, aborted, b_received_card, occupied,
                       server_read_pipes, barrier_ready>>
        /\ UNCHANGED gameVars
    BY <1>1 DEF BarrierCheck, Calm, Reported
  <1>3. /\ server' = caller /\ Broadcast(BARRIER_END)
    BY <1>2, ServerAssumption DEF BarrierCheck, LoopOrReturn
  <1>4. caller \in {"read_deal", "trick"}
    BY <1>1, <1>2 DEF TypeOK, Calm, DealStates, InBarrier
  <1>5. \A s \in Seats : /\ ~Has(server_write_pipes[s], BARRIER_RESPONSE)
                         /\ server_write_pipes[s] = <<>>
    <2>1. Cardinality(Unanswered(server_write_pipes)) = N
      BY <1>1, <1>2, CountsUnanswered DEF Calm, Waits
    <2>2. ASSUME NEW s \in Seats PROVE server_write_pipes[s] = <<>>
      <3>1. ~Has(server_write_pipes[s], BARRIER_RESPONSE)
        BY <2>1, AllAnswered
      <3>2. EndsWith(server_write_pipes[s], BARRIER_RESPONSE)
        BY <1>1, <1>2 DEF Calm, PipesAnnounce, Announced, Waits
      <3>3. server_write_pipes[s] \in Seq(ToClient)
        BY <1>1 DEF TypeOK
      <3> QED
        BY <3>1, <3>2, <3>3, Consumed
    <2> QED
      BY <2>1, <2>2, AllAnswered
  <1>6. \A s \in Seats : /\ server_write_pipes'[s] # <<>>
                         /\ \A b : Has(server_write_pipes'[s], b) <=> BARRIER_END = b
    BY <1>1, <1>3, <1>5, Broadcasts, EmptyPipe DEF ToClient
  <1>7. Quiet'
    <2>1. \A s \in Seats : server_read_pipes[s] = <<>>
      BY <1>1, <1>2 DEF Calm, Reported, BarrierDone, CardCame
    <2>2. \A c \in Connections : pc[c] # "notify" /\ ~b_was_destined_to_play[c]
      BY <1>1, <1>2 DEF Calm, Notifies, Destined
    <2> QED
      BY <1>1, <1>2, <1>6, <2>1, <2>2 DEF Quiet, BARRIER_END, CARD_PLAY
  <1>8. PipesRequest' /\ Notifies' /\ Reported' /\ Destined'
    BY <1>3, <1>4, <1>7, QuietAfter
  <1>9. PipesAnnounce'
    BY <1>3, <1>4, <1>6 DEF PipesAnnounce, Announced, Waits, BARRIER_END,
       BARRIER_RESPONSE, TAKEN, DISCONNECTED
  <1>10. SeatsTaken' /\ BarrierCounts'
    BY <1>1, <1>2, <1>3, <1>4, <1>5 DEF Calm, SeatsTaken, BarrierCounts, Waits
  <1>11. HandsDealt' /\ TableDealt' /\ NoCardLost'
    BY <1>1, <1>2, <1>3, <1>4, CardsStay DEF InTrick, gameVars
  <1>12. Turns' /\ DealStates'
    BY <1>1, <1>2, <1>3, <1>4
    DEF Calm, Turns, DealStates, InTrick, InBarrier, Closing, gameVars
  <1> QED
    BY <1>1, <1>8, <1>9, <1>10, <1>11, <1>12 DEF Calm

(* An announcement to all seats, written outside a barrier.                *)
LEMMA Announces ==
  ASSUME Calm, TypeOK, NEW byte \in {DEAL, TAKEN, SCORES, DISCONNECTED},
         server \notin InBarrier, server \notin {"await", "scan", "join", "closed"},
         Broadcast(byte), UNCHANGED <<pc, b_was_destined_to_play, server_read_pipes>>,
         ~Waits', server' # "scan",
         byte = TAKEN => server' \in InBarrier /\ caller' = "trick",
         byte = DISCONNECTED => server' \in {"join", "closed"}
  PROVE  /\ PipesAnnounce' /\ BarrierCounts'
         /\ PipesRequest' /\ Notifies' /\ Reported' /\ Destined'
  <1>1. byte \in ToClient \ {CARD_PLAY} /\ byte # BARRIER_RESPONSE
    BY DEF ToClient, DEAL, TAKEN, SCORES, DISCONNECTED, CARD_PLAY, BARRIER_RESPONSE
  <1>2. Quiet'
    BY <1>1, QuietBefore, QuietStays DEF InBarrier
  <1>3. PipesRequest' /\ Notifies' /\ Reported' /\ Destined'
    BY <1>2, QuietAfter DEF Waits
  <1>4. \A s \in Seats : \A b : Has(server_write_pipes'[s], b) <=>
            Has(server_write_pipes[s], b) \/ byte = b
    BY <1>1, Broadcasts
  <1>5. PipesAnnounce'
    BY <1>1, <1>4 DEF Calm, PipesAnnounce, Announced, Waits, InBarrier
  <1>6. BarrierCounts'
    BY DEF BarrierCounts, Waits
  <1> QED
    BY <1>3, <1>5, <1>6

LEMMA ReadDealCalm == CalmMove /\ ReadDeal => Calm'
  <1> SUFFICES ASSUME CalmMove, ReadDeal PROVE Calm'
    OBVIOUS
  <1>1. /\ TypeOK /\ Calm /\ NobodyMoves' /\ Recorded
        /\ UNCHANGED <<pc, seat, b_was_destined_to_play, seats_status>>
    BY MoveFacts DEF CalmMove
  <1>2. /\ server = "read_deal" /\ server' \in {"run_deal", "close"}
        /\ UNCHANGED <<aborted, occupied, server_read_pipes, server_write_pipes,
                       cards_on_table, trick_number, player_turn, last_taker>>
    BY DEF ReadDeal, pipeVars, barrierVars
  <1>3. Quiet /\ Quiet'
    BY <1>1, <1>2, QuietBefore, QuietStays
  <1>4. PipesRequest' /\ Notifies' /\ Reported' /\ Destined'
    BY <1>2, <1>3, QuietAfter
  <1>5. SeatsTaken' /\ PipesAnnounce' /\ BarrierCounts'
    BY <1>1, <1>2 DEF Calm, SeatsTaken, PipesAnnounce, Announced, BarrierCounts, Waits,
       InBarrier
  <1>6. Turns'
    BY <1>1, <1>2 DEF Calm, Turns
  <1>7. CASE deals_read < Len(GameFile)
    <2>1. /\ server' = "run_deal" /\ deals_read' = deals_read + 1
          /\ cards' = GameFile[deals_read + 1].cards
      <3>1. Len(GameFile) \in Nat /\ deals_read \in Nat
        BY <1>1, GameFileFacts DEF TypeOK
      <3>2. deals_read # Len(GameFile)
        BY <1>7, <3>1
      <3> QED
        BY <3>2 DEF ReadDeal
    <2>2. HandsDealt' /\ TableDealt' /\ NoCardLost'
      BY <2>1 DEF HandsDealt, TableDealt, NoCardLost, Dealt, InTrick
    <2>3. DealStates'
      BY <1>1, <1>2, <2>1 DEF Calm, DealStates, InTrick, InBarrier, Closing, TypeOK
    <2> QED
      BY <1>1, <1>4, <1>5, <1>6, <2>2, <2>3 DEF Calm
  <1>8. CASE ~(deals_read < Len(GameFile))
    <2>1. server' = "close" /\ UNCHANGED <<deals_read, cards, taken_tricks>>
      BY <1>8 DEF ReadDeal
    <2>2. HandsDealt' /\ TableDealt' /\ NoCardLost'
      BY <1>1, <1>2, <2>1, CardsStay DEF InTrick
    <2>3. DealStates'
      BY <1>1, <1>2, <2>1
      DEF Calm, DealStates, InTrick, InBarrier, Closing, Recorded, Between
    <2> QED
      BY <1>1, <1>4, <1>5, <1>6, <2>2, <2>3 DEF Calm
  <1> QED
    BY <1>7, <1>8

LEMMA DealBeginCalm == CalmMove /\ DealBegin => Calm'
  <1> SUFFICES ASSUME CalmMove, DealBegin PROVE Calm'
    OBVIOUS
  <1>1. /\ TypeOK /\ Calm /\ NobodyMoves'
        /\ UNCHANGED <<pc, seat, b_was_destined_to_play, seats_status>>
    BY MoveFacts DEF CalmMove
  <1>2. /\ server = "run_deal" /\ server' = "trick" /\ Broadcast(DEAL)
        /\ UNCHANGED <<aborted, deals_read, cards, server_read_pipes, player_turn>>
    BY DEF DealBegin
  <1>3. /\ PipesAnnounce' /\ BarrierCounts'
        /\ PipesRequest' /\ Notifies' /\ Reported' /\ Destined'
    BY <1>1, <1>2, Announces DEF InBarrier, Waits, DEAL, TAKEN, DISCONNECTED
  <1>4. SeatsTaken' /\ Turns' /\ DealStates'
    BY <1>1, <1>2
    DEF Calm, SeatsTaken, Turns, DealStates, InTrick, InBarrier, Closing, Waits
  <1>5. HandsDealt' /\ TableDealt' /\ NoCardLost'
    BY <1>1, <1>2
    DEF Calm, DealStates, HandsDealt, TableDealt, NoCardLost, Dealt, InTrick
  <1> QED
    BY <1>1, <1>3, <1>4, <1>5 DEF Calm

LEMMA TrickBeginCalm == CalmMove /\ TrickBegin => Calm'
  <1> SUFFICES ASSUME CalmMove, TrickBegin PROVE Calm'
    OBVIOUS
  <1>1. /\ TypeOK /\ Calm /\ NobodyMoves' /\ Recorded
        /\ UNCHANGED <<pc, seat, b_was_destined_to_play, seats_status>>
    BY MoveFacts DEF CalmMove
  <1>2. /\ server = "trick" /\ server' \in {"turn", "scores"}
        /\ UNCHANGED <<aborted, deals_read, cards, taken_tricks, server_read_pipes,
                       server_write_pipes, player_turn>>
    BY DEF TrickBegin, pipeVars
  <1>3. Quiet'
    BY <1>1, <1>2, QuietBefore, QuietStays
  <1>4. PipesRequest' /\ Notifies' /\ Reported' /\ Destined'
    BY <1>2, <1>3, QuietAfter
  <1>5. SeatsTaken' /\ PipesAnnounce' /\ BarrierCounts'
    BY <1>1, <1>2 DEF Calm, SeatsTaken, PipesAnnounce, Announced, BarrierCounts, Waits,
       InBarrier
  <1>6. trick_number = Len(taken_tricks) /\ trick_number \in Nat /\ Tricks \in Nat
    BY <1>1, <1>2, ServerAssumption DEF Recorded, Between, TypeOK
  <1>7. Table = <<>>
    BY <1>6 DEF Table
  <1>8. /\ server' = "turn" => cards_on_table' = <<>> /\ turn' = 0
        /\ server' = "scores" => UNCHANGED <<cards_on_table, trick_number>>
    BY DEF TrickBegin
  <1>9. DOMAIN <<>> = {} /\ Len(<<>>) = 0
    OBVIOUS
  <1>10. HandsDealt' /\ TableDealt'
    BY <1>1, <1>2, <1>8, <1>9 DEF Calm, HandsDealt, TableDealt, Dealt, InTrick
  <1>11. NoCardLost'
    <2>1. Table' = <<>>
      BY <1>2, <1>6, <1>8 DEF Table
    <2> QED
      BY <1>1, <1>2, <1>7, <2>1 DEF Calm, NoCardLost
  <1>12. Turns' /\ DealStates'
    BY <1>1, <1>2, <1>8, <1>9 DEF Calm, Turns, DealStates, InTrick, InBarrier, Closing
  <1> QED
    BY <1>1, <1>4, <1>5, <1>10, <1>11, <1>12 DEF Calm

LEMMA TurnBeginCalm == CalmMove /\ TurnBegin => Calm'
  <1> SUFFICES ASSUME CalmMove, TurnBegin PROVE Calm'
    OBVIOUS
  <1>1. /\ TypeOK /\ Calm /\ NobodyMoves'
        /\ UNCHANGED <<pc, seat, b_was_destined_to_play, seats_status>>
    BY MoveFacts DEF CalmMove
  <1>2. /\ server = "turn" /\ server' = "ask" /\ player_turn' = Asked
        /\ UNCHANGED <<aborted, deals_read, turn, cards, cards_on_table, taken_tricks,
                       trick_number, last_taker, server_read_pipes, server_write_pipes>>
    BY DEF TurnBegin, pipeVars
  <1>3. Quiet'
    BY <1>1, <1>2, QuietBefore, QuietStays
  <1>4. PipesRequest' /\ Notifies' /\ Reported' /\ Destined'
    BY <1>2, <1>3, QuietAfter
  <1>5. SeatsTaken' /\ PipesAnnounce' /\ BarrierCounts'
    BY <1>1, <1>2 DEF Calm, SeatsTaken, PipesAnnounce, Announced, BarrierCounts, Waits,
       InBarrier
  <1>6. HandsDealt' /\ TableDealt' /\ NoCardLost'
    BY <1>1, <1>2, CardsStay DEF InTrick
  <1>7. Asked' = Asked
    BY <1>2 DEF Asked
  <1>8. Turns' /\ DealStates'
    BY <1>1, <1>2, <1>7 DEF Calm, Turns, DealStates, InTrick, InBarrier, Closing
  <1> QED
    BY <1>1, <1>4, <1>5, <1>6, <1>8 DEF Calm

LEMMA AskForCardCalm == CalmMove /\ AskForCard => Calm'
  <1> SUFFICES ASSUME CalmMove, AskForCard PROVE Calm'
    OBVIOUS
  <1>1. /\ TypeOK /\ Calm /\ NobodyMoves' /\ Asked \in Seats
        /\ UNCHANGED <<pc, seat, b_was_destined_to_play, seats_status>>
    BY MoveFacts, AskedIsASeat DEF CalmMove
  <1>2. /\ server = "ask" /\ server' = "await" /\ b_received_card' = FALSE
        /\ WriteToClient(Asked, CARD_PLAY)
        /\ UNCHANGED <<aborted, deals_read, turn, server_read_pipes>>
        /\ UNCHANGED gameVars
    BY DEF AskForCard
  <1>3. Asked' = Asked /\ player_turn' = Asked
    BY <1>1, <1>2 DEF Asked, gameVars, Calm, Turns
  <1>4. Quiet
    BY <1>1, <1>2, QuietBefore
  <1>5. /\ \A s \in Seats \ {Asked} : server_write_pipes'[s] = server_write_pipes[s]
        /\ server_write_pipes'[Asked] = Append(server_write_pipes[Asked], CARD_PLAY)
        /\ server_write_pipes[Asked] \in Seq(ToClient)
    BY <1>1, <1>2 DEF WriteToClient, TypeOK
  <1>6. /\ \A b : Has(server_write_pipes'[Asked], b) <=>
                    Has(server_write_pipes[Asked], b) \/ CARD_PLAY = b
        /\ AtEnd(server_write_pipes'[Asked], CARD_PLAY)
    BY <1>1, <1>4, <1>5, Written DEF ToClient, Quiet
  <1>7. PipesRequest'
    BY <1>1, <1>2, <1>3, <1>4, <1>5, <1>6 DEF Quiet, PipesRequest, Requested
  <1>8. PipesAnnounce'
    <2>1. ASSUME NEW s \in Seats PROVE Announced(s, server_write_pipes[s])'
      <3>1. Announced(s, server_write_pipes[s])
        BY <1>1 DEF Calm, PipesAnnounce
      <3>2. CASE s = Asked
        BY <1>2, <1>6, <3>1, <3>2 DEF Announced, Waits, InBarrier, CARD_PLAY,
           BARRIER_RESPONSE, TAKEN, DISCONNECTED
      <3>3. CASE s # Asked
        BY <1>2, <1>5, <3>1, <3>3 DEF Announced, Waits, InBarrier
      <3> QED
        BY <3>2, <3>3
    <2> QED
      BY <2>1 DEF PipesAnnounce
  <1>9. Notifies' /\ Reported' /\ Destined'
    BY <1>1, <1>2, <1>4 DEF Quiet, Notifies, Reported, Destined
  <1>10. SeatsTaken' /\ BarrierCounts'
    BY <1>1, <1>2 DEF Calm, SeatsTaken, BarrierCounts, Waits, InBarrier
  <1>11. HandsDealt' /\ TableDealt' /\ NoCardLost'
    BY <1>1, <1>2, CardsStay DEF InTrick, gameVars
  <1>12. Turns' /\ DealStates'
    BY <1>1, <1>2, <1>3
    DEF Calm, Turns, DealStates, InTrick, InBarrier, Closing, gameVars
  <1> QED
    BY <1>1, <1>7, <1>8, <1>9, <1>10, <1>11, <1>12 DEF Calm

LEMMA PollCalm == CalmMove /\ Poll => Calm'
  <1> SUFFICES ASSUME CalmMove, Poll PROVE Calm'
    OBVIOUS
  <1>1. /\ TypeOK /\ Calm /\ NobodyMoves' /\ Asked # Nobody
        /\ UNCHANGED <<pc, seat, b_was_destined_to_play, seats_status>>
    BY MoveFacts, AskedIsASeat DEF CalmMove
  <1>2. /\ server = "await" /\ server' = "scan"
        /\ ready' = Readable /\ Readable # {}
        /\ UNCHANGED <<aborted, deals_read, turn, b_received_card,
                       server_read_pipes, server_write_pipes>>
        /\ UNCHANGED gameVars
    BY DEF Poll, pipeVars
  <1>3. PICK j \in Seats : server_read_pipes[j] # <<>>
    BY <1>2 DEF Readable
  <1>4. /\ CardCame(j) /\ player_turn = Nobody
        /\ \A t \in Seats \ {j} : server_read_pipes[t] = <<>>
    BY <1>1, <1>2, <1>3 DEF Calm, Reported, BarrierDone, CardCame
  <1>5. ready' = {j} /\ Asked' = Asked
    BY <1>2, <1>3, <1>4 DEF Readable, Asked, gameVars
  <1>6. Reported'
    BY <1>2, <1>3, <1>4, <1>5 DEF Reported, CardCame, gameVars
  <1>7. Notifies' /\ Destined' /\ PipesRequest'
    BY <1>1, <1>2, <1>4
    DEF Calm, Notifies, Destined, PipesRequest, Requested
  <1>8. SeatsTaken' /\ PipesAnnounce' /\ BarrierCounts'
    BY <1>1, <1>2 DEF Calm, SeatsTaken, PipesAnnounce, Announced, BarrierCounts, Waits,
       InBarrier
  <1>9. HandsDealt' /\ TableDealt' /\ NoCardLost'
    BY <1>1, <1>2, CardsStay DEF InTrick, gameVars
  <1>10. Turns' /\ DealStates'
    BY <1>1, <1>2, <1>4, <1>5
    DEF Calm, Turns, DealStates, InTrick, InBarrier, Closing, gameVars
  <1> QED
    BY <1>1, <1>6, <1>7, <1>8, <1>9, <1>10 DEF Calm

LEMMA ScanCalm ==
  ASSUME CalmMove, NEW j \in Seats, Scan(j)
  PROVE  Calm'
  <1>1. /\ TypeOK /\ Calm /\ NobodyMoves'
        /\ UNCHANGED <<pc, seat, b_was_destined_to_play, seats_status>>
    BY MoveFacts DEF CalmMove
  <1>2. /\ server = "scan" /\ j \in ready /\ ready' = ready \ {j}
        /\ server_read_pipes' = [server_read_pipes EXCEPT ![j] = Tail(@)]
        /\ UNCHANGED <<deals_read, turn, server_write_pipes>>
        /\ UNCHANGED gameVars
    BY DEF Scan, IsNext, ReadFromClients
  <1>3. /\ server_read_pipes[j] = <<CARD_PLAY>> /\ j = Asked /\ ready = {j}
        /\ \A t \in Seats \ {j} : server_read_pipes[t] = <<>>
    BY <1>1, <1>2 DEF Calm, Reported, BarrierDone, CardCame
  <1>4. Head(<<CARD_PLAY>>) = CARD_PLAY /\ Tail(<<CARD_PLAY>>) = <<>>
    OBVIOUS
  <1>5. b_received_card' = TRUE /\ ready' = {} /\ UNCHANGED <<server, caller, aborted>>
    BY <1>2, <1>3, <1>4 DEF Scan, CARD_PLAY, DISCONNECTED
  <1>6. \A s \in Seats : server_read_pipes'[s] = <<>>
    BY <1>1, <1>2, <1>3, <1>4 DEF TypeOK
  <1>7. Reported'
    BY <1>2, <1>5, <1>6 DEF Reported
  <1>8. Notifies' /\ Destined' /\ PipesRequest'
    BY <1>1, <1>2, <1>5 DEF Calm, Notifies, Destined, PipesRequest, Requested
  <1>9. SeatsTaken' /\ PipesAnnounce' /\ BarrierCounts'
    BY <1>1, <1>2, <1>5 DEF Calm, SeatsTaken, PipesAnnounce, Announced, BarrierCounts,
       Waits, InBarrier
  <1>10. HandsDealt' /\ TableDealt' /\ NoCardLost'
    BY <1>1, <1>2, <1>5, CardsStay DEF InTrick, gameVars
  <1>11. Turns' /\ DealStates'
    BY <1>1, <1>2, <1>5 DEF Calm, Turns, DealStates, InTrick, InBarrier, Closing, gameVars
  <1> QED
    BY <1>1, <1>7, <1>8, <1>9, <1>10, <1>11 DEF Calm

LEMMA ScanEndCalm == CalmMove /\ ScanEnd => Calm'
  <1> SUFFICES ASSUME CalmMove, ScanEnd PROVE Calm'
    OBVIOUS
  <1>1. /\ TypeOK /\ Calm /\ NobodyMoves'
        /\ UNCHANGED <<pc, seat, b_was_destined_to_play, seats_status>>
    BY MoveFacts DEF CalmMove
  <1>2. /\ server = "scan" /\ ready = {}
        /\ UNCHANGED <<aborted, deals_read, server_read_pipes, server_write_pipes>>
        /\ UNCHANGED gameVars
    BY DEF ScanEnd, pipeVars
  <1>3. b_received_card /\ player_turn = Nobody /\ Len(cards_on_table) = turn + 1
    BY <1>1, <1>2 DEF Calm, Turns
  <1>4. \/ server' = "turn" /\ turn' = turn + 1
        \/ server' = "taken" /\ turn = N - 1
    BY <1>2, <1>3 DEF ScanEnd, LastTurn
  <1>5. Quiet /\ Quiet'
    <2>1. \A s \in Seats : server_read_pipes[s] = <<>>
      BY <1>1, <1>2 DEF Calm, Reported, BarrierDone, CardCame
    <2>2. /\ \A s \in Seats : ~Has(server_write_pipes[s], CARD_PLAY)
          /\ \A c \in Connections : pc[c] # "notify" /\ ~b_was_destined_to_play[c]
      BY <1>1, <1>2 DEF Calm, PipesRequest, Requested, Notifies, Destined
    <2> QED
      BY <1>1, <1>2, <2>1, <2>2, QuietStays DEF Quiet
  <1>6. PipesRequest' /\ Notifies' /\ Reported' /\ Destined'
    BY <1>4, <1>5, QuietAfter
  <1>7. SeatsTaken' /\ PipesAnnounce' /\ BarrierCounts'
    BY <1>1, <1>2, <1>4 DEF Calm, SeatsTaken, PipesAnnounce, Announced, BarrierCounts,
       Waits, InBarrier
  <1>8. HandsDealt' /\ TableDealt' /\ NoCardLost'
    BY <1>1, <1>2, <1>4, CardsStay DEF InTrick, gameVars
  <1>9. Turns'
    <2>1. N - 1 + 1 = N
      BY ServerAssumption
    <2> QED
      BY <1>2, <1>3, <1>4, <2>1 DEF Turns, gameVars
  <1>10. DealStates'
    BY <1>1, <1>2, <1>4 DEF Calm, DealStates, InTrick, InBarrier, Closing, gameVars
  <1> QED
    BY <1>1, <1>6, <1>7, <1>8, <1>9, <1>10 DEF Calm

(* The table becomes the last of the tricks. *)
LEMMA TableTaken ==
  ASSUME NEW tricks \in Seq(Seq(Card)), NEW card, InTricks(card, tricks)
  PROVE  InTricks(card, Append(tricks, <<>>))
  <1>1. PICK i \in DOMAIN tricks : \E p \in DOMAIN tricks[i] : tricks[i][p] = card
    BY DEF InTricks
  <1>2. i \in DOMAIN Append(tricks, <<>>) /\ Append(tricks, <<>>)[i] = tricks[i]
    OBVIOUS
  <1> QED
    BY <1>1, <1>2 DEF InTricks

LEMMA TrickTakenCalm == CalmMove /\ TrickTaken => Calm'
  <1> SUFFICES ASSUME CalmMove, TrickTaken PROVE Calm'
    OBVIOUS
  <1>1. /\ TypeOK /\ TypeOK' /\ Calm /\ NobodyMoves' /\ Recorded /\ Recorded'
        /\ UNCHANGED <<pc, seat, b_was_destined_to_play, seats_status>>
    BY MoveFacts DEF CalmMove
  <1>2. /\ server = "taken" /\ server' = "barrier" /\ caller' = "trick"
        /\ Broadcast(TAKEN) /\ taken_tricks' = Append(taken_tricks, cards_on_table)
        /\ UNCHANGED <<aborted, deals_read, cards, cards_on_table, trick_number,
                       player_turn, server_read_pipes>>
    BY DEF TrickTaken, BarrierThen
  <1>3. /\ PipesAnnounce' /\ BarrierCounts'
        /\ PipesRequest' /\ Notifies' /\ Reported' /\ Destined'
    BY <1>1, <1>2, Announces DEF InBarrier, Waits, TAKEN, DISCONNECTED
  <1>4. SeatsTaken' /\ Turns'
    BY <1>1, <1>2 DEF Calm, SeatsTaken, Turns, InBarrier, Waits
  <1>5. HandsDealt' /\ TableDealt'
    BY <1>1, <1>2 DEF Calm, HandsDealt, TableDealt, Dealt, InTrick
  <1>6. /\ trick_number = Len(taken_tricks) + 1 /\ Len(taken_tricks) \in Nat
        /\ trick_number = Len(taken_tricks')
    BY <1>1, <1>2 DEF Recorded, Playing, Between, InBarrier, TypeOK
  <1>7. NoCardLost'
    <2>1. Table = cards_on_table /\ Table' = <<>>
      BY <1>2, <1>6 DEF Table
    <2>2. \A s \in Seats : \A card \in Dealt(s) :
              card \in cards[s] \/ InTricks(card, taken_tricks')
      BY <1>1, <1>2, <2>1 DEF Calm, DealStates, InTrick, NoCardLost, InTricks, Dealt
    <2>3. \A s \in Seats : \A card \in Dealt(s) :
              card \in cards[s] \/ InTricks(card, Append(taken_tricks', <<>>))
      BY <1>1, <2>2, TableTaken DEF TypeOK
    <2> QED
      BY <1>2, <2>1, <2>3 DEF NoCardLost, InTricks, Dealt
  <1>8. DealStates'
    <2>1. cards_on_table = taken_tricks'[trick_number]
      BY <1>1, <1>2, <1>6 DEF TypeOK
    <2> QED
      BY <1>1, <1>2, <1>6, <2>1 DEF Calm, DealStates, InTrick, InBarrier, Closing
  <1> QED
    BY <1>1, <1>3, <1>4, <1>5, <1>7, <1>8 DEF Calm

LEMMA SendScoresCalm == CalmMove /\ SendScores => Calm'
  <1> SUFFICES ASSUME CalmMove, SendScores PROVE Calm'
    OBVIOUS
  <1>1. /\ TypeOK /\ Calm /\ NobodyMoves'
        /\ UNCHANGED <<pc, seat, b_was_destined_to_play, seats_status>>
    BY MoveFacts DEF CalmMove
  <1>2. /\ server = "scores" /\ server' = "barrier" /\ caller' = "read_deal"
        /\ Broadcast(SCORES)
        /\ UNCHANGED <<aborted, deals_read, server_read_pipes>>
        /\ UNCHANGED gameVars
    BY DEF SendScores, BarrierThen
  <1>3. /\ PipesAnnounce' /\ BarrierCounts'
        /\ PipesRequest' /\ Notifies' /\ Reported' /\ Destined'
    BY <1>1, <1>2, Announces DEF InBarrier, Waits, SCORES, TAKEN, DISCONNECTED
  <1>4. SeatsTaken' /\ Turns' /\ DealStates'
    BY <1>1, <1>2
    DEF Calm, SeatsTaken, Turns, DealStates, InTrick, InBarrier, Closing, Waits, gameVars
  <1>5. HandsDealt' /\ TableDealt' /\ NoCardLost'
    BY <1>1, <1>2, CardsStay DEF InTrick, gameVars
  <1> QED
    BY <1>1, <1>3, <1>4, <1>5 DEF Calm

LEMMA CloseServerCalm == CalmMove /\ CloseServer => Calm'
  <1> SUFFICES ASSUME CalmMove, CloseServer PROVE Calm'
    OBVIOUS
  <1>1. /\ TypeOK /\ Calm /\ NobodyMoves'
        /\ UNCHANGED <<pc, seat, b_was_destined_to_play, seats_status>>
    BY MoveFacts DEF CalmMove
  <1>2. /\ server = "close" /\ server' = "join" /\ Broadcast(DISCONNECTED)
        /\ UNCHANGED <<aborted, deals_read, server_read_pipes>>
        /\ UNCHANGED gameVars
    BY DEF CloseServer
  <1>3. /\ PipesAnnounce' /\ BarrierCounts'
        /\ PipesRequest' /\ Notifies' /\ Reported' /\ Destined'
    BY <1>1, <1>2, Announces DEF InBarrier, Waits, TAKEN, DISCONNECTED
  <1>4. SeatsTaken' /\ Turns' /\ DealStates'
    BY <1>1, <1>2
    DEF Calm, SeatsTaken, Turns, DealStates, InTrick, InBarrier, Closing, Waits, gameVars
  <1>5. HandsDealt' /\ TableDealt' /\ NoCardLost'
    BY <1>1, <1>2, CardsStay DEF InTrick, gameVars
  <1> QED
    BY <1>1, <1>3, <1>4, <1>5 DEF Calm

LEMMA JoinThreadsCalm == CalmMove /\ JoinThreads => Calm'
  <1> SUFFICES ASSUME CalmMove, JoinThreads PROVE Calm'
    OBVIOUS
  <1>1. /\ TypeOK /\ Calm /\ NobodyMoves'
        /\ UNCHANGED <<pc, seat, b_was_destined_to_play, seats_status>>
    BY MoveFacts DEF CalmMove
  <1>2. /\ server = "join" /\ server' = "closed"
        /\ UNCHANGED <<aborted, deals_read, server_read_pipes, server_write_pipes>>
        /\ UNCHANGED gameVars
    BY DEF JoinThreads, pipeVars
  <1>3. Quiet'
    BY <1>1, <1>2, QuietBefore, QuietStays
  <1>4. PipesRequest' /\ Notifies' /\ Reported' /\ Destined'
    BY <1>2, <1>3, QuietAfter
  <1>5. SeatsTaken' /\ PipesAnnounce' /\ BarrierCounts' /\ Turns' /\ DealStates'
    BY <1>1, <1>2 DEF Calm, SeatsTaken, PipesAnnounce, Announced, BarrierCounts, Turns,
       DealStates, InTrick, InBarrier, Closing, Waits, gameVars
  <1>6. HandsDealt' /\ TableDealt' /\ NoCardLost'
    BY <1>1, <1>2, CardsStay DEF InTrick, gameVars
  <1> QED
    BY <1>1, <1>4, <1>5, <1>6 DEF Calm
-----------------------------------------------------------------------------
LEMMA InitCalm == Init => Calm
  <1> SUFFICES ASSUME Init PROVE Calm
    OBVIOUS
  <1>1. \A s \in Seats : server_read_pipes[s] = <<>> /\ server_write_pipes[s] = <<>>
    BY DEF Init
  <1>2. PipesAnnounce /\ PipesRequest
    BY <1>1, EmptyPipe DEF Init, PipesAnnounce, PipesRequest, Announced, Requested, Waits
  <1>3. NobodyMoves /\ SeatsTaken /\ Notifies /\ Reported /\ BarrierCounts /\ Destined
    BY <1>1 DEF Init, NobodyMoves, SeatsTaken, Notifies, Reported, BarrierCounts, Destined,
       InBarrier, Waits
  <1>4. Turns /\ HandsDealt /\ TableDealt /\ NoCardLost /\ DealStates
    BY DEF Init, Turns, HandsDealt, TableDealt, NoCardLost, DealStates, InTrick, InBarrier,
       Closing
  <1> QED
    BY <1>2, <1>3, <1>4 DEF Calm

LEMMA CalmInvStep == TurnInv /\ [Next]_vars => TurnInv'
  <1> SUFFICES ASSUME TurnInv, [Next]_vars PROVE TurnInv'
    OBVIOUS
  <1>1. SeatInv /\ CardInv /\ SeatInv' /\ CardInv' /\ TypeInv
    BY TypeInvStep, SeatExclusiveStep, CardInvStep DEF TurnInv, SeatInv
  <1>2. SUFFICES ASSUME NobodyLeft' PROVE Calm'
    BY <1>1 DEF TurnInv, CalmInv
  <1>3. Calm
    BY <1>1, <1>2, LeftForGood DEF TurnInv, CalmInv
  <1>4. CASE UNCHANGED vars
    <2>1. UNCHANGED <<mainVars, gameVars, occupied, pipeVars, threadVars, seats_status>>
      BY <1>4 DEF vars, barrierVars
    <2>2. Turns' /\ HandsDealt' /\ TableDealt' /\ NoCardLost' /\ DealStates' /\ UNCHANGED Asked
      BY <1>3, <2>1, SameGame
    <2>3. UNCHANGED <<server, caller, deals_read, player_turn, ready, barrier_ready,
                      server_read_pipes, server_write_pipes, pc, seat,
                      b_was_destined_to_play>>
      BY <2>1 DEF mainVars, gameVars, pipeVars, threadVars
    <2>4. NobodyMoves' /\ SeatsTaken' /\ PipesAnnounce' /\ PipesRequest' /\ BarrierCounts'
      BY <1>3, <2>1, <2>2, <2>3 DEF Calm, NobodyMoves, SeatsTaken, PipesAnnounce,
         PipesRequest, Announced, Requested, Waits, BarrierCounts, InPipe
    <2>5. Notifies' /\ Reported' /\ Destined'
      BY <1>3, <2>1, <2>2, <2>3 DEF Calm, Notifies, Reported, BarrierDone, CardCame,
         Destined, Serves
    <2> QED
      BY <2>2, <2>4, <2>5 DEF Calm
  <1>5. ASSUME NEW c \in Connections, OwnStep(c) \/ PipeStep(c) \/ Environment(c)
        PROVE  Calm'
    <2>1. CalmStep(c)
      BY <1>1, <1>3, <1>5, ThreadsLeaveMain, OthersStay DEF CalmStep
    <2>2. \/ Roams(c) \/ Notify(c)
          \/ \E s \in Seats : Arrives(c, s)
          \/ \E card : Plays(c, card)
          \/ \E byte : Reads(c, byte)
      BY <1>1, <1>2, <1>3, <1>5, ThreadKinds DEF Calm
    <2> QED
      BY <2>1, <2>2, RoamsCalm, NotifyCalm, ArrivesCalm, PlaysCalm, ReadsCalm
  <1>6. CASE Server
    <2>1. CalmMove
      BY <1>1, <1>3, <1>6, ServerLeavesThreads DEF CalmMove
    <2> QED
      BY <1>6, <2>1, BarrierBeginCalm, BarrierPollCalm, BarrierScanCalm, BarrierCheckCalm,
         ReadDealCalm, DealBeginCalm, TrickBeginCalm, TurnBeginCalm, AskForCardCalm,
         PollCalm, ScanCalm, ScanEndCalm, TrickTakenCalm, SendScoresCalm, CloseServerCalm,
         JoinThreadsCalm
      DEF Server
  <1> QED
    BY <1>4, <1>5, <1>6 DEF Next

LEMMA TurnInvHolds == Spec => []TurnInv
  <1>1. Init => TurnInv
    <2>1. Init => SeatExclusive
      BY DEF Init, SeatExclusive, Serves, Serving
    <2>2. Init => CardInv
      BY InitCardInv
    <2> QED
      BY <2>1, <2>2, InitTypeInv, InitCalm DEF TurnInv, SeatInv, CalmInv
  <1> QED
    BY <1>1, CalmInvStep, PTL DEF Spec

(* While nobody leaves, a barrier() returns only after every seat's thread *)
(* has read the BARRIER_RESPONSE it sent: no phase starts early.           *)
THEOREM BarriersSynchronise == Spec => [](NobodyLeft => BarrierSynchronises)
  <1>1. TurnInv => (NobodyLeft => BarrierSynchronises)
    BY DEF TurnInv, CalmInv, Calm, PipesAnnounce, Announced, Has, InPipe, Waits, InBarrier,
       BarrierSynchronises
  <1> QED
    BY <1>1, TurnInvHolds, PTL

(* While nobody leaves, occupied counts during a barrier exactly the seats *)
(* whose threads have answered it.                                         *)
THEOREM BarriersCount == Spec => [](NobodyLeft => BarrierCounts)
  <1>1. TurnInv => (NobodyLeft => BarrierCounts)
    BY DEF TurnInv, CalmInv, Calm
  <1> QED
    BY <1>1, TurnInvHolds, PTL

(* While nobody leaves, no message of a player, early, late, wrong or      *)
(* repeated, makes the main thread give up: each byte it reads is the one  *)
(* it waits for.                                                           *)
THEOREM NeverAborts == Spec => [](NobodyLeft => NoAbort)
  <1>1. TurnInv => (NobodyLeft => NoAbort)
    BY DEF TurnInv, CalmInv, Calm, DealStates, NoAbort
  <1> QED
    BY <1>1, TurnInvHolds, PTL

(* While nobody leaves, a CARD_PLAY on its way and a TRICK already sent    *)
(* are both for the player whose turn it is, and for nobody else.          *)
THEOREM RequestsAreCurrent == Spec => [](NobodyLeft => RequestIsCurrent)
  <1>1. TurnInv => (NobodyLeft => RequestIsCurrent)
    <2> SUFFICES ASSUME TurnInv, NobodyLeft PROVE RequestIsCurrent
      OBVIOUS
    <2>1. PipesRequest /\ Destined
      BY DEF TurnInv, CalmInv, Calm
    <2>2. \A s \in Seats : InPipe(s, CARD_PLAY) => player_turn = s
      BY <2>1 DEF PipesRequest, Requested, Has, InPipe
    <2> QED
      BY <2>1, <2>2 DEF Destined, RequestIsCurrent
  <1> QED
    BY <1>1, TurnInvHolds, PTL

(* While nobody leaves, the table and the taker a thread reads when it     *)
(* comes to a TAKEN are those of the trick that byte was sent for.         *)
THEOREM TakensAreCurrent == Spec => [](NobodyLeft => TakenIsCurrent)
  <1>1. TurnInv => (NobodyLeft => TakenIsCurrent)
    <2> SUFFICES ASSUME TurnInv, NobodyLeft PROVE TakenIsCurrent
      OBVIOUS
    <2>1. /\ PipesAnnounce /\ DealStates
          /\ Recorded
      BY DEF TurnInv, CalmInv, Calm, CardInv
    <2>2. ASSUME NEW s \in Seats, InPipe(s, TAKEN)
          PROVE  server \in InBarrier /\ caller = "trick"
      BY <2>1, <2>2 DEF PipesAnnounce, Announced, Has, InPipe
    <2>3. server \in InBarrier /\ caller = "trick" =>
              /\ Len(taken_tricks) = trick_number
              /\ trick_number > 0
              /\ cards_on_table = taken_tricks[trick_number]
      BY <2>1 DEF DealStates, Recorded, Between
    <2> QED
      BY <2>2, <2>3 DEF TakenIsCurrent
  <1> QED
    BY <1>1, TurnInvHolds, PTL

(* While nobody leaves, there is one card a seat on the table at most, and *)
(* the p-th was dealt to the p-th seat from the leader on, to which        *)
(* PointsCalculator attributes it.                                         *)
THEOREM PlayersTakeTurns == Spec => [](NobodyLeft => PlayedInTurn)
  <1>1. TurnInv => (NobodyLeft => PlayedInTurn)
    <2> SUFFICES ASSUME TurnInv, NobodyLeft PROVE PlayedInTurn
      OBVIOUS
    <2>1. TypeOK /\ Recorded /\ Turns /\ TableDealt /\ DealStates
      BY DEF TurnInv, SeatInv, TypeInv, CalmInv, Calm, CardInv
    <2>2. CASE server \in InTrick
      <3>1. Table = cards_on_table
        <4>1. trick_number = Len(taken_tricks) + 1 /\ Len(taken_tricks) \in Nat
          BY <2>1, <2>2 DEF InTrick, Recorded, Playing, TypeOK
        <4> QED
          BY <2>2, <4>1 DEF InTrick, Table
      <3>2. Len(cards_on_table) <= N
        <4>1. turn \in 0..N - 1 /\ N \in Nat
          BY <2>1, ServerAssumption DEF TypeOK
        <4>2. Len(cards_on_table) \in {turn, turn + 1, N}
          BY <2>1, <2>2 DEF Turns, InTrick
        <4> QED
          BY <4>1, <4>2
      <3> QED
        BY <2>1, <2>2, <3>1, <3>2 DEF TableDealt, PlayedInTurn, Dealt
    <2>3. CASE server \notin InTrick
      <3>1. Table = <<>>
        BY <2>1, <2>3
        DEF TypeOK, MainStates, InTrick, DealStates, Recorded, Between, InBarrier, Closing, Table
      <3>2. Len(<<>>) = 0 /\ DOMAIN <<>> = {}
        OBVIOUS
      <3> QED
        BY <3>1, <3>2, ServerAssumption DEF PlayedInTurn
    <2> QED
      BY <2>2, <2>3
  <1> QED
    BY <1>1, TurnInvHolds, PTL

(* While nobody leaves, every card of the deal is in the hand it was dealt *)
(* to or in a trick of the deal.                                           *)
THEOREM NoCardIsLost == Spec => [](NobodyLeft => NoCardLost)
  <1>1. TurnInv => (NobodyLeft => NoCardLost)
    BY DEF TurnInv, CalmInv, Calm
  <1> QED
    BY <1>1, TurnInvHolds, PTL
-----------------------------------------------------------------------------
(* The game of TrickGame.  What is said above of who plays and when lacks  *)
(* that a deal ends with every hand empty: each trick takes a card from    *)
(* every hand, and no hand has more cards than there are tricks.           *)

(* The seats that have a card on the table. *)
Played == {(last_taker + p - 1) % N : p \in DOMAIN cards_on_table}

(* The most cards a hand may have left. *)
MostLeft(s) ==
    IF server = "run_deal" THEN Tricks
    ELSE IF server \in InTrick /\ s \notin Played THEN Tricks - trick_number + 1
    ELSE Tricks - trick_number

HandsShrink ==
    \A s \in Seats : IsFiniteSet(cards[s]) /\ Cardinality(cards[s]) <= MostLeft(s)

(* A deal is over, or none was read yet. *)
DealDone ==
    \/ server \in {"scores", "read_deal"}
    \/ server \in InBarrier /\ caller = "read_deal"
HandsEmpty == DealDone => \A s \in Seats : cards[s] = {}

GameInv == NobodyLeft => HandsShrink /\ HandsEmpty

(* The p-th player of a trick runs over all the seats. *)
LEMMA EverySeatHasATurn ==
  ASSUME NEW first \in Seats, NEW s \in Seats
  PROVE  \E p \in 1..N : (first + p - 1) % N = s
  <1>1. N \in Nat \ {0} /\ s \in 0..N - 1 /\ first \in 0..N - 1
    BY ServerAssumption DEF Seats
  <1>2. s % N = s /\ (s + N) % N = s
    BY <1>1
  <1>3. CASE s >= first
    <2>1. s - first + 1 \in 1..N /\ first + (s - first + 1) - 1 = s
      BY <1>1, <1>3
    <2> QED
      BY <1>2, <2>1
  <1>4. CASE ~(s >= first)
    <2>1. s + N - first + 1 \in 1..N /\ first + (s + N - first + 1) - 1 = s + N
      BY <1>1, <1>4
    <2> QED
      BY <1>2, <2>1
  <1> QED
    BY <1>3, <1>4

LEMMA FullTable ==
  ASSUME TypeOK, Len(cards_on_table) = N
  PROVE  Played = Seats
  <1>1. DOMAIN cards_on_table = 1..N /\ last_taker \in Seats
    BY DEF TypeOK
  <1>2. \A p \in 1..N : (last_taker + p - 1) % N \in Seats
    BY <1>1, ServerAssumption, ModInSeats DEF Seats
  <1>3. \A s \in Seats : \E p \in 1..N : (last_taker + p - 1) % N = s
    BY <1>1, EverySeatHasATurn
  <1> QED
    BY <1>1, <1>2, <1>3 DEF Played
-----------------------------------------------------------------------------
(* A step that TrickGame does not see, and the card it sees played.        *)
Unseen ==
    /\ UNCHANGED <<deals_read, cards, cards_on_table, taken_tricks, trick_number,
                   last_taker>>
    /\ server' # "run_deal" <=> server # "run_deal"
    /\ server' \in InTrick <=> server \in InTrick
    /\ DealDone' => DealDone
AskedPlays ==
    /\ Asked \in Seats /\ turn < N /\ turn \in Nat
    /\ server = "await" /\ server' = "await"
    /\ Len(cards_on_table) = turn
    /\ \E card \in cards[Asked] :
          /\ PlayedRightColour(card, cards[Asked], cards_on_table)
          /\ cards' = [cards EXCEPT ![Asked] = @ \ {card}]
          /\ cards_on_table' = Append(cards_on_table, card)
    /\ UNCHANGED <<deals_read, taken_tricks, trick_number, last_taker>>

LEMMA ThreadsGame ==
  ASSUME NEW c \in Connections, CalmStep(c), NobodyLeft',
         OwnStep(c) \/ PipeStep(c) \/ Environment(c)
  PROVE  Unseen \/ AskedPlays
  <1>1. UNCHANGED <<server, caller, deals_read>> /\ TypeInv /\ TypeOK /\ Calm
    BY DEF CalmStep, mainVars, SeatInv, TypeInv
  <1>2. CASE UNCHANGED gameVars
    BY <1>1, <1>2 DEF gameVars, Unseen, DealDone
  <1>3. ASSUME NEW card, Plays(c, card) PROVE AskedPlays
    <2>1. /\ server = "await" /\ seat[c] = Asked /\ player_turn = Asked
      BY <1>1, <1>3 DEF Plays, Calm, Destined
    <2>2. Asked \in Seats /\ Asked # Nobody
      BY <1>1, AskedIsASeat
    <2>3. Len(cards_on_table) = turn /\ turn < N /\ turn \in Nat
      BY <1>1, <2>1, <2>2, ServerAssumption DEF Calm, Turns, TypeOK
    <2> QED
      BY <1>1, <1>3, <2>1, <2>2, <2>3 DEF Plays, AskedPlays
  <1>4. \/ Roams(c) \/ Notify(c)
        \/ \E s \in Seats : Arrives(c, s)
        \/ \E card : Plays(c, card)
        \/ \E byte : Reads(c, byte)
    BY <1>1, ThreadKinds DEF Calm
  <1> QED
    BY <1>2, <1>3, <1>4 DEF Roams, Notify, Arrives, Reads

LEMMA ServerUnseen ==
  ASSUME Calm, Calm', TypeOK, Server, ~ReadDeal, ~DealBegin, ~TrickBegin, ~TrickTaken
  PROVE  Unseen
  <1> USE DEF Unseen, DealDone, InTrick, InBarrier, gameVars
  <1>0. ~aborted' /\ (server' \in InBarrier => caller' # "scan")
    BY DEF Calm, DealStates
  <1>1. CASE BarrierBegin
    BY <1>1 DEF BarrierBegin, LoopOrReturn, Calm, DealStates, TypeOK
  <1>2. CASE BarrierPoll
    BY <1>2 DEF BarrierPoll
  <1>3. CASE BarrierCheck
    BY <1>3 DEF BarrierCheck, LoopOrReturn, Calm, DealStates, TypeOK
  <1>4. ASSUME NEW j \in Seats, BarrierScan(j) PROVE Unseen
    BY <1>0, <1>4 DEF BarrierScan, Abort
  <1>5. ASSUME NEW j \in Seats, Scan(j) PROVE Unseen
    BY <1>0, <1>5 DEF Scan, BarrierThen, Abort
  <1>6. CASE TurnBegin \/ AskForCard \/ Poll
    BY <1>6 DEF TurnBegin, AskForCard, Poll
  <1>7. CASE ScanEnd
    BY <1>7 DEF ScanEnd
  <1>8. CASE SendScores
    BY <1>8 DEF SendScores, BarrierThen
  <1>9. CASE CloseServer \/ JoinThreads
    BY <1>9 DEF CloseServer, JoinThreads
  <1> QED
    BY <1>1, <1>2, <1>3, <1>4, <1>5, <1>6, <1>7, <1>8, <1>9 DEF Server

(* A step at a time when nobody has left. *)
GameStep ==
    /\ TurnInv /\ TurnInv' /\ NobodyLeft /\ NobodyLeft'
    /\ [Next]_vars

LEMMA GameStepFacts ==
  ASSUME GameStep
  PROVE  /\ TypeOK /\ TypeOK' /\ Recorded /\ Recorded' /\ Calm /\ Calm'
         /\ \/ Unseen \/ AskedPlays
            \/ ReadDeal \/ DealBegin \/ TrickBegin \/ TrickTaken
  <1>1. /\ TypeInv /\ TypeInv' /\ Calm /\ Calm' /\ SeatInv /\ SeatInv'
        /\ CardInv /\ CardInv'
    BY DEF GameStep, TurnInv, SeatInv, CalmInv
  <1>2. TypeOK /\ TypeOK' /\ Recorded /\ Recorded'
    BY <1>1 DEF TypeInv, CardInv
  <1>3. UNCHANGED vars => Unseen
    BY DEF vars, mainVars, gameVars, Unseen, DealDone
  <1>4. ASSUME NEW c \in Connections, OwnStep(c) \/ PipeStep(c) \/ Environment(c)
        PROVE  Unseen \/ AskedPlays
    <2>1. CalmStep(c)
      BY <1>1, <1>4, ThreadsLeaveMain, OthersStay DEF CalmStep
    <2> QED
      BY <1>4, <2>1, ThreadsGame DEF GameStep
  <1>5. CASE Server
    BY <1>1, <1>2, <1>5, ServerUnseen
  <1> QED
    BY <1>1, <1>2, <1>3, <1>4, <1>5 DEF GameStep, Next
-----------------------------------------------------------------------------
(* A trick takes one card from every hand, so a deal empties them.         *)
LEMMA UnseenShrink ==
  ASSUME HandsShrink, HandsEmpty, Unseen
  PROVE  HandsShrink' /\ HandsEmpty'
  <1>1. Played' = Played
    BY DEF Played, Unseen
  <1>2. HandsShrink'
    BY <1>1 DEF HandsShrink, MostLeft, Unseen
  <1>3. HandsEmpty'
    BY DEF HandsEmpty, Unseen
  <1> QED
    BY <1>2, <1>3

LEMMA AskedShrinks ==
  ASSUME TypeOK, HandsShrink, AskedPlays
  PROVE  HandsShrink' /\ HandsEmpty'
  <1>1. PICK card \in cards[Asked] :
            /\ cards' = [cards EXCEPT ![Asked] = @ \ {card}]
            /\ cards_on_table' = Append(cards_on_table, card)
    BY DEF AskedPlays
  <1>2. /\ DOMAIN cards_on_table = 1..turn /\ DOMAIN cards_on_table' = 1..turn + 1
        /\ turn \in Nat
    BY <1>1 DEF AskedPlays, TypeOK
  <1>3. last_taker + (turn + 1) - 1 = last_taker + turn /\ UNCHANGED last_taker
    BY <1>2, ServerAssumption DEF AskedPlays, TypeOK, Seats
  <1>4. Asked \in Played' /\ Played \subseteq Played'
        /\ \A s \in Played' : s = Asked \/ s \in Played
    <2>1. \A p \in 1..turn : p \in 1..turn + 1
      BY <1>2
    <2>2. turn + 1 \in 1..turn + 1 /\ (last_taker + (turn + 1) - 1) % N = Asked
      BY <1>2, <1>3 DEF Asked
    <2>3. \A p \in 1..turn + 1 : p = turn + 1 \/ p \in 1..turn
      BY <1>2
    <2> QED
      BY <1>2, <1>3, <2>1, <2>2, <2>3 DEF Played
  <1>5. ASSUME NEW s \in Seats
        PROVE  IsFiniteSet(cards'[s]) /\ Cardinality(cards'[s]) <= MostLeft(s)'
    <2>1. /\ IsFiniteSet(cards[s]) /\ Cardinality(cards[s]) <= MostLeft(s)
          /\ Cardinality(cards[s]) \in Nat
      BY FS_CardinalityType DEF HandsShrink
    <2>2. /\ MostLeft(s) = IF s \notin Played THEN Tricks - trick_number + 1
                           ELSE Tricks - trick_number
          /\ MostLeft(s)' = IF s \notin Played' THEN Tricks - trick_number + 1
                            ELSE Tricks - trick_number
          /\ Tricks \in Int /\ trick_number \in Int
      BY ServerAssumption DEF AskedPlays, MostLeft, InTrick, TypeOK
    <2>3. CASE s = Asked
      <3>1. cards'[s] = cards[s] \ {card} /\ card \in cards[s]
        BY <1>1, <2>3 DEF TypeOK
      <3>2. /\ IsFiniteSet(cards'[s])
            /\ Cardinality(cards'[s]) = Cardinality(cards[s]) - 1
        BY <2>1, <3>1, FS_RemoveElement
      <3> QED
        BY <1>4, <2>1, <2>2, <2>3, <3>2
    <2>4. CASE s # Asked
      <3>1. cards'[s] = cards[s]
        BY <1>1, <2>4 DEF TypeOK
      <3> QED
        BY <1>4, <2>1, <2>2, <2>4, <3>1
    <2> QED
      BY <2>3, <2>4
  <1>6. HandsShrink'
    BY <1>5 DEF HandsShrink
  <1>7. HandsEmpty'
    BY DEF AskedPlays, HandsEmpty, DealDone, InBarrier
  <1> QED
    BY <1>6, <1>7

LEMMA ShrinkStep ==
  ASSUME GameStep, HandsShrink, HandsEmpty
  PROVE  HandsShrink' /\ HandsEmpty'
  <1>1. /\ TypeOK /\ TypeOK' /\ Recorded /\ Recorded' /\ Calm /\ Calm'
        /\ \/ Unseen \/ AskedPlays
           \/ ReadDeal \/ DealBegin \/ TrickBegin \/ TrickTaken
    BY GameStepFacts
  <1>2. /\ trick_number \in Nat /\ Tricks \in Nat /\ N \in Nat
        /\ \A s \in Seats : Cardinality(cards[s]) \in Nat
    BY <1>1, ServerAssumption, FS_CardinalityType DEF TypeOK, HandsShrink
  <1>3. CASE ReadDeal
    <2>1. CASE deals_read < Len(GameFile)
      <3>1. Len(GameFile) \in Nat /\ deals_read \in Nat
        BY <1>1, GameFileFacts DEF TypeOK
      <3>2. deals_read # Len(GameFile)
        BY <2>1, <3>1
      <3>3. /\ server' = "run_deal" /\ cards' = GameFile[deals_read + 1].cards
            /\ deals_read + 1 \in DOMAIN GameFile
        <4>1. server' = "run_deal" /\ cards' = GameFile[deals_read + 1].cards
          BY <1>3, <3>2, Zenon DEF ReadDeal
        <4>2. deals_read + 1 \in 1..Len(GameFile)
          BY <2>1, <3>1
        <4> QED
          BY <4>1, <4>2, GameFileFacts
      <3> QED
        BY <3>3, HandsFit DEF HandsShrink, MostLeft, HandsEmpty, DealDone, InBarrier
    <2>2. CASE ~(deals_read < Len(GameFile))
      <3>1. Unseen
        BY <1>3, <2>2 DEF ReadDeal, Unseen, InTrick, DealDone, InBarrier
      <3> QED
        BY <3>1, UnseenShrink
    <2> QED
      BY <2>1, <2>2
  <1>4. CASE DealBegin
    <2>1. /\ server = "run_deal" /\ server' = "trick" /\ trick_number' = 0
          /\ UNCHANGED cards
      BY <1>4 DEF DealBegin
    <2> QED
      BY <1>2, <2>1 DEF HandsShrink, MostLeft, HandsEmpty, DealDone, InTrick, InBarrier
  <1>5. CASE TrickBegin
    <2>1. server = "trick" /\ UNCHANGED cards /\ server' \in {"turn", "scores"}
      BY <1>5 DEF TrickBegin
    <2>2. \A s \in Seats : /\ IsFiniteSet(cards[s])
                           /\ Cardinality(cards[s]) <= Tricks - trick_number
      BY <2>1 DEF HandsShrink, MostLeft, InTrick
    <2>3. CASE server' = "turn"
      <3>1. trick_number' = trick_number + 1 /\ cards_on_table' = <<>>
        BY <1>5, <2>3 DEF TrickBegin
      <3>2. Played' = {}
        <4>1. DOMAIN <<>> = {}
          OBVIOUS
        <4> QED
          BY <3>1, <4>1 DEF Played
      <3>3. \A s \in Seats : MostLeft(s)' = Tricks - trick_number
        BY <1>2, <2>3, <3>1, <3>2 DEF MostLeft, InTrick
      <3> QED
        BY <2>1, <2>2, <2>3, <3>3 DEF HandsShrink, HandsEmpty, DealDone, InBarrier
    <2>4. CASE server' = "scores"
      <3>1. trick_number = Tricks /\ UNCHANGED trick_number
        BY <1>5, <2>4 DEF TrickBegin
      <3>2. \A s \in Seats : Cardinality(cards[s]) = 0
        BY <1>2, <2>2, <3>1
      <3>3. \A s \in Seats : cards[s] = {}
        BY <2>2, <3>2, FS_EmptySet
      <3> QED
        BY <2>1, <2>2, <2>4, <3>1, <3>3 DEF HandsShrink, HandsEmpty, MostLeft, InTrick
    <2> QED
      BY <2>1, <2>3, <2>4
  <1>6. CASE TrickTaken
    <2>1. /\ server = "taken" /\ server' = "barrier" /\ caller' = "trick"
          /\ UNCHANGED <<cards, trick_number>>
      BY <1>6 DEF TrickTaken, BarrierThen
    <2>2. Played = Seats
      BY <1>1, <2>1, FullTable DEF Calm, Turns
    <2> QED
      BY <2>1, <2>2 DEF HandsShrink, MostLeft, HandsEmpty, DealDone, InTrick, InBarrier
  <1> QED
    BY <1>1, <1>3, <1>4, <1>5, <1>6, UnseenShrink, AskedShrinks
-----------------------------------------------------------------------------
LEMMA GameInvStep == TurnInv /\ TurnInv' /\ GameInv /\ [Next]_vars => GameInv'
  <1> SUFFICES ASSUME TurnInv, TurnInv', GameInv, [Next]_vars, NobodyLeft'
               PROVE  HandsShrink' /\ HandsEmpty'
    BY DEF GameInv
  <1>1. NobodyLeft
    BY LeftForGood DEF TurnInv, SeatInv
  <1>2. HandsShrink /\ HandsEmpty
    BY <1>1 DEF GameInv
  <1> QED
    BY <1>1, <1>2, ShrinkStep DEF GameStep

LEMMA InitGame == Init => GameInv /\ Game!Init
  <1> SUFFICES ASSUME Init PROVE GameInv /\ Game!Init
    OBVIOUS
  <1>1. IsFiniteSet({}) /\ Cardinality({}) = 0
    BY FS_EmptySet
  <1>2. HandsShrink /\ HandsEmpty
    BY <1>1, ServerAssumption DEF Init, HandsShrink, HandsEmpty, MostLeft, InTrick
  <1>3. Game!Init
    BY ServerAssumption DEF Init, Game!Init, Game!Seats, Seats, Table
  <1> QED
    BY <1>2, <1>3 DEF GameInv

(* What a deal begins with are the hands of the deal that was read.        *)
LEMMA HandsAreDealt ==
  ASSUME TypeOK, Calm, server = "run_deal", deals_read \in 1..Len(GameFile)
  PROVE  cards = GameFile[deals_read].cards
  <1>1. \A s \in Seats : cards[s] = GameFile[deals_read].cards[s]
    BY DEF Calm, HandsDealt, Dealt
  <1>2. /\ GameFile[deals_read].cards \in [Seats -> SUBSET Card]
        /\ cards \in [Seats -> SUBSET Card]
    BY GameFileFacts DEF TypeOK
  <1> QED
    BY <1>1, <1>2

(* A step of the server is a step of the game, or one the game does not    *)
(* see: a card is played when its CARD_PLAY is answered, a trick is taken  *)
(* by TrickTaken, and DealBegin deals to players whose hands are empty.    *)
LEMMA StepOfTheGame ==
  ASSUME GameStep, HandsEmpty
  PROVE  [Game!Next]_(Game!vars)
  <1> USE DEF Game!vars, Game!Next, Game!Seats, Seats
  <1>1. /\ TypeOK /\ TypeOK' /\ Recorded /\ Recorded' /\ Calm /\ Calm'
        /\ \/ Unseen \/ AskedPlays
           \/ ReadDeal \/ DealBegin \/ TrickBegin \/ TrickTaken
    BY GameStepFacts
  <1>2. CASE Unseen
    BY <1>2 DEF Unseen, Table
  <1>3. CASE AskedPlays
    <2>1. PICK card \in cards[Asked] :
              /\ PlayedRightColour(card, cards[Asked], cards_on_table)
              /\ cards' = [cards EXCEPT ![Asked] = @ \ {card}]
              /\ cards_on_table' = Append(cards_on_table, card)
      BY <1>3 DEF AskedPlays
    <2>2. /\ Asked \in 0..N - 1 /\ Len(cards_on_table) = turn /\ turn < N
          /\ server = "await" /\ server' = "await"
          /\ UNCHANGED <<deals_read, taken_tricks, trick_number, last_taker>>
      BY <1>3 DEF AskedPlays
    <2>3. Table = cards_on_table /\ Table' = cards_on_table'
      <3>1. trick_number = Len(taken_tricks) + 1 /\ Len(taken_tricks) \in Nat
        BY <1>1, <2>2 DEF Recorded, Playing, TypeOK
      <3> QED
        BY <2>2, <3>1 DEF Table
    <2>4. Game!PlayedRightColour(card, cards[Asked], cards_on_table)
      BY <2>1 DEF Game!PlayedRightColour, PlayedRightColour
    <2>5. Game!Play(Asked, card)
      <3>1. /\ server # "run_deal" /\ server' # "run_deal"
            /\ Asked = (last_taker + Len(cards_on_table)) % N
        BY <2>2 DEF Asked
      <3> QED
        BY <2>1, <2>2, <2>3, <2>4, <3>1 DEF Game!Play
    <2> QED
      BY <2>1, <2>2, <2>5
  <1>4. CASE ReadDeal
    <2>1. \A s \in Seats : cards[s] = {}
      BY <1>4 DEF ReadDeal, HandsEmpty, DealDone
    <2>2. server = "read_deal" /\ Table = <<>>
      BY <1>1, <1>4 DEF ReadDeal, Recorded, Between, Table
    <2>3. CASE deals_read < Len(GameFile)
      <3>1. Len(GameFile) \in Nat /\ deals_read \in Nat
        BY <1>1, GameFileFacts DEF TypeOK
      <3>2. deals_read # Len(GameFile)
        BY <2>3, <3>1
      <3>3. /\ server' = "run_deal" /\ deals_read' = deals_read + 1
            /\ UNCHANGED last_taker
        BY <1>4, <3>2 DEF ReadDeal
      <3>4. deals_read' - 1 = deals_read /\ Table' = <<>>
        BY <3>1, <3>3 DEF Table
      <3>5. cards = [s \in Seats |-> {}]
        BY <1>1, <2>1 DEF TypeOK
      <3> QED
        BY <2>2, <3>3, <3>4, <3>5
    <2>4. CASE ~(deals_read < Len(GameFile))
      <3>1. server' = "close" /\ UNCHANGED <<deals_read, cards, taken_tricks,
                                   cards_on_table, trick_number, last_taker>>
        BY <1>4, <2>4 DEF ReadDeal
      <3> QED
        BY <2>2, <3>1 DEF Table
    <2> QED
      BY <2>3, <2>4
  <1>5. CASE DealBegin
    <2>1. /\ server = "run_deal" /\ server' = "trick"
          /\ last_taker' = GameFile[deals_read].seat
          /\ UNCHANGED <<deals_read, cards, taken_tricks>> /\ trick_number' = 0
      BY <1>5 DEF DealBegin
    <2>2. /\ deals_read \in 1..Len(GameFile) /\ deals_read \in Nat
          /\ Len(GameFile) \in Nat
      BY <1>1, <2>1, GameFileFacts DEF TypeOK, Calm, DealStates
    <2>3. cards = GameFile[deals_read].cards
      BY <1>1, <2>1, <2>2, HandsAreDealt
    <2>4. Table = <<>> /\ Table' = <<>>
      <3>1. taken_tricks = <<>> /\ Len(<<>>) = 0
        BY <1>1, <2>1 DEF Recorded
      <3> QED
        BY <2>1, <3>1 DEF Table
    <2>5. (deals_read - 1) + 1 = deals_read /\ deals_read - 1 < Len(GameFile)
      BY <2>2
    <2>6. Game!Deal
      BY <2>1, <2>3, <2>4, <2>5 DEF Game!Deal
    <2> QED
      BY <2>6
  <1>6. CASE TrickBegin
    <2>1. /\ server = "trick" /\ server' \in {"turn", "scores"}
          /\ UNCHANGED <<deals_read, cards, taken_tricks, last_taker>>
          /\ server' = "turn" => cards_on_table' = <<>>
          /\ server' = "scores" => UNCHANGED <<cards_on_table, trick_number>>
      BY <1>6 DEF TrickBegin
    <2>2. Table = <<>> /\ Table' = <<>>
      BY <1>1, <2>1 DEF Recorded, Between, Table
    <2> QED
      BY <2>1, <2>2
  <1>7. CASE TrickTaken
    <2>1. /\ server = "taken" /\ server' = "barrier" /\ caller' = "trick"
          /\ last_taker' \in Takers
          /\ UNCHANGED <<deals_read, cards, cards_on_table, trick_number>>
      BY <1>7 DEF TrickTaken, BarrierThen
    <2>2. Len(cards_on_table) = N /\ N \in Nat /\ ~(N < N)
      BY <1>1, <2>1, ServerAssumption DEF Calm, Turns
    <2>3. SubSeq(cards_on_table, 1, N) = cards_on_table
      BY <1>1, <2>2 DEF TypeOK
    <2>4. PICK p \in 1..N : /\ Wins(cards_on_table, p)
                            /\ last_taker' = (last_taker + p - 1) % N
      BY <2>1, <2>2, <2>3 DEF Takers
    <2>5. Table = cards_on_table /\ Table' = <<>>
      <3>1. trick_number = Len(taken_tricks) + 1 /\ Len(taken_tricks) \in Nat
        BY <1>1, <2>1 DEF Recorded, Playing, TypeOK
      <3>2. trick_number' = Len(taken_tricks')
        BY <1>1, <2>1 DEF Recorded, Between, InBarrier
      <3> QED
        BY <2>1, <3>1, <3>2 DEF Table
    <2>6. Game!Wins(cards_on_table, p)
      BY <2>4 DEF Game!Wins, Wins
    <2>7. Game!Take
      <3>1. server # "run_deal" /\ server' # "run_deal"
        BY <2>1
      <3> QED
        BY <2>1, <2>2, <2>4, <2>5, <2>6, <3>1 DEF Game!Take
    <2> QED
      BY <2>7
  <1> QED
    BY <1>1, <1>2, <1>3, <1>4, <1>5, <1>6, <1>7

(* While nobody leaves, what the server does is a game of TrickGame: the   *)
(* seats play one card each in turn, from their hands and of the leader's  *)
(* colour when they can, the best card takes the trick and its owner       *)
(* leads, and a deal starts only when every card of the last one is        *)
(* played; the barriers, threads and pipes between leave no trace in it.   *)
THEOREM GameIsPlayed ==
  Spec /\ []NobodyLeft => GameSpec
  <1>1. GameInv /\ NobodyLeft => HandsEmpty
    BY DEF GameInv
  <1>2. /\ TurnInv /\ TurnInv' /\ NobodyLeft /\ NobodyLeft' /\ GameInv
        /\ [Next]_vars
        => [Game!Next]_(Game!vars)
    BY <1>1, StepOfTheGame DEF GameStep
  <1> QED
    BY <1>2, InitGame, GameInvStep, TurnInvHolds, PTL DEF Spec, GameSpec, Game!Spec
-----------------------------------------------------------------------------
(* The taker.  Serwer says of calculate_points what it must return; what   *)
(* it computes is in PointsCalculator.                                     *)
Calculator == INSTANCE FunctionProofs

(* Of different cards one is the best.                                     *)
LEMMA OneWins ==
  ASSUME NEW table \in Seq(Card),
         \A p, q \in DOMAIN table : table[p] = table[q] => p = q,
         NEW p \in DOMAIN table, Wins(table, p),
         NEW q \in DOMAIN table, Wins(table, q)
  PROVE  p = q
  <1>1. table[p] \in Card /\ table[q] \in Card
    OBVIOUS
  <1>2. table[p].colour = table[q].colour /\ table[p].figure = table[q].figure
    BY <1>1 DEF Wins, Card, Figures
  <1>3. table[p] = table[q]
    BY <1>1, <1>2 DEF Card
  <1> QED
    BY <1>3

LEMMA TakerIsFound ==
  ASSUME NEW table \in [1..4 -> Card], NEW starter \in 0..3
  PROVE  \E p \in 1..4 :
            /\ Wins(table, p)
            /\ Calculator!FindTaker(Calculator!Placed(table, starter), starter)
                  = (starter + p - 1) % 4
  <1>1. Calculator!FourSeats = 0..3 /\ Calculator!Card = Card
    BY DEF Calculator!FourSeats, Calculator!Card, Calculator!Figures, Calculator!Colours,
           Card, Figures, Colours
  <1>2. PICK p \in 1..4 :
            /\ Calculator!Wins(table, p)
            /\ Calculator!FindTaker(Calculator!Placed(table, starter), starter)
                  = (starter + p - 1) % 4
    BY <1>1, Calculator!FindTakerWins
  <1> QED
    BY <1>2 DEF Wins, Calculator!Wins

(* The seat that takes a trick, and there is one as soon as every seat has *)
(* played, is the one find_taker computes for the cards on the table: what *)
(* Serwer allows is what the calculator does, whoever left before.         *)
FindsTaker ==
    server = "taken" /\ Len(cards_on_table) >= N =>
        LET four == SubSeq(cards_on_table, 1, N) IN
        Takers = {Calculator!FindTaker(Calculator!Placed(four, last_taker), last_taker)}

THEOREM TakerIsTheCalculators == Spec => [](N = 4 => FindsTaker)
  <1>1. CardInv => (N = 4 => FindsTaker)
    <2> SUFFICES ASSUME N = 4, CardInv, server = "taken", Len(cards_on_table) >= 4
                 PROVE  Takers = {Calculator!FindTaker(Calculator!Placed(
                            SubSeq(cards_on_table, 1, 4), last_taker), last_taker)}
      BY DEF FindsTaker
    <2> DEFINE four == SubSeq(cards_on_table, 1, 4)
               found == Calculator!FindTaker(Calculator!Placed(four, last_taker), last_taker)
    <2>1. /\ cards_on_table \in Seq(Card) /\ taken_tricks \in Seq(Seq(Card))
          /\ last_taker \in 0..3 /\ Seats = 0..3
      BY DEF CardInv, TypeInv, TypeOK, Seats
    <2>2. /\ four \in Seq(Card) /\ four \in [1..4 -> Card] /\ DOMAIN four = 1..4
          /\ \A p \in 1..4 : p \in DOMAIN cards_on_table /\ four[p] = cards_on_table[p]
      <3>1. \A S : \A s \in Seq(S) : \A k \in 0..Len(s) :
               /\ SubSeq(s, 1, k) \in Seq(S) /\ Len(SubSeq(s, 1, k)) = k
               /\ DOMAIN s = 1..Len(s) /\ Len(s) \in Nat
               /\ \A i \in 1..k : SubSeq(s, 1, k)[i] = s[i]
        OBVIOUS
      <3>2. 4 \in 0..Len(cards_on_table)
        BY <2>1
      <3>3. /\ four \in Seq(Card) /\ Len(four) = 4
            /\ DOMAIN cards_on_table = 1..Len(cards_on_table)
            /\ \A p \in 1..4 : four[p] = cards_on_table[p]
        BY <2>1, <3>1, <3>2, Zenon
      <3>4. \A p \in 1..4 : p \in 1..Len(cards_on_table)
        BY <3>2
      <3> HIDE DEF four
      <3>5. four \in [1..4 -> Card]
        <4>1. \A s \in Seq(Card) : s \in [1..Len(s) -> Card]
          OBVIOUS
        <4> QED
          BY <3>3, <4>1
      <3> QED
        BY <3>3, <3>4, <3>5
    <2>3. \A p, q \in DOMAIN cards_on_table :
             cards_on_table[p] = cards_on_table[q] => p = q
      <3>1. Table = cards_on_table
        BY DEF CardInv, Recorded, Playing, Table, TypeInv, TypeOK
      <3> DEFINE n == Len(taken_tricks) + 1
                 all == Append(taken_tricks, Table)
      <3>2. n \in DOMAIN all /\ all[n] = cards_on_table
        BY <2>1, <3>1
      <3>3. EachOnce(all, cards)
        BY DEF CardInv, TricksOnce
      <3> HIDE DEF all, n
      <3> QED
        BY <3>2, <3>3 DEF EachOnce
    <2> HIDE DEF four
    <2>4. PICK p \in 1..4 : Wins(four, p) /\ found = (last_taker + p - 1) % 4
      BY <2>1, <2>2, TakerIsFound
    <2>5. Takers = {s \in Seats : \E q \in 1..4 : Wins(four, q) /\ s = (last_taker + q - 1) % 4}
      BY <2>1 DEF Takers, four
    <2>6. \A q \in 1..4 : Wins(four, q) => q = p
      BY <2>2, <2>3, <2>4, OneWins
    <2>7. found \in Seats
      BY <2>1, <2>4
    <2> QED
      <3>1. Takers = {found}
        BY <2>4, <2>5, <2>6, <2>7
      <3> QED
        BY <3>1 DEF four
  <1> QED
    BY <1>1, InitCardInv, CardInvStep, PTL DEF Spec
=============================================================================
