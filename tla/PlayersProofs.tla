---------------------------- MODULE PlayersProofs ----------------------------
(***************************************************************************)
(* What the players know while nobody leaves, for every number of seats,   *)
(* tricks, deals and clients, whatever is typed at them and however often  *)
(* TRICK is sent again: the client that is asked for a card knows the deal *)
(* and every trick before, it still counts as its own every card it could  *)
(* play, and it is shown the tricks its seat took.                         *)
(***************************************************************************)
EXTENDS KierkiProofs

HasPlayed(s) == server \in InTrick /\ s \in Played

(* A DEAL still in a pipe is about the deal going on, from whose hand the  *)
(* seat has not played yet.                                                *)
DealIsCurrent ==
    \A s \in Seats : Has(server_write_pipes[s], DEAL) =>
        /\ server \in InTrick \cup {"trick"}
        /\ trick_type_global = deals_read /\ taken_tricks = <<>>
        /\ cards[s] = Dealt(s) /\ ~HasPlayed(s)

(* What a TAKEN tells of is the trick last recorded.                       *)
TrickIsCurrent ==
    server \in InBarrier /\ caller = "trick" =>
        /\ last_taker = taken_takers[Len(taken_tricks)]
        /\ Len(cards_on_table) = N

(* There is one DEAL at most in a pipe, and one TAKEN.                     *)
ToldOnce ==
    \A s \in Seats : \A byte \in {DEAL, TAKEN} : Once(server_write_pipes[s], byte)

(* A client is behind the main thread by the bytes of its pipe: it knows   *)
(* the deal once it was sent DEAL, each trick once it was sent TAKEN, and  *)
(* its thread the number of the trick as soon as its seat is asked.        *)
NotToldYet(c) == told[c].hand # deals_read
InStep(c) ==
    LET pipe == server_write_pipes[seat[c]] IN
    /\ Has(pipe, DEAL) => NotToldYet(c) /\ ~b_was_destined_to_play[c]
    /\ ~Has(pipe, DEAL) =>
          /\ told[c] = [type |-> deals_read, hand |-> deals_read]
          /\ client[c].trick_number =
                IF Has(pipe, TAKEN) THEN Len(taken_tricks) ELSE Len(taken_tricks) + 1
    /\ b_was_destined_to_play[c] \/ HasPlayed(seat[c]) \/ Has(pipe, TAKEN)
          => current_trick[c] = trick_number
ClientsInStep ==
    deals_read > 0 =>
        \A c \in Connections :
            IF server = "run_deal" THEN NotToldYet(c) ELSE Serves(c) => InStep(c)

Together == DealIsCurrent /\ TrickIsCurrent /\ ToldOnce /\ ClientsInStep
TogetherInv == NobodyLeft => Together /\ HandKept /\ TricksAgree
PlayersInv == KInv /\ TurnInv /\ TogetherInv
-----------------------------------------------------------------------------
(* No DEAL or TAKEN is written or read. *)
Spared ==
    \A s \in Seats : \A byte \in {DEAL, TAKEN} :
        /\ Has(server_write_pipes'[s], byte) <=> Has(server_write_pipes[s], byte)
        /\ Once(server_write_pipes[s], byte) => Once(server_write_pipes'[s], byte)

LEMMA WriteSpares ==
  ASSUME TypeOK, NEW byte \in ToClient \ {DEAL, TAKEN},
         Broadcast(byte) \/ \E s \in Seats : WriteToClient(s, byte)
  PROVE  Spared
  <1> SUFFICES ASSUME NEW s \in Seats, NEW b \in {DEAL, TAKEN}
               PROVE  /\ Has(server_write_pipes'[s], b) <=> Has(server_write_pipes[s], b)
                      /\ Once(server_write_pipes[s], b) => Once(server_write_pipes'[s], b)
    BY DEF Spared
  <1> DEFINE pipe == server_write_pipes[s]
  <1>1. pipe \in Seq(ToClient)
    BY DEF TypeOK
  <1>2. server_write_pipes'[s] \in {pipe, Append(pipe, byte)}
    BY DEF TypeOK, Broadcast, WriteToClient
  <1>3. /\ Has(Append(pipe, byte), b) <=> Has(pipe, b)
        /\ Once(pipe, b) => Once(Append(pipe, byte), b)
    BY <1>1, Written, WrittenOnce
  <1> QED
    BY <1>2, <1>3

LEMMA ReadSpares ==
  ASSUME TypeOK, NEW c \in Connections, seat[c] \in Seats, NEW byte,
         byte \notin {DEAL, TAKEN}, ReadFromServer(c, byte)
  PROVE  Spared
  <1> SUFFICES ASSUME NEW s \in Seats, NEW b \in {DEAL, TAKEN}
               PROVE  /\ Has(server_write_pipes'[s], b) <=> Has(server_write_pipes[s], b)
                      /\ Once(server_write_pipes[s], b) => Once(server_write_pipes'[s], b)
    BY DEF Spared
  <1> DEFINE pipe == server_write_pipes[s]
  <1>1. pipe \in Seq(ToClient)
    BY DEF TypeOK
  <1>2. \/ server_write_pipes'[s] = pipe
        \/ server_write_pipes'[s] = Tail(pipe) /\ pipe # <<>> /\ Head(pipe) = byte
    BY DEF TypeOK, ReadFromServer
  <1>3. pipe # <<>> /\ Head(pipe) = byte =>
           /\ Has(Tail(pipe), b) <=> Has(pipe, b)
           /\ Once(pipe, b) => Once(Tail(pipe), b)
    BY <1>1, Consumed, ConsumedOnce
  <1> QED
    BY <1>2, <1>3

LEMMA ServerSpares ==
  ASSUME TypeOK, Server, ~DealBegin, ~TrickTaken
  PROVE  Spared
  <1>1. CASE UNCHANGED server_write_pipes
    BY <1>1 DEF Spared
  <1>2. CASE \E byte \in {BARRIER_RESPONSE, BARRIER_END, SCORES, DISCONNECTED, CARD_PLAY} :
                Broadcast(byte) \/ \E s \in Seats : WriteToClient(s, byte)
    BY <1>2, WriteSpares DEF ToClient, DEAL, TAKEN, BARRIER_RESPONSE, BARRIER_END, SCORES,
       DISCONNECTED, CARD_PLAY
  <1>3. CASE AskForCard
    <2>1. Asked \in Seats
      BY AskedIsASeat
    <2> QED
      BY <1>2, <1>3, <2>1 DEF AskForCard
  <1>4. ASSUME NEW j \in Seats, BarrierScan(j) PROVE Spared
    BY <1>1, <1>2, <1>4 DEF BarrierScan
  <1> QED
    BY <1>1, <1>2, <1>3, <1>4 DEF Server, BarrierBegin, BarrierPoll, BarrierCheck,
       Scan, ReadDeal, TrickBegin, TurnBegin, Poll, ScanEnd, SendScores, CloseServer,
       JoinThreads, pipeVars
-----------------------------------------------------------------------------
(* What a client is told that changes none of what is claimed of it: it    *)
(* may give up a card it still has or count it as played.                  *)
Quietly(c) ==
    /\ Spared
    /\ UNCHANGED <<told, greetVars>>
    /\ \A d \in Connections \ {c} : client'[d] = client[d]
    /\ client'[c].trick_number = client[c].trick_number
    /\ client'[c].taken_tricks = client[c].taken_tricks
    /\ (client[c].my_cards \cup client[c].played_cards) \ {NoCard}
          \subseteq client'[c].my_cards \cup client'[c].played_cards

LEMMA SilentIsQuiet ==
  ASSUME Spared, UNCHANGED <<client, told, greetVars>>, NEW c
  PROVE  Quietly(c)
  BY DEF Quietly

LEMMA TrickIsQuiet ==
  ASSUME ClientsTyped, Spared, UNCHANGED greetVars, NEW c \in Connections,
         NEW number, NEW table, SendTrick(c, number, table)
  PROVE  Quietly(c)
  <1>1. client \in [Connections -> Clients] /\ UNCHANGED told
    BY DEF ClientsTyped, SendTrick
  <1>2. CASE UNCHANGED client
    BY <1>1, <1>2, SilentIsQuiet
  <1>3. ASSUME NEW card, client' = [client EXCEPT ![c] = Client!OnTrick(@, card)]
        PROVE  Quietly(c)
    <2>1. /\ client'[c] = Client!OnTrick(client[c], card)
          /\ \A d \in Connections \ {c} : client'[d] = client[d]
          /\ client[c] \in Clients
      BY <1>1, <1>3
    <2>2. /\ client'[c].my_cards = client[c].my_cards \ {card}
          /\ client'[c].played_cards = client[c].played_cards \cup ({card} \ {NoCard})
          /\ client'[c].trick_number = client[c].trick_number
          /\ client'[c].taken_tricks = client[c].taken_tricks
      BY <2>1 DEF Client!OnTrick, Clients
    <2> QED
      BY <1>1, <2>1, <2>2 DEF Quietly
  <1> QED
    BY <1>2, <1>3 DEF SendTrick

LEMMA ScoresAreQuiet ==
  ASSUME ClientsTyped, Spared, UNCHANGED greetVars, NEW c \in Connections,
         SendScoreAndTotal(c)
  PROVE  /\ Quietly(c)
         /\ client'[c].my_cards = client[c].my_cards
         /\ client'[c].played_cards = client[c].played_cards
  <1>1. Client!Score.type = "SCORE" /\ Client!Total.type = "TOTAL"
    BY DEF Client!Score, Client!Total
  <1>2. \A m, n : m \in {Client!Score, Client!Total}
                  => ~Client!DEAL_check(m) /\ ~Client!TAKEN_check(m, n)
    BY <1>1 DEF Client!DEAL_check, Client!TAKEN_check
  <1>3. \A l, s : /\ Client!Received(l, Client!Score, s) = [l EXCEPT !.got_score = TRUE]
                  /\ Client!Received(l, Client!Total, s) = [l EXCEPT !.got_total = TRUE]
    BY <1>1, <1>2 DEF Client!Received
  <1>4. client[c] \in Clients
    BY DEF ClientsTyped
  <1>5. client' = [client EXCEPT ![c] = [[@ EXCEPT !.got_score = TRUE]
                                            EXCEPT !.got_total = TRUE]]
    BY <1>3 DEF SendScoreAndTotal
  <1>6. /\ \A d \in Connections \ {c} : client'[d] = client[d]
        /\ client'[c] = [[client[c] EXCEPT !.got_score = TRUE] EXCEPT !.got_total = TRUE]
    BY <1>5 DEF ClientsTyped
  <1>7. /\ client'[c].trick_number = client[c].trick_number
        /\ client'[c].taken_tricks = client[c].taken_tricks
        /\ client'[c].my_cards = client[c].my_cards
        /\ client'[c].played_cards = client[c].played_cards
    BY <1>4, <1>6 DEF Clients
  <1> QED
    BY <1>6, <1>7 DEF Quietly, SendScoreAndTotal
-----------------------------------------------------------------------------
(* What a thread sends while nobody leaves.                                *)
Heard(c, byte) ==
    /\ OnAnnouncement(c) /\ ReadFromServer(c, byte) /\ UNCHANGED greetVars
    /\ \/ byte = DEAL /\ SendDeal(c, trick_type_global, cards[seat[c]])
       \/ byte = TAKEN /\ SendTaken(c, current_trick[c], cards_on_table, last_taker)

LEMMA ReadsTheHead ==
  ASSUME TypeInv, NEW c \in Connections, NEW byte, ReadFromServer(c, byte)
  PROVE  /\ Serves(c) /\ seat[c] \in Seats /\ byte = Head(server_write_pipes[seat[c]])
         /\ server_write_pipes[seat[c]] # <<>>
  BY DEF ReadFromServer, Serves, Serving, TypeInv, ServesASeat

LEMMA NobodyBreaks ==
  ASSUME TypeInv, NobodyMoves, NobodyLeft', NEW c \in Connections
  PROVE  ~Breaks(c) /\ ~Greeting(c) /\ ~Greet(c)
  <1>1. ~Greeting(c) /\ ~Greet(c) /\ ~GreetFails(c)
    BY DEF NobodyMoves, Greeting, GreetDeal, GreetBegin, GreetTaken, GreetNext, Greet,
           GreetFails
  <1>2. Leavers \subseteq Droppers
    BY KierkiAssumption
  <1>3. c \in Droppers => ~SocketClosed(c) /\ ~SendFails(c)
    <2> SUFFICES ASSUME c \in Droppers, SocketClosed(c) \/ SendFails(c) PROVE FALSE
      OBVIOUS
    <2>1. Serves(c) /\ pc'[c] = "bye" /\ UNCHANGED seat
      BY DEF SocketClosed, SendFails, CloseThread, Goto, ReadFromServer, Serves, Serving,
             TypeInv, TypeOK
    <2>2. seat'[c] # Nobody
      BY <2>1, ServerAssumption DEF TypeInv, ServesASeat, Seats, Nobody
    <2> QED
      BY <2>1, <2>2 DEF NobodyLeft, HasLeft
  <1> QED
    BY <1>1, <1>2, <1>3 DEF Breaks

LEMMA CalmThreads ==
  ASSUME KInv, Calm, NobodyLeft', NEW c \in Connections, Thread(c)
  PROVE  /\ OwnStep(c) \/ PipeStep(c) \/ Environment(c)
         /\ Quietly(c) \/ \E byte \in {DEAL, TAKEN} : Heard(c, byte)
  <1>1. TypeInv /\ TypeOK /\ ClientsTyped /\ NobodyMoves
    BY DEF KInv, CardInv, TypeInv, Calm
  <1>2. ~Breaks(c) /\ ~Greeting(c) /\ ~Greet(c)
    BY <1>1, NobodyBreaks
  <1>3. OwnStep(c) \/ PipeStep(c) \/ Environment(c)
    <2>1. UNCHANGED vars \/ OwnStep(c) \/ PipeStep(c) \/ Environment(c)
      BY <1>1, ThreadsAreServers
    <2>2. CASE Silent(c)
      BY <2>2 DEF Silent, OwnStep, PipeStep, Environment
    <2>3. CASE KOnCardPlay(c) \/ KOnAnnouncement(c)
      BY <2>3 DEF KOnCardPlay, KOnAnnouncement, PipeStep
    <2>4. CASE Resend(c) \/ KNoSeat(c) \/ DrainAnswer(c)
      BY <2>4 DEF Resend, KNoSeat, DrainAnswer, Environment, OwnStep
    <2>5. CASE ReadAnswer(c)
      <3>1. Head(answers[c]) \in Inputs
        <4>1. answers[c] \in Seq(Inputs) /\ answers[c] # <<>>
          BY <1>1, <2>5 DEF ReadAnswer, ClientsTyped
        <4> QED
          BY <4>1
      <3> QED
        BY <2>5, <3>1 DEF ReadAnswer, Environment
    <2>6. CASE KReserve(c)
      <3>1. wanted[c] \in Seats
        BY <1>1 DEF ClientsTyped
      <3> QED
        BY <2>6, <3>1 DEF KReserve, Environment
    <2> QED
      BY <1>2, <2>2, <2>3, <2>4, <2>5, <2>6 DEF Thread
  <1>4. UNCHANGED server_write_pipes => Spared
    BY DEF Spared
  <1>5. ASSUME NEW byte \in {CARD_PLAY, BARRIER_RESPONSE, BARRIER_END, DISCONNECTED, SCORES},
               ReadFromServer(c, byte)
        PROVE  Spared
    <2>1. byte \notin {DEAL, TAKEN}
      BY DEF CARD_PLAY, BARRIER_RESPONSE, BARRIER_END, DISCONNECTED, SCORES, DEAL, TAKEN
    <2> QED
      BY <1>1, <1>5, <2>1, ReadsTheHead, ReadSpares
  <1>6. CASE Silent(c)
    <2>1. Spared
      BY <1>4, <1>5, <1>6 DEF Silent, Accept, Enter, LoopTop, Bye, Notify,
         OnBarrierResponse, OnBarrierEnd, OnDisconnected, Timeout, pipeVars
    <2> QED
      BY <1>3, <1>6, <2>1, SilentIsQuiet DEF Silent, clientVars
  <1>7. CASE KNoSeat(c) \/ DrainAnswer(c) \/ ReadAnswer(c)
    BY <1>3, <1>4, <1>7, SilentIsQuiet DEF KNoSeat, NoSeat, DrainAnswer, Drain,
       ReadAnswer, SocketMessage, clientVars, pipeVars
  <1>8. CASE KReserve(c)
    <2>1. deals_read = 0
      <3>1. deals_read \in Nat /\ wanted[c] \in Seats
        BY <1>1 DEF TypeOK, ClientsTyped
      <3> QED
        BY <1>8, <3>1 DEF KReserve, Reserve, SeatIsFree, Calm, SeatsTaken
    <2> QED
      BY <1>3, <1>4, <1>8, <2>1, SilentIsQuiet DEF KReserve, Reserve, DealIsOn, clientVars,
         greetVars, pipeVars
  <1>9. CASE KOnCardPlay(c)
    <2>1. Spared
      BY <1>5, <1>9 DEF KOnCardPlay, OnCardPlay
    <2> QED
      BY <1>1, <1>3, <1>9, <2>1, TrickIsQuiet DEF KOnCardPlay
  <1>10. CASE Resend(c)
    <2>1. Spared
      BY <1>4, <1>10 DEF Resend, Timeout, pipeVars
    <2> QED
      BY <1>1, <1>3, <1>10, <2>1, TrickIsQuiet DEF Resend
  <1>11. CASE KOnAnnouncement(c)
    <2>1. PICK byte \in {DEAL, TAKEN, SCORES} : ReadFromServer(c, byte)
      BY <1>11 DEF KOnAnnouncement, OnAnnouncement
    <2>2. byte = Head(server_write_pipes[seat[c]])
      BY <2>1 DEF ReadFromServer
    <2>3. DEAL # TAKEN /\ DEAL # SCORES /\ TAKEN # SCORES
      BY DEF DEAL, TAKEN, SCORES
    <2>4. CASE byte \in {DEAL, TAKEN}
      <3>1. Heard(c, byte)
        BY <1>11, <2>1, <2>2, <2>3, <2>4 DEF KOnAnnouncement, Announce, Heard
      <3> QED
        BY <1>3, <2>4, <3>1
    <2>5. CASE byte = SCORES
      <3>1. Spared /\ SendScoreAndTotal(c)
        BY <1>5, <1>11, <2>1, <2>2, <2>3, <2>5 DEF KOnAnnouncement, Announce
      <3> QED
        BY <1>1, <1>3, <1>11, <3>1, ScoresAreQuiet DEF KOnAnnouncement
    <2> QED
      BY <2>1, <2>4, <2>5
  <1> QED
    BY <1>2, <1>6, <1>7, <1>8, <1>9, <1>10, <1>11 DEF Thread

(* Asking a player keeps the number of the trick its thread knows, or      *)
(* brings it up to date.                                                   *)
LEMMA ThreadsAreAsked ==
  ASSUME TypeOK, NobodyMoves, NEW c \in Connections,
         OwnStep(c) \/ PipeStep(c) \/ Environment(c)
  PROVE  /\ \A d \in Connections \ {c} :
               /\ current_trick'[d] = current_trick[d]
               /\ b_was_destined_to_play'[d] = b_was_destined_to_play[d]
         /\ current_trick'[c] \in {current_trick[c], trick_number}
         /\ b_was_destined_to_play'[c] =>
               \/ b_was_destined_to_play[c]
               \/ ReadFromServer(c, CARD_PLAY) /\ current_trick'[c] = trick_number
  <1> USE DEF TypeOK
  <1>1. ASSUME NEW message, NEW after, Parse(c, message, after)
        PROVE  /\ \A d \in Connections \ {c} :
                     b_was_destined_to_play'[d] = b_was_destined_to_play[d]
               /\ b_was_destined_to_play'[c] => b_was_destined_to_play[c]
    BY <1>1 DEF Parse, PlayCard, Answered
  <1>2. CASE Drain(c)
    BY <1>1, <1>2 DEF Drain
  <1>3. CASE OwnStep(c) /\ ~Drain(c)
    BY <1>3 DEF OwnStep, NobodyMoves, Greet, Enter, LoopTop, Bye, Notify
  <1>4. CASE PipeStep(c)
    BY <1>4 DEF PipeStep, OnCardPlay, OnAnnouncement, OnBarrierResponse, OnBarrierEnd,
                OnDisconnected
  <1>5. ASSUME NEW message, SocketMessage(c, message)
        PROVE  /\ UNCHANGED current_trick
               /\ \A d \in Connections \ {c} :
                     b_was_destined_to_play'[d] = b_was_destined_to_play[d]
               /\ b_was_destined_to_play'[c] => b_was_destined_to_play[c]
    BY <1>1, <1>5 DEF SocketMessage
  <1>6. CASE Environment(c)
    BY <1>5, <1>6 DEF Environment, Accept, NoSeat, GreetFails, SocketClosed, Timeout,
                SendFails, Reserve
  <1> QED
    BY <1>2, <1>3, <1>4, <1>6
-----------------------------------------------------------------------------
(* A step at a time when nobody has left. *)
TogetherStep ==
    /\ KInv /\ TurnInv /\ NobodyLeft /\ Together
    /\ KInv' /\ TurnInv' /\ NobodyLeft'

LEMMA TogetherFacts ==
  ASSUME TogetherStep
  PROVE  /\ KInv /\ TypeInv /\ TypeOK /\ Recorded /\ SeatExclusive /\ Calm
         /\ TypeOK' /\ Calm' /\ Together
         /\ \A c \in Connections : OwnStep(c) \/ PipeStep(c) \/ Environment(c) => CalmStep(c)
  <1>1. /\ TypeInv /\ TypeInv' /\ Calm /\ Calm' /\ SeatInv /\ SeatInv'
        /\ CardInv /\ CardInv'
    BY DEF TogetherStep, TurnInv, SeatInv, CalmInv
  <1>2. \A c \in Connections : OwnStep(c) \/ PipeStep(c) \/ Environment(c) => CalmStep(c)
    BY <1>1, ThreadsLeaveMain, OthersStay DEF CalmStep
  <1> QED
    BY <1>1, <1>2 DEF TogetherStep, TypeInv, CardInv, SeatInv

(* A thread changes the game by the card of the player that is asked.      *)
LEMMA CardsOfTheAsked ==
  ASSUME NEW c \in Connections, CalmStep(c), NobodyLeft',
         OwnStep(c) \/ PipeStep(c) \/ Environment(c)
  PROVE  /\ UNCHANGED <<server, caller, deals_read, taken_tricks, trick_number, last_taker>>
         /\ \/ UNCHANGED gameVars
            \/ /\ server = "await" /\ Serves(c) /\ b_was_destined_to_play[c]
               /\ seat[c] \in Seats
               /\ \A s \in Seats \ {seat[c]} : cards'[s] = cards[s]
               /\ \A s \in Seats : cards'[s] \subseteq cards[s]
         /\ \A s \in Seats : HasPlayed(s)' =>
               HasPlayed(s) \/ (s = seat[c] /\ b_was_destined_to_play[c])
  <1>1. /\ TypeInv /\ TypeOK /\ Calm /\ UNCHANGED <<server, caller, deals_read, turn>>
    BY DEF CalmStep, SeatInv, TypeInv, mainVars
  <1>2. CASE UNCHANGED gameVars
    BY <1>1, <1>2 DEF gameVars, HasPlayed, Played
  <1>3. ASSUME NEW card, Plays(c, card)
        PROVE  /\ UNCHANGED <<taken_tricks, trick_number, last_taker>>
               /\ server = "await" /\ Serves(c) /\ b_was_destined_to_play[c]
               /\ seat[c] \in Seats
               /\ \A s \in Seats \ {seat[c]} : cards'[s] = cards[s]
               /\ \A s \in Seats : cards'[s] \subseteq cards[s]
               /\ \A s \in Seats : HasPlayed(s)' =>
                     HasPlayed(s) \/ (s = seat[c] /\ b_was_destined_to_play[c])
    <2>1. /\ server = "await" /\ seat[c] = Asked /\ player_turn = Asked
          /\ Serves(c) /\ b_was_destined_to_play[c]
          /\ UNCHANGED <<taken_tricks, trick_number, last_taker>>
      BY <1>1, <1>3 DEF Plays, Calm, Destined
    <2>2. Asked \in Seats /\ Asked # Nobody
      BY <1>1, AskedIsASeat
    <2>3. Len(cards_on_table) = turn /\ turn \in Nat
      BY <1>1, <2>1, <2>2, ServerAssumption DEF Calm, Turns, TypeOK
    <2>4. /\ cards' = [cards EXCEPT ![seat[c]] = @ \ {card}]
          /\ cards_on_table' = Append(cards_on_table, card)
      BY <1>3 DEF Plays
    <2>5. /\ DOMAIN cards_on_table' = 1..turn + 1
          /\ DOMAIN cards_on_table = 1..turn
      BY <1>1, <2>3, <2>4 DEF TypeOK
    <2>6. Played' \subseteq Played \cup {Asked}
      <3> SUFFICES ASSUME NEW p \in 1..turn + 1
                   PROVE  (last_taker + p - 1) % N \in Played \cup {Asked}
        BY <2>1, <2>5 DEF Played
      <3>1. CASE p \in 1..turn
        BY <2>5, <3>1 DEF Played
      <3>2. CASE p = turn + 1
        <4>1. last_taker + p - 1 = last_taker + turn
          BY <1>1, <2>3, <3>2 DEF TypeOK, Seats
        <4> QED
          BY <4>1 DEF Asked
      <3> QED
        BY <2>3, <3>1, <3>2
    <2>7. \A s \in Seats : HasPlayed(s)' =>
             HasPlayed(s) \/ (s = seat[c] /\ b_was_destined_to_play[c])
      BY <1>1, <2>1, <2>6 DEF HasPlayed
    <2> QED
      BY <1>1, <2>1, <2>2, <2>4, <2>7 DEF TypeOK
  <1>4. UNCHANGED gameVars \/ \E card : Plays(c, card)
    BY <1>1, ThreadKinds DEF Calm, Roams, Notify, Arrives, Reads
  <1> QED
    BY <1>1, <1>2, <1>3, <1>4 DEF gameVars

(* Once the deals are read nobody comes: every seat is taken.              *)
LEMMA NobodyComes ==
  ASSUME NEW c \in Connections, CalmStep(c), deals_read > 0,
         OwnStep(c) \/ PipeStep(c) \/ Environment(c)
  PROVE  /\ seat' = seat
         /\ \A d \in Connections : Serves(d)' => Serves(d)
  <1>1. /\ TypeInv /\ Calm /\ \A d \in Connections \ {c} : pc'[d] = pc[d]
    BY DEF CalmStep, SeatInv
  <1>2. ~SeatTaken(c)
    BY <1>1 DEF SeatTaken, Calm, SeatsTaken
  <1>3. SeatKept(c) \/ SeatGiven(c)
    BY <1>1, <1>2, ThreadSeat
  <1>4. seat' = seat /\ (pc'[c] \in Serving => pc[c] \in Serving)
    BY <1>3 DEF SeatKept, SeatGiven, Serving
  <1> QED
    BY <1>1, <1>4 DEF Serves

LEMMA StaysInStep ==
  ASSUME NEW d \in Connections, InStep(d), seat[d] \in Seats, seat'[d] = seat[d],
         UNCHANGED <<deals_read, taken_tricks, trick_number>>,
         told'[d] = told[d], client'[d].trick_number = client[d].trick_number,
         \A byte \in {DEAL, TAKEN} :
            Has(server_write_pipes'[seat[d]], byte) <=> Has(server_write_pipes[seat[d]], byte),
         current_trick'[d] \in {current_trick[d], trick_number},
         b_was_destined_to_play'[d] =>
            \/ b_was_destined_to_play[d]
            \/ /\ ~Has(server_write_pipes[seat[d]], DEAL)
               /\ current_trick'[d] = trick_number,
         HasPlayed(seat[d])' => HasPlayed(seat[d]) \/ b_was_destined_to_play[d]
  PROVE  InStep(d)'
  BY DEF InStep, NotToldYet
-----------------------------------------------------------------------------
(* Whoever serves once the deals are read knows what it should. *)
LEMMA ServersAreInStep ==
  ASSUME TogetherStep, deals_read > 0, server # "run_deal", NEW c \in Connections, Serves(c)
  PROVE  InStep(c)
  BY DEF TogetherStep, Together, ClientsInStep

LEMMA SameCardinality == \A S : Client!Cardinality(S) = Cardinality(S)
  BY Zenon DEF Client!Cardinality, Cardinality

(* A DEAL tells a client its hand: it knows no trick yet.                  *)
LEMMA DealHeard ==
  ASSUME TogetherStep, NEW c \in Connections, Heard(c, DEAL)
  PROVE  /\ client'[c].trick_number = 1 /\ client'[c].taken_tricks = <<>>
         /\ client'[c].my_cards = cards[seat[c]]
         /\ client'[c].played_cards = client[c].played_cards
         /\ told'[c] = [type |-> deals_read, hand |-> deals_read]
         /\ \A d \in Connections \ {c} : client'[d] = client[d] /\ told'[d] = told[d]
         /\ Serves(c) /\ seat[c] \in Seats /\ Has(server_write_pipes[seat[c]], DEAL)
         /\ server \in InTrick \cup {"trick"} /\ deals_read > 0
  <1>1. /\ KInv /\ TypeOK /\ ClientsTyped /\ told \in [Connections -> Told]
        /\ DealIsCurrent /\ Calm /\ TypeInv
    BY TogetherFacts DEF KInv, GreetingsTyped, Together
  <1>2. /\ Serves(c) /\ seat[c] \in Seats /\ Has(server_write_pipes[seat[c]], DEAL)
    <2>1. /\ Serves(c) /\ seat[c] \in Seats /\ DEAL = Head(server_write_pipes[seat[c]])
          /\ server_write_pipes[seat[c]] # <<>>
          /\ server_write_pipes[seat[c]] \in Seq(ToClient)
      BY <1>1, ReadsTheHead DEF Heard, TypeOK
    <2> QED
      BY <2>1, Consumed
  <1>3. /\ server \in InTrick \cup {"trick"} /\ trick_type_global = deals_read
        /\ cards[seat[c]] = Dealt(seat[c]) /\ deals_read > 0
    BY <1>1, <1>2 DEF DealIsCurrent, Calm, DealStates
  <1>4. Cardinality(cards[seat[c]]) = Tricks
    <2>1. deals_read \in DOMAIN GameFile
      BY <1>1, <1>3, GameFileFacts DEF TypeOK
    <2> QED
      BY <1>2, <1>3, <2>1, HandsFull DEF Dealt
  <1> DEFINE message == Client!Deal(deals_read, cards[seat[c]])
  <1>5. message.type = "DEAL" /\ message.hand = cards[seat[c]]
    BY DEF Client!Deal
  <1>6. /\ client' = [client EXCEPT ![c] = Client!Received(@, message, seat[c])]
        /\ told' = [told EXCEPT ![c] = [type |-> deals_read, hand |-> deals_read]]
    BY <1>3 DEF Heard, SendDeal, SendOther, SendTaken, DEAL, TAKEN
  <1> HIDE DEF message
  <1>7. Client!DEAL_check(message)
    BY <1>4, <1>5, SameCardinality DEF Client!DEAL_check
  <1>8. /\ client'[c] = Client!Received(client[c], message, seat[c])
        /\ client[c] \in Clients
        /\ told'[c] = [type |-> deals_read, hand |-> deals_read]
        /\ \A d \in Connections \ {c} : client'[d] = client[d] /\ told'[d] = told[d]
    BY <1>1, <1>6 DEF ClientsTyped
  <1>9. \A m, n : Client!DEAL_check(m) => ~Client!TAKEN_check(m, n)
    BY DEF Client!DEAL_check, Client!TAKEN_check
  <1>10. message # Client!Score /\ message # Client!Total
    <2>1. Client!Score.type = "SCORE" /\ Client!Total.type = "TOTAL"
      BY DEF Client!Score, Client!Total
    <2> QED
      BY <1>5, <2>1
  <1>11. client'[c] = Client!OnDeal(client[c], message)
    BY <1>7, <1>8, <1>9, <1>10 DEF Client!Received
  <1>12. /\ client'[c].trick_number = 1 /\ client'[c].taken_tricks = <<>>
         /\ client'[c].my_cards = cards[seat[c]]
         /\ client'[c].played_cards = client[c].played_cards
    BY <1>5, <1>8, <1>11 DEF Client!OnDeal, Clients
  <1> QED
    BY <1>2, <1>3, <1>8, <1>12

(* A TAKEN tells a client the trick it waits for.                          *)
LEMMA TakenHeard ==
  ASSUME TogetherStep, NEW c \in Connections, Heard(c, TAKEN)
  PROVE  /\ client[c].trick_number = Len(taken_tricks)
         /\ client'[c].trick_number = Len(taken_tricks) + 1
         /\ client'[c].taken_tricks =
               IF last_taker = seat[c] THEN Append(client[c].taken_tricks, cards_on_table)
               ELSE client[c].taken_tricks
         /\ client'[c].my_cards = (client[c].my_cards \cup client[c].played_cards)
                                     \ {cards_on_table[p] : p \in DOMAIN cards_on_table}
         /\ client'[c].played_cards = {}
         /\ UNCHANGED told
         /\ \A d \in Connections \ {c} : client'[d] = client[d]
         /\ Serves(c) /\ seat[c] \in Seats /\ Has(server_write_pipes[seat[c]], TAKEN)
         /\ ~Has(server_write_pipes[seat[c]], DEAL)
         /\ server \in InBarrier /\ caller = "trick"
         /\ deals_read > 0 /\ Len(taken_tricks) \in Nat
         /\ last_taker = taken_takers[Len(taken_tricks)]
         /\ cards_on_table = taken_tricks[Len(taken_tricks)]
         /\ 0 < Len(taken_tricks)
  <1>1. /\ KInv /\ TypeOK /\ ClientsTyped
        /\ DealIsCurrent /\ TrickIsCurrent /\ Calm /\ TypeInv /\ Recorded
    BY TogetherFacts DEF KInv, Together
  <1>2. /\ Serves(c) /\ seat[c] \in Seats /\ Has(server_write_pipes[seat[c]], TAKEN)
    <2>1. /\ Serves(c) /\ seat[c] \in Seats /\ TAKEN = Head(server_write_pipes[seat[c]])
          /\ server_write_pipes[seat[c]] # <<>>
          /\ server_write_pipes[seat[c]] \in Seq(ToClient)
      BY <1>1, ReadsTheHead DEF Heard, TypeOK
    <2> QED
      BY <2>1, Consumed
  <1>3. /\ server \in InBarrier /\ caller = "trick" /\ caller # "scan"
        /\ deals_read > 0 /\ trick_number > 0
        /\ cards_on_table = taken_tricks[trick_number]
    BY <1>1, <1>2 DEF Calm, PipesAnnounce, Announced, DealStates
  <1>4. trick_number = Len(taken_tricks)
    BY <1>1, <1>3 DEF Recorded, Between
  <1>5. ~Has(server_write_pipes[seat[c]], DEAL) /\ server # "run_deal"
    BY <1>1, <1>2, <1>3 DEF DealIsCurrent, InTrick, InBarrier
  <1>6. InStep(c)
    BY <1>2, <1>3, <1>5, ServersAreInStep
  <1>7. client[c].trick_number = Len(taken_tricks) /\ current_trick[c] = trick_number
    BY <1>2, <1>5, <1>6 DEF InStep
  <1> DEFINE message == Client!Taken(current_trick[c], cards_on_table, last_taker)
  <1>8. /\ Client!TAKEN_check(message, client[c].trick_number)
        /\ message.table = cards_on_table /\ message.taker = last_taker
    BY <1>1, <1>3, <1>4, <1>7 DEF Client!Taken, Client!TAKEN_check, TrickIsCurrent
  <1>9. /\ client' = [client EXCEPT ![c] = Client!Received(@, message, seat[c])]
        /\ UNCHANGED told
    BY DEF Heard, SendTaken, SendOther, DEAL, TAKEN
  <1> HIDE DEF message
  <1>10. /\ client'[c] = Client!Received(client[c], message, seat[c])
         /\ client[c] \in Clients
         /\ \A d \in Connections \ {c} : client'[d] = client[d]
    BY <1>1, <1>9 DEF ClientsTyped
  <1>11. \A m, n : Client!TAKEN_check(m, n) => ~Client!DEAL_check(m)
    BY DEF Client!DEAL_check, Client!TAKEN_check
  <1>12. message # Client!Score /\ message # Client!Total
    BY <1>8 DEF Client!Score, Client!Total, Client!TAKEN_check
  <1>13. client'[c] = Client!OnTaken(client[c], message, seat[c])
    BY <1>8, <1>10, <1>11, <1>12 DEF Client!Received
  <1>14. /\ client'[c].trick_number = client[c].trick_number + 1
         /\ client'[c].taken_tricks =
               IF last_taker = seat[c] THEN Append(client[c].taken_tricks, cards_on_table)
               ELSE client[c].taken_tricks
         /\ client'[c].my_cards = Client!StillHeld(client[c], cards_on_table)
         /\ client'[c].played_cards = {}
    BY <1>8, <1>10, <1>13 DEF Client!OnTaken, Clients
  <1>15. client'[c].my_cards = (client[c].my_cards \cup client[c].played_cards)
                                  \ {cards_on_table[p] : p \in DOMAIN cards_on_table}
    BY <1>14 DEF Client!StillHeld, Client!OnTable
  <1>16. /\ last_taker = taken_takers[Len(taken_tricks)]
         /\ Len(taken_tricks) \in Nat
    BY <1>1, <1>3 DEF TrickIsCurrent, TypeOK
  <1> QED
    BY <1>2, <1>3, <1>4, <1>5, <1>7, <1>9, <1>10, <1>14, <1>15, <1>16

(* The pipes lose at most the byte that was heard. *)
LEMMA HeardPipes ==
  ASSUME TypeInv, NEW c \in Connections, NEW byte \in {DEAL, TAKEN}, Heard(c, byte),
         ToldOnce
  PROVE  /\ Serves(c) /\ seat[c] \in Seats
         /\ ToldOnce'
         /\ \A s \in Seats : \A b \in {DEAL, TAKEN} :
               Has(server_write_pipes'[s], b) <=>
                  Has(server_write_pipes[s], b) /\ ~(s = seat[c] /\ b = byte)
  <1> DEFINE pipe == server_write_pipes[seat[c]]
  <1>1. /\ server_write_pipes \in [Seats -> Seq(ToClient)]
        /\ Serves(c) /\ seat[c] \in Seats /\ byte = Head(pipe) /\ pipe # <<>>
    BY ReadsTheHead DEF Heard, TypeInv, TypeOK
  <1>2. /\ \A s \in Seats \ {seat[c]} : server_write_pipes'[s] = server_write_pipes[s]
        /\ server_write_pipes'[seat[c]] = Tail(pipe)
    BY <1>1 DEF Heard, ReadFromServer
  <1>3. ASSUME NEW b \in {DEAL, TAKEN}
        PROVE  /\ Once(Tail(pipe), b)
               /\ Has(Tail(pipe), b) <=> Has(pipe, b) /\ b # byte
    <2>1. Once(pipe, b) /\ pipe \in Seq(ToClient)
      BY <1>1 DEF ToldOnce
    <2>2. /\ Once(Tail(pipe), b)
          /\ b = byte => ~Has(Tail(pipe), b)
      BY <1>1, <2>1, ConsumedOnce
    <2>3. /\ Has(Tail(pipe), b) => Has(pipe, b)
          /\ Has(pipe, b) /\ b # byte => Has(Tail(pipe), b)
      BY <1>1, <2>1, Consumed
    <2> QED
      BY <2>2, <2>3
  <1>4. ToldOnce'
    BY <1>2, <1>3 DEF ToldOnce
  <1> HIDE DEF pipe
  <1>5. \A s \in Seats : \A b \in {DEAL, TAKEN} :
           Has(server_write_pipes'[s], b) <=>
              Has(server_write_pipes[s], b) /\ ~(s = seat[c] /\ b = byte)
    <2> SUFFICES ASSUME NEW s \in Seats, NEW b \in {DEAL, TAKEN}
                 PROVE  Has(server_write_pipes'[s], b) <=>
                           Has(server_write_pipes[s], b) /\ ~(s = seat[c] /\ b = byte)
      OBVIOUS
    <2>1. CASE s = seat[c]
      BY <1>2, <1>3, <2>1 DEF pipe
    <2>2. CASE s # seat[c]
      BY <1>2, <2>2
    <2> QED
      BY <2>1, <2>2
  <1> QED
    BY <1>1, <1>4, <1>5

(* What a step of a thread leaves as it was. *)
LEMMA ThreadFacts ==
  ASSUME TogetherStep, NEW c \in Connections, Thread(c)
  PROVE  /\ TypeInv /\ TypeOK /\ Calm /\ Calm' /\ SeatExclusive /\ Together
         /\ OwnStep(c) \/ PipeStep(c) \/ Environment(c)
         /\ CalmStep(c)
         /\ Quietly(c) \/ \E byte \in {DEAL, TAKEN} : Heard(c, byte)
         /\ UNCHANGED <<server, caller, deals_read, taken_tricks, trick_number, last_taker,
                        trick_type_global, taken_takers>>
         /\ \/ UNCHANGED gameVars
            \/ /\ server = "await" /\ Serves(c) /\ b_was_destined_to_play[c]
               /\ seat[c] \in Seats
               /\ \A s \in Seats \ {seat[c]} : cards'[s] = cards[s]
               /\ \A s \in Seats : cards'[s] \subseteq cards[s]
         /\ \A s \in Seats : HasPlayed(s)' =>
               HasPlayed(s) \/ (s = seat[c] /\ b_was_destined_to_play[c])
         /\ \A s \in Seats : \A byte \in {DEAL, TAKEN} :
               Has(server_write_pipes'[s], byte) => Has(server_write_pipes[s], byte)
         /\ ToldOnce'
  <1>1. /\ KInv /\ TypeInv /\ TypeOK /\ Calm /\ Calm' /\ SeatExclusive /\ Together
        /\ NobodyLeft'
    BY TogetherFacts DEF TogetherStep
  <1>2. /\ OwnStep(c) \/ PipeStep(c) \/ Environment(c)
        /\ Quietly(c) \/ \E byte \in {DEAL, TAKEN} : Heard(c, byte)
    BY <1>1, CalmThreads
  <1>3. CalmStep(c)
    BY <1>2, TogetherFacts
  <1>4. UNCHANGED <<trick_type_global, taken_takers>>
    BY <1>1, ThreadsLeaveDeals
  <1>5. ToldOnce
    BY <1>1 DEF Together
  <1>6. /\ \A s \in Seats : \A byte \in {DEAL, TAKEN} :
               Has(server_write_pipes'[s], byte) => Has(server_write_pipes[s], byte)
        /\ ToldOnce'
    <2>1. CASE Quietly(c)
      BY <1>5, <2>1 DEF Quietly, Spared, ToldOnce
    <2>2. ASSUME NEW byte \in {DEAL, TAKEN}, Heard(c, byte)
          PROVE  /\ \A s \in Seats : \A b \in {DEAL, TAKEN} :
                       Has(server_write_pipes'[s], b) => Has(server_write_pipes[s], b)
                 /\ ToldOnce'
      BY <1>1, <1>5, <2>2, HeardPipes
    <2> QED
      BY <1>2, <2>1, <2>2
  <1>7. /\ UNCHANGED <<server, caller, deals_read, taken_tricks, trick_number, last_taker>>
        /\ \/ UNCHANGED gameVars
           \/ /\ server = "await" /\ Serves(c) /\ b_was_destined_to_play[c]
              /\ seat[c] \in Seats
              /\ \A s \in Seats \ {seat[c]} : cards'[s] = cards[s]
              /\ \A s \in Seats : cards'[s] \subseteq cards[s]
        /\ \A s \in Seats : HasPlayed(s)' =>
              HasPlayed(s) \/ (s = seat[c] /\ b_was_destined_to_play[c])
    BY <1>1, <1>2, <1>3, CardsOfTheAsked
  <1> QED
    BY <1>1, <1>2, <1>3, <1>4, <1>6, <1>7

LEMMA ThreadsKeepDeals ==
  ASSUME TogetherStep, NEW c \in Connections, Thread(c)
  PROVE  DealIsCurrent' /\ TrickIsCurrent'
  <1>1. /\ TypeInv /\ Calm /\ DealIsCurrent /\ TrickIsCurrent
        /\ UNCHANGED <<server, caller, deals_read, taken_tricks, trick_number, last_taker,
                       trick_type_global, taken_takers>>
        /\ \A s \in Seats : HasPlayed(s)' =>
              HasPlayed(s) \/ (s = seat[c] /\ b_was_destined_to_play[c])
        /\ \A s \in Seats : \A byte \in {DEAL, TAKEN} :
              Has(server_write_pipes'[s], byte) => Has(server_write_pipes[s], byte)
    BY ThreadFacts DEF Together
  <1>2. \/ UNCHANGED gameVars
        \/ server = "await" /\ \A s \in Seats \ {seat[c]} : cards'[s] = cards[s]
    BY ThreadFacts
  <1>3. TrickIsCurrent'
    BY <1>1, <1>2 DEF TrickIsCurrent, InBarrier, gameVars
  <1>4. ASSUME NEW s \in Seats, Has(server_write_pipes'[s], DEAL)
        PROVE  cards'[s] = cards[s] /\ ~HasPlayed(s)' /\ Has(server_write_pipes[s], DEAL)
    <2>1. Has(server_write_pipes[s], DEAL)
      BY <1>1, <1>4
    <2>2. ~HasPlayed(s) /\ deals_read > 0 /\ server # "run_deal"
      BY <1>1, <2>1 DEF DealIsCurrent, Calm, DealStates, InTrick
    <2>3. b_was_destined_to_play[c] => s # seat[c]
      <3> SUFFICES ASSUME b_was_destined_to_play[c] PROVE s # seat[c]
        OBVIOUS
      <3>1. Serves(c)
        BY <1>1 DEF Calm, Destined
      <3>2. InStep(c)
        BY <2>2, <3>1, ServersAreInStep
      <3> QED
        BY <2>1, <3>2 DEF InStep
    <2>4. cards'[s] = cards[s]
      BY <2>3, ThreadFacts DEF gameVars
    <2> QED
      BY <1>1, <2>1, <2>2, <2>3, <2>4
  <1>5. DealIsCurrent'
    BY <1>1, <1>4 DEF DealIsCurrent, Dealt
  <1> QED
    BY <1>3, <1>5

(* A thread that is told anything but a DEAL or a TAKEN for its client, or *)
(* another thread, leaves a client in step.                                *)
LEMMA OthersKeepStep ==
  ASSUME TogetherStep, NEW c \in Connections, Thread(c), deals_read > 0,
         NEW d \in Connections, Serves(d), InStep(d), d # c \/ Quietly(c)
  PROVE  InStep(d)'
  <1>1. /\ TypeInv /\ TypeOK /\ Calm /\ SeatExclusive /\ Together /\ CalmStep(c)
        /\ OwnStep(c) \/ PipeStep(c) \/ Environment(c)
        /\ Quietly(c) \/ \E byte \in {DEAL, TAKEN} : Heard(c, byte)
        /\ UNCHANGED <<deals_read, taken_tricks, trick_number>>
    BY ThreadFacts
  <1>2. seat[d] \in Seats /\ seat' = seat
    BY <1>1, NobodyComes DEF TypeInv, ServesASeat
  <1>3. Serves(c) /\ d # c => seat[d] # seat[c]
    BY <1>1 DEF SeatExclusive
  <1>4. /\ told'[d] = told[d] /\ client'[d].trick_number = client[d].trick_number
        /\ \A byte \in {DEAL, TAKEN} :
              Has(server_write_pipes'[seat[d]], byte) <=>
                 Has(server_write_pipes[seat[d]], byte)
    <2>1. CASE Quietly(c)
      BY <1>2, <2>1 DEF Quietly, Spared
    <2>2. CASE d # c /\ Heard(c, DEAL)
      <3>1. Serves(c) /\ told'[d] = told[d] /\ client'[d] = client[d]
        BY <2>2, DealHeard
      <3>2. \A byte \in {DEAL, TAKEN} :
               Has(server_write_pipes'[seat[d]], byte) <=>
                  Has(server_write_pipes[seat[d]], byte)
        BY <1>1, <1>2, <1>3, <2>2, <3>1, HeardPipes DEF Together
      <3> QED
        BY <3>1, <3>2
    <2>3. CASE d # c /\ Heard(c, TAKEN)
      <3>1. Serves(c) /\ told'[d] = told[d] /\ client'[d] = client[d]
        BY <2>3, TakenHeard
      <3>2. \A byte \in {DEAL, TAKEN} :
               Has(server_write_pipes'[seat[d]], byte) <=>
                  Has(server_write_pipes[seat[d]], byte)
        BY <1>1, <1>2, <1>3, <2>3, <3>1, HeardPipes DEF Together
      <3> QED
        BY <3>1, <3>2
    <2> QED
      BY <1>1, <2>1, <2>2, <2>3
  <1>5. /\ \A e \in Connections \ {c} :
              /\ current_trick'[e] = current_trick[e]
              /\ b_was_destined_to_play'[e] = b_was_destined_to_play[e]
        /\ current_trick'[c] \in {current_trick[c], trick_number}
        /\ b_was_destined_to_play'[c] =>
              \/ b_was_destined_to_play[c]
              \/ ReadFromServer(c, CARD_PLAY) /\ current_trick'[c] = trick_number
    BY <1>1, ThreadsAreAsked DEF Calm
  <1>6. ReadFromServer(c, CARD_PLAY) =>
           seat[c] \in Seats /\ ~Has(server_write_pipes[seat[c]], DEAL)
    <2> DEFINE pipe == server_write_pipes[seat[c]]
    <2> SUFFICES ASSUME ReadFromServer(c, CARD_PLAY)
                 PROVE  seat[c] \in Seats /\ ~Has(pipe, DEAL)
      OBVIOUS
    <2>1. /\ seat[c] \in Seats /\ CARD_PLAY = Head(pipe) /\ pipe # <<>>
          /\ pipe \in Seq(ToClient)
      BY <1>1, ReadsTheHead DEF TypeOK
    <2>2. AtEnd(pipe, CARD_PLAY)
      <3>1. Has(pipe, CARD_PLAY)
        BY <2>1, Consumed
      <3> QED
        BY <1>1, <2>1, <3>1 DEF Calm, PipesRequest, Requested
    <2>3. Tail(pipe) = <<>>
      BY <2>1, <2>2, Consumed
    <2>4. ~Has(Tail(pipe), DEAL) /\ DEAL # CARD_PLAY
      BY <2>3, EmptyPipe DEF DEAL, CARD_PLAY
    <2>5. Has(pipe, DEAL) => Has(Tail(pipe), DEAL)
      BY <2>1, <2>4, Consumed
    <2> QED
      BY <2>1, <2>4, <2>5
  <1>7. HasPlayed(seat[d])' => HasPlayed(seat[d]) \/ b_was_destined_to_play[d]
    <2>1. HasPlayed(seat[d])' =>
             HasPlayed(seat[d]) \/ (seat[d] = seat[c] /\ b_was_destined_to_play[c])
      BY <1>2, ThreadFacts DEF HasPlayed
    <2>2. b_was_destined_to_play[c] => Serves(c)
      BY <1>1 DEF Calm, Destined
    <2> QED
      BY <1>3, <2>1, <2>2
  <1>8. /\ current_trick'[d] \in {current_trick[d], trick_number}
        /\ b_was_destined_to_play'[d] =>
              \/ b_was_destined_to_play[d]
              \/ /\ ~Has(server_write_pipes[seat[d]], DEAL)
                 /\ current_trick'[d] = trick_number
    BY <1>5, <1>6
  <1> QED
    BY <1>1, <1>2, <1>4, <1>7, <1>8, StaysInStep

LEMMA HearerInStep ==
  ASSUME TogetherStep, NEW c \in Connections, Thread(c),
         NEW byte \in {DEAL, TAKEN}, Heard(c, byte)
  PROVE  InStep(c)'
  <1> DEFINE pipe == server_write_pipes[seat[c]]
  <1>1. /\ TypeInv /\ TypeOK /\ Calm /\ Together /\ ToldOnce /\ CalmStep(c)
        /\ DealIsCurrent
        /\ OwnStep(c) \/ PipeStep(c) \/ Environment(c)
        /\ UNCHANGED <<server, deals_read, taken_tricks, trick_number>>
        /\ \A s \in Seats : HasPlayed(s)' =>
              HasPlayed(s) \/ (s = seat[c] /\ b_was_destined_to_play[c])
    BY ThreadFacts DEF Together
  <1>2. /\ Serves(c) /\ seat[c] \in Seats
        /\ Has(pipe, byte)
        /\ ~Has(server_write_pipes'[seat[c]], byte)
        /\ \A b \in {DEAL, TAKEN} :
              Has(server_write_pipes'[seat[c]], b) => Has(pipe, b)
        /\ deals_read > 0 /\ server # "run_deal"
    BY <1>1, HeardPipes, DealHeard, TakenHeard DEF InTrick, InBarrier
  <1>3. seat' = seat
    BY <1>1, <1>2, NobodyComes
  <1>4. InStep(c)
    BY <1>2, ServersAreInStep
  <1>5. b_was_destined_to_play'[c] = b_was_destined_to_play[c]
    BY DEF Heard, OnAnnouncement
  <1>6. CASE byte = DEAL
    <2>1. /\ client'[c].trick_number = 1
          /\ told'[c] = [type |-> deals_read, hand |-> deals_read]
          /\ server \in InTrick \cup {"trick"}
      BY <1>6, DealHeard
    <2>2. taken_tricks = <<>> /\ ~HasPlayed(seat[c]) /\ ~b_was_destined_to_play[c]
      BY <1>1, <1>2, <1>4, <1>6 DEF DealIsCurrent, InStep
    <2>3. ~Has(pipe, TAKEN)
      BY <1>1, <1>2, <2>1 DEF Calm, PipesAnnounce, Announced, InTrick, InBarrier
    <2>4. Len(taken_tricks) + 1 = 1 /\ ~Has(server_write_pipes'[seat[c]], TAKEN)
      BY <1>2, <2>2, <2>3
    <2>5. ~HasPlayed(seat[c])'
      BY <1>1, <1>2, <1>3, <2>2 DEF HasPlayed
    <2> QED
      BY <1>1, <1>2, <1>3, <1>5, <1>6, <2>1, <2>2, <2>4, <2>5 DEF InStep
  <1>7. CASE byte = TAKEN
    <2>1. /\ client'[c].trick_number = Len(taken_tricks) + 1
          /\ UNCHANGED told /\ ~Has(pipe, DEAL)
          /\ server \in InBarrier
      BY <1>7, TakenHeard
    <2>2. told[c] = [type |-> deals_read, hand |-> deals_read]
      BY <1>4, <2>1 DEF InStep
    <2>3. ~HasPlayed(seat[c])' /\ ~b_was_destined_to_play[c]
      BY <1>1, <2>1 DEF HasPlayed, InTrick, InBarrier, Calm, Destined
    <2> QED
      BY <1>1, <1>2, <1>3, <1>5, <1>7, <2>1, <2>2, <2>3 DEF InStep
  <1> QED
    BY <1>6, <1>7

LEMMA ThreadsTogether ==
  ASSUME TogetherStep, NEW c \in Connections, Thread(c)
  PROVE  Together'
  <1>1. /\ CalmStep(c) /\ Together
        /\ OwnStep(c) \/ PipeStep(c) \/ Environment(c)
        /\ Quietly(c) \/ \E byte \in {DEAL, TAKEN} : Heard(c, byte)
        /\ UNCHANGED <<server, deals_read>> /\ ToldOnce'
    BY ThreadFacts
  <1>2. CASE deals_read > 0 /\ server = "run_deal"
    <2>1. UNCHANGED told
      BY <1>1, <1>2, DealHeard, TakenHeard DEF Quietly, InTrick, InBarrier
    <2>2. ClientsInStep'
      BY <1>1, <1>2, <2>1 DEF Together, ClientsInStep, NotToldYet
    <2> QED
      BY <1>1, <2>2, ThreadsKeepDeals DEF Together
  <1>3. CASE deals_read > 0 /\ server # "run_deal"
    <2>1. ASSUME NEW d \in Connections, Serves(d)' PROVE InStep(d)'
      <3>1. Serves(d) /\ InStep(d)
        BY <1>1, <1>3, <2>1, NobodyComes, ServersAreInStep
      <3>2. CASE d # c \/ Quietly(c)
        BY <1>3, <3>1, <3>2, OthersKeepStep
      <3>3. CASE d = c /\ ~Quietly(c)
        BY <1>1, <3>3, HearerInStep
      <3> QED
        BY <3>2, <3>3
    <2>2. ClientsInStep'
      BY <1>1, <1>3, <2>1 DEF ClientsInStep
    <2> QED
      BY <1>1, <2>2, ThreadsKeepDeals DEF Together
  <1>4. CASE ~(deals_read > 0)
    BY <1>1, <1>4, ThreadsKeepDeals DEF Together, ClientsInStep
  <1> QED
    BY <1>2, <1>3, <1>4
-----------------------------------------------------------------------------
(* No card of a trick is in a hand. *)
LEMMA TakenCardsAreGone ==
  ASSUME TogetherStep, server # "run_deal", NEW i \in DOMAIN taken_tricks,
         NEW p \in DOMAIN taken_tricks[i], NEW s \in Seats
  PROVE  taken_tricks[i][p] \notin cards[s]
  <1> DEFINE tricks == Append(taken_tricks, Table)
  <1>1. EachOnce(tricks, cards) /\ taken_tricks \in Seq(Seq(Card))
    BY TogetherFacts DEF KInv, CardInv, TricksOnce, TypeOK
  <1>2. /\ Table \in Seq(Card)
        /\ i \in DOMAIN tricks /\ tricks[i] = taken_tricks[i]
    <2>1. Table \in Seq(Card)
      BY TogetherFacts, EmptyIsSeq DEF Table, TypeOK
    <2> QED
      BY <1>1, <2>1
  <1> HIDE DEF tricks
  <1> QED
    BY <1>1, <1>2 DEF EachOnce

(* A client that was sent its cards since the last deal began. *)
LEMMA InDealsBefore ==
  ASSUME TogetherStep, NEW c \in Connections, Thread(c),
         NEW d \in Connections, InDeal(d)'
  PROVE  /\ Serves(d) /\ seat[d] \in Seats /\ seat' = seat
         /\ deals_read > 0 /\ server # "run_deal" /\ InStep(d)
         /\ InDeal(d) \/ (d = c /\ Heard(c, DEAL))
  <1>1. /\ CalmStep(c) /\ TypeInv
        /\ OwnStep(c) \/ PipeStep(c) \/ Environment(c)
        /\ Quietly(c) \/ \E byte \in {DEAL, TAKEN} : Heard(c, byte)
        /\ UNCHANGED <<server, deals_read>>
    BY ThreadFacts
  <1>2. /\ deals_read > 0 /\ server # "run_deal"
        /\ Serves(d)' /\ told'[d].hand = deals_read
    BY <1>1 DEF InDeal
  <1>3. Serves(d) /\ seat' = seat
    BY <1>1, <1>2, NobodyComes
  <1>4. seat[d] \in Seats /\ InStep(d)
    BY <1>1, <1>2, <1>3, ServersAreInStep DEF TypeInv, ServesASeat
  <1>5. told'[d] = told[d] \/ (d = c /\ Heard(c, DEAL))
    BY <1>1, DealHeard, TakenHeard DEF Quietly
  <1> QED
    BY <1>2, <1>3, <1>4, <1>5 DEF InDeal

LEMMA ThreadsKeepHands ==
  ASSUME TogetherStep, HandKept, NEW c \in Connections, Thread(c)
  PROVE  HandKept'
  <1> SUFFICES ASSUME NEW d \in Connections, InDeal(d)'
               PROVE  cards'[seat'[d]] \subseteq client'[d].my_cards \cup client'[d].played_cards
    BY DEF HandKept
  <1> DEFINE s == seat[d]
  <1>1. /\ Serves(d) /\ s \in Seats /\ seat' = seat
        /\ deals_read > 0 /\ server # "run_deal"
        /\ InDeal(d) \/ (d = c /\ Heard(c, DEAL))
    BY InDealsBefore
  <1>2. /\ TypeOK /\ cards'[s] \subseteq cards[s]
        /\ Quietly(c) \/ \E byte \in {DEAL, TAKEN} : Heard(c, byte)
    BY <1>1, ThreadFacts DEF gameVars
  <1>3. InDeal(d) => cards[s] \subseteq client[d].my_cards \cup client[d].played_cards
    BY DEF HandKept
  <1>4. NoCard \notin cards[s]
    BY <1>1, <1>2, KierkiAssumption DEF TypeOK
  <1>5. CASE Quietly(c)
    <2>1. InDeal(d)
      <3>1. told'[d] = told[d] /\ UNCHANGED <<server, deals_read>>
        BY <1>5, ThreadFacts DEF Quietly
      <3> QED
        BY <1>1, <3>1 DEF InDeal
    <2>2. (client[d].my_cards \cup client[d].played_cards) \ {NoCard}
             \subseteq client'[d].my_cards \cup client'[d].played_cards
      BY <1>5 DEF Quietly
    <2> QED
      BY <1>1, <1>2, <1>3, <1>4, <2>1, <2>2
  <1>6. CASE Heard(c, DEAL)
    <2>1. CASE d = c
      BY <1>1, <1>2, <1>6, <2>1, DealHeard
    <2>2. CASE d # c
      <3>1. client'[d] = client[d]
        BY <1>6, <2>2, DealHeard
      <3> QED
        BY <1>1, <1>2, <1>3, <2>2, <3>1
    <2> QED
      BY <2>1, <2>2
  <1>7. CASE Heard(c, TAKEN)
    <2>1. InDeal(d)
      <3>1. told'[d] = told[d] /\ UNCHANGED <<server, deals_read>>
        BY <1>7, ThreadFacts, TakenHeard
      <3> QED
        BY <1>1, <3>1 DEF InDeal
    <2>2. CASE d = c
      <3> DEFINE n == Len(taken_tricks)
                 table == {cards_on_table[p] : p \in DOMAIN cards_on_table}
      <3>1. /\ client'[c].my_cards =
                  (client[c].my_cards \cup client[c].played_cards) \ table
            /\ cards_on_table = taken_tricks[n] /\ n \in Nat /\ 0 < n
        BY <1>7, TakenHeard
      <3>2. n \in DOMAIN taken_tricks
        BY <1>2, <3>1 DEF TypeOK
      <3>3. cards[s] \cap table = {}
        BY <1>1, <3>1, <3>2, TakenCardsAreGone
      <3> HIDE DEF table
      <3> QED
        BY <1>1, <1>2, <1>3, <2>1, <2>2, <3>1, <3>3
    <2>3. CASE d # c
      <3>1. client'[d] = client[d]
        BY <1>7, <2>3, TakenHeard
      <3> QED
        BY <1>1, <1>2, <1>3, <2>1, <3>1
    <2> QED
      BY <2>2, <2>3
  <1> QED
    BY <1>2, <1>5, <1>6, <1>7

(* The tricks a seat has taken, up to one of them. *)
Won(takers, s, before) == {i \in 1..before : takers[i] = s}
Shows(tricks, takers, s, before, shown) ==
    LET won == Won(takers, s, before) IN
    /\ before <= Len(tricks)
    /\ Len(shown) = Cardinality(won)
    /\ {shown[j] : j \in DOMAIN shown} = {tricks[i] : i \in won}
Agrees(c) ==
    Shows(taken_tricks, taken_takers, seat[c], client[c].trick_number - 1,
          client[c].taken_tricks)

LEMMA TricksAgreeFor ==
  TricksAgree <=> \A c \in Connections : InDeal(c) => Agrees(c)
  BY DEF TricksAgree, Agrees, Shows, Won

(* One more trick, for the seat that took it and for the others.           *)
LEMMA OneMoreTrick ==
  ASSUME NEW shown \in Seq(Seq(Card)), NEW s, NEW n \in Nat \ {0},
         NEW tricks, NEW takers, n = Len(tricks),
         Shows(tricks, takers, s, n - 1, shown)
  PROVE  Shows(tricks, takers, s, n,
               IF takers[n] = s THEN Append(shown, tricks[n]) ELSE shown)
  <1> DEFINE won(m) == Won(takers, s, m)
  <1>0. n <= Len(tricks)
    OBVIOUS
  <1>1. /\ Len(shown) = Cardinality(won(n - 1)) /\ n <= Len(tricks)
        /\ {shown[j] : j \in DOMAIN shown} = {tricks[i] : i \in won(n - 1)}
    BY <1>0, Zenon DEF Shows
  <1>2. ASSUME takers[n] = s
        PROVE  Shows(tricks, takers, s, n, Append(shown, tricks[n]))
    <2>1. won(n) = won(n - 1) \cup {n} /\ n \notin won(n - 1)
      BY <1>2 DEF Won
    <2>2. IsFiniteSet(won(n - 1))
      <3>1. IsFiniteSet(1..n - 1)
        BY FS_Interval
      <3> QED
        BY <3>1, FS_Subset DEF Won
    <2>3. Cardinality(won(n)) = Cardinality(won(n - 1)) + 1
      BY <2>1, <2>2, FS_AddElement
    <2> DEFINE table == tricks[n]
               more == Append(shown, table)
               m == Len(shown)
    <2>4. /\ Len(more) = m + 1 /\ m \in Nat
          /\ DOMAIN more = 1..m + 1 /\ DOMAIN shown = 1..m
          /\ \A j \in 1..m : more[j] = shown[j]
          /\ more[m + 1] = table
      OBVIOUS
    <2> HIDE DEF more, table, m
    <2>5. {more[j] : j \in DOMAIN more} = {shown[j] : j \in DOMAIN shown} \cup {table}
      <3>1. \A j \in DOMAIN more : more[j] \in {shown[i] : i \in DOMAIN shown} \cup {table}
        <4> SUFFICES ASSUME NEW j \in 1..m + 1
                     PROVE  more[j] \in {shown[i] : i \in DOMAIN shown} \cup {table}
          BY <2>4
        <4>1. CASE j = m + 1
          BY <2>4, <4>1
        <4>2. CASE j # m + 1
          <5>1. j \in 1..m
            <6>1. m \in Nat
              BY <2>4
            <6> QED
              BY <4>2, <6>1
          <5> QED
            BY <2>4, <5>1
        <4> QED
          BY <4>1, <4>2
      <3>2. \A j \in DOMAIN shown : shown[j] \in {more[i] : i \in DOMAIN more}
        <4> SUFFICES ASSUME NEW j \in 1..m
                     PROVE  shown[j] \in {more[i] : i \in DOMAIN more}
          BY <2>4
        <4>1. j \in DOMAIN more /\ more[j] = shown[j]
          BY <2>4
        <4> QED
          BY <4>1
      <3>3. table \in {more[i] : i \in DOMAIN more}
        <4>1. m + 1 \in DOMAIN more
          BY <2>4
        <4> QED
          BY <2>4, <4>1
      <3> QED
        BY <3>1, <3>2, <3>3
    <2>6. {tricks[i] : i \in won(n)} =
             {tricks[i] : i \in won(n - 1)} \cup {table}
      BY <2>1 DEF table
    <2>7. Shows(tricks, takers, s, n, more)
      <3>1. Len(more) = Cardinality(won(n))
        BY <1>1, <2>3, <2>4 DEF m
      <3>2. {more[j] : j \in DOMAIN more} = {tricks[i] : i \in won(n)}
        BY <1>1, <2>5, <2>6
      <3> QED
        BY <1>1, <3>1, <3>2, Zenon DEF Shows
    <2> QED
      BY <2>7 DEF more, table
  <1>3. ASSUME takers[n] # s PROVE Shows(tricks, takers, s, n, shown)
    <2>1. won(n) = won(n - 1)
      BY <1>3 DEF Won
    <2> QED
      BY <1>1, <2>1, Zenon DEF Shows
  <1> QED
    BY <1>2, <1>3

LEMMA NothingShown == \A takers, s : Shows(<<>>, takers, s, 0, <<>>)
  <1> SUFFICES ASSUME NEW takers, NEW s PROVE Shows(<<>>, takers, s, 0, <<>>)
    OBVIOUS
  <1>1. Won(takers, s, 0) = {}
    BY DEF Won
  <1>2. Cardinality({}) = 0 /\ Len(<<>>) = 0 /\ DOMAIN <<>> = {}
    BY FS_EmptySet
  <1>3. \A f, S : S = {} => {f[j] : j \in S} = {}
    OBVIOUS
  <1>4. 0 <= Len(<<>>)
    BY <1>2
  <1> QED
    BY <1>1, <1>2, <1>3, <1>4, Zenon DEF Shows

LEMMA ThreadsKeepTricks ==
  ASSUME TogetherStep, TricksAgree, NEW c \in Connections, Thread(c)
  PROVE  TricksAgree'
  <1> SUFFICES ASSUME NEW d \in Connections, InDeal(d)'
               PROVE  Agrees(d)'
    BY DEF TricksAgree, Agrees, Shows, Won
  <1>1. /\ Serves(d) /\ seat[d] \in Seats /\ seat' = seat
        /\ deals_read > 0 /\ server # "run_deal"
        /\ InDeal(d) \/ (d = c /\ Heard(c, DEAL))
    BY InDealsBefore
  <1>2. /\ UNCHANGED <<taken_tricks, taken_takers>> /\ TypeOK /\ DealIsCurrent
        /\ Quietly(c) \/ \E byte \in {DEAL, TAKEN} : Heard(c, byte)
    BY ThreadFacts DEF Together
  <1>3. InDeal(d) => Agrees(d)
    BY TricksAgreeFor
  <1>4. ASSUME InDeal(d), client'[d].trick_number = client[d].trick_number,
               client'[d].taken_tricks = client[d].taken_tricks
        PROVE  Agrees(d)'
    BY <1>1, <1>2, <1>3, <1>4 DEF Agrees
  <1>5. CASE Quietly(c)
    <2>1. InDeal(d)
      <3>1. told'[d] = told[d] /\ UNCHANGED <<server, deals_read>>
        BY <1>5, ThreadFacts DEF Quietly
      <3> QED
        BY <1>1, <3>1 DEF InDeal
    <2> QED
      BY <1>4, <1>5, <2>1 DEF Quietly
  <1>6. CASE Heard(c, DEAL)
    <2>1. CASE d = c
      <3>1. /\ client'[c].trick_number = 1 /\ client'[c].taken_tricks = <<>>
            /\ taken_tricks = <<>>
        BY <1>1, <1>2, <1>6, DealHeard DEF DealIsCurrent
      <3>2. \A takers, s : Shows(<<>>, takers, s, 0, <<>>)
        BY NothingShown
      <3>3. client'[c].trick_number - 1 = 0
        BY <3>1
      <3> QED
        BY <1>1, <1>2, <2>1, <3>1, <3>2, <3>3 DEF Agrees
    <2>2. CASE d # c
      BY <1>1, <1>4, <1>6, <2>2, DealHeard
    <2> QED
      BY <2>1, <2>2
  <1>7. CASE Heard(c, TAKEN)
    <2>1. InDeal(d)
      <3>1. told'[d] = told[d] /\ UNCHANGED <<server, deals_read>>
        BY <1>7, ThreadFacts, TakenHeard
      <3> QED
        BY <1>1, <3>1 DEF InDeal
    <2>2. CASE d = c
      <3> DEFINE n == Len(taken_tricks)
                 k == client[c]
      <3>1. k \in Clients
        BY TogetherFacts DEF KInv, ClientsTyped
      <3>2. /\ k.trick_number = n /\ client'[c].trick_number = n + 1
            /\ client'[c].taken_tricks =
                  IF last_taker = seat[c] THEN Append(k.taken_tricks, cards_on_table)
                  ELSE k.taken_tricks
            /\ last_taker = taken_takers[n] /\ cards_on_table = taken_tricks[n]
            /\ n \in Nat \ {0}
        BY <1>7, TakenHeard
      <3>3. k.taken_tricks \in Seq(Seq(Card)) /\ n = Len(taken_tricks)
        BY <3>1 DEF Clients
      <3>4. Shows(taken_tricks, taken_takers, seat[c], n - 1, k.taken_tricks)
        BY <1>3, <2>1, <2>2, <3>2 DEF Agrees
      <3> HIDE DEF n, k
      <3>5. Shows(taken_tricks, taken_takers, seat[c], n, client'[c].taken_tricks)
        BY <3>2, <3>3, <3>4, OneMoreTrick
      <3>6. client'[c].trick_number - 1 = n
        BY <3>2
      <3> QED
        BY <1>1, <1>2, <2>2, <3>5, <3>6 DEF Agrees
    <2>3. CASE d # c
      BY <1>4, <1>7, <2>1, <2>3, TakenHeard
    <2> QED
      BY <2>2, <2>3
  <1> QED
    BY <1>2, <1>5, <1>6, <1>7
-----------------------------------------------------------------------------
(* The main thread tells nobody anything itself. *)
LEMMA ServerFacts ==
  ASSUME TogetherStep, KServer
  PROVE  /\ Server /\ UNCHANGED <<clientVars, threadVars>>
         /\ TypeInv /\ TypeOK /\ TypeOK' /\ Recorded /\ Calm /\ Calm' /\ Together
         /\ told \in [Connections -> Told] /\ GreetingsTyped
         /\ \A c \in Connections : Serves(c) => seat[c] \in Seats
         /\ OtherServer => UNCHANGED greetVars /\ ~ReadDeal /\ ~DealBegin /\ ~TrickTaken
  <1>1. Server /\ UNCHANGED clientVars
    BY DEF KServer, KReadDeal, KDealBegin, KTrickTaken, OtherServer, Server
  <1>2. OtherServer => UNCHANGED greetVars /\ ~ReadDeal /\ ~DealBegin /\ ~TrickTaken
    BY DEF OtherServer, ReadDeal, DealBegin, TrickTaken
  <1>3. /\ TypeInv /\ TypeOK /\ TypeOK' /\ Recorded /\ Calm /\ Calm' /\ Together
        /\ told \in [Connections -> Told] /\ GreetingsTyped
    BY TogetherFacts DEF KInv, GreetingsTyped
  <1> QED
    BY <1>1, <1>2, <1>3, ServerLeavesThreads DEF TypeInv, ServesASeat

(* Only a trick that was taken is followed by a barrier that goes on with  *)
(* the next, and after it the next begins.                                 *)
LEMMA WhereTheServerGoes ==
  ASSUME Server
  PROVE  /\ server = "trick" => TrickBegin
         /\ ~TrickTaken /\ server' \in InBarrier /\ caller' = "trick"
               => server \in InBarrier /\ caller = "trick"
  <1>1. server = "trick" => TrickBegin
    BY DEF Server, BarrierBegin, BarrierPoll, BarrierCheck, BarrierScan, Scan, ReadDeal,
       DealBegin, TrickBegin, TurnBegin, AskForCard, Poll, ScanEnd, TrickTaken, SendScores,
       CloseServer, JoinThreads
  <1>2. ~TrickTaken /\ server' \in InBarrier /\ caller' = "trick"
           => server \in InBarrier /\ caller = "trick"
    <2> USE DEF InBarrier
    <2>1. CASE BarrierBegin \/ BarrierPoll \/ BarrierCheck \/ \E j \in Seats : BarrierScan(j)
      BY <2>1 DEF BarrierBegin, BarrierPoll, BarrierCheck, BarrierScan
    <2>2. CASE \E j \in Seats : Scan(j)
      BY <2>2 DEF Scan, BarrierThen, Abort
    <2>3. CASE \/ ReadDeal \/ DealBegin \/ TrickBegin \/ TurnBegin \/ AskForCard
               \/ Poll \/ ScanEnd \/ SendScores \/ CloseServer \/ JoinThreads
      BY <2>3 DEF ReadDeal, DealBegin, TrickBegin, TurnBegin, AskForCard, Poll, ScanEnd,
         SendScores, BarrierThen, CloseServer, JoinThreads
    <2> QED
      BY <2>1, <2>2, <2>3 DEF Server
  <1> QED
    BY <1>1, <1>2

LEMMA TricksStay ==
  ASSUME TricksAgree, UNCHANGED <<client, seat, taken_tricks, taken_takers>>,
         \A c \in Connections : InDeal(c)' => InDeal(c)
  PROVE  TricksAgree'
  <1> SUFFICES ASSUME NEW c \in Connections, InDeal(c)' PROVE Agrees(c)'
    BY DEF TricksAgree, Agrees, Shows, Won
  <1> QED
    BY TricksAgreeFor DEF Agrees

(* A step of the main thread that neither begins nor ends anything.        *)
LEMMA UnseenTogether ==
  ASSUME TogetherStep, HandKept, TricksAgree, OtherServer, ~TrickBegin
  PROVE  Together' /\ HandKept' /\ TricksAgree'
  <1>1. /\ Server /\ UNCHANGED <<clientVars, threadVars, greetVars>>
        /\ TypeInv /\ TypeOK /\ Calm /\ Calm' /\ Together
        /\ ~ReadDeal /\ ~DealBegin /\ ~TrickTaken
        /\ \A c \in Connections : Serves(c) => seat[c] \in Seats
    BY ServerFacts DEF KServer
  <1>2. Unseen /\ Spared
    BY <1>1, ServerUnseen, ServerSpares
  <1>3. /\ server = "trick" => TrickBegin
        /\ server' \in InBarrier /\ caller' = "trick"
               => server \in InBarrier /\ caller = "trick"
    BY <1>1, WhereTheServerGoes
  <1>4. /\ UNCHANGED <<deals_read, cards, cards_on_table, taken_tricks, trick_number,
                       last_taker>>
        /\ server' # "run_deal" <=> server # "run_deal"
        /\ server' \in InTrick <=> server \in InTrick
        /\ UNCHANGED <<client, told, pc, seat, b_was_destined_to_play, current_trick>>
        /\ UNCHANGED <<trick_type_global, taken_takers>>
    BY <1>1, <1>2 DEF Unseen, clientVars, threadVars, greetVars
  <1>5. \A s \in Seats : HasPlayed(s)' <=> HasPlayed(s)
    BY <1>4 DEF HasPlayed, Played
  <1>6. \A s \in Seats : \A byte \in {DEAL, TAKEN} :
           Has(server_write_pipes'[s], byte) <=> Has(server_write_pipes[s], byte)
    BY <1>2 DEF Spared
  <1>7. DealIsCurrent'
    BY <1>1, <1>3, <1>4, <1>5, <1>6 DEF Together, DealIsCurrent, Dealt
  <1>8. TrickIsCurrent' /\ ToldOnce'
    BY <1>1, <1>2, <1>3, <1>4 DEF Together, TrickIsCurrent, ToldOnce, Spared
  <1>9. ClientsInStep'
    <2>1. \A c \in Connections : Serves(c) /\ InStep(c) => InStep(c)'
      BY <1>1, <1>4, <1>5, <1>6 DEF InStep, NotToldYet
    <2> QED
      BY <1>1, <1>4, <2>1 DEF Together, ClientsInStep, NotToldYet, Serves
  <1>10. \A c \in Connections : InDeal(c)' <=> InDeal(c)
    BY <1>4 DEF InDeal, Serves
  <1>11. HandKept'
    BY <1>4, <1>10 DEF HandKept
  <1>12. TricksAgree'
    BY <1>4, <1>10, TricksStay
  <1> QED
    BY <1>7, <1>8, <1>9, <1>11, <1>12 DEF Together

LEMMA TrickBeginTogether ==
  ASSUME TogetherStep, HandKept, TricksAgree, OtherServer, TrickBegin
  PROVE  Together' /\ HandKept' /\ TricksAgree'
  <1>1. /\ Server /\ UNCHANGED <<clientVars, threadVars, greetVars>>
        /\ TypeInv /\ TypeOK /\ Calm /\ Calm' /\ Together /\ Recorded
        /\ ~ReadDeal /\ ~DealBegin /\ ~TrickTaken
        /\ \A c \in Connections : Serves(c) => seat[c] \in Seats
    BY ServerFacts DEF KServer
  <1>2. /\ server = "trick" /\ server' \in {"turn", "scores"}
        /\ server' = "scores" => trick_number = Tricks
        /\ server' = "turn" => cards_on_table' = <<>>
        /\ UNCHANGED <<deals_read, cards, taken_tricks, last_taker>>
        /\ UNCHANGED <<client, told, pc, seat, b_was_destined_to_play, current_trick>>
        /\ UNCHANGED <<trick_type_global, taken_takers, server_write_pipes>>
    BY <1>1 DEF TrickBegin, clientVars, threadVars, greetVars, pipeVars
  <1>3. \A s \in Seats : ~HasPlayed(s)'
    <2>1. DOMAIN <<>> = {}
      OBVIOUS
    <2> QED
      BY <1>2, <2>1 DEF HasPlayed, Played, InTrick
  <1>4. \A s \in Seats : Has(server_write_pipes[s], DEAL) => server' = "turn"
    <2> SUFFICES ASSUME NEW s \in Seats, Has(server_write_pipes[s], DEAL),
                        trick_number = Tricks
                 PROVE  FALSE
      BY <1>2
    <2>1. taken_tricks = <<>> /\ trick_number = Len(taken_tricks)
      BY <1>1, <1>2 DEF Together, DealIsCurrent, Recorded, Between
    <2>2. trick_number = 0
      BY <2>1
    <2> QED
      BY <2>2, ServerAssumption
  <1>5. DealIsCurrent'
    BY <1>1, <1>2, <1>3, <1>4 DEF Together, DealIsCurrent, Dealt, InTrick
  <1>6. TrickIsCurrent' /\ ToldOnce'
    BY <1>1, <1>2 DEF Together, TrickIsCurrent, ToldOnce, InBarrier
  <1>7. ClientsInStep'
    <2>1. ASSUME NEW c \in Connections, Serves(c), InStep(c) PROVE InStep(c)'
      <3>1. ~b_was_destined_to_play[c] /\ ~Has(server_write_pipes[seat[c]], TAKEN)
        BY <1>1, <1>2, <2>1 DEF Calm, Destined, PipesAnnounce, Announced, InBarrier
      <3> QED
        BY <1>1, <1>2, <1>3, <2>1, <3>1 DEF InStep, NotToldYet
    <2> QED
      BY <1>1, <1>2, <2>1 DEF Together, ClientsInStep, NotToldYet, Serves
  <1>8. \A c \in Connections : InDeal(c)' <=> InDeal(c)
    BY <1>2 DEF InDeal, Serves
  <1>9. HandKept' /\ TricksAgree'
    BY <1>2, <1>8, TricksStay DEF HandKept
  <1> QED
    BY <1>5, <1>6, <1>7, <1>9 DEF Together

LEMMA ReadDealTogether ==
  ASSUME TogetherStep, HandKept, TricksAgree, KReadDeal
  PROVE  Together' /\ HandKept' /\ TricksAgree'
  <1>1. /\ Server /\ UNCHANGED <<clientVars, threadVars>>
        /\ TypeInv /\ TypeOK /\ Calm /\ Together /\ told \in [Connections -> Told]
    BY ServerFacts DEF KServer
  <1>2. /\ server = "read_deal" /\ ReadDeal
        /\ UNCHANGED <<client, told, pc, seat, b_was_destined_to_play, current_trick>>
        /\ UNCHANGED <<trick_type_global, server_write_pipes>>
        /\ UNCHANGED <<trick_number, last_taker, cards_on_table>>
    BY <1>1 DEF KReadDeal, ReadDeal, clientVars, threadVars, pipeVars
  <1>3. \A s \in Seats : ~Has(server_write_pipes[s], DEAL)
    BY <1>1, <1>2 DEF Together, DealIsCurrent, InTrick
  <1>4. DealIsCurrent' /\ ToldOnce'
    BY <1>1, <1>2, <1>3 DEF Together, DealIsCurrent, ToldOnce
  <1>5. server' \in {"run_deal", "close"}
    BY <1>2 DEF ReadDeal
  <1>6. TrickIsCurrent'
    BY <1>5 DEF TrickIsCurrent, InBarrier
  <1>7. CASE server' = "run_deal"
    <2>1. deals_read' = deals_read + 1
      BY <1>2, <1>7 DEF ReadDeal
    <2>2. \A c \in Connections : told[c].hand \in 0..deals_read /\ deals_read \in Nat
      BY <1>1 DEF Told, TypeOK
    <2>3. \A c \in Connections : NotToldYet(c)'
      BY <1>2, <2>1, <2>2 DEF NotToldYet
    <2> QED
      BY <1>4, <1>6, <1>7, <2>3 DEF Together, ClientsInStep, HandKept, TricksAgree, InDeal
  <1>8. CASE server' = "close"
    <2>1. UNCHANGED <<deals_read, cards, taken_tricks, taken_takers>>
      BY <1>2, <1>8 DEF ReadDeal, KReadDeal
    <2>2. \A s : ~HasPlayed(s) /\ ~HasPlayed(s)'
      BY <1>2, <1>8 DEF HasPlayed, InTrick
    <2>3. \A c \in Connections : InStep(c) => InStep(c)'
      BY <1>2, <2>1, <2>2 DEF InStep, NotToldYet
    <2>4. ClientsInStep'
      BY <1>1, <1>2, <1>8, <2>1, <2>3 DEF Together, ClientsInStep, Serves
    <2>5. \A c \in Connections : InDeal(c)' <=> InDeal(c)
      BY <1>2, <1>8, <2>1 DEF InDeal, Serves
    <2>6. HandKept' /\ TricksAgree'
      BY <1>2, <2>1, <2>5, TricksStay DEF HandKept
    <2> QED
      BY <1>4, <1>6, <2>4, <2>6 DEF Together
  <1> QED
    BY <1>5, <1>7, <1>8

(* Every pipe gets a DEAL, or a TAKEN, it did not hold.                    *)
LEMMA PipesAreTold ==
  ASSUME TypeOK, ToldOnce, NEW byte \in {DEAL, TAKEN}, Broadcast(byte),
         \A s \in Seats : ~Has(server_write_pipes[s], byte)
  PROVE  /\ ToldOnce'
         /\ \A s \in Seats : \A b \in {DEAL, TAKEN} :
               Has(server_write_pipes'[s], b) <=>
                  Has(server_write_pipes[s], b) \/ b = byte
  <1> SUFFICES ASSUME NEW s \in Seats, NEW b \in {DEAL, TAKEN}
               PROVE  /\ Once(server_write_pipes'[s], b)
                      /\ Has(server_write_pipes'[s], b) <=>
                            Has(server_write_pipes[s], b) \/ b = byte
    BY DEF ToldOnce
  <1> DEFINE pipe == server_write_pipes[s]
  <1>1. /\ pipe \in Seq(ToClient) /\ byte \in ToClient
        /\ server_write_pipes'[s] = Append(pipe, byte)
    BY DEF TypeOK, Broadcast, ToClient
  <1>2. ~Has(pipe, byte) /\ Once(pipe, b)
    BY DEF ToldOnce
  <1>3. Has(Append(pipe, byte), b) <=> Has(pipe, b) \/ b = byte
    BY <1>1, Written
  <1>4. Once(Append(pipe, byte), b)
    BY <1>1, <1>2, WrittenOnce
  <1> QED
    BY <1>1, <1>3, <1>4

LEMMA DealBeginTogether ==
  ASSUME TogetherStep, KDealBegin
  PROVE  Together' /\ HandKept' /\ TricksAgree'
  <1>1. /\ Server /\ UNCHANGED <<clientVars, threadVars>>
        /\ TypeInv /\ TypeOK /\ Calm /\ Together /\ Recorded
        /\ \A c \in Connections : Serves(c) => seat[c] \in Seats
    BY ServerFacts DEF KServer
  <1>2. /\ server = "run_deal" /\ server' = "trick"
        /\ Broadcast(DEAL) /\ trick_type_global' = deals_read
        /\ UNCHANGED <<deals_read, cards, taken_tricks>>
        /\ UNCHANGED <<client, told, pc, seat, b_was_destined_to_play, current_trick>>
    BY <1>1 DEF KDealBegin, DealBegin, clientVars, threadVars
  <1>3. /\ taken_tricks = <<>> /\ deals_read > 0
        /\ \A s \in Seats : cards[s] = Dealt(s)
        /\ \A s \in Seats : ~Has(server_write_pipes[s], DEAL)
        /\ \A s \in Seats : ~Has(server_write_pipes[s], TAKEN)
    BY <1>1, <1>2 DEF Recorded, TypeInv, DealIsRead, Calm, HandsDealt, Together,
       DealIsCurrent, InTrick, PipesAnnounce, Announced, InBarrier
  <1>4. /\ ToldOnce'
        /\ \A s \in Seats : Has(server_write_pipes'[s], DEAL)
        /\ \A s \in Seats : ~Has(server_write_pipes'[s], TAKEN)
    BY <1>1, <1>2, <1>3, PipesAreTold DEF Together, DEAL, TAKEN
  <1>5. \A s : ~HasPlayed(s)'
    BY <1>2 DEF HasPlayed, InTrick
  <1>6. DealIsCurrent' /\ TrickIsCurrent'
    BY <1>2, <1>3, <1>5 DEF DealIsCurrent, TrickIsCurrent, Dealt, InBarrier
  <1>7. \A c \in Connections : NotToldYet(c)
    BY <1>1, <1>2, <1>3 DEF Together, ClientsInStep
  <1>8. ClientsInStep'
    <2> SUFFICES ASSUME NEW c \in Connections, Serves(c)' PROVE InStep(c)'
      BY <1>2 DEF ClientsInStep
    <2>1. seat[c] \in Seats
      BY <1>1, <1>2 DEF Serves
    <2>2. ~b_was_destined_to_play[c]
      BY <1>1, <1>2 DEF Calm, Destined
    <2> QED
      BY <1>2, <1>4, <1>5, <1>7, <2>1, <2>2 DEF InStep, NotToldYet
  <1>9. \A c \in Connections : ~InDeal(c)'
    BY <1>2, <1>7 DEF InDeal, NotToldYet
  <1> QED
    BY <1>4, <1>6, <1>8, <1>9 DEF Together, HandKept, TricksAgree

(* What was shown of the tricks stays right when another is recorded.      *)
LEMMA LongerRecord ==
  ASSUME NEW S, NEW T, NEW tricks \in Seq(S), NEW takers \in Seq(T),
         Len(tricks) = Len(takers), NEW trick \in S, NEW taker \in T,
         NEW s, NEW before \in Int, NEW shown, Shows(tricks, takers, s, before, shown)
  PROVE  Shows(Append(tricks, trick), Append(takers, taker), s, before, shown)
  <1> DEFINE won == Won(takers, s, before)
             more == Append(tricks, trick)
             moreTakers == Append(takers, taker)
             n == Len(tricks)
  <1>1. /\ before <= n /\ Len(shown) = Cardinality(won)
        /\ {shown[j] : j \in DOMAIN shown} = {tricks[i] : i \in won}
    BY Zenon DEF Shows
  <1>2. /\ n \in Nat /\ Len(more) = n + 1
        /\ \A i \in 1..n : more[i] = tricks[i] /\ moreTakers[i] = takers[i]
    OBVIOUS
  <1> HIDE DEF more, moreTakers, n
  <1>3. before <= Len(more) /\ \A i \in 1..before : i \in 1..n
    BY <1>1, <1>2
  <1>4. Won(moreTakers, s, before) = won
    BY <1>2, <1>3 DEF Won
  <1>5. \A i \in won : more[i] = tricks[i]
    BY <1>2, <1>3 DEF Won
  <1> HIDE DEF won
  <1>6. {more[i] : i \in won} = {tricks[i] : i \in won}
    BY <1>5
  <1>7. Shows(more, moreTakers, s, before, shown)
    BY <1>1, <1>3, <1>4, <1>6, Zenon DEF Shows
  <1> QED
    BY <1>7 DEF more, moreTakers

LEMMA TrickTakenTogether ==
  ASSUME TogetherStep, HandKept, TricksAgree, KTrickTaken
  PROVE  Together' /\ HandKept' /\ TricksAgree'
  <1>1. /\ Server /\ UNCHANGED <<clientVars, threadVars>>
        /\ TypeInv /\ TypeOK /\ TypeOK' /\ Calm /\ Together /\ Recorded /\ GreetingsTyped
        /\ \A c \in Connections : Serves(c) => seat[c] \in Seats
    BY ServerFacts DEF KServer
  <1> DEFINE n == Len(taken_tricks)
  <1>2. /\ server = "taken" /\ server' = "barrier" /\ caller' = "trick"
        /\ Broadcast(TAKEN)
        /\ taken_tricks' = Append(taken_tricks, cards_on_table)
        /\ taken_takers' = Append(taken_takers, last_taker')
        /\ UNCHANGED <<deals_read, cards, cards_on_table, trick_number, trick_type_global>>
        /\ UNCHANGED <<client, told, pc, seat, b_was_destined_to_play, current_trick>>
    BY <1>1 DEF KTrickTaken, TrickTaken, BarrierThen, clientVars, threadVars
  <1>3. /\ taken_tricks \in Seq(Seq(Card)) /\ cards_on_table \in Seq(Card)
        /\ taken_takers \in Seq(Seats) /\ Len(taken_takers) = n /\ last_taker' \in Seats
        /\ n \in Nat
    BY <1>1 DEF TypeOK, GreetingsTyped
  <1>4. Len(taken_tricks') = n + 1 /\ taken_takers'[n + 1] = last_taker'
    BY <1>2, <1>3
  <1>5. Len(cards_on_table) = N /\ \A s \in Seats : HasPlayed(s)
    BY <1>1, <1>2, FullTable DEF Calm, Turns, HasPlayed, InTrick
  <1>6. \A s \in Seats : ~Has(server_write_pipes[s], DEAL)
    BY <1>1, <1>5 DEF Together, DealIsCurrent
  <1>7. \A s \in Seats : ~Has(server_write_pipes[s], TAKEN)
    BY <1>1, <1>2 DEF Calm, PipesAnnounce, Announced, InBarrier
  <1>8. /\ ToldOnce'
        /\ \A s \in Seats : ~Has(server_write_pipes'[s], DEAL)
        /\ \A s \in Seats : Has(server_write_pipes'[s], TAKEN)
    BY <1>1, <1>2, <1>6, <1>7, PipesAreTold DEF Together, DEAL, TAKEN
  <1>9. DealIsCurrent' /\ TrickIsCurrent'
    BY <1>2, <1>4, <1>5, <1>8 DEF DealIsCurrent, TrickIsCurrent
  <1>10. ClientsInStep'
    <2> SUFFICES ASSUME deals_read > 0, NEW c \in Connections, Serves(c)'
                 PROVE  InStep(c)'
      BY <1>2 DEF ClientsInStep
    <2>1. Serves(c) /\ seat[c] \in Seats /\ InStep(c)
      BY <1>1, <1>2 DEF Serves, Together, ClientsInStep
    <2>2. /\ told[c] = [type |-> deals_read, hand |-> deals_read]
          /\ client[c].trick_number = n + 1
          /\ current_trick[c] = trick_number
      BY <1>5, <1>6, <1>7, <2>1 DEF InStep
    <2> QED
      BY <1>2, <1>4, <1>8, <2>1, <2>2 DEF InStep
  <1>11. \A c \in Connections : InDeal(c)' <=> InDeal(c)
    BY <1>2 DEF InDeal, Serves
  <1>12. HandKept'
    BY <1>2, <1>11 DEF HandKept
  <1>13. TricksAgree'
    <2> SUFFICES ASSUME NEW c \in Connections, InDeal(c)' PROVE Agrees(c)'
      BY DEF TricksAgree, Agrees, Shows, Won
    <2>1. Agrees(c) /\ client[c] \in Clients
      BY <1>11, TricksAgreeFor, TogetherFacts DEF KInv, ClientsTyped
    <2>2. client[c].trick_number - 1 \in Int
      BY <2>1 DEF Clients
    <2>3. Shows(taken_tricks', taken_takers', seat[c], client[c].trick_number - 1,
                client[c].taken_tricks)
      BY <1>2, <1>3, <2>1, <2>2, LongerRecord DEF Agrees
    <2> QED
      BY <1>2, <2>3 DEF Agrees
  <1> QED
    BY <1>8, <1>9, <1>10, <1>12, <1>13 DEF Together

LEMMA ServerTogether ==
  ASSUME TogetherStep, HandKept, TricksAgree, KServer
  PROVE  Together' /\ HandKept' /\ TricksAgree'
  BY UnseenTogether, TrickBeginTogether, ReadDealTogether, DealBeginTogether,
     TrickTakenTogether DEF KServer
-----------------------------------------------------------------------------
(* What is typed, and no step at all, change nothing that is claimed.      *)
LEMMA TypedTogether ==
  ASSUME TogetherStep, HandKept, TricksAgree,
         UNCHANGED <<vars, client, told, greetVars>>
  PROVE  Together' /\ HandKept' /\ TricksAgree'
  <1>1. /\ UNCHANGED <<server, caller, deals_read, cards, cards_on_table, taken_tricks,
                       trick_number, last_taker, server_write_pipes, pc, seat,
                       b_was_destined_to_play, current_trick, client, told,
                       trick_type_global, taken_takers>>
    BY DEF vars, mainVars, gameVars, pipeVars, threadVars, greetVars
  <1>2. Together
    BY TogetherFacts
  <1>3. \A s \in Seats : HasPlayed(s)' <=> HasPlayed(s)
    BY <1>1 DEF HasPlayed, Played
  <1>4. DealIsCurrent' /\ TrickIsCurrent' /\ ToldOnce'
    BY <1>1, <1>2, <1>3 DEF Together, DealIsCurrent, TrickIsCurrent, ToldOnce, Dealt
  <1>5. ClientsInStep'
    <2>1. \A c \in Connections : Serves(c) => seat[c] \in Seats
      BY TogetherFacts DEF TypeInv, ServesASeat
    <2>2. \A c \in Connections : Serves(c) /\ InStep(c) => InStep(c)'
      BY <1>1, <1>3, <2>1 DEF InStep, NotToldYet
    <2> QED
      BY <1>1, <1>2, <2>2 DEF Together, ClientsInStep, NotToldYet, Serves
  <1>6. \A c \in Connections : InDeal(c)' <=> InDeal(c)
    BY <1>1 DEF InDeal, Serves
  <1>7. HandKept' /\ TricksAgree'
    BY <1>1, <1>6, TricksStay DEF HandKept
  <1> QED
    BY <1>4, <1>5, <1>7 DEF Together

LEMMA InitPlayers == KInit => PlayersInv
  <1> SUFFICES ASSUME KInit PROVE PlayersInv
    OBVIOUS
  <1>1. KInv /\ Init
    BY InitKInv DEF KInit
  <1>2. TurnInv
    <2>1. SeatExclusive
      BY <1>1 DEF Init, SeatExclusive, Serves, Serving
    <2> QED
      BY <1>1, <2>1, InitTypeInv, InitCardInv, InitCalm DEF TurnInv, SeatInv, CalmInv
  <1>3. Together
    <2>1. \A s \in Seats : server_write_pipes[s] = <<>>
      BY <1>1 DEF Init
    <2>2. DOMAIN <<>> = {}
      OBVIOUS
    <2>3. DealIsCurrent /\ ToldOnce
      BY <2>1, <2>2 DEF DealIsCurrent, ToldOnce, Once, Has
    <2> QED
      BY <1>1, <2>3 DEF Init, Together, TrickIsCurrent, ClientsInStep
  <1>4. HandKept /\ TricksAgree
    BY <1>1 DEF Init, HandKept, TricksAgree, InDeal
  <1> QED
    BY <1>1, <1>2, <1>3, <1>4 DEF PlayersInv, TogetherInv

LEMMA PlayersInvStep == PlayersInv /\ [KNext]_kierkiVars => PlayersInv'
  <1> SUFFICES ASSUME PlayersInv, [KNext]_kierkiVars PROVE PlayersInv'
    OBVIOUS
  <1>1. KInv /\ KInv' /\ TypeInv /\ ClientsTyped
    BY KInvStep DEF PlayersInv, KInv, CardInv
  <1>2. [Next]_vars
    BY <1>1, StepOfTheServer
  <1>3. TurnInv /\ TurnInv'
    BY <1>2, CalmInvStep DEF PlayersInv
  <1>4. ASSUME NobodyLeft' PROVE Together' /\ HandKept' /\ TricksAgree'
    <2>1. NobodyLeft
      BY <1>1, <1>2, <1>4, LeftForGood
    <2>2. TogetherStep /\ HandKept /\ TricksAgree
      BY <1>1, <1>3, <1>4, <2>1 DEF PlayersInv, TogetherInv, TogetherStep
    <2>3. CASE KServer
      BY <2>2, <2>3, ServerTogether
    <2>4. ASSUME NEW c \in Connections, Thread(c)
          PROVE  Together' /\ HandKept' /\ TricksAgree'
      BY <2>2, <2>4, ThreadsTogether, ThreadsKeepHands, ThreadsKeepTricks
    <2>5. ASSUME NEW c \in Connections, NEW card, TypeCard(c, card)
          PROVE  Together' /\ HandKept' /\ TricksAgree'
      BY <2>2, <2>5, TypedTogether DEF TypeCard
    <2>6. CASE UNCHANGED kierkiVars
      BY <2>2, <2>6, TypedTogether DEF kierkiVars, clientVars
    <2> QED
      BY <2>3, <2>4, <2>5, <2>6 DEF KNext
  <1> QED
    BY <1>1, <1>3, <1>4 DEF PlayersInv, TogetherInv

LEMMA PlayersInvHolds == KSpec => []PlayersInv
  BY InitPlayers, PlayersInvStep, PTL DEF KSpec
-----------------------------------------------------------------------------
(* While nobody leaves, whoever is asked for a card knows what it is asked *)
(* for: its client was sent the type and the cards of this deal and every  *)
(* trick before this one, because a thread reads the DEAL and the TAKEN in *)
(* its pipe before the CARD_PLAY, and the barrier after a trick waits for  *)
(* the TAKEN of every seat (run_deal of serwer.cpp, client_poll).          *)
THEOREM PlayersAreInStep == KSpec => [](NobodyLeft => AskedInStep)
  <1>1. PlayersInv => (NobodyLeft => AskedInStep)
    <2> SUFFICES ASSUME PlayersInv, NobodyLeft, NEW c \in Connections, Serves(c),
                        b_was_destined_to_play[c]
                 PROVE  /\ told[c] = [type |-> deals_read, hand |-> deals_read]
                        /\ client[c].trick_number = trick_number
      BY DEF AskedInStep
    <2>1. /\ Calm /\ Together /\ Recorded /\ TypeInv
      BY DEF PlayersInv, TurnInv, CalmInv, TogetherInv, CardInv, SeatInv
    <2>2. /\ server = "await" /\ deals_read > 0 /\ seat[c] \in Seats
      BY <2>1 DEF Calm, Destined, DealStates, InTrick, TypeInv, ServesASeat
    <2>3. InStep(c)
      BY <2>1, <2>2 DEF Together, ClientsInStep
    <2>4. /\ ~Has(server_write_pipes[seat[c]], DEAL)
          /\ ~Has(server_write_pipes[seat[c]], TAKEN)
          /\ trick_number = Len(taken_tricks) + 1
      BY <2>1, <2>2, <2>3 DEF InStep, Calm, PipesAnnounce, Announced, InBarrier, Recorded,
         Playing
    <2> QED
      BY <2>3, <2>4 DEF InStep
  <1> QED
    BY <1>1, PlayersInvHolds, PTL

(* While nobody leaves, a client counts every card the server would accept *)
(* from its seat among its own: what Klient::handle_client puts into       *)
(* played_cards and takes back on TAKEN loses no card of the hand.         *)
THEOREM HandsAreKept == KSpec => [](NobodyLeft => HandKept)
  <1>1. PlayersInv => (NobodyLeft => HandKept)
    BY DEF PlayersInv, TogetherInv
  <1> QED
    BY <1>1, PlayersInvHolds, PTL

(* While nobody leaves, the tricks a client shows its player as its own    *)
(* are those its seat has taken in this deal, each once, up to the last it *)
(* was told of: a TAKEN is sent with the table and the taker of its trick, *)
(* although the thread reads both after the main thread has written it.    *)
THEOREM PlayersSeeTheirTricks == KSpec => [](NobodyLeft => TricksAgree)
  <1>1. PlayersInv => (NobodyLeft => TricksAgree)
    BY DEF PlayersInv, TogetherInv
  <1> QED
    BY <1>1, PlayersInvHolds, PTL
-----------------------------------------------------------------------------
(***************************************************************************)
(* What automatic players answer: while nobody leaves and no TRICK is sent *)
(* again, nothing of it is refused.                                        *)
(***************************************************************************)

(* A thread keeps answers for later only in a barrier: the flag of the     *)
(* server is up only while the main thread waits in one, and a thread that *)
(* still has its own up after that has the BARRIER_END ahead of it.  A     *)
(* newcomer looks at neither before it enters.                             *)
InItsBarrier(c) == Serves(c) /\ pc[c] # "enter" /\ b_is_barrier[c]
BarrierFlags ==
    /\ b_is_barrier_ongoing => Waits
    /\ \A c \in Connections : InItsBarrier(c) =>
          Waits \/ Has(server_write_pipes[seat[c]], BARRIER_END)

(* Nor does a hand have fewer cards than tricks are left to play.          *)
HandsStayFull ==
    deals_read > 0 =>
        \A s \in Seats : IsFiniteSet(cards[s]) /\ Cardinality(cards[s]) >= MostLeft(s)

(* What an automatic player has sent is read at once, never kept.          *)
NothingQueued ==
    /\ \A c \in Automatic :
          /\ Serves(c) => barrier_messages[seat[c]] = <<>>
          /\ pc[c] \in {"idle", "iam"} =>
                answers[c] = <<>> /\ client[c].played_cards = {}
    /\ \A s \in Seats : seats_status[s] = Free => barrier_messages[s] = <<>>

(* An automatic player that is asked has sent one card, of the trick and   *)
(* of the right colour, and the rest of its hand is the hand the server    *)
(* has for it; before that and after, both have the same hand.  What it    *)
(* counts as played is on the table, until the TAKEN it has not read yet.  *)
OnTheTable == {cards_on_table[p] : p \in DOMAIN cards_on_table}
Asks(c) ==
    /\ ~b_is_barrier[c]
    /\ \E card \in cards[seat[c]] :
        /\ answers[c] = <<[trick |-> trick_number, card |-> card]>>
        /\ PlayedRightColour(card, cards[seat[c]], cards_on_table)
        /\ client[c].my_cards = cards[seat[c]] \ {card}
        /\ client[c].played_cards \subseteq OnTheTable \cup {card}
Idles(c) ==
    /\ answers[c] = <<>>
    /\ client[c].played_cards \subseteq OnTheTable
    /\ InDeal(c) => client[c].my_cards = cards[seat[c]]
Prepared(c) ==
    /\ client[c].played_cards # {} =>
          server \in InTrick \/ Has(server_write_pipes[seat[c]], TAKEN)
    /\ b_was_destined_to_play[c] => Asks(c)
    /\ ~b_was_destined_to_play[c] => Idles(c)
AllPrepared == \A c \in Automatic : Serves(c) => Prepared(c)

Ready == BarrierFlags /\ HandsStayFull
PrepInv == NobodyLeft => Ready /\ (resends = 0 => NothingQueued /\ AllPrepared)
AnswersInv == PlayersInv /\ PrepInv
-----------------------------------------------------------------------------
(* No two players of a trick have the same seat. *)
LEMMA TurnsDiffer ==
  ASSUME NEW first \in Seats, NEW i \in 0..N - 1, NEW j \in 0..N - 1, i # j
  PROVE  (first + i) % N # (first + j) % N
  <1>1. N \in Nat \ {0} /\ first \in 0..N - 1
    BY ServerAssumption DEF Seats
  <1>2. \A k \in 0..N - 1 : (first + k) % N = IF first + k < N THEN first + k
                                              ELSE first + k - N
    <2> SUFFICES ASSUME NEW k \in 0..N - 1
                 PROVE  (first + k) % N = IF first + k < N THEN first + k
                                          ELSE first + k - N
      OBVIOUS
    <2>1. CASE first + k < N
      BY <1>1, <2>1
    <2>2. CASE ~(first + k < N)
      <3>1. first + k - N \in 0..N - 1 /\ first + k = (first + k - N) + N
        BY <1>1, <2>2
      <3> QED
        BY <1>1, <2>2, <3>1
    <2> QED
      BY <2>1, <2>2
  <1> QED
    BY <1>1, <1>2

LEMMA AskedHasNotPlayed ==
  ASSUME TypeOK, Len(cards_on_table) = turn, turn \in Nat, turn < N
  PROVE  Asked \notin Played
  <1> SUFFICES ASSUME NEW p \in DOMAIN cards_on_table,
                      (last_taker + p - 1) % N = (last_taker + turn) % N
               PROVE  FALSE
    BY DEF Asked, Played
  <1>1. N \in Nat /\ last_taker \in Seats /\ last_taker \in Int /\ p \in 1..turn
    BY ServerAssumption DEF TypeOK, Seats
  <1>2. /\ p - 1 \in 0..N - 1 /\ turn \in 0..N - 1 /\ p - 1 # turn
        /\ last_taker + p - 1 = last_taker + (p - 1)
    BY <1>1
  <1> QED
    BY <1>1, <1>2, TurnsDiffer

LEMMA UnseenFull ==
  ASSUME HandsStayFull, Unseen
  PROVE  HandsStayFull'
  <1>1. Played' = Played
    BY DEF Played, Unseen
  <1> QED
    BY <1>1 DEF HandsStayFull, MostLeft, Unseen

LEMMA AskedFull ==
  ASSUME TypeOK, HandsStayFull, AskedPlays
  PROVE  HandsStayFull'
  <1>1. PICK card \in cards[Asked] :
            /\ cards' = [cards EXCEPT ![Asked] = @ \ {card}]
            /\ cards_on_table' = Append(cards_on_table, card)
    BY DEF AskedPlays
  <1>2. /\ DOMAIN cards_on_table = 1..turn /\ DOMAIN cards_on_table' = 1..turn + 1
        /\ turn \in Nat
    BY <1>1 DEF AskedPlays, TypeOK
  <1>3. last_taker + (turn + 1) - 1 = last_taker + turn /\ UNCHANGED last_taker
    BY <1>2, ServerAssumption DEF AskedPlays, TypeOK, Seats
  <1>4. Asked \in Played' /\ Played \subseteq Played'
        /\ \A s \in Played' : s = Asked \/ s \in Played
    <2>1. \A p \in 1..turn : p \in 1..turn + 1
      BY <1>2
    <2>2. turn + 1 \in 1..turn + 1 /\ (last_taker + (turn + 1) - 1) % N = Asked
      BY <1>2, <1>3 DEF Asked
    <2>3. \A p \in 1..turn + 1 : p = turn + 1 \/ p \in 1..turn
      BY <1>2
    <2> QED
      BY <1>2, <1>3, <2>1, <2>2, <2>3 DEF Played
  <1>5. Asked \notin Played
    BY AskedHasNotPlayed DEF AskedPlays
  <1>6. ASSUME NEW s \in Seats, deals_read > 0
        PROVE  IsFiniteSet(cards'[s]) /\ Cardinality(cards'[s]) >= MostLeft(s)'
    <2>1. /\ IsFiniteSet(cards[s]) /\ Cardinality(cards[s]) >= MostLeft(s)
          /\ Cardinality(cards[s]) \in Nat
      BY <1>6, FS_CardinalityType DEF HandsStayFull
    <2>2. /\ MostLeft(s) = IF s \notin Played THEN Tricks - trick_number + 1
                           ELSE Tricks - trick_number
          /\ MostLeft(s)' = IF s \notin Played' THEN Tricks - trick_number + 1
                            ELSE Tricks - trick_number
          /\ Tricks \in Int /\ trick_number \in Int
      BY ServerAssumption DEF AskedPlays, MostLeft, InTrick, TypeOK
    <2>3. CASE s = Asked
      <3>1. cards'[s] = cards[s] \ {card} /\ card \in cards[s]
        BY <1>1, <2>3 DEF TypeOK
      <3>2. /\ IsFiniteSet(cards'[s])
            /\ Cardinality(cards'[s]) = Cardinality(cards[s]) - 1
        BY <2>1, <3>1, FS_RemoveElement
      <3> QED
        BY <1>4, <1>5, <2>1, <2>2, <2>3, <3>2
    <2>4. CASE s # Asked
      <3>1. cards'[s] = cards[s]
        BY <1>1, <2>4 DEF TypeOK
      <3> QED
        BY <1>4, <2>1, <2>2, <2>4, <3>1
    <2> QED
      BY <2>3, <2>4
  <1> QED
    BY <1>6 DEF HandsStayFull, AskedPlays

LEMMA FullStep ==
  ASSUME GameStep, HandsStayFull
  PROVE  HandsStayFull'
  <1>1. /\ TypeOK /\ TypeOK' /\ Recorded /\ Calm /\ Calm'
        /\ \/ Unseen \/ AskedPlays
           \/ ReadDeal \/ DealBegin \/ TrickBegin \/ TrickTaken
    BY GameStepFacts
  <1>2. trick_number \in Nat /\ Tricks \in Nat /\ N \in Nat
    BY <1>1, ServerAssumption DEF TypeOK
  <1>3. CASE ReadDeal
    <2>1. CASE deals_read < Len(GameFile)
      <3>1. Len(GameFile) \in Nat /\ deals_read \in Nat
        BY <1>1, GameFileFacts DEF TypeOK
      <3>2. deals_read # Len(GameFile)
        BY <2>1, <3>1
      <3>3. /\ server' = "run_deal" /\ cards' = GameFile[deals_read + 1].cards
            /\ deals_read + 1 \in DOMAIN GameFile
        <4>1. server' = "run_deal" /\ cards' = GameFile[deals_read + 1].cards
          BY <1>3, <3>2 DEF ReadDeal
        <4> QED
          BY <2>1, <3>1, <4>1
      <3>4. \A s \in Seats : MostLeft(s)' = Tricks
        BY <3>3 DEF MostLeft
      <3>5. \A s \in Seats : IsFiniteSet(cards'[s]) /\ Cardinality(cards'[s]) = Tricks
        BY <3>3, HandsFit, HandsFull
      <3> QED
        BY <1>2, <3>4, <3>5 DEF HandsStayFull
    <2>2. CASE ~(deals_read < Len(GameFile))
      <3>1. Unseen
        BY <1>3, <2>2 DEF ReadDeal, Unseen, InTrick, DealDone, InBarrier
      <3> QED
        BY <3>1, UnseenFull
    <2> QED
      BY <2>1, <2>2
  <1>4. CASE DealBegin
    <2>1. /\ server = "run_deal" /\ server' = "trick" /\ trick_number' = 0
          /\ UNCHANGED <<cards, deals_read>>
      BY <1>4 DEF DealBegin
    <2> QED
      BY <1>2, <2>1 DEF HandsStayFull, MostLeft, InTrick
  <1>5. CASE TrickBegin
    <2>1. /\ server = "trick" /\ server' \in {"turn", "scores"}
          /\ UNCHANGED <<cards, deals_read>>
      BY <1>5 DEF TrickBegin
    <2>2. \A s \in Seats : MostLeft(s) = Tricks - trick_number
      BY <2>1 DEF MostLeft, InTrick
    <2>3. CASE server' = "turn"
      <3>1. trick_number' = trick_number + 1 /\ cards_on_table' = <<>>
        BY <1>5, <2>3 DEF TrickBegin
      <3>2. Played' = {}
        <4>1. DOMAIN <<>> = {}
          OBVIOUS
        <4> QED
          BY <3>1, <4>1 DEF Played
      <3>3. \A s \in Seats : MostLeft(s)' = Tricks - trick_number
        BY <1>2, <2>3, <3>1, <3>2 DEF MostLeft, InTrick
      <3> QED
        BY <2>1, <2>2, <3>3 DEF HandsStayFull
    <2>4. CASE server' = "scores"
      <3>1. UNCHANGED trick_number
        BY <1>5, <2>4 DEF TrickBegin
      <3>2. \A s \in Seats : MostLeft(s)' = Tricks - trick_number
        BY <2>4, <3>1 DEF MostLeft, InTrick
      <3> QED
        BY <2>1, <2>2, <3>2 DEF HandsStayFull
    <2> QED
      BY <2>1, <2>3, <2>4
  <1>6. CASE TrickTaken
    <2>1. /\ server = "taken" /\ server' = "barrier"
          /\ UNCHANGED <<cards, trick_number, deals_read>>
      BY <1>6 DEF TrickTaken, BarrierThen
    <2>2. Played = Seats
      BY <1>1, <2>1, FullTable DEF Calm, Turns
    <2> QED
      BY <2>1, <2>2 DEF HandsStayFull, MostLeft, InTrick
  <1> QED
    BY <1>1, <1>3, <1>4, <1>5, <1>6, UnseenFull, AskedFull
-----------------------------------------------------------------------------
(* The main thread takes no byte out of the pipe of a seat. *)
LEMMA ServerKeepsBytes ==
  ASSUME TypeOK, Server, NEW s \in Seats, NEW byte, Has(server_write_pipes[s], byte)
  PROVE  Has(server_write_pipes'[s], byte)
  <1>1. CASE UNCHANGED server_write_pipes
    BY <1>1
  <1>2. ASSUME NEW new \in ToClient,
               Broadcast(new) \/ \E t \in Seats : WriteToClient(t, new)
        PROVE  Has(server_write_pipes'[s], byte)
    <2>1. server_write_pipes[s] \in Seq(ToClient)
      BY DEF TypeOK
    <2>2. server_write_pipes'[s] \in
             {server_write_pipes[s], Append(server_write_pipes[s], new)}
      BY <1>2 DEF TypeOK, Broadcast, WriteToClient
    <2>3. Has(Append(server_write_pipes[s], new), byte)
      BY <2>1, Written
    <2> QED
      BY <2>2, <2>3
  <1>3. {BARRIER_RESPONSE, BARRIER_END, SCORES, DISCONNECTED, CARD_PLAY, TAKEN, DEAL}
           = ToClient
    BY DEF ToClient
  <1>4. CASE BarrierBegin \/ BarrierCheck \/ DealBegin \/ TrickTaken \/ SendScores
             \/ CloseServer
    <2>1. UNCHANGED server_write_pipes \/ \E new \in ToClient : Broadcast(new)
      BY <1>3, <1>4 DEF BarrierBegin, BarrierCheck, DealBegin, TrickTaken, SendScores,
         CloseServer
    <2> QED
      BY <1>1, <1>2, <2>1
  <1>5. CASE AskForCard
    <2>1. Asked \in Seats
      BY AskedIsASeat
    <2> QED
      BY <1>2, <1>3, <1>5, <2>1 DEF AskForCard
  <1>6. ASSUME NEW j \in Seats, BarrierScan(j)
        PROVE  Has(server_write_pipes'[s], byte)
    BY <1>1, <1>2, <1>3, <1>6 DEF BarrierScan
  <1>7. CASE \/ BarrierPoll \/ ReadDeal \/ TrickBegin \/ TurnBegin \/ Poll \/ ScanEnd
             \/ JoinThreads \/ \E j \in Seats : Scan(j)
    BY <1>1, <1>7 DEF BarrierPoll, Scan, ReadDeal, TrickBegin, TurnBegin, Poll, ScanEnd,
       JoinThreads, pipeVars
  <1> QED
    BY <1>4, <1>5, <1>6, <1>7 DEF Server

(* The barrier ends with the flag down and a BARRIER_END for everybody.    *)
LEMMA ServerFlags ==
  ASSUME TypeInv, Calm, Calm', Server, BarrierFlags
  PROVE  BarrierFlags'
  <1>1. /\ TypeOK /\ UNCHANGED <<threadVars>> /\ N \in Nat /\ N > 0 /\ ~aborted'
        /\ \A c \in Connections : Serves(c) => seat[c] \in Seats
    BY ServerLeavesThreads, ServerAssumption DEF TypeInv, ServesASeat, Calm, DealStates
  <1>2. \/ Waits' \/ (UNCHANGED b_is_barrier_ongoing /\ ~Waits)
        \/ /\ ~b_is_barrier_ongoing'
           /\ Broadcast(BARRIER_END)
    <2> USE <1>1 DEF Waits
    <2>1. CASE BarrierBegin
      BY <2>1 DEF BarrierBegin, LoopOrReturn
    <2>2. CASE BarrierPoll
      BY <2>2 DEF BarrierPoll
    <2>3. CASE BarrierCheck
      <3>1. occupied = N
        BY <2>3 DEF BarrierCheck, Calm, Reported
      <3>2. ~(occupied < N)
        BY <3>1
      <3>3. b_is_barrier_ongoing' = (occupied # N /\ b_is_barrier_ongoing)
        BY <2>3, <3>2 DEF BarrierCheck
      <3>4. Broadcast(BARRIER_END)
        BY <2>3, <3>2 DEF BarrierCheck
      <3> QED
        BY <3>1, <3>3, <3>4
    <2>4. ASSUME NEW j \in Seats, BarrierScan(j) PROVE Waits'
      BY <2>4 DEF BarrierScan, Abort
    <2>5. CASE \/ ReadDeal \/ DealBegin \/ TrickBegin \/ TurnBegin \/ AskForCard
               \/ Poll \/ ScanEnd \/ TrickTaken \/ SendScores \/ CloseServer \/ JoinThreads
      BY <2>5 DEF ReadDeal, DealBegin, TrickBegin, TurnBegin, AskForCard, Poll, ScanEnd,
         TrickTaken, SendScores, CloseServer, JoinThreads, barrierVars
    <2>6. ASSUME NEW j \in Seats, Scan(j)
          PROVE  UNCHANGED b_is_barrier_ongoing /\ ~Waits
      BY <2>6 DEF Scan, barrierVars
    <2> HIDE <1>1
    <2> HIDE DEF Waits
    <2> QED
      BY <2>1, <2>2, <2>3, <2>4, <2>5, <2>6 DEF Server
  <1>3. b_is_barrier_ongoing' => Waits'
    BY <1>2 DEF BarrierFlags
  <1>4. ASSUME NEW c \in Connections, InItsBarrier(c)'
        PROVE  Waits' \/ Has(server_write_pipes[seat[c]], BARRIER_END)'
    <2>1. /\ InItsBarrier(c) /\ seat[c] \in Seats /\ seat' = seat
      BY <1>1, <1>4 DEF InItsBarrier, Serves, threadVars
    <2>2. CASE Broadcast(BARRIER_END)
      <3>1. /\ server_write_pipes'[seat[c]] =
                  Append(server_write_pipes[seat[c]], BARRIER_END)
            /\ server_write_pipes[seat[c]] \in Seq(ToClient) /\ BARRIER_END \in ToClient
        BY <1>1, <2>1, <2>2 DEF Broadcast, TypeOK, ToClient
      <3> QED
        BY <2>1, <3>1, Written
    <2>3. CASE ~Waits
      <3>1. Has(server_write_pipes[seat[c]], BARRIER_END)
        BY <2>1, <2>3 DEF BarrierFlags
      <3> QED
        BY <1>1, <2>1, <3>1, ServerKeepsBytes
    <2> QED
      BY <1>2, <2>2, <2>3
  <1> QED
    BY <1>3, <1>4 DEF BarrierFlags

(* A thread raises its flag when the main thread waits, and lowers it when *)
(* it reads the BARRIER_END.                                               *)
LEMMA ThreadsRaiseFlags ==
  ASSUME NEW c \in Connections, CalmStep(c), NobodyMoves',
         OwnStep(c) \/ PipeStep(c) \/ Environment(c)
  PROVE  /\ UNCHANGED b_is_barrier_ongoing
         /\ \A d \in Connections \ {c} : b_is_barrier'[d] = b_is_barrier[d]
         /\ \/ /\ InItsBarrier(c)' => InItsBarrier(c) \/ b_is_barrier_ongoing
               /\ b_is_barrier'[c] => b_is_barrier[c] \/ b_is_barrier_ongoing
            \/ ReadFromServer(c, BARRIER_RESPONSE)
         /\ \/ UNCHANGED server_write_pipes
            \/ \E byte \in ToClient :
                  /\ ReadFromServer(c, byte)
                  /\ byte = BARRIER_END => ~b_is_barrier'[c]
  <1>1. TypeOK /\ NobodyMoves /\ pc'[c] \notin {"greet", "bye"} /\ pc[c] # "greet"
    BY DEF CalmStep, SeatInv, TypeInv, Calm, NobodyMoves
  <1>2. \A where : Goto(c, where) => pc'[c] = where
    BY <1>1 DEF Goto, TypeOK
  <1>3. ~CloseThread(c)
    BY <1>1, <1>2 DEF CloseThread
  <1>4. \A message, after : Parse(c, message, after) => UNCHANGED b_is_barrier_ongoing
    BY <1>3 DEF Parse, PlayCard, barrierVars
  <1> USE DEF InItsBarrier, Serves, Serving
  <1>5. CASE Drain(c)
    BY <1>1, <1>4, <1>5 DEF Drain
  <1>6. CASE Enter(c) \/ LoopTop(c)
    <2>1. /\ UNCHANGED <<b_is_barrier_ongoing, server_write_pipes>>
          /\ \A d \in Connections \ {c} : b_is_barrier'[d] = b_is_barrier[d]
          /\ pc[c] \in {"enter", "top"}
      BY <1>1, <1>6 DEF Enter, LoopTop, barrierVars, pipeVars, TypeOK
    <2>2. CASE Enter(c)
      <3>1. b_is_barrier'[c] = b_is_barrier_ongoing
        BY <1>1, <2>2 DEF Enter, TypeOK
      <3> QED
        BY <2>1, <3>1
    <2>3. CASE LoopTop(c)
      <3>1. b_is_barrier'[c] = (b_is_barrier[c] \/ b_is_barrier_ongoing) /\ pc[c] = "top"
        BY <1>1, <2>3 DEF LoopTop, TypeOK
      <3> QED
        BY <2>1, <3>1
    <2> QED
      BY <1>6, <2>2, <2>3
  <1>7. CASE Greet(c) \/ Bye(c) \/ Notify(c)
    <2>1. /\ UNCHANGED <<b_is_barrier_ongoing, b_is_barrier, server_write_pipes>>
          /\ pc[c] = "notify" \/ pc'[c] = "gone"
      BY <1>1, <1>2, <1>7 DEF Greet, Bye, Notify, barrierVars
    <2> QED
      BY <2>1
  <1>8. ASSUME NEW message, SocketMessage(c, message)
        PROVE  /\ UNCHANGED <<b_is_barrier_ongoing, b_is_barrier, server_write_pipes>>
               /\ pc[c] = "poll"
    BY <1>4, <1>8 DEF SocketMessage, barrierVars
  <1>9. ASSUME NEW s \in Seats, Reserve(c, s)
        PROVE  /\ UNCHANGED <<b_is_barrier_ongoing, b_is_barrier, server_write_pipes>>
               /\ pc'[c] = "enter"
    BY <1>1, <1>2, <1>9 DEF Reserve, barrierVars, pipeVars
  <1>10. CASE Accept(c) \/ NoSeat(c) \/ GreetFails(c) \/ SocketClosed(c) \/ Timeout(c)
              \/ SendFails(c)
    <2>1. /\ UNCHANGED <<b_is_barrier_ongoing, b_is_barrier, server_write_pipes>>
          /\ pc[c] = "poll" \/ pc'[c] \in {"iam", "gone"}
      BY <1>1, <1>2, <1>3, <1>10 DEF Accept, NoSeat, GreetFails, SocketClosed, Timeout,
         SendFails, barrierVars, pipeVars
    <2> QED
      BY <2>1
  <1>11. CASE Environment(c)
    BY <1>8, <1>9, <1>10, <1>11 DEF Environment
  <1>12. \A byte \in {CARD_PLAY, DEAL, TAKEN, SCORES, BARRIER_RESPONSE, BARRIER_END,
                      DISCONNECTED} :
            byte \in ToClient /\ (byte # BARRIER_END => byte \in ToClient \ {BARRIER_END})
    BY DEF ToClient
  <1>13. CASE OnCardPlay(c) \/ OnAnnouncement(c) \/ OnDisconnected(c)
    <2>1. /\ UNCHANGED <<b_is_barrier_ongoing, b_is_barrier>>
          /\ \E byte \in {CARD_PLAY, DEAL, TAKEN, SCORES, DISCONNECTED} :
                ReadFromServer(c, byte)
      BY <1>13 DEF OnCardPlay, OnAnnouncement, OnDisconnected, Leave, barrierVars
    <2>2. \A byte \in {CARD_PLAY, DEAL, TAKEN, SCORES, DISCONNECTED} :
             byte # BARRIER_END /\ byte \in ToClient
      BY <1>12 DEF CARD_PLAY, DEAL, TAKEN, SCORES, DISCONNECTED, BARRIER_END
    <2>3. pc[c] \in {"poll", "pipe"}
      BY <2>1 DEF ReadFromServer
    <2> QED
      BY <2>1, <2>2, <2>3
  <1>14. CASE OnBarrierResponse(c)
    <2>1. ReadFromServer(c, BARRIER_RESPONSE) /\ BARRIER_RESPONSE # BARRIER_END
      BY <1>14 DEF OnBarrierResponse, BARRIER_RESPONSE, BARRIER_END
    <2> QED
      BY <1>1, <1>12, <1>14, <2>1 DEF OnBarrierResponse, TypeOK
  <1>15. CASE OnBarrierEnd(c)
    BY <1>1, <1>12, <1>15 DEF OnBarrierEnd, TypeOK, barrierVars
  <1> QED
    BY <1>5, <1>6, <1>7, <1>11, <1>13, <1>14, <1>15 DEF OwnStep, PipeStep

(* Whoever serves keeps its seat. *)
LEMMA SeatsStay ==
  ASSUME NEW c \in Connections, CalmStep(c), NobodyLeft',
         OwnStep(c) \/ PipeStep(c) \/ Environment(c)
  PROVE  \A d \in Connections : Serves(d) => seat'[d] = seat[d]
  <1>1. /\ TypeInv /\ TypeOK /\ Calm
    BY DEF CalmStep, SeatInv, TypeInv
  <1>2. \/ Roams(c) \/ Notify(c)
        \/ \E s \in Seats : Arrives(c, s)
        \/ \E card : Plays(c, card)
        \/ \E byte : Reads(c, byte)
    BY <1>1, ThreadKinds DEF Calm
  <1>3. ASSUME NEW s \in Seats, Arrives(c, s)
        PROVE  \A d \in Connections : Serves(d) => seat'[d] = seat[d]
    BY <1>1, <1>3 DEF Arrives, Serves, Serving, TypeOK
  <1> QED
    BY <1>2, <1>3 DEF Roams, Notify, Plays, Reads

LEMMA ThreadFlags ==
  ASSUME NEW c \in Connections, CalmStep(c), Calm', NobodyLeft', SeatExclusive, BarrierFlags,
         OwnStep(c) \/ PipeStep(c) \/ Environment(c)
  PROVE  BarrierFlags'
  <1>1. /\ TypeInv /\ TypeOK /\ Calm /\ NobodyMoves'
        /\ UNCHANGED server /\ \A d \in Connections \ {c} : pc'[d] = pc[d]
    BY DEF CalmStep, SeatInv, TypeInv, Calm, mainVars
  <1>2. /\ UNCHANGED b_is_barrier_ongoing
        /\ \A d \in Connections \ {c} : b_is_barrier'[d] = b_is_barrier[d]
        /\ \/ InItsBarrier(c)' => InItsBarrier(c) \/ b_is_barrier_ongoing
           \/ ReadFromServer(c, BARRIER_RESPONSE)
        /\ \/ UNCHANGED server_write_pipes
           \/ \E byte \in ToClient :
                 /\ ReadFromServer(c, byte)
                 /\ byte = BARRIER_END => ~b_is_barrier'[c]
    BY <1>1, ThreadsRaiseFlags
  <1>3. Waits' = Waits
    BY <1>1 DEF Waits
  <1>4. ASSUME NEW d \in Connections, InItsBarrier(d)', ~Waits
        PROVE  Has(server_write_pipes'[seat'[d]], BARRIER_END)
    <2>1. ~ReadFromServer(c, BARRIER_RESPONSE)
      <3> SUFFICES ASSUME ReadFromServer(c, BARRIER_RESPONSE) PROVE FALSE
        OBVIOUS
      <3>1. /\ seat[c] \in Seats /\ BARRIER_RESPONSE = Head(server_write_pipes[seat[c]])
            /\ server_write_pipes[seat[c]] # <<>>
            /\ server_write_pipes[seat[c]] \in Seq(ToClient)
        BY <1>1, ReadsTheHead DEF TypeOK
      <3>2. Has(server_write_pipes[seat[c]], BARRIER_RESPONSE)
        BY <3>1, Consumed
      <3> QED
        BY <1>1, <1>4, <3>1, <3>2 DEF Calm, PipesAnnounce, Announced
    <2>2. InItsBarrier(d)
      <3>1. CASE d = c
        BY <1>2, <1>4, <2>1, <3>1 DEF BarrierFlags
      <3>2. CASE d # c
        BY <1>1, <1>2, <1>4, <3>2 DEF InItsBarrier, Serves
      <3> QED
        BY <3>1, <3>2
    <2>3. /\ Has(server_write_pipes[seat[d]], BARRIER_END)
          /\ Serves(d) /\ seat[d] \in Seats
      BY <1>1, <1>4, <2>2 DEF BarrierFlags, InItsBarrier, TypeInv, ServesASeat
    <2>4. seat'[d] = seat[d]
      BY <2>3, SeatsStay
    <2>5. CASE UNCHANGED server_write_pipes
      BY <2>3, <2>4, <2>5
    <2>6. ASSUME NEW byte \in ToClient, ReadFromServer(c, byte),
                 byte = BARRIER_END => ~b_is_barrier'[c]
          PROVE  Has(server_write_pipes'[seat[d]], BARRIER_END)
      <3>1. /\ Serves(c) /\ seat[c] \in Seats /\ byte = Head(server_write_pipes[seat[c]])
            /\ server_write_pipes[seat[c]] # <<>>
            /\ server_write_pipes[seat[c]] \in Seq(ToClient)
            /\ server_write_pipes' = [server_write_pipes EXCEPT ![seat[c]] = Tail(@)]
        BY <1>1, <2>6, ReadsTheHead DEF TypeOK, ReadFromServer
      <3>2. CASE d = c
        <4>1. byte # BARRIER_END
          BY <1>4, <2>6, <3>2 DEF InItsBarrier
        <4>2. Has(Tail(server_write_pipes[seat[c]]), BARRIER_END)
          BY <2>3, <3>1, <3>2, <4>1, Consumed
        <4> QED
          BY <1>1, <3>1, <3>2, <4>2 DEF TypeOK
      <3>3. CASE d # c
        <4>1. seat[d] # seat[c]
          BY <2>3, <3>1, <3>3 DEF SeatExclusive
        <4> QED
          BY <1>1, <2>3, <3>1, <4>1 DEF TypeOK
      <3> QED
        BY <3>2, <3>3
    <2> QED
      BY <1>2, <2>4, <2>5, <2>6
  <1>5. b_is_barrier_ongoing' => Waits'
    BY <1>2, <1>3 DEF BarrierFlags
  <1> QED
    BY <1>3, <1>4, <1>5 DEF BarrierFlags
-----------------------------------------------------------------------------
(* The main thread finds the players as it left them: it goes on from the  *)
(* question only when it is answered, clears the table when every TAKEN    *)
(* was read, and reads new hands before it tells anybody of them.          *)
LEMMA ServerKeepsQueues == Server => UNCHANGED barrier_messages
  BY DEF Server, BarrierBegin, BarrierPoll, BarrierCheck, BarrierScan, Scan, ReadDeal,
     DealBegin, TrickBegin, TurnBegin, AskForCard, Poll, ScanEnd, TrickTaken, SendScores,
     CloseServer, JoinThreads

LEMMA QuestionsWait ==
  ASSUME TogetherStep, KServer, NEW c \in Connections
  PROVE  ~b_was_destined_to_play[c]
  <1> SUFFICES ASSUME b_was_destined_to_play[c] PROVE FALSE
    OBVIOUS
  <1>1. Server /\ UNCHANGED threadVars /\ Calm /\ Calm'
    BY ServerFacts
  <1>2. server = "await" /\ server' = "await"
    BY <1>1 DEF Calm, Destined, threadVars
  <1>3. CASE \/ BarrierBegin \/ BarrierPoll \/ BarrierCheck \/ ReadDeal \/ DealBegin
             \/ TrickBegin \/ TurnBegin \/ AskForCard \/ Poll \/ ScanEnd \/ TrickTaken
             \/ SendScores \/ CloseServer \/ JoinThreads
    BY <1>2, <1>3 DEF BarrierBegin, BarrierPoll, BarrierCheck, ReadDeal, DealBegin,
       TrickBegin, TurnBegin, AskForCard, Poll, ScanEnd, TrickTaken, SendScores, CloseServer,
       JoinThreads
  <1>4. ASSUME NEW j \in Seats, BarrierScan(j) \/ Scan(j) PROVE FALSE
    BY <1>2, <1>4 DEF BarrierScan, Scan
  <1> QED
    BY <1>1, <1>3, <1>4 DEF Server

LEMMA ServerKinds ==
  ASSUME TogetherStep, KServer
  PROVE  \/ Unseen
         \/ /\ \/ TrickBegin \/ DealBegin
               \/ ReadDeal /\ server' = "run_deal"
            /\ server \notin InTrick
            /\ \A s \in Seats : ~Has(server_write_pipes[s], TAKEN)
         \/ TrickTaken
  <1>1. /\ Server /\ TypeOK /\ Calm /\ Calm'
    BY ServerFacts
  <1>2. CASE ~ReadDeal /\ ~DealBegin /\ ~TrickBegin /\ ~TrickTaken
    BY <1>1, <1>2, ServerUnseen
  <1>3. CASE ReadDeal /\ server' # "run_deal"
    BY <1>3 DEF ReadDeal, Unseen, InTrick, DealDone, InBarrier
  <1>4. server \in {"trick", "run_deal", "read_deal"} =>
           /\ server \notin InTrick
           /\ \A s \in Seats : ~Has(server_write_pipes[s], TAKEN)
    BY <1>1 DEF Calm, PipesAnnounce, Announced, InTrick, InBarrier
  <1>5. /\ TrickBegin => server = "trick"
        /\ DealBegin => server = "run_deal"
        /\ ReadDeal => server = "read_deal"
    BY DEF TrickBegin, DealBegin, ReadDeal
  <1> QED
    BY <1>2, <1>3, <1>4, <1>5

LEMMA ServerPrepared ==
  ASSUME TogetherStep, KServer, AllPrepared
  PROVE  AllPrepared'
  <1>1. /\ Server /\ UNCHANGED <<clientVars, threadVars>>
        /\ TypeInv /\ TypeOK /\ Calm /\ Calm' /\ Together
        /\ \A c \in Connections : Serves(c) => seat[c] \in Seats
    BY ServerFacts
  <1> SUFFICES ASSUME NEW c \in Automatic, Serves(c)' PROVE Prepared(c)'
    BY DEF AllPrepared
  <1>2. c \in Connections
    BY KierkiAssumption
  <1>3. /\ UNCHANGED <<client, answers, told, pc, seat, b_was_destined_to_play, b_is_barrier>>
        /\ Serves(c) /\ seat[c] \in Seats /\ ~b_was_destined_to_play[c]
    BY <1>1, <1>2, QuestionsWait DEF clientVars, threadVars, Serves
  <1>4. Prepared(c) /\ Idles(c)
    BY <1>3 DEF AllPrepared, Prepared
  <1>5. CASE Unseen
    <2>1. /\ UNCHANGED <<deals_read, cards, OnTheTable>>
          /\ server' \in InTrick <=> server \in InTrick
          /\ server' # "run_deal" <=> server # "run_deal"
      BY <1>5 DEF Unseen, OnTheTable
    <2>2. Has(server_write_pipes[seat[c]], TAKEN) => Has(server_write_pipes'[seat[c]], TAKEN)
      BY <1>1, <1>3, ServerKeepsBytes
    <2>3. InDeal(c)' => InDeal(c)
      BY <1>3, <2>1 DEF InDeal, Serves
    <2>4. Idles(c)'
      BY <1>3, <1>4, <2>1, <2>3 DEF Idles
    <2> QED
      BY <1>3, <1>4, <2>1, <2>2, <2>4 DEF Prepared
  <1>6. CASE TrickTaken
    <2>1. /\ UNCHANGED <<deals_read, cards, cards_on_table>>
          /\ Broadcast(TAKEN) /\ server = "taken"
      BY <1>6 DEF TrickTaken
    <2>2. Has(server_write_pipes'[seat[c]], TAKEN)
      <3>1. /\ server_write_pipes[seat[c]] \in Seq(ToClient) /\ TAKEN \in ToClient
            /\ server_write_pipes'[seat[c]] = Append(server_write_pipes[seat[c]], TAKEN)
        BY <1>1, <1>3, <2>1 DEF Broadcast, TypeOK, ToClient
      <3>2. Has(Append(server_write_pipes[seat[c]], TAKEN), TAKEN)
        BY <3>1, Written
      <3> QED
        BY <3>1, <3>2
    <2>3. InDeal(c)' => InDeal(c)
      BY <1>3, <2>1 DEF InDeal, Serves
    <2>4. Idles(c)'
      BY <1>3, <1>4, <2>1, <2>3 DEF Idles, OnTheTable
    <2> QED
      BY <1>3, <2>2, <2>4 DEF Prepared
  <1>7. CASE /\ \/ TrickBegin \/ DealBegin
                \/ ReadDeal /\ server' = "run_deal"
             /\ server \notin InTrick
             /\ \A s \in Seats : ~Has(server_write_pipes[s], TAKEN)
    <2>1. client[c].played_cards = {}
      BY <1>3, <1>4, <1>7 DEF Prepared
    <2>2. InDeal(c)' => InDeal(c) /\ UNCHANGED cards
      <3>1. CASE TrickBegin
        BY <1>3, <3>1 DEF TrickBegin, InDeal, Serves
      <3>2. CASE ReadDeal /\ server' = "run_deal"
        BY <3>2 DEF InDeal
      <3>3. CASE DealBegin
        <4>1. server = "run_deal" /\ UNCHANGED deals_read
          BY <3>3 DEF DealBegin
        <4>2. deals_read > 0 => told[c].hand # deals_read
          BY <1>1, <1>2, <4>1 DEF Together, ClientsInStep, NotToldYet
        <4> QED
          BY <1>3, <4>1, <4>2 DEF InDeal
      <3> QED
        BY <1>7, <3>1, <3>2, <3>3
    <2>3. Idles(c)'
      BY <1>3, <1>4, <2>1, <2>2 DEF Idles
    <2> QED
      BY <1>3, <2>1, <2>3 DEF Prepared
  <1> QED
    BY <1>5, <1>6, <1>7, ServerKinds
-----------------------------------------------------------------------------
(* A thread leaves the other players as prepared as they were: it plays    *)
(* only a card of its own seat, and only when no other seat is asked.      *)
LEMMA AnswersOfOne ==
  ASSUME ClientsTyped, NEW c \in Connections, Thread(c)
  PROVE  \A d \in Connections \ {c} : answers'[d] = answers[d]
  <1>1. answers \in [Connections -> Seq(Inputs)]
    BY DEF ClientsTyped
  <1>2. \A number, table : SendTrick(c, number, table) =>
           \A d \in Connections \ {c} : answers'[d] = answers[d]
    BY <1>1 DEF SendTrick
  <1>3. CASE Greeting(c)
    BY <1>2, <1>3 DEF Greeting, GreetDeal, GreetBegin, GreetTaken, GreetNext, NextTaken,
       SendDeal, SendTaken, SendOther, clientVars
  <1>4. CASE KOnCardPlay(c) \/ Resend(c)
    BY <1>2, <1>4 DEF KOnCardPlay, Resend
  <1>5. CASE KOnAnnouncement(c)
    BY <1>5 DEF KOnAnnouncement, Announce, SendDeal, SendTaken, SendScoreAndTotal, SendOther
  <1>6. CASE ReadAnswer(c) \/ Breaks(c)
    BY <1>1, <1>6 DEF ReadAnswer, Breaks
  <1>7. CASE Silent(c) \/ DrainAnswer(c) \/ KReserve(c) \/ KNoSeat(c)
    BY <1>7 DEF Silent, DrainAnswer, KReserve, KNoSeat, clientVars
  <1> QED
    BY <1>3, <1>4, <1>5, <1>6, <1>7 DEF Thread

(* What a thread leaves alone of another that serves. *)
LEMMA OthersUntouched ==
  ASSUME TogetherStep, NEW c \in Connections, Thread(c),
         NEW d \in Connections, d # c, Serves(d)'
  PROVE  /\ Serves(d) /\ seat[d] \in Seats /\ seat'[d] = seat[d]
         /\ client'[d] = client[d] /\ answers'[d] = answers[d] /\ told'[d] = told[d]
         /\ b_was_destined_to_play'[d] = b_was_destined_to_play[d]
         /\ b_is_barrier'[d] = b_is_barrier[d]
         /\ server_write_pipes'[seat[d]] = server_write_pipes[seat[d]]
         /\ Serves(c) => seat[d] # seat[c]
  <1>1. /\ TypeInv /\ TypeOK /\ Calm /\ Calm' /\ SeatExclusive /\ Together /\ CalmStep(c)
        /\ OwnStep(c) \/ PipeStep(c) \/ Environment(c)
        /\ Quietly(c) \/ \E byte \in {DEAL, TAKEN} : Heard(c, byte)
        /\ ClientsTyped /\ NobodyLeft' /\ NobodyMoves /\ NobodyMoves'
    BY ThreadFacts, TogetherFacts DEF KInv, TogetherStep, Calm
  <1>2. Serves(d) /\ seat[d] \in Seats
    BY <1>1 DEF CalmStep, Serves, TypeInv, ServesASeat
  <1>3. seat'[d] = seat[d]
    BY <1>1, <1>2, SeatsStay
  <1>4. Serves(c) => seat[d] # seat[c]
    BY <1>1, <1>2 DEF SeatExclusive
  <1>5. answers'[d] = answers[d]
    BY <1>1, AnswersOfOne
  <1>6. client'[d] = client[d] /\ told'[d] = told[d]
    BY <1>1, DealHeard, TakenHeard DEF Quietly
  <1>7. b_was_destined_to_play'[d] = b_was_destined_to_play[d]
    BY <1>1, ThreadsAreAsked
  <1>8. /\ b_is_barrier'[d] = b_is_barrier[d]
        /\ \/ UNCHANGED server_write_pipes
           \/ \E byte \in ToClient : ReadFromServer(c, byte)
    BY <1>1, ThreadsRaiseFlags
  <1>9. server_write_pipes'[seat[d]] = server_write_pipes[seat[d]]
    <2>1. ASSUME NEW byte \in ToClient, ReadFromServer(c, byte)
          PROVE  server_write_pipes'[seat[d]] = server_write_pipes[seat[d]]
      <3>1. /\ Serves(c) /\ seat[c] \in Seats
            /\ server_write_pipes' = [server_write_pipes EXCEPT ![seat[c]] = Tail(@)]
        BY <1>1, <2>1, ReadsTheHead DEF ReadFromServer
      <3> QED
        BY <1>1, <1>2, <1>4, <3>1 DEF TypeOK
    <2> QED
      BY <1>8, <2>1
  <1> QED
    BY <1>2, <1>3, <1>4, <1>5, <1>6, <1>7, <1>8, <1>9

(* The cards on the table stay there, and more may come. *)
LEMMA TableGrows ==
  ASSUME NEW c \in Connections, CalmStep(c), NobodyLeft',
         OwnStep(c) \/ PipeStep(c) \/ Environment(c)
  PROVE  OnTheTable \subseteq OnTheTable'
  <1>1. TypeInv /\ TypeOK /\ Calm
    BY DEF CalmStep, SeatInv, TypeInv
  <1>2. CASE UNCHANGED gameVars
    BY <1>2 DEF gameVars, OnTheTable
  <1>3. ASSUME NEW card, Plays(c, card) PROVE OnTheTable \subseteq OnTheTable'
    <2>1. /\ cards_on_table' = Append(cards_on_table, card)
          /\ cards_on_table \in Seq(Card)
      BY <1>1, <1>3 DEF Plays, TypeOK
    <2>2. \A p \in DOMAIN cards_on_table : p \in DOMAIN cards_on_table'
                                       /\ cards_on_table'[p] = cards_on_table[p]
      BY <2>1
    <2> QED
      BY <2>2 DEF OnTheTable
  <1>4. UNCHANGED gameVars \/ \E card : Plays(c, card)
    BY <1>1, ThreadKinds DEF Calm, Roams, Notify, Arrives, Reads
  <1> QED
    BY <1>2, <1>3, <1>4

LEMMA OthersStayPrepared ==
  ASSUME TogetherStep, NEW c \in Connections, Thread(c), AllPrepared,
         NEW d \in Automatic, d # c, Serves(d)'
  PROVE  Prepared(d)'
  <1>0. d \in Connections
    BY KierkiAssumption
  <1>1. /\ Serves(d) /\ seat[d] \in Seats /\ seat'[d] = seat[d]
        /\ client'[d] = client[d] /\ answers'[d] = answers[d] /\ told'[d] = told[d]
        /\ b_was_destined_to_play'[d] = b_was_destined_to_play[d]
        /\ b_is_barrier'[d] = b_is_barrier[d]
        /\ server_write_pipes'[seat[d]] = server_write_pipes[seat[d]]
        /\ Serves(c) => seat[d] # seat[c]
    BY <1>0, OthersUntouched
  <1>2. /\ UNCHANGED <<server, deals_read, trick_number>>
        /\ CalmStep(c) /\ Calm
        /\ OwnStep(c) \/ PipeStep(c) \/ Environment(c)
        /\ \/ UNCHANGED gameVars
           \/ /\ Serves(c) /\ b_was_destined_to_play[c]
              /\ \A s \in Seats \ {seat[c]} : cards'[s] = cards[s]
    BY ThreadFacts
  <1>3. cards'[seat[d]] = cards[seat[d]] /\ OnTheTable \subseteq OnTheTable'
    BY <1>1, <1>2, TableGrows DEF gameVars, TogetherStep
  <1>4. Prepared(d)
    BY <1>1 DEF AllPrepared
  <1>5. InDeal(d)' => InDeal(d)
    BY <1>1, <1>2 DEF InDeal
  <1>6. CASE ~b_was_destined_to_play[d]
    <2>1. Idles(d)'
      BY <1>1, <1>3, <1>4, <1>5, <1>6 DEF Idles, Prepared
    <2> QED
      BY <1>1, <1>2, <1>4, <1>6, <2>1 DEF Prepared
  <1>7. CASE b_was_destined_to_play[d]
    <2>1. UNCHANGED gameVars
      <3>1. b_was_destined_to_play[c] => seat[c] = Asked /\ seat[d] = Asked
        BY <1>0, <1>2, <1>7 DEF Calm, Destined
      <3> QED
        BY <1>1, <1>2, <3>1
    <2>2. UNCHANGED <<cards, cards_on_table, OnTheTable>>
      BY <2>1 DEF gameVars, OnTheTable
    <2>3. Asks(d)'
      BY <1>1, <1>2, <1>4, <1>7, <2>2 DEF Prepared, Asks
    <2> QED
      BY <1>1, <1>2, <1>4, <1>7, <2>3 DEF Prepared
  <1> QED
    BY <1>6, <1>7
-----------------------------------------------------------------------------
(* The player that is asked is in no barrier, knows the trick, and has a   *)
(* card for it.                                                            *)
LEMMA AskedNow ==
  ASSUME TogetherStep, BarrierFlags, HandsStayFull, NEW c \in Connections, KOnCardPlay(c)
  PROVE  /\ Serves(c) /\ seat[c] \in Seats /\ seat[c] = Asked
         /\ server = "await" /\ deals_read > 0
         /\ ~b_was_destined_to_play[c] /\ ~b_is_barrier[c]
         /\ InDeal(c) /\ client[c].trick_number = trick_number
         /\ cards[seat[c]] # {} /\ Len(cards_on_table) < N
  <1> DEFINE pipe == server_write_pipes[seat[c]]
  <1>1. TypeInv /\ TypeOK /\ Calm /\ Recorded /\ ReadFromServer(c, CARD_PLAY)
    BY TogetherFacts DEF KOnCardPlay, OnCardPlay
  <1>2. /\ Serves(c) /\ seat[c] \in Seats /\ CARD_PLAY = Head(pipe) /\ pipe # <<>>
        /\ pipe \in Seq(ToClient)
    BY <1>1, ReadsTheHead DEF TypeOK
  <1>3. /\ server = "await" /\ seat[c] = Asked /\ player_turn = Asked
        /\ AtEnd(pipe, CARD_PLAY) /\ ~b_was_destined_to_play[c]
    <2>1. Has(pipe, CARD_PLAY)
      BY <1>2, Consumed
    <2> QED
      BY <1>1, <1>2, <2>1 DEF Calm, PipesRequest, Requested
  <1>4. \A byte \in {DEAL, TAKEN, BARRIER_END} : ~Has(pipe, byte)
    <2> SUFFICES ASSUME NEW byte \in {DEAL, TAKEN, BARRIER_END} PROVE ~Has(pipe, byte)
      OBVIOUS
    <2>1. Tail(pipe) = <<>> /\ byte # CARD_PLAY
      BY <1>2, <1>3, Consumed DEF DEAL, TAKEN, BARRIER_END, CARD_PLAY
    <2>2. ~Has(Tail(pipe), byte)
      BY <2>1, EmptyPipe
    <2> QED
      BY <1>2, <2>1, <2>2, Consumed
  <1>5. ~b_is_barrier[c]
    <2>1. pc[c] # "enter"
      BY <1>1 DEF ReadFromServer
    <2> QED
      BY <1>2, <1>3, <1>4, <2>1 DEF BarrierFlags, InItsBarrier, Waits
  <1>6. deals_read > 0 /\ server # "run_deal" /\ trick_number = Len(taken_tricks) + 1
    BY <1>1, <1>3 DEF Calm, DealStates, InTrick, Recorded, Playing
  <1>7. InStep(c)
    BY <1>2, <1>6, ServersAreInStep
  <1>8. told[c].hand = deals_read /\ client[c].trick_number = trick_number
    BY <1>4, <1>6, <1>7 DEF InStep
  <1>9. InDeal(c)
    BY <1>2, <1>6, <1>8 DEF InDeal
  <1>10. Len(cards_on_table) = turn /\ turn < N /\ turn \in Nat
    <2>1. Asked # Nobody
      BY <1>1, AskedIsASeat
    <2> QED
      BY <1>1, <1>3, <2>1, ServerAssumption DEF Calm, Turns, TypeOK
  <1>11. cards[Asked] # {}
    <2>1. Asked \notin Played
      BY <1>1, <1>10, AskedHasNotPlayed
    <2>2. MostLeft(Asked) = Tricks - trick_number + 1
      BY <1>3, <2>1 DEF MostLeft, InTrick
    <2>3. Cardinality(cards[Asked]) >= Tricks - trick_number + 1
      BY <1>2, <1>3, <1>6, <2>2 DEF HandsStayFull
    <2>4. Tricks \in Nat /\ trick_number \in 0..Tricks
      BY <1>1, ServerAssumption DEF TypeOK
    <2>5. Cardinality({}) = 0
      BY FS_EmptySet
    <2> QED
      BY <2>3, <2>4, <2>5
  <1> QED
    BY <1>2, <1>3, <1>5, <1>6, <1>8, <1>9, <1>10, <1>11

LEMMA AskedNotInBarrier ==
  ASSUME TogetherStep, BarrierFlags, NEW c \in Connections, Thread(c),
         b_was_destined_to_play'[c], ~b_is_barrier[c]
  PROVE  ~b_is_barrier'[c]
  <1>1. /\ TypeInv /\ TypeOK /\ Calm /\ Calm' /\ CalmStep(c) /\ NobodyMoves'
        /\ OwnStep(c) \/ PipeStep(c) \/ Environment(c)
        /\ UNCHANGED server
    BY ThreadFacts DEF Calm
  <1>2. server = "await"
    BY <1>1 DEF Calm, Destined
  <1>3. ~b_is_barrier_ongoing
    BY <1>2 DEF BarrierFlags, Waits
  <1>4. ~ReadFromServer(c, BARRIER_RESPONSE)
    <2> SUFFICES ASSUME ReadFromServer(c, BARRIER_RESPONSE) PROVE FALSE
      OBVIOUS
    <2>1. /\ seat[c] \in Seats /\ BARRIER_RESPONSE = Head(server_write_pipes[seat[c]])
          /\ server_write_pipes[seat[c]] # <<>>
          /\ server_write_pipes[seat[c]] \in Seq(ToClient)
      BY <1>1, ReadsTheHead DEF TypeOK
    <2>2. Has(server_write_pipes[seat[c]], BARRIER_RESPONSE)
      BY <2>1, Consumed
    <2> QED
      BY <1>1, <1>2, <2>1, <2>2 DEF Calm, PipesAnnounce, Announced, Waits
  <1> QED
    BY <1>1, <1>3, <1>4, ThreadsRaiseFlags

(* A step after which a player has and has sent what it had before. *)
LEMMA StaysPrepared ==
  ASSUME TogetherStep, BarrierFlags, NEW c \in Connections, Thread(c), Prepared(c),
         Serves(c), seat'[c] = seat[c], UNCHANGED gameVars,
         client'[c].my_cards = client[c].my_cards,
         client'[c].played_cards = client[c].played_cards,
         answers'[c] = answers[c], told'[c] = told[c],
         b_was_destined_to_play'[c] = b_was_destined_to_play[c],
         Has(server_write_pipes[seat[c]], TAKEN) => Has(server_write_pipes'[seat[c]], TAKEN)
  PROVE  Prepared(c)'
  <1>1. UNCHANGED <<server, deals_read, trick_number, cards, cards_on_table, OnTheTable>>
    BY ThreadFacts DEF gameVars, OnTheTable
  <1>2. InDeal(c)' => InDeal(c)
    BY <1>1 DEF InDeal
  <1>3. CASE b_was_destined_to_play[c]
    <2>1. Asks(c) /\ ~b_is_barrier'[c]
      BY <1>3, AskedNotInBarrier DEF Prepared, Asks
    <2>2. Asks(c)'
      BY <1>1, <2>1 DEF Asks
    <2> QED
      BY <1>1, <1>3, <2>2 DEF Prepared
  <1>4. CASE ~b_was_destined_to_play[c]
    <2>1. Idles(c)'
      BY <1>1, <1>2, <1>4 DEF Prepared, Idles
    <2> QED
      BY <1>1, <1>4, <2>1 DEF Prepared
  <1> QED
    BY <1>3, <1>4

(* A player that is asked answers with a card it may play. *)
LEMMA AskedPrepared ==
  ASSUME TogetherStep, BarrierFlags, HandsStayFull, NEW c \in Automatic, Prepared(c),
         KOnCardPlay(c)
  PROVE  Prepared(c)'
  <1>0. c \in Connections /\ Thread(c)
    BY KierkiAssumption DEF Thread
  <1> DEFINE hand == cards[seat[c]]
             message == Client!Trick(trick_number, cards_on_table)
  <1>1. /\ Serves(c) /\ seat[c] \in Seats /\ server = "await"
        /\ ~b_was_destined_to_play[c] /\ ~b_is_barrier[c]
        /\ InDeal(c) /\ client[c].trick_number = trick_number
        /\ hand # {} /\ Len(cards_on_table) < N
    BY <1>0, AskedNow
  <1>2. /\ TypeOK /\ ClientsTyped /\ client[c] \in Clients
        /\ UNCHANGED <<server, deals_read, trick_number>>
    BY <1>0, ThreadFacts, TogetherFacts DEF KInv, ClientsTyped
  <1>3. /\ answers[c] = <<>> /\ client[c].my_cards = hand
        /\ client[c].played_cards \subseteq OnTheTable
    BY <1>1 DEF Prepared, Idles
  <1>4. /\ UNCHANGED <<cards, cards_on_table, seat, OnTheTable>>
        /\ b_was_destined_to_play'[c] /\ b_is_barrier'[c] = b_is_barrier[c]
        /\ SendTrick(c, trick_number, cards_on_table)
    BY <1>0, <1>2 DEF KOnCardPlay, OnCardPlay, gameVars, TypeOK, OnTheTable
  <1>5. Client!TRICK_check(message, client[c].trick_number)
    <2>1. /\ message.type = "TRICK" /\ message.number = trick_number
          /\ message.table = cards_on_table
      BY DEF Client!Trick
    <2> HIDE DEF message
    <2> QED
      BY <1>1, <2>1 DEF Client!TRICK_check
  <1>6. PICK card \in Client!Strategy(client[c], cards_on_table) :
           /\ client' = [client EXCEPT ![c] = Client!OnTrick(@, card)]
           /\ answers' = [answers EXCEPT ![c] = Append(@, Answer(c, card))]
    BY <1>4, <1>5 DEF SendTrick
  <1>7. card \in hand /\ PlayedRightColour(card, hand, cards_on_table)
    <2>1. card \in {k \in hand : Client!PlayedRightColour(k, hand, cards_on_table)}
      BY <1>1, <1>3, <1>6 DEF Client!Strategy
    <2> QED
      BY <2>1 DEF Client!PlayedRightColour, PlayedRightColour
  <1>8. card # NoCard
    BY <1>1, <1>2, <1>7, KierkiAssumption DEF TypeOK
  <1>9. answers'[c] = <<[trick |-> trick_number, card |-> card]>>
    <2>1. answers'[c] = Append(answers[c], Answer(c, card))
      BY <1>0, <1>2, <1>6 DEF ClientsTyped
    <2>2. Answer(c, card) = [trick |-> trick_number, card |-> card]
      BY <1>1, <1>8 DEF Answer
    <2>3. \A e : Append(<<>>, e) = <<e>>
      OBVIOUS
    <2> QED
      BY <1>3, <2>1, <2>2, <2>3
  <1>10. /\ client'[c].my_cards = hand \ {card}
         /\ client'[c].played_cards \subseteq OnTheTable \cup {card}
    <2>1. client'[c] = Client!OnTrick(client[c], card)
      BY <1>0, <1>2, <1>6 DEF ClientsTyped
    <2>2. /\ client'[c].my_cards = client[c].my_cards \ {card}
          /\ client'[c].played_cards = client[c].played_cards \cup ({card} \ {NoCard})
      BY <1>2, <2>1 DEF Client!OnTrick, Clients
    <2> QED
      BY <1>3, <2>2
  <1>11. Asks(c)'
    BY <1>1, <1>2, <1>4, <1>7, <1>9, <1>10 DEF Asks
  <1> QED
    BY <1>1, <1>2, <1>4, <1>11 DEF Prepared, InTrick

(* A player that hears of the deal has the hand the server has for it, and *)
(* so has one that hears of a trick: its own card in it is on the table.   *)
LEMMA HearerPrepared ==
  ASSUME TogetherStep, NEW c \in Automatic, Prepared(c),
         NEW byte \in {DEAL, TAKEN}, Thread(c), Heard(c, byte)
  PROVE  Prepared(c)'
  <1>0. c \in Connections
    BY KierkiAssumption
  <1>1. /\ UNCHANGED <<server, deals_read, trick_number, cards, cards_on_table, seat, answers,
                       OnTheTable, b_was_destined_to_play>>
        /\ TypeOK /\ Calm /\ Together /\ CalmStep(c)
    BY <1>0, ThreadFacts DEF Heard, OnAnnouncement, gameVars, OnTheTable, SendDeal, SendTaken,
       SendOther
  <1>2. CASE byte = DEAL
    <2>1. /\ client'[c].my_cards = cards[seat[c]]
          /\ client'[c].played_cards = client[c].played_cards
          /\ Serves(c) /\ seat[c] \in Seats /\ Has(server_write_pipes[seat[c]], DEAL)
          /\ server \in InTrick \cup {"trick"} /\ deals_read > 0
      BY <1>0, <1>2, DealHeard
    <2>2. ~b_was_destined_to_play[c]
      <3>1. InStep(c)
        BY <1>0, <2>1, ServersAreInStep DEF InTrick
      <3> QED
        BY <2>1, <3>1 DEF InStep
    <2>3. Idles(c)'
      BY <1>1, <2>1, <2>2 DEF Idles, Prepared
    <2>4. ~Has(server_write_pipes[seat[c]], TAKEN)
      BY <1>1, <2>1 DEF Calm, PipesAnnounce, Announced, InTrick, InBarrier
    <2> QED
      BY <1>1, <2>1, <2>2, <2>3, <2>4 DEF Prepared
  <1>3. CASE byte = TAKEN
    <2> DEFINE n == Len(taken_tricks)
    <2>1. /\ client'[c].my_cards =
                (client[c].my_cards \cup client[c].played_cards) \ OnTheTable
          /\ client'[c].played_cards = {} /\ UNCHANGED told
          /\ Serves(c) /\ seat[c] \in Seats
          /\ server \in InBarrier
          /\ cards_on_table = taken_tricks[n] /\ n \in Nat /\ 0 < n
      BY <1>0, <1>3, TakenHeard DEF OnTheTable
    <2>2. ~b_was_destined_to_play[c]
      BY <1>0, <1>1, <2>1 DEF Calm, Destined, InBarrier
    <2>3. cards[seat[c]] \cap OnTheTable = {}
      <3>1. n \in DOMAIN taken_tricks /\ server # "run_deal"
        BY <1>1, <2>1 DEF TypeOK, InBarrier
      <3> QED
        BY <2>1, <3>1, TakenCardsAreGone DEF OnTheTable
    <2>4. InDeal(c)' => InDeal(c)
      BY <1>1, <2>1 DEF InDeal
    <2>5. Idles(c)'
      <3>1. InDeal(c)' => client[c].my_cards = cards[seat[c]]
        BY <2>2, <2>4 DEF Prepared, Idles
      <3>2. client[c].played_cards \subseteq OnTheTable /\ answers[c] = <<>>
        BY <2>2 DEF Prepared, Idles
      <3> QED
        BY <1>1, <2>1, <2>3, <3>1, <3>2 DEF Idles
    <2> QED
      BY <1>1, <2>1, <2>2, <2>5 DEF Prepared
  <1> QED
    BY <1>2, <1>3

(* What a prepared player has sent is a legal answer. *)
LEMMA PreparedIsLegal ==
  ASSUME TypeInv, Calm, Together, NEW c \in Automatic, Serves(c), Prepared(c),
         answers[c] # <<>>
  PROVE  /\ b_was_destined_to_play[c] /\ Asks(c)
         /\ Head(answers[c]) # Garbage /\ Legal(c, Head(answers[c]))
  <1>1. c \in Connections /\ seat[c] \in Seats /\ TypeOK
    BY KierkiAssumption DEF TypeInv, ServesASeat
  <1>2. b_was_destined_to_play[c] /\ Asks(c)
    BY DEF Prepared, Idles
  <1>3. PICK card \in cards[seat[c]] :
           /\ answers[c] = <<[trick |-> trick_number, card |-> card]>>
           /\ PlayedRightColour(card, cards[seat[c]], cards_on_table)
    BY <1>2 DEF Asks
  <1>4. current_trick[c] = trick_number
    <2>1. server = "await" /\ deals_read > 0
      BY <1>1, <1>2 DEF Calm, Destined, DealStates, InTrick
    <2>2. InStep(c)
      BY <1>1, <2>1 DEF Together, ClientsInStep
    <2> QED
      BY <1>2, <2>2 DEF InStep
  <1> DEFINE message == [trick |-> trick_number, card |-> card]
  <1>5. Head(answers[c]) = message /\ message.trick = trick_number /\ message.card = card
    BY <1>3
  <1>6. message \in [trick : Nat, card : Card]
    BY <1>1, <1>3 DEF TypeOK
  <1>7. message # Garbage
    BY <1>6, KierkiAssumption
  <1> HIDE DEF message
  <1> QED
    BY <1>2, <1>3, <1>4, <1>5, <1>7 DEF Legal

LEMMA AnsweredPrepared ==
  ASSUME TogetherStep, NEW c \in Automatic, Serves(c), Prepared(c), Thread(c),
         ReadAnswer(c)
  PROVE  Prepared(c)' /\ UNCHANGED barrier_messages
  <1>1. /\ c \in Connections /\ TypeInv /\ TypeOK /\ Calm /\ Together /\ ClientsTyped
        /\ UNCHANGED <<server, deals_read, trick_number>> /\ seat[c] \in Seats
    BY KierkiAssumption, ThreadFacts, TogetherFacts DEF KInv, TypeInv, ServesASeat
  <1>2. /\ answers[c] # <<>> /\ SocketMessage(c, Head(answers[c]))
        /\ answers' = [answers EXCEPT ![c] = Tail(@)]
        /\ UNCHANGED <<client, told, seat>>
    BY DEF ReadAnswer, SocketMessage
  <1>3. /\ b_was_destined_to_play[c] /\ Asks(c)
        /\ Head(answers[c]) # Garbage /\ Legal(c, Head(answers[c]))
    BY <1>1, <1>2, PreparedIsLegal
  <1>4. PICK after : /\ PlayCard(c, Head(answers[c]), after) /\ UNCHANGED barrier_messages
    BY <1>2, <1>3 DEF SocketMessage, Asks, Parse
  <1>5. PICK card \in cards[seat[c]] :
           /\ answers[c] = <<[trick |-> trick_number, card |-> card]>>
           /\ client[c].my_cards = cards[seat[c]] \ {card}
           /\ client[c].played_cards \subseteq OnTheTable \cup {card}
    BY <1>3 DEF Asks
  <1>6. /\ Head(answers[c]) = [trick |-> trick_number, card |-> card]
        /\ Tail(answers[c]) = <<>>
    BY <1>5
  <1>7. /\ cards' = [cards EXCEPT ![seat[c]] = @ \ {card}]
        /\ cards_on_table' = Append(cards_on_table, card)
        /\ ~b_was_destined_to_play'[c]
    <2>1. Head(answers[c]).card = card
      BY <1>6
    <2> QED
      BY <1>1, <1>4, <2>1 DEF PlayCard, Answered, TypeOK
  <1>8. answers'[c] = <<>>
    BY <1>1, <1>2, <1>6 DEF ClientsTyped
  <1>9. client[c].my_cards = cards'[seat[c]]
    BY <1>1, <1>5, <1>7 DEF TypeOK
  <1>10. OnTheTable \cup {card} \subseteq OnTheTable'
    <2>1. cards_on_table \in Seq(Card) /\ card \in Card /\ Len(cards_on_table) \in Nat
      BY <1>1, <1>5 DEF TypeOK
    <2>2. \A p \in DOMAIN cards_on_table : p \in DOMAIN cards_on_table'
                                       /\ cards_on_table'[p] = cards_on_table[p]
      BY <1>7, <2>1
    <2>3. /\ Len(cards_on_table) + 1 \in DOMAIN cards_on_table'
          /\ cards_on_table'[Len(cards_on_table) + 1] = card
      BY <1>7, <2>1
    <2> QED
      BY <2>2, <2>3 DEF OnTheTable
  <1>11. Idles(c)'
    BY <1>2, <1>5, <1>8, <1>9, <1>10 DEF Idles
  <1>12. server = "await"
    BY <1>1, <1>3 DEF Calm, Destined
  <1> QED
    BY <1>1, <1>4, <1>7, <1>11, <1>12 DEF Prepared, InTrick

LEMMA NewcomerPrepared ==
  ASSUME TogetherStep, NothingQueued, NEW c \in Automatic, Thread(c), KReserve(c)
  PROVE  Prepared(c)'
  <1>1. /\ c \in Connections /\ TypeInv /\ TypeOK /\ Calm /\ ClientsTyped
        /\ UNCHANGED <<server, deals_read>>
    BY KierkiAssumption, ThreadFacts, TogetherFacts DEF KInv
  <1>2. /\ pc[c] = "iam" /\ UNCHANGED <<client, answers, b_was_destined_to_play>>
    BY DEF KReserve, Reserve, clientVars
  <1>3. answers[c] = <<>> /\ client[c].played_cards = {}
    BY <1>2 DEF NothingQueued
  <1>4. ~b_was_destined_to_play[c]
    BY <1>1, <1>2 DEF Calm, Destined, Serves, Serving
  <1>5. ~(deals_read > 0)
    <2>1. wanted[c] \in Seats
      BY <1>1 DEF ClientsTyped
    <2> QED
      BY <1>1, <2>1 DEF KReserve, Reserve, SeatIsFree, Calm, SeatsTaken
  <1>6. Idles(c)'
    BY <1>1, <1>2, <1>3, <1>5 DEF Idles, InDeal
  <1> QED
    BY <1>2, <1>3, <1>4, <1>6 DEF Prepared

LEMMA SelfPrepared ==
  ASSUME TogetherStep, BarrierFlags, HandsStayFull, NothingQueued, AllPrepared,
         NEW c \in Automatic, Thread(c), Serves(c)', resends' = 0
  PROVE  Prepared(c)'
  <1>1. /\ c \in Connections /\ KInv /\ TypeInv /\ TypeOK /\ Calm /\ CalmStep(c)
        /\ NobodyMoves /\ NobodyLeft'
        /\ OwnStep(c) \/ PipeStep(c) \/ Environment(c)
    BY KierkiAssumption, ThreadFacts, TogetherFacts DEF TogetherStep, Calm
  <1>2. ~Breaks(c) /\ ~Greeting(c)
    BY <1>1, NobodyBreaks
  <1>3. ~Resend(c)
    <2>1. resends \in Nat
      BY <1>1, KierkiAssumption DEF KInv, ClientsTyped
    <2> QED
      BY <2>1 DEF Resend
  <1>4. Serves(c) => Prepared(c) /\ seat'[c] = seat[c] /\ barrier_messages[seat[c]] = <<>>
    BY <1>1, SeatsStay DEF AllPrepared, NothingQueued
  <1>5. ~DrainAnswer(c) /\ ~KNoSeat(c)
    <2>1. ~KNoSeat(c)
      BY <1>1 DEF KNoSeat, NoSeat, Goto, TypeOK, Serves, Serving
    <2> QED
      BY <1>4, <2>1 DEF DrainAnswer, Drain, Serves, Serving
  <1>6. CASE KReserve(c)
    BY <1>6, NewcomerPrepared
  <1>7. CASE ReadAnswer(c)
    <2>1. Serves(c)
      BY <1>7 DEF ReadAnswer, SocketMessage, Serves, Serving
    <2> QED
      BY <1>4, <1>7, <2>1, AnsweredPrepared
  <1>8. CASE KOnCardPlay(c)
    <2>1. Serves(c)
      BY <1>8 DEF KOnCardPlay, OnCardPlay, ReadFromServer, Serves, Serving
    <2> QED
      BY <1>4, <1>8, <2>1, AskedPrepared
  <1>9. CASE Silent(c)
    <2>1. UNCHANGED <<gameVars, client, answers, told>>
      BY <1>9 DEF Silent, clientVars, Accept, Enter, LoopTop, Bye, Notify, OnBarrierResponse,
         OnBarrierEnd, OnDisconnected, Timeout
    <2>2. UNCHANGED b_was_destined_to_play
      BY <1>9 DEF Silent, Accept, Enter, LoopTop, Bye, Notify, OnBarrierResponse,
         OnBarrierEnd, OnDisconnected, Timeout
    <2>3. Serves(c)
      <3>1. ~Accept(c) /\ ~Bye(c)
        BY <1>1 DEF Accept, Bye, Goto, TypeOK, Serves, Serving
      <3> QED
        BY <1>9, <3>1 DEF Silent, Enter, LoopTop, Notify, OnBarrierResponse, OnBarrierEnd,
           OnDisconnected, Timeout, ReadFromServer, Serves, Serving
    <2>4. Has(server_write_pipes[seat[c]], TAKEN) => Has(server_write_pipes'[seat[c]], TAKEN)
      <3>1. seat[c] \in Seats
        BY <1>1, <2>3 DEF TypeInv, ServesASeat
      <3>2. CASE UNCHANGED server_write_pipes
        BY <3>2
      <3>3. ASSUME NEW byte \in {BARRIER_RESPONSE, BARRIER_END, DISCONNECTED},
                   ReadFromServer(c, byte)
            PROVE  Spared
        <4>1. byte \notin {DEAL, TAKEN}
          BY DEF DEAL, TAKEN, BARRIER_RESPONSE, BARRIER_END, DISCONNECTED
        <4> QED
          BY <1>1, <3>1, <3>3, <4>1, ReadSpares
      <3>4. UNCHANGED server_write_pipes \/
               \E byte \in {BARRIER_RESPONSE, BARRIER_END, DISCONNECTED} :
                  ReadFromServer(c, byte)
        BY <1>9 DEF Silent, Accept, Enter, LoopTop, Bye, Notify, OnBarrierResponse,
           OnBarrierEnd, OnDisconnected, Timeout, pipeVars
      <3> QED
        BY <3>1, <3>2, <3>3, <3>4 DEF Spared
    <2> QED
      BY <1>1, <1>4, <2>1, <2>2, <2>3, <2>4, StaysPrepared
  <1>10. CASE KOnAnnouncement(c)
    <2>1. PICK byte \in {DEAL, TAKEN, SCORES} : ReadFromServer(c, byte)
      BY <1>10 DEF KOnAnnouncement, OnAnnouncement
    <2>2. /\ byte = Head(server_write_pipes[seat[c]]) /\ Serves(c) /\ seat[c] \in Seats
          /\ server_write_pipes[seat[c]] # <<>>
          /\ server_write_pipes[seat[c]] \in Seq(ToClient)
      BY <1>1, <2>1, ReadsTheHead DEF TypeOK
    <2>3. DEAL # TAKEN /\ DEAL # SCORES /\ TAKEN # SCORES
      BY DEF DEAL, TAKEN, SCORES
    <2>4. CASE byte \in {DEAL, TAKEN}
      <3>1. Heard(c, byte)
        BY <1>10, <2>1, <2>2, <2>3, <2>4 DEF KOnAnnouncement, Announce, Heard
      <3> QED
        BY <1>4, <2>2, <2>4, <3>1, HearerPrepared
    <2>5. CASE byte = SCORES
      <3>1. /\ SendScoreAndTotal(c) /\ UNCHANGED <<gameVars, b_was_destined_to_play, greetVars>>
        BY <1>10, <2>1, <2>2, <2>3, <2>5 DEF KOnAnnouncement, Announce, OnAnnouncement
      <3>2. Spared
        BY <1>1, <2>1, <2>2, <2>3, <2>5, ReadSpares
      <3>3. /\ client'[c].my_cards = client[c].my_cards
            /\ client'[c].played_cards = client[c].played_cards
        BY <1>1, <3>1, <3>2, ScoresAreQuiet DEF KInv
      <3>4. UNCHANGED <<answers, told>>
        BY <3>1 DEF SendScoreAndTotal
      <3>5. Has(server_write_pipes[seat[c]], TAKEN) => Has(server_write_pipes'[seat[c]], TAKEN)
        BY <2>2, <3>2 DEF Spared
      <3> QED
        BY <1>1, <1>4, <2>2, <3>1, <3>3, <3>4, <3>5, StaysPrepared
    <2> QED
      BY <2>1, <2>4, <2>5
  <1> QED
    BY <1>2, <1>3, <1>5, <1>6, <1>7, <1>8, <1>9, <1>10 DEF Thread

LEMMA ThreadPrepared ==
  ASSUME TogetherStep, BarrierFlags, HandsStayFull, NothingQueued, AllPrepared,
         NEW c \in Connections, Thread(c), resends' = 0
  PROVE  AllPrepared'
  BY SelfPrepared, OthersStayPrepared DEF AllPrepared

(* The queue of a seat nobody has taken, or that an automatic player has,  *)
(* stays empty: what such a player answers, it answers in no barrier.      *)
LEMMA ThreadsQueue ==
  ASSUME TogetherStep, NothingQueued, AllPrepared, NEW c \in Connections, Thread(c)
  PROVE  /\ \A s \in Seats : ~(Serves(c) /\ s = seat[c]) =>
               barrier_messages'[s] = barrier_messages[s]
         /\ c \in Automatic => UNCHANGED barrier_messages
  <1>1. /\ KInv /\ TypeInv /\ TypeOK /\ NobodyMoves /\ NobodyLeft'
        /\ \A d \in Connections : Serves(d) => seat[d] \in Seats
    BY ThreadFacts, TogetherFacts DEF TogetherStep, Calm, TypeInv, ServesASeat
  <1>2. ~Breaks(c) /\ ~Greeting(c)
    BY <1>1, NobodyBreaks
  <1>3. CASE Silent(c) \/ KOnCardPlay(c) \/ KOnAnnouncement(c) \/ Resend(c)
             \/ KReserve(c) \/ KNoSeat(c)
    BY <1>3 DEF Silent, KOnCardPlay, KOnAnnouncement, Resend, KReserve, KNoSeat, Accept,
       Enter, LoopTop, Bye, Notify, OnBarrierResponse, OnBarrierEnd, OnDisconnected, Timeout,
       OnCardPlay, OnAnnouncement, Reserve, NoSeat
  <1>4. CASE ReadAnswer(c)
    <2>1. Serves(c)
      BY <1>4 DEF ReadAnswer, SocketMessage, Serves, Serving
    <2>2. \A s \in Seats : s # seat[c] => barrier_messages'[s] = barrier_messages[s]
      BY <1>1, <1>4, <2>1 DEF ReadAnswer, SocketMessage, TypeOK
    <2>3. c \in Automatic => UNCHANGED barrier_messages
      BY <1>4, <2>1, AnsweredPrepared DEF AllPrepared
    <2> QED
      BY <2>1, <2>2, <2>3
  <1>5. CASE DrainAnswer(c)
    <2>1. Serves(c) /\ barrier_messages[seat[c]] # <<>>
      BY <1>5 DEF DrainAnswer, Drain, Serves, Serving
    <2>2. \A s \in Seats : s # seat[c] => barrier_messages'[s] = barrier_messages[s]
      BY <1>1, <1>5, <2>1 DEF DrainAnswer, Drain, TypeOK
    <2> QED
      BY <2>1, <2>2 DEF NothingQueued
  <1> QED
    BY <1>2, <1>3, <1>4, <1>5 DEF Thread

LEMMA ThreadQueuesNothing ==
  ASSUME TogetherStep, NothingQueued, AllPrepared, NEW c \in Connections, Thread(c)
  PROVE  NothingQueued'
  <1>1. /\ KInv /\ TypeInv /\ TypeOK /\ Calm /\ CalmStep(c) /\ NobodyMoves /\ NobodyLeft'
        /\ SeatExclusive /\ SeatExclusive' /\ ClientsTyped
        /\ OwnStep(c) \/ PipeStep(c) \/ Environment(c)
        /\ Quietly(c) \/ \E byte \in {DEAL, TAKEN} : Heard(c, byte)
        /\ \A d \in Connections : Serves(d) => seat[d] \in Seats
        /\ \A d \in Connections \ {c} : pc'[d] = pc[d]
    BY ThreadFacts, TogetherFacts DEF TogetherStep, Calm, TypeInv, ServesASeat, CalmStep,
       SeatInv, TurnInv, KInv
  <1>2. /\ \A s \in Seats : ~(Serves(c) /\ s = seat[c]) =>
              barrier_messages'[s] = barrier_messages[s]
        /\ c \in Automatic => UNCHANGED barrier_messages
    BY ThreadsQueue
  <1>3. /\ Roams(c) \/ Notify(c) \/ (\E s \in Seats : Arrives(c, s))
           \/ (\E card : Plays(c, card)) \/ (\E byte : Reads(c, byte))
        /\ \A s \in Seats : seats_status'[s] = Free => seats_status[s] = Free
    <2>1. Roams(c) \/ Notify(c) \/ (\E s \in Seats : Arrives(c, s))
          \/ (\E card : Plays(c, card)) \/ (\E byte : Reads(c, byte))
      BY <1>1, ThreadKinds DEF Calm
    <2>2. ASSUME NEW t \in Seats, Arrives(c, t)
          PROVE  \A s \in Seats : seats_status'[s] = Free => seats_status[s] = Free
      BY <1>1, <2>2 DEF Arrives, TypeOK
    <2> QED
      BY <2>1, <2>2 DEF Roams, Notify, Plays, Reads
  <1>4. ASSUME NEW s \in Seats, seats_status'[s] = Free PROVE barrier_messages'[s] = <<>>
    <2>1. seats_status[s] = Free
      BY <1>3, <1>4
    <2>2. ~(Serves(c) /\ s = seat[c])
      BY <2>1, ServerAssumption, <1>1 DEF SeatExclusive
    <2> QED
      BY <1>2, <2>1, <2>2 DEF NothingQueued
  <1>5. ASSUME NEW d \in Automatic, Serves(d)' PROVE barrier_messages'[seat'[d]] = <<>>
    <2>0. d \in Connections
      BY KierkiAssumption
    <2>1. CASE d # c
      <3>1. /\ Serves(d) /\ seat[d] \in Seats /\ seat'[d] = seat[d]
            /\ Serves(c) => seat[d] # seat[c]
        BY <1>5, <2>0, <2>1, OthersUntouched
      <3> QED
        BY <1>2, <3>1 DEF NothingQueued
    <2>2. CASE d = c /\ Serves(c)
      <3>1. seat'[c] = seat[c]
        BY <1>1, <2>2, SeatsStay
      <3> QED
        BY <1>2, <2>2, <3>1 DEF NothingQueued
    <2>3. CASE d = c /\ ~Serves(c)
      <3>1. PICK s \in Seats : seats_status[s] = Free /\ seat'[c] = s
        <4>1. pc'[c] \in Serving /\ pc[c] \notin Serving
          BY <1>5, <2>3 DEF Serves
        <4>2. SeatTaken(c)
          BY <1>1, <4>1, ThreadSeat DEF SeatKept, SeatGiven
        <4> QED
          BY <1>1, <4>2 DEF SeatTaken, TypeOK
      <3> QED
        BY <1>2, <2>3, <3>1 DEF NothingQueued
    <2> QED
      BY <2>1, <2>2, <2>3
  <1>6. ASSUME NEW d \in Automatic, pc'[d] \in {"idle", "iam"}
        PROVE  answers'[d] = <<>> /\ client'[d].played_cards = {}
    <2>0. d \in Connections
      BY KierkiAssumption
    <2>1. CASE d # c
      <3>1. pc'[d] = pc[d] /\ answers'[d] = answers[d]
        BY <1>1, <2>0, <2>1, AnswersOfOne
      <3>2. client'[d] = client[d]
        BY <1>1, <2>0, <2>1, DealHeard, TakenHeard DEF Quietly
      <3> QED
        BY <1>6, <3>1, <3>2 DEF NothingQueued
    <2>2. CASE d = c
      <3>1. Accept(c) /\ UNCHANGED <<client, answers>>
        <4>1. ~Greeting(c) /\ ~Breaks(c)
          BY <1>1, NobodyBreaks
        <4>2. ~KReserve(c) /\ ~KNoSeat(c)
          BY <1>1, <1>6, <2>2 DEF KReserve, KNoSeat, Reserve, NoSeat, Goto, TypeOK
        <4>3. ~Serves(c)
          <5> SUFFICES ASSUME Serves(c) PROVE FALSE
            OBVIOUS
          <5>1. pc[c] # "iam"
            BY DEF Serves, Serving
          <5>2. pc'[c] \in Serving \cup {"top", "notify", "gone"}
            BY <1>1, <1>3, <5>1 DEF Roams, Notify, Arrives, Plays, Reads, GoesOn, Goto,
               TypeOK, Serves
          <5> QED
            BY <1>6, <2>2, <5>2 DEF Serving
        <4>4. ~KOnCardPlay(c) /\ ~KOnAnnouncement(c) /\ ~Resend(c) /\ ~ReadAnswer(c)
              /\ ~DrainAnswer(c)
          BY <4>3 DEF KOnCardPlay, OnCardPlay, KOnAnnouncement, OnAnnouncement, Resend,
             Timeout, ReadAnswer, SocketMessage, DrainAnswer, Drain, ReadFromServer, Serves,
             Serving
        <4>5. Silent(c)
          BY <4>1, <4>2, <4>4 DEF Thread
        <4>6. ~Bye(c)
          BY <1>1, <1>6, <2>2 DEF Bye, Goto, TypeOK
        <4> QED
          BY <4>3, <4>5, <4>6 DEF Silent, clientVars, Enter, LoopTop, Notify,
             OnBarrierResponse, OnBarrierEnd, OnDisconnected, Timeout, ReadFromServer,
             Serves, Serving
      <3> QED
        BY <2>2, <3>1 DEF NothingQueued, Accept
    <2> QED
      BY <2>1, <2>2
  <1> QED
    BY <1>4, <1>5, <1>6 DEF NothingQueued
-----------------------------------------------------------------------------
(* What is typed at the clients of others, and no step at all, leave the   *)
(* automatic players as they were.                                         *)
LEMMA OthersTypedPrepared ==
  ASSUME TogetherStep, UNCHANGED <<vars, client, told>>,
         \A c \in Automatic : answers'[c] = answers[c]
  PROVE  /\ Ready => Ready'
         /\ NothingQueued => NothingQueued'
         /\ AllPrepared => AllPrepared'
  <1>1. /\ UNCHANGED <<server, deals_read, cards, cards_on_table, taken_tricks, trick_number,
                       last_taker, turn, seats_status, server_write_pipes,
                       barrier_messages, b_is_barrier_ongoing, pc, seat,
                       b_was_destined_to_play, b_is_barrier>>
    BY DEF vars, mainVars, gameVars, barrierVars, pipeVars, threadVars
  <1>2. \A c \in Connections : Serves(c)' <=> Serves(c)
    BY <1>1 DEF Serves
  <1>3. \A c \in Automatic : InDeal(c)' <=> InDeal(c)
    BY <1>1, <1>2, KierkiAssumption DEF InDeal
  <1>4. ASSUME Ready PROVE Ready'
    <2>1. Waits' = Waits /\ Played' = Played
      BY <1>1 DEF Waits, Played
    <2>2. BarrierFlags'
      BY <1>1, <1>4, <2>1 DEF Ready, BarrierFlags, InItsBarrier, Serves
    <2>3. HandsStayFull'
      BY <1>1, <1>4, <2>1 DEF Ready, HandsStayFull, MostLeft, InTrick
    <2> QED
      BY <2>2, <2>3 DEF Ready
  <1>5. ASSUME NothingQueued PROVE NothingQueued'
    BY <1>1, <1>2, <1>5, KierkiAssumption DEF NothingQueued
  <1>6. ASSUME AllPrepared, NEW c \in Automatic, Serves(c)' PROVE Prepared(c)'
    <2>1. Prepared(c) /\ answers'[c] = answers[c]
      BY <1>2, <1>6, KierkiAssumption DEF AllPrepared
    <2>2. OnTheTable' = OnTheTable
      BY <1>1 DEF OnTheTable
    <2>3. (Asks(c) => Asks(c)') /\ (Idles(c) => Idles(c)')
      BY <1>1, <1>3, <2>1, <2>2 DEF Asks, Idles
    <2> QED
      BY <1>1, <2>1, <2>3 DEF Prepared
  <1> QED
    BY <1>4, <1>5, <1>6 DEF AllPrepared

(* A TRICK that was sent again is counted for good. *)
LEMMA ResendsGrow == KInv /\ [KNext]_kierkiVars /\ resends' = 0 => resends = 0
  <1> SUFFICES ASSUME KInv, [KNext]_kierkiVars, resends' = 0 PROVE resends = 0
    OBVIOUS
  <1>1. resends \in Nat
    BY KierkiAssumption DEF KInv, ClientsTyped
  <1>2. CASE KServer
    BY <1>2 DEF KServer, KReadDeal, KDealBegin, KTrickTaken, OtherServer, clientVars
  <1>3. ASSUME NEW c \in Connections, Thread(c) PROVE resends = 0
    <2>1. CASE Resend(c)
      BY <1>1, <2>1 DEF Resend
    <2>2. CASE Greeting(c)
      BY <2>2 DEF Greeting, GreetDeal, GreetBegin, GreetTaken, GreetNext, NextTaken, SendDeal,
         SendTaken, SendOther, clientVars
    <2>3. CASE KOnCardPlay(c) \/ KOnAnnouncement(c)
      BY <2>3 DEF KOnCardPlay, KOnAnnouncement, Announce, SendDeal, SendTaken,
         SendScoreAndTotal, SendOther
    <2>4. CASE \/ Silent(c) \/ ReadAnswer(c) \/ DrainAnswer(c) \/ Breaks(c)
               \/ KReserve(c) \/ KNoSeat(c)
      BY <2>4 DEF Silent, ReadAnswer, DrainAnswer, Breaks, KReserve, KNoSeat, clientVars
    <2> QED
      BY <1>3, <2>1, <2>2, <2>3, <2>4 DEF Thread
  <1>4. CASE \E c \in Connections : \E card \in client[c].my_cards : TypeCard(c, card)
    BY <1>4 DEF TypeCard
  <1>5. CASE UNCHANGED kierkiVars
    BY <1>5 DEF kierkiVars, clientVars
  <1> QED
    BY <1>2, <1>3, <1>4, <1>5 DEF KNext

LEMMA InitAnswers == KInit => AnswersInv
  <1> SUFFICES ASSUME KInit PROVE PrepInv
    BY InitPlayers DEF AnswersInv
  <1>1. /\ Init /\ answers = [c \in Connections |-> <<>>]
        /\ client = [c \in Connections |-> Client!NewClient]
    BY DEF KInit
  <1>2. \A c \in Connections : pc[c] = "idle" /\ ~Serves(c)
    BY <1>1 DEF Init, Serves, Serving
  <1>3. Ready
    BY <1>1, <1>2, ServerAssumption DEF Init, Ready, BarrierFlags, InItsBarrier, HandsStayFull
  <1>4. NothingQueued
    BY <1>1, <1>2, KierkiAssumption DEF Init, NothingQueued, Client!NewClient
  <1>5. AllPrepared
    BY <1>2, KierkiAssumption DEF AllPrepared
  <1> QED
    BY <1>3, <1>4, <1>5 DEF PrepInv

LEMMA AnswersInvStep == AnswersInv /\ [KNext]_kierkiVars => AnswersInv'
  <1> SUFFICES ASSUME AnswersInv, [KNext]_kierkiVars PROVE AnswersInv'
    OBVIOUS
  <1>1. PlayersInv /\ PlayersInv' /\ PrepInv
    BY PlayersInvStep DEF AnswersInv
  <1>2. KInv /\ KInv' /\ TypeInv /\ ClientsTyped /\ TurnInv /\ TurnInv'
    BY <1>1 DEF PlayersInv, KInv, CardInv
  <1>3. [Next]_vars
    BY <1>2, StepOfTheServer
  <1>4. ASSUME NobodyLeft'
        PROVE  Ready' /\ (resends' = 0 => NothingQueued' /\ AllPrepared')
    <2>1. NobodyLeft
      BY <1>2, <1>3, <1>4, LeftForGood
    <2>2. TogetherStep /\ Ready /\ (resends' = 0 => NothingQueued /\ AllPrepared)
      BY <1>1, <1>2, <1>4, <2>1, ResendsGrow DEF PlayersInv, TogetherInv, TogetherStep,
         PrepInv
    <2>3. HandsStayFull'
      <3>1. GameStep
        BY <1>2, <1>3, <1>4, <2>1 DEF GameStep
      <3> QED
        BY <2>2, <3>1, FullStep DEF Ready
    <2>4. CASE KServer
      <3>1. /\ Server /\ UNCHANGED <<clientVars, threadVars, seats_status, barrier_messages>>
            /\ TypeInv /\ Calm /\ Calm'
        BY <2>2, <2>4, ServerFacts, ServerKeepsQueues, ServerLeavesThreads
      <3>2. Ready'
        BY <2>2, <2>3, <3>1, ServerFlags DEF Ready
      <3>3. NothingQueued => NothingQueued'
        BY <3>1 DEF NothingQueued, Serves, clientVars, threadVars
      <3> QED
        BY <2>2, <2>4, <3>2, <3>3, ServerPrepared
    <2>5. ASSUME NEW c \in Connections, Thread(c)
          PROVE  Ready' /\ (resends' = 0 => NothingQueued' /\ AllPrepared')
      <3>1. BarrierFlags'
        BY <1>4, <2>2, <2>5, ThreadFacts, ThreadFlags DEF Ready
      <3>2. resends' = 0 => NothingQueued' /\ AllPrepared'
        BY <2>2, <2>5, ThreadQueuesNothing, ThreadPrepared DEF Ready
      <3> QED
        BY <2>3, <3>1, <3>2 DEF Ready
    <2>6. ASSUME NEW c \in Connections, NEW card, TypeCard(c, card)
          PROVE  Ready' /\ (resends' = 0 => NothingQueued' /\ AllPrepared')
      <3>1. UNCHANGED <<vars, client, told>> /\ \A d \in Automatic : answers'[d] = answers[d]
        <4>1. answers \in [Connections -> Seq(Inputs)]
          BY <1>2 DEF ClientsTyped
        <4> QED
          BY <2>6, <4>1, KierkiAssumption DEF TypeCard
      <3> QED
        BY <2>2, <3>1, OthersTypedPrepared
    <2>7. CASE UNCHANGED kierkiVars
      BY <2>2, <2>7, OthersTypedPrepared DEF kierkiVars, clientVars
    <2> QED
      BY <2>4, <2>5, <2>6, <2>7 DEF KNext
  <1> QED
    BY <1>1, <1>4 DEF AnswersInv, PrepInv

(* While nobody leaves and no TRICK was sent again, no answer of an        *)
(* automatic player is refused: what client_poll reads of it next is a     *)
(* card of its hand, of the colour led when it has one, for the trick that *)
(* is being played and the seat that is asked.  Its strategy chooses among *)
(* the cards Klient counts as its own, the server judges by its own copy   *)
(* of the hand, and the two are kept by different messages on either side. *)
THEOREM AutomaticPlayersPlayLegally ==
    KSpec => [](NobodyLeft /\ resends = 0 => AnswersAreLegal)
  <1>1. AnswersInv => (NobodyLeft /\ resends = 0 => AnswersAreLegal)
    <2> SUFFICES ASSUME AnswersInv, NobodyLeft, resends = 0,
                        NEW c \in Automatic, Serves(c), answers[c] # <<>>
                 PROVE  Head(answers[c]) # Garbage /\ Legal(c, Head(answers[c]))
      BY DEF AnswersAreLegal
    <2>1. TypeInv /\ Calm /\ Together
      BY DEF AnswersInv, PlayersInv, TurnInv, CalmInv, TogetherInv, SeatInv
    <2>2. Prepared(c)
      BY DEF AnswersInv, PrepInv, AllPrepared
    <2> QED
      BY <2>1, <2>2, PreparedIsLegal
  <1>2. KSpec => []AnswersInv
    BY InitAnswers, AnswersInvStep, PTL DEF KSpec
  <1> QED
    BY <1>1, <1>2, PTL
=============================================================================
