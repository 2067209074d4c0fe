---------------------------- MODULE KierkiProofs ----------------------------
(***************************************************************************)
(* The whole game, for every number of seats, clients, deals and tricks:   *)
(* the server of Kierki takes no step the server of Serwer could not, so   *)
(* what SerwerProofs and TurnProofs say of it holds among real clients;    *)
(* and what the clients know and answer keeps its type.                    *)
(***************************************************************************)
EXTENDS KierkiProperties, TurnProofs

(* A client as the server keeps it: it only knows cards that were dealt,   *)
(* and gets past the last trick of a deal by one.                          *)
Clients == [
    trick_number : 1..Tricks + 1, my_cards : SUBSET DealtCards,
    played_cards : SUBSET DealtCards, taken_tricks : Seq(Seq(Card)),
    got_score : BOOLEAN, got_total : BOOLEAN]
Greetings == [
    step : {"none", "deal", "begin", "taken", "sent"},
    deal : 0..trick_type_global, i : Nat, valid : BOOLEAN]
Told == [type : 0..deals_read, hand : 0..deals_read]

ClientsTyped ==
    /\ wanted \in [Connections -> Seats]
    /\ client \in [Connections -> Clients]
    /\ answers \in [Connections -> Seq(Inputs)]
    /\ typed \in [Connections -> 0..MaxTyped] /\ resends \in 0..MaxResends

(* The trick an iterator that is still good points at is there; who is     *)
(* greeted has something to be told.                                       *)
IteratorsGood ==
    \A c \in Connections :
        /\ greeting[c].step = "taken" /\ greeting[c].valid
              => greeting[c].i < Len(taken_tricks)
        /\ greeting[c].step = "deal" => deals_read > 0
GreetingsTyped ==
    /\ trick_type_global \in 0..deals_read
    /\ taken_takers \in Seq(Seats) /\ Len(taken_takers) = Len(taken_tricks)
    /\ capacity \in Nat /\ capacity >= Len(taken_tricks)
    /\ greeting \in [Connections -> Greetings]
    /\ told \in [Connections -> Told]

(* What the server's own variables add to their types. *)
Bounded ==
    /\ Len(taken_tricks) <= Tricks
    /\ \A s \in Seats : cards[s] \subseteq DealtCards
    /\ \A c \in Connections : current_trick[c] <= Tricks

KInv ==
    /\ CardInv /\ Bounded
    /\ ClientsTyped /\ GreetingsTyped /\ IteratorsGood

LEMMA TypesFollow == KInv => KTypeOK
  <1>1. DealtCards \subseteq Card
    BY GameFileFacts DEF DealtCards
  <1> QED
    BY <1>1 DEF KInv, ClientsTyped, GreetingsTyped, Clients, Greetings, Told,
                KTypeOK
-----------------------------------------------------------------------------
(* Every step of the whole game is one of the server, or none of its.      *)
LEMMA ThreadsAreServers ==
  ASSUME TypeInv, ClientsTyped, NEW c \in Connections, Thread(c)
  PROVE  UNCHANGED vars \/ OwnStep(c) \/ PipeStep(c) \/ Environment(c)
  <1>1. CASE Greeting(c)
    BY <1>1 DEF Greeting, GreetDeal, GreetBegin, GreetTaken, GreetNext,
                GreetingSteps, NextTaken, OwnStep
  <1>2. CASE Silent(c)
    BY <1>2 DEF Silent, OwnStep, PipeStep, Environment
  <1>3. CASE KOnCardPlay(c) \/ KOnAnnouncement(c)
    BY <1>3 DEF KOnCardPlay, KOnAnnouncement, PipeStep
  <1>4. CASE Resend(c) \/ KNoSeat(c) \/ Breaks(c)
    BY <1>4 DEF Resend, KNoSeat, Breaks, Environment
  <1>5. CASE ReadAnswer(c)
    <2>1. answers[c] \in Seq(Inputs) /\ answers[c] # <<>>
      BY <1>5 DEF ReadAnswer, ClientsTyped
    <2>2. Head(answers[c]) \in Inputs
      BY <2>1
    <2> QED
      BY <1>5, <2>2 DEF ReadAnswer, Environment
  <1>6. CASE DrainAnswer(c)
    BY <1>6 DEF DrainAnswer, OwnStep
  <1>7. CASE KReserve(c)
    <2>1. wanted[c] \in Seats
      BY DEF ClientsTyped
    <2> QED
      BY <1>7, <2>1 DEF KReserve, Environment
  <1> QED
    BY <1>1, <1>2, <1>3, <1>4, <1>5, <1>6, <1>7 DEF Thread

LEMMA StepOfTheServer ==
  ASSUME TypeInv, ClientsTyped, [KNext]_kierkiVars
  PROVE  [Next]_vars
  <1>1. CASE KServer
    BY <1>1 DEF KServer, KReadDeal, KDealBegin, KTrickTaken, OtherServer, Server, Next
  <1>2. ASSUME NEW c \in Connections, Thread(c) PROVE [Next]_vars
    BY <1>2, ThreadsAreServers DEF Next
  <1>3. ASSUME NEW c \in Connections, NEW card, TypeCard(c, card)
        PROVE  [Next]_vars
    BY <1>3 DEF TypeCard
  <1>4. CASE UNCHANGED kierkiVars
    BY <1>4 DEF kierkiVars
  <1> QED
    BY <1>1, <1>2, <1>3, <1>4 DEF KNext
-----------------------------------------------------------------------------
(* What a client makes of a message. *)
LEMMA DealReceived ==
  ASSUME NEW k \in Clients, NEW deal, NEW hand \in SUBSET DealtCards, NEW s
  PROVE  Client!Received(k, Client!Deal(deal, hand), s) \in Clients
  <1> DEFINE message == Client!Deal(deal, hand)
  <1>1. /\ message.type = "DEAL" /\ message.hand = hand
        /\ message # Client!Score /\ message # Client!Total
        /\ ~Client!TAKEN_check(message, k.trick_number)
    <2>1. message.type = "DEAL" /\ message.hand = hand
      BY DEF Client!Deal
    <2>2. Client!Score.type = "SCORE" /\ Client!Total.type = "TOTAL"
      BY DEF Client!Score, Client!Total
    <2> QED
      BY <2>1, <2>2 DEF Client!TAKEN_check
  <1> HIDE DEF message
  <1>2. Client!OnDeal(k, message) \in Clients
    <2> DEFINE a == [k EXCEPT !.trick_number = 1]
               b == [a EXCEPT !.got_score = FALSE]
               c == [b EXCEPT !.got_total = FALSE]
               d == [c EXCEPT !.taken_tricks = <<>>]
               e == [d EXCEPT !.my_cards = message.hand]
    <2>1. a \in Clients
      <3>1. 1 \in 1..Tricks + 1
        BY ServerAssumption
      <3> QED
        BY <3>1 DEF Clients
    <2> HIDE DEF a
    <2>2. b \in Clients
      BY <2>1 DEF Clients
    <2> HIDE DEF b
    <2>3. c \in Clients
      BY <2>2 DEF Clients
    <2> HIDE DEF c
    <2>4. d \in Clients
      <3>1. <<>> \in Seq(Seq(Card))
        OBVIOUS
      <3> QED
        BY <2>3, <3>1 DEF Clients
    <2> HIDE DEF d
    <2>5. e \in Clients
      BY <1>1, <2>4 DEF Clients
    <2>6. Client!OnDeal(k, message) = e
      BY Zenon DEF Client!OnDeal, a, b, c, d
    <2> QED
      BY <2>5, <2>6
  <1>3. Client!Received(k, message, s) \in {k, Client!OnDeal(k, message)}
    BY <1>1 DEF Client!Received
  <1> QED
    BY <1>2, <1>3 DEF message

LEMMA TakenReceived ==
  ASSUME NEW k \in Clients, NEW number \in 0..Tricks, NEW table \in Seq(Card),
         NEW taker, NEW s
  PROVE  Client!Received(k, Client!Taken(number, table, taker), s) \in Clients
  <1> DEFINE message == Client!Taken(number, table, taker)
  <1>1. /\ message.type = "TAKEN" /\ message.number = number
        /\ message.table = table
        /\ ~Client!DEAL_check(message)
        /\ message # Client!Score /\ message # Client!Total
    <2>1. /\ message.type = "TAKEN" /\ message.number = number
          /\ message.table = table
      BY DEF Client!Taken
    <2>2. Client!Score.type = "SCORE" /\ Client!Total.type = "TOTAL"
      BY DEF Client!Score, Client!Total
    <2> QED
      BY <2>1, <2>2 DEF Client!DEAL_check
  <1> HIDE DEF message
  <1>2. ASSUME Client!TAKEN_check(message, k.trick_number)
        PROVE  Client!OnTaken(k, message, s) \in Clients
    <2>1. Client!StillHeld(k, table) \in SUBSET DealtCards
      BY DEF Client!StillHeld, Clients
    <2>2. /\ Append(k.taken_tricks, table) \in Seq(Seq(Card))
          /\ k.trick_number + 1 \in 1..Tricks + 1
      BY <1>1, <1>2, ServerAssumption DEF Clients, Client!TAKEN_check
    <2> QED
      BY <1>1, <2>1, <2>2 DEF Clients, Client!OnTaken
  <1>3. Client!Received(k, message, s) =
           IF Client!TAKEN_check(message, k.trick_number)
           THEN Client!OnTaken(k, message, s) ELSE k
    BY <1>1 DEF Client!Received
  <1> QED
    BY <1>2, <1>3 DEF message

LEMMA ScoreAndTotalReceived ==
  ASSUME NEW k \in Clients, NEW s
  PROVE  Client!Received(Client!Received(k, Client!Score, s), Client!Total, s)
            \in Clients
  <1>1. Client!Score.type = "SCORE" /\ Client!Total.type = "TOTAL"
    BY DEF Client!Score, Client!Total
  <1>2. \A m, n : m \in {Client!Score, Client!Total}
                  => ~Client!DEAL_check(m) /\ ~Client!TAKEN_check(m, n)
    BY <1>1 DEF Client!DEAL_check, Client!TAKEN_check
  <1>3. \A l : /\ Client!Received(l, Client!Score, s) = [l EXCEPT !.got_score = TRUE]
               /\ Client!Received(l, Client!Total, s) = [l EXCEPT !.got_total = TRUE]
    BY <1>1, <1>2 DEF Client!Received
  <1>4. \A l \in Clients : /\ [l EXCEPT !.got_score = TRUE] \in Clients
                           /\ [l EXCEPT !.got_total = TRUE] \in Clients
    BY DEF Clients
  <1> QED
    BY <1>3, <1>4

LEMMA TrickAnswered ==
  ASSUME NEW k \in Clients, NEW table, NEW card \in Client!Strategy(k, table)
  PROVE  Client!OnTrick(k, card) \in Clients /\ card \in DealtCards \cup {NoCard}
  <1>1. k.my_cards \in SUBSET DealtCards /\ card \in DealtCards \cup {NoCard}
    BY DEF Client!Strategy, Clients
  <1>2. /\ k.my_cards \ {card} \in SUBSET DealtCards
        /\ k.played_cards \cup ({card} \ {NoCard}) \in SUBSET DealtCards
    BY <1>1 DEF Clients
  <1> QED
    BY <1>1, <1>2 DEF Client!OnTrick, Clients
-----------------------------------------------------------------------------
LEMMA InitKInv == KInit => KInv
  <1> SUFFICES ASSUME KInit PROVE KInv
    OBVIOUS
  <1>1. Init /\ CardInv
    BY InitCardInv DEF KInit
  <1>2. Bounded
    BY <1>1, ServerAssumption DEF Init, Bounded
  <1>3. Client!NewClient \in Clients
    <2>1. 1 \in 1..Tricks + 1 /\ <<>> \in Seq(Seq(Card))
      BY ServerAssumption
    <2> QED
      BY <2>1 DEF Client!NewClient, Clients
  <1>4. ClientsTyped
    BY <1>3, KierkiAssumption, EmptyIsSeq DEF KInit, ClientsTyped
  <1>5. GreetingsTyped /\ IteratorsGood
    BY <1>1, EmptyIsSeq DEF KInit, Init, GreetingsTyped, IteratorsGood, NoGreeting,
                            Greetings, Told
  <1> QED
    BY <1>1, <1>2, <1>4, <1>5 DEF KInv

(* Only TrickTaken and a new deal change the tricks, only a new deal and   *)
(* plays the hands, and a thread asks for no other trick than the current. *)
LEMMA BoundedStep == CardInv /\ Bounded /\ [Next]_vars => Bounded'
  <1> SUFFICES ASSUME CardInv, Bounded, [Next]_vars PROVE Bounded'
    OBVIOUS
  <1>1. TypeOK /\ Recorded /\ Len(taken_tricks) \in Nat
    BY DEF CardInv, TypeInv, TypeOK
  <1>2. CASE UNCHANGED vars
    BY <1>2 DEF vars, gameVars, threadVars, Bounded
  <1>3. ASSUME NEW c \in Connections, OwnStep(c) \/ PipeStep(c) \/ Environment(c)
        PROVE  Bounded'
    <2>1. \/ UNCHANGED <<cards, taken_tricks>>
          \/ \E s \in Seats : \E card : CardPlayed(s, card)
      BY <1>3, ThreadPlays DEF CardInv
    <2>2. /\ taken_tricks' = taken_tricks
          /\ \A s \in Seats : cards'[s] \subseteq cards[s]
      BY <1>1, <2>1 DEF CardPlayed, TypeOK
    <2>3. \A d \in Connections : current_trick'[d] \in {current_trick[d], trick_number}
      <3> USE <1>1 DEF TypeOK
      <3>1. CASE OwnStep(c)
        BY <3>1 DEF OwnStep, Greet, Enter, LoopTop, Bye, Drain, Notify
      <3>2. CASE PipeStep(c)
        BY <3>2 DEF PipeStep, OnCardPlay, OnAnnouncement, OnBarrierResponse,
                    OnBarrierEnd, OnDisconnected
      <3>3. CASE Environment(c)
        BY <3>3 DEF Environment, Accept, NoSeat, GreetFails, SocketClosed, Timeout,
                    SendFails, Reserve, SocketMessage
      <3> QED
        BY <1>3, <3>1, <3>2, <3>3
    <2>4. trick_number <= Tricks
      BY <1>1, ServerAssumption DEF TypeOK
    <2> QED
      BY <2>2, <2>3, <2>4 DEF Bounded
  <1>4. CASE Server
    <2>1. current_trick' = current_trick
      BY <1>4, ServerLeavesThreads DEF threadVars
    <2>2. CASE ReadDeal
      <3>1. CASE taken_tricks' = taken_tricks /\ cards' = cards
        BY <2>1, <3>1 DEF Bounded
      <3>2. CASE ~(taken_tricks' = taken_tricks /\ cards' = cards)
        <4>1. /\ deals_read + 1 \in DOMAIN GameFile
              /\ cards' = GameFile[deals_read + 1].cards /\ taken_tricks' = <<>>
          <5>1. /\ deals_read < Len(GameFile) /\ taken_tricks' = <<>>
                /\ cards' = GameFile[deals_read + 1].cards
            BY <2>2, <3>2 DEF ReadDeal
          <5>2. deals_read \in Nat /\ Len(GameFile) \in Nat
            BY <1>1, GameFileFacts DEF TypeOK
          <5> QED
            BY <5>1, <5>2, GameFileFacts
        <4>2. \A s \in Seats : cards'[s] \subseteq DealtCards
          BY <4>1 DEF DealtCards
        <4> QED
          BY <2>1, <4>1, <4>2, ServerAssumption DEF Bounded
      <3> QED
        BY <3>1, <3>2
    <2>3. CASE TrickTaken
      <3>1. /\ trick_number = Len(taken_tricks) + 1 /\ trick_number \in 0..Tricks
            /\ taken_tricks' = Append(taken_tricks, cards_on_table)
            /\ cards' = cards /\ taken_tricks \in Seq(Seq(Card))
        BY <1>1, <2>3 DEF TrickTaken, Recorded, Playing, TypeOK
      <3>2. Len(taken_tricks') = Len(taken_tricks) + 1
        BY <3>1
      <3> QED
        BY <2>1, <3>1, <3>2, ServerAssumption DEF Bounded
    <2>4. CASE ~ReadDeal /\ ~TrickTaken
      <3>1. taken_tricks' = taken_tricks /\ cards' = cards
        BY <1>4, <2>4 DEF Server, BarrierBegin, BarrierPoll, BarrierCheck, BarrierScan,
           Scan, DealBegin, TrickBegin, TurnBegin, AskForCard, Poll, ScanEnd,
           SendScores, CloseServer, JoinThreads, gameVars
      <3> QED
        BY <2>1, <3>1 DEF Bounded
    <2> QED
      BY <2>2, <2>3, <2>4
  <1> QED
    BY <1>2, <1>3, <1>4 DEF Next
-----------------------------------------------------------------------------
(* What is sent to a client keeps it, and its answers, typed. *)
LEMMA TrickSent ==
  ASSUME ClientsTyped, NEW c \in Connections, NEW number, NEW table,
         SendTrick(c, number, table)
  PROVE  /\ client' \in [Connections -> Clients]
         /\ answers' \in [Connections -> Seq(Inputs)]
         /\ UNCHANGED <<wanted, typed, told>>
  <1>1. /\ client \in [Connections -> Clients]
        /\ answers \in [Connections -> Seq(Inputs)]
        /\ UNCHANGED <<wanted, typed, told>>
    BY DEF ClientsTyped, SendTrick
  <1>2. CASE UNCHANGED <<client, answers>>
    BY <1>1, <1>2
  <1>3. ASSUME NEW card \in Client!Strategy(client[c], table),
               client' = [client EXCEPT ![c] = Client!OnTrick(@, card)],
               answers' = [answers EXCEPT ![c] = Append(@, Answer(c, card))]
        PROVE  /\ client' \in [Connections -> Clients]
               /\ answers' \in [Connections -> Seq(Inputs)]
    <2>1. /\ Client!OnTrick(client[c], card) \in Clients
          /\ card \in DealtCards \cup {NoCard}
      BY <1>1, TrickAnswered
    <2>2. client[c].trick_number \in 1..Tricks + 1
      BY <1>1 DEF Clients
    <2>3. Answer(c, card) \in Inputs
      BY <2>1, <2>2, KierkiAssumption DEF Answer
    <2> QED
      BY <1>1, <1>3, <2>1, <2>3, AppendIsSeq
  <1> QED
    BY <1>1, <1>2, <1>3 DEF SendTrick

LEMMA DealSent ==
  ASSUME ClientsTyped, deals_read \in Nat, told \in [Connections -> Told],
         NEW c \in Connections, NEW deal \in 0..deals_read,
         NEW hand \in SUBSET DealtCards, SendDeal(c, deal, hand)
  PROVE  ClientsTyped' /\ told' \in [Connections -> Told]
  <1>1. client[c] \in Clients
    BY DEF ClientsTyped
  <1>2. Client!Received(client[c], Client!Deal(deal, hand), seat[c]) \in Clients
    BY <1>1, DealReceived
  <1>3. [type |-> deal, hand |-> deals_read] \in Told
    BY DEF Told
  <1> QED
    BY <1>2, <1>3 DEF SendDeal, SendOther, ClientsTyped

LEMMA TakenSent ==
  ASSUME ClientsTyped, NEW c \in Connections, NEW number \in 0..Tricks,
         NEW table \in Seq(Card), NEW taker, SendTaken(c, number, table, taker)
  PROVE  ClientsTyped' /\ UNCHANGED told
  <1>1. client[c] \in Clients
    BY DEF ClientsTyped
  <1>2. Client!Received(client[c], Client!Taken(number, table, taker), seat[c])
            \in Clients
    BY <1>1, TakenReceived
  <1> QED
    BY <1>2 DEF SendTaken, SendOther, ClientsTyped

LEMMA ScoresSent ==
  ASSUME ClientsTyped, NEW c \in Connections, SendScoreAndTotal(c)
  PROVE  ClientsTyped' /\ UNCHANGED told
  <1>1. client[c] \in Clients
    BY DEF ClientsTyped
  <1>2. Client!Received(Client!Received(client[c], Client!Score, seat[c]),
                        Client!Total, seat[c]) \in Clients
    BY <1>1, ScoreAndTotalReceived
  <1> QED
    BY <1>2 DEF SendScoreAndTotal, ClientsTyped

(* A thread sends a client what the server has: the hand of a seat, a      *)
(* trick that was taken or the cards of the table, each with its number.   *)
LEMMA ThreadsSend ==
  ASSUME KInv, NEW c \in Connections, Thread(c)
  PROVE  ClientsTyped' /\ told' \in [Connections -> Told]
  <1>1. /\ TypeOK /\ ClientsTyped /\ GreetingsTyped /\ Bounded
        /\ told \in [Connections -> Told] /\ deals_read \in Nat
        /\ trick_type_global \in 0..deals_read
        /\ Serves(c) => seat[c] \in Seats
    BY DEF KInv, CardInv, TypeInv, TypeOK, GreetingsTyped, ServesASeat
  <1>2. CASE UNCHANGED clientVars
    BY <1>1, <1>2 DEF clientVars, ClientsTyped
  <1>3. ASSUME NEW number, NEW table, SendTrick(c, number, table),
               resends' \in 0..MaxResends
        PROVE  ClientsTyped' /\ told' \in [Connections -> Told]
    BY <1>1, <1>3, TrickSent DEF ClientsTyped
  <1>4. CASE GreetDeal(c)
    <2>1. /\ SendDeal(c, greeting[c].deal, GameFile[deals_read].cards[seat[c]])
          /\ Serves(c) /\ deals_read > 0
      BY <1>4 DEF GreetDeal, Serves, Serving, KInv, IteratorsGood
    <2>2. greeting[c].deal \in 0..deals_read
      BY <1>1 DEF GreetingsTyped, Greetings
    <2>3. deals_read \in DOMAIN GameFile
      BY <1>1, <2>1, GameFileFacts DEF TypeOK
    <2>4. GameFile[deals_read].cards[seat[c]] \subseteq DealtCards
      BY <1>1, <2>1, <2>3 DEF DealtCards
    <2> QED
      BY <1>1, <2>1, <2>2, <2>4, DealSent
  <1>5. CASE GreetTaken(c) /\ greeting[c].valid
    <2> DEFINE i == greeting[c].i
    <2>1. SendTaken(c, i + 1, taken_tricks[i + 1], taken_takers[i + 1])
      BY <1>5 DEF GreetTaken, NumberOf
    <2>2. i \in Nat /\ i < Len(taken_tricks) /\ Len(taken_tricks) \in Nat
          /\ Len(taken_tricks) <= Tricks
      BY <1>1, <1>5 DEF GreetTaken, KInv, IteratorsGood, GreetingsTyped, Greetings,
                        Bounded, TypeOK
    <2>3. i + 1 \in 0..Tricks /\ i + 1 \in 1..Len(taken_tricks)
      BY <2>2, ServerAssumption
    <2>4. taken_tricks[i + 1] \in Seq(Card)
      <3>1. taken_tricks \in Seq(Seq(Card))
        BY <1>1, Zenon DEF TypeOK
      <3> QED
        BY <2>3, <3>1
    <2>5. ClientsTyped /\ told \in [Connections -> Told]
      BY <1>1
    <2> DEFINE number == i + 1  table == taken_tricks[i + 1]
               taker == taken_takers[i + 1]
    <2>6. number \in 0..Tricks /\ table \in Seq(Card) /\ SendTaken(c, number, table, taker)
      BY <2>1, <2>3, <2>4
    <2> HIDE DEF number, table, taker
    <2>7. ClientsTyped' /\ UNCHANGED told
      BY <2>5, <2>6, TakenSent
    <2> QED
      BY <2>5, <2>7
  <1>6. CASE GreetBegin(c) \/ GreetNext(c)
    <2>1. \/ UNCHANGED clientVars
          \/ SendTrick(c, trick_number, cards_on_table) /\ UNCHANGED resends
      BY <1>6 DEF GreetBegin, GreetNext, NextTaken
    <2> QED
      BY <1>1, <1>2, <1>3, <2>1 DEF ClientsTyped
  <1>7. CASE KOnCardPlay(c)
    BY <1>1, <1>3, <1>7 DEF KOnCardPlay, ClientsTyped
  <1>8. CASE KOnAnnouncement(c)
    <2>1. Serves(c) /\ seat[c] \in Seats
      BY <1>1, <1>8 DEF KOnAnnouncement, OnAnnouncement, ReadFromServer, Serves,
                        Serving
    <2>2. CASE SendDeal(c, trick_type_global, cards[seat[c]])
      <3>1. cards[seat[c]] \in SUBSET DealtCards
        BY <1>1, <2>1 DEF Bounded
      <3> QED
        BY <1>1, <2>2, <3>1, DealSent
    <2>3. CASE SendTaken(c, current_trick[c], cards_on_table, last_taker)
      <3>1. current_trick[c] \in 0..Tricks /\ cards_on_table \in Seq(Card)
        BY <1>1, ServerAssumption DEF Bounded, TypeOK
      <3>2. ClientsTyped' /\ UNCHANGED told
        BY <1>1, <2>3, <3>1, TakenSent
      <3> QED
        BY <1>1, <3>2
    <2>4. CASE SendScoreAndTotal(c)
      BY <1>1, <2>4, ScoresSent
    <2> QED
      BY <1>8, <2>2, <2>3, <2>4 DEF KOnAnnouncement, Announce
  <1>9. CASE Resend(c)
    <2>1. resends' \in 0..MaxResends
      BY <1>1, <1>9, KierkiAssumption DEF Resend, ClientsTyped
    <2> QED
      BY <1>3, <1>9, <2>1 DEF Resend
  <1>10. CASE ReadAnswer(c)
    <2>1. answers[c] \in Seq(Inputs) /\ answers[c] # <<>>
      BY <1>1, <1>10 DEF ReadAnswer, ClientsTyped
    <2>2. Tail(answers[c]) \in Seq(Inputs)
      BY <2>1, HeadTailOfSeq
    <2> QED
      BY <1>1, <1>10, <2>2 DEF ReadAnswer, ClientsTyped
  <1>11. CASE Breaks(c)
    BY <1>1, <1>11, EmptyIsSeq DEF Breaks, ClientsTyped
  <1>12. CASE \/ KReserve(c) \/ KNoSeat(c) \/ DrainAnswer(c) \/ Silent(c)
              \/ GreetTaken(c) /\ ~greeting[c].valid
    BY <1>2, <1>12 DEF KReserve, KNoSeat, DrainAnswer, Silent, GreetTaken
  <1> QED
    BY <1>4, <1>5, <1>6, <1>7, <1>8, <1>9, <1>10, <1>11, <1>12
       DEF Thread, Greeting
-----------------------------------------------------------------------------
(* A thread changes nothing a greeting counts on but its own place in it.  *)
LEMMA ThreadsLeaveDeals ==
  ASSUME KInv, NEW c \in Connections, Thread(c)
  PROVE  UNCHANGED <<deals_read, taken_tricks, trick_type_global, taken_takers,
                     capacity>>
  <1>1. UNCHANGED <<trick_type_global, taken_takers, capacity>>
    BY DEF Thread, Greeting, GreetDeal, GreetBegin, GreetTaken, GreetNext,
           GreetingSteps, Silent, KOnCardPlay, KOnAnnouncement, Resend, ReadAnswer,
           DrainAnswer, Breaks, KReserve, KNoSeat, greetVars
  <1>2. UNCHANGED vars \/ OwnStep(c) \/ PipeStep(c) \/ Environment(c)
    BY ThreadsAreServers DEF KInv, CardInv
  <1>3. CASE UNCHANGED vars
    BY <1>1, <1>3 DEF vars, mainVars, gameVars
  <1>4. CASE OwnStep(c) \/ PipeStep(c) \/ Environment(c)
    <2>1. deals_read' = deals_read
      <3>1. CASE OwnStep(c)
        BY <3>1 DEF OwnStep, Greet, Enter, LoopTop, Bye, Drain, Notify, mainVars
      <3>2. CASE PipeStep(c)
        BY <3>2 DEF PipeStep, OnCardPlay, OnAnnouncement, OnBarrierResponse,
                    OnBarrierEnd, OnDisconnected, mainVars
      <3>3. CASE Environment(c)
        BY <3>3 DEF Environment, Accept, NoSeat, GreetFails, SocketClosed, Timeout,
                    SendFails, Reserve, SocketMessage, mainVars
      <3> QED
        BY <1>4, <3>1, <3>2, <3>3
    <2>2. \/ taken_tricks' = taken_tricks
          \/ \E s \in Seats : \E card : CardPlayed(s, card)
      BY <1>4, ThreadPlays DEF KInv, CardInv
    <2> QED
      BY <1>1, <2>1, <2>2 DEF CardPlayed
  <1> QED
    BY <1>2, <1>3, <1>4

LEMMA ThreadsGreet ==
  ASSUME KInv, NEW c \in Connections, Thread(c)
  PROVE  greeting' \in [Connections -> Greetings] /\ IteratorsGood'
  <1>1. /\ greeting \in [Connections -> Greetings] /\ IteratorsGood
        /\ trick_type_global \in 0..deals_read
        /\ deals_read \in Nat /\ Len(taken_tricks) \in Nat
    BY DEF KInv, GreetingsTyped, CardInv, TypeInv, TypeOK
  <1>2. UNCHANGED <<deals_read, taken_tricks, trick_type_global>>
    BY ThreadsLeaveDeals
  <1>3. ASSUME NEW g \in Greetings, greeting' = [greeting EXCEPT ![c] = g],
               g.step = "taken" /\ g.valid => g.i < Len(taken_tricks),
               g.step = "deal" => deals_read > 0
        PROVE  greeting' \in [Connections -> Greetings] /\ IteratorsGood'
    <2>1. greeting' \in [Connections -> Greetings']
      BY <1>1, <1>2, <1>3 DEF Greetings
    <2>2. \A d \in Connections : greeting'[d] = IF d = c THEN g ELSE greeting[d]
      BY <1>1, <1>3
    <2>3. IteratorsGood'
      BY <1>1, <1>2, <1>3, <2>2 DEF IteratorsGood
    <2> QED
      BY <1>1, <1>2, <1>3, <2>3
  <1>4. CASE greeting' = greeting
    BY <1>1, <1>2, <1>4 DEF IteratorsGood
  <1>5. ASSUME NEW step \in {"begin", "sent"}, GreetingSteps(c, step)
        PROVE  greeting' \in [Connections -> Greetings] /\ IteratorsGood'
    <2> DEFINE g == [greeting[c] EXCEPT !.step = step]
    <2>1. greeting' = [greeting EXCEPT ![c] = g]
      BY <1>5 DEF GreetingSteps
    <2>2. g \in Greetings /\ g.step = step
      BY <1>1 DEF Greetings
    <2>3. g.step # "taken" /\ g.step # "deal"
      BY <2>2
    <2> HIDE DEF g
    <2> QED
      BY <1>3, <2>1, <2>2, <2>3
  <1>6. NoGreeting \in Greetings /\ NoGreeting.step = "none"
    BY <1>1 DEF NoGreeting, Greetings
  <1>7. ASSUME NEW i \in Nat, NEW valid \in BOOLEAN, NextTaken(c, i, valid)
        PROVE  greeting' \in [Connections -> Greetings] /\ IteratorsGood'
    <2>1. CASE /\ i < Len(taken_tricks)
               /\ greeting' = [greeting EXCEPT ![c].step = "taken", ![c].i = i,
                                                ![c].valid = valid]
      <3> DEFINE g == [step |-> "taken", deal |-> greeting[c].deal, i |-> i,
                       valid |-> valid]
      <3>1. greeting' = [greeting EXCEPT ![c] = g]
        <4> DEFINE p == [greeting EXCEPT ![c].step = "taken"]
                   q == [p EXCEPT ![c].i = i]
        <4>1. /\ p \in [Connections -> Greetings] /\ p[c].step = "taken"
              /\ p[c].deal = greeting[c].deal
              /\ \A d \in Connections \ {c} : p[d] = greeting[d]
          BY <1>1 DEF Greetings
        <4>2. greeting' = [q EXCEPT ![c].valid = valid]
          BY <2>1, Zenon
        <4> HIDE DEF p
        <4>3. /\ q \in [Connections -> Greetings] /\ q[c].step = "taken"
              /\ q[c].deal = greeting[c].deal /\ q[c].i = i
              /\ \A d \in Connections \ {c} : q[d] = greeting[d]
          BY <4>1 DEF Greetings
        <4> HIDE DEF q
        <4>4. /\ greeting' \in [Connections -> Greetings] /\ greeting'[c] = g
              /\ \A d \in Connections \ {c} : greeting'[d] = greeting[d]
          BY <4>2, <4>3 DEF Greetings
        <4> QED
          BY <1>1, <4>4
      <3>2. g \in Greetings /\ g.step = "taken" /\ g.i = i
        BY <1>1 DEF Greetings
      <3> HIDE DEF g
      <3> QED
        BY <1>3, <2>1, <3>1, <3>2
    <2>2. CASE greeting' = [greeting EXCEPT ![c] = NoGreeting]
      BY <1>3, <1>6, <2>2
    <2> QED
      BY <1>7, <2>1, <2>2 DEF NextTaken
  <1>8. CASE KReserve(c)
    <2> DEFINE g == [step |-> "deal", deal |-> trick_type_global, i |-> 0,
                     valid |-> FALSE]
    <2>1. CASE DealIsOn
      <3>1. greeting' = [greeting EXCEPT ![c] = g] /\ deals_read > 0
        BY <1>1, <1>8, <2>1 DEF KReserve, DealIsOn
      <3>2. g \in Greetings /\ g.step = "deal"
        BY <1>1 DEF Greetings
      <3> HIDE DEF g
      <3> QED
        BY <1>3, <3>1, <3>2
    <2> QED
      BY <1>4, <1>8, <2>1 DEF KReserve
  <1>9. CASE Breaks(c)
    BY <1>3, <1>6, <1>9 DEF Breaks
  <1>10. CASE GreetDeal(c) \/ GreetTaken(c)
    BY <1>5, <1>10 DEF GreetDeal, GreetTaken
  <1>11. CASE GreetBegin(c)
    BY <1>7, <1>11 DEF GreetBegin
  <1>12. CASE GreetNext(c)
    <2>1. greeting[c].i + 1 \in Nat /\ greeting[c].valid \in BOOLEAN
      BY <1>1 DEF Greetings
    <2> QED
      BY <1>7, <1>12, <2>1 DEF GreetNext
  <1>13. CASE \/ Silent(c) \/ KOnCardPlay(c) \/ KOnAnnouncement(c) \/ Resend(c)
              \/ ReadAnswer(c) \/ DrainAnswer(c) \/ KNoSeat(c)
    BY <1>4, <1>13 DEF Silent, KOnCardPlay, KOnAnnouncement, Resend, ReadAnswer,
                       DrainAnswer, KNoSeat, greetVars
  <1> QED
    BY <1>8, <1>9, <1>10, <1>11, <1>12, <1>13 DEF Thread, Greeting

(* Somebody types a card. *)
LEMMA CardTyped ==
  ASSUME KInv, NEW c \in Connections, NEW card \in client[c].my_cards,
         TypeCard(c, card)
  PROVE  ClientsTyped'
  <1>1. /\ client[c].trick_number \in 1..Tricks + 1 /\ card \in DealtCards
        /\ typed[c] \in 0..MaxTyped /\ ClientsTyped
    BY DEF KInv, ClientsTyped, Clients
  <1>2. Answer(c, card) \in Inputs
    BY <1>1, KierkiAssumption DEF Answer
  <1>3. Append(answers[c], Answer(c, card)) \in Seq(Inputs)
    BY <1>1, <1>2, AppendIsSeq DEF ClientsTyped
  <1>4. typed[c] + 1 \in 0..MaxTyped
    BY <1>1, KierkiAssumption DEF TypeCard
  <1> QED
    BY <1>1, <1>3, <1>4 DEF TypeCard, ClientsTyped

(* The main thread: a new deal and a trick that is taken.                  *)
LEMMA ServerKeepsGreetings ==
  ASSUME KInv, KServer
  PROVE  GreetingsTyped' /\ IteratorsGood'
  <1>1. /\ GreetingsTyped /\ IteratorsGood /\ TypeOK
        /\ deals_read \in Nat /\ Len(taken_tricks) \in Nat
    BY DEF KInv, CardInv, TypeInv, TypeOK
  <1>2. ASSUME trick_type_global' \in {trick_type_global, deals_read},
               deals_read' \in {deals_read, deals_read + 1},
               told' = told, greeting' \in {greeting, Invalidated}
        PROVE  /\ trick_type_global' \in 0..deals_read'
               /\ greeting' \in [Connections -> Greetings']
               /\ told' \in [Connections -> Told']
    <2>1. /\ trick_type_global' \in 0..deals_read'
          /\ trick_type_global \in Nat /\ trick_type_global <= trick_type_global'
      BY <1>1, <1>2 DEF GreetingsTyped
    <2>2. \A g \in Greetings : g \in Greetings' /\ [g EXCEPT !.valid = FALSE] \in Greetings'
      <3> SUFFICES ASSUME NEW g \in Greetings
                   PROVE  g \in Greetings' /\ [g EXCEPT !.valid = FALSE] \in Greetings'
        OBVIOUS
      <3>1. g.deal \in 0..trick_type_global
        BY DEF Greetings
      <3>2. g.deal \in 0..trick_type_global'
        BY <1>1, <1>2, <2>1, <3>1
      <3>3. g \in Greetings'
        BY <3>2 DEF Greetings
      <3> QED
        BY <3>3 DEF Greetings
    <2>3. \A t \in Told : t \in Told'
      BY <1>1, <1>2 DEF Told
    <2> QED
      BY <1>1, <1>2, <2>1, <2>2, <2>3 DEF GreetingsTyped, Invalidated
  <1>3. ASSUME UNCHANGED <<deals_read, taken_tricks, greetVars, told>>
        PROVE  GreetingsTyped' /\ IteratorsGood'
    BY <1>1, <1>3 DEF GreetingsTyped, IteratorsGood, greetVars, Greetings, Told
  <1>4. \A c \in Connections : Invalidated[c].step = greeting[c].step
                               /\ Invalidated[c].valid = FALSE
    BY <1>1 DEF Invalidated, GreetingsTyped, Greetings
  <1>5. CASE KReadDeal
    <2>1. CASE server' = "run_deal"
      <3>1. /\ taken_takers' = <<>> /\ taken_tricks' = <<>>
            /\ deals_read' = deals_read + 1 /\ capacity' = capacity
            /\ trick_type_global' = trick_type_global /\ told' = told
            /\ greeting' = Invalidated
        BY <1>5, <2>1 DEF KReadDeal, ReadDeal, clientVars
      <3>2. GreetingsTyped'
        BY <1>1, <1>2, <3>1, EmptyIsSeq DEF GreetingsTyped
      <3>3. IteratorsGood'
        BY <1>1, <1>4, <3>1 DEF IteratorsGood
      <3> QED
        BY <3>2, <3>3
    <2>2. CASE server' # "run_deal"
      BY <1>3, <1>5, <2>2 DEF KReadDeal, ReadDeal, clientVars, greetVars
    <2> QED
      BY <2>1, <2>2
  <1>6. CASE KDealBegin
    <2>1. /\ UNCHANGED <<deals_read, taken_tricks, told, taken_takers, capacity,
                          greeting>>
          /\ trick_type_global' = deals_read
      BY <1>6 DEF KDealBegin, DealBegin, clientVars
    <2> QED
      BY <1>1, <1>2, <2>1 DEF GreetingsTyped, IteratorsGood
  <1>7. CASE KTrickTaken
    <2>1. /\ taken_tricks' = Append(taken_tricks, cards_on_table)
          /\ taken_takers' = Append(taken_takers, last_taker')
          /\ UNCHANGED <<deals_read, told, trick_type_global>>
          /\ greeting' \in {greeting, Invalidated}
      BY <1>7 DEF KTrickTaken, TrickTaken, clientVars
    <2>2. last_taker' \in Seats
      <3>1. Takers \subseteq Seats
        BY DEF Takers
      <3> QED
        BY <1>7, <3>1 DEF KTrickTaken, TrickTaken
    <2>3. Len(taken_tricks') = Len(taken_tricks) + 1
      BY <1>1, <2>1 DEF TypeOK
    <2>4. /\ taken_takers' \in Seq(Seats) /\ Len(taken_takers') = Len(taken_takers) + 1
      BY <1>1, <2>1, <2>2, AppendIsSeq DEF GreetingsTyped
    <2>5. capacity' \in Nat /\ capacity' >= Len(taken_tricks')
      BY <1>1, <1>7, <2>3 DEF KTrickTaken, GreetingsTyped
    <2>6. GreetingsTyped'
      BY <1>1, <1>2, <2>1, <2>3, <2>4, <2>5 DEF GreetingsTyped
    <2>7. IteratorsGood'
      <3>1. \A c \in Connections : greeting[c].i \in Nat
        BY <1>1 DEF GreetingsTyped, Greetings
      <3> QED
        BY <1>1, <1>4, <2>1, <2>3, <3>1 DEF IteratorsGood
    <2> QED
      BY <2>6, <2>7
  <1>8. CASE OtherServer
    <2>1. server \notin {"read_deal", "run_deal", "taken"} /\ Server
      BY <1>8 DEF OtherServer
    <2>2. UNCHANGED <<deals_read, taken_tricks>>
      BY <2>1 DEF Server, BarrierBegin, BarrierPoll, BarrierCheck, BarrierScan,
         ReadDeal, DealBegin, TrickBegin, TurnBegin, AskForCard, Poll, Scan, ScanEnd,
         TrickTaken, SendScores, CloseServer, JoinThreads, gameVars
    <2> QED
      BY <1>3, <1>8, <2>2 DEF OtherServer, clientVars
  <1> QED
    BY <1>5, <1>6, <1>7, <1>8 DEF KServer
-----------------------------------------------------------------------------
LEMMA KInvStep == KInv /\ [KNext]_kierkiVars => KInv'
  <1> SUFFICES ASSUME KInv, [KNext]_kierkiVars PROVE KInv'
    OBVIOUS
  <1>1. /\ CardInv /\ Bounded /\ TypeInv /\ [Next]_vars
        /\ ClientsTyped /\ GreetingsTyped /\ IteratorsGood
    BY StepOfTheServer DEF KInv, CardInv
  <1>2. CardInv' /\ Bounded'
    BY <1>1, CardInvStep, BoundedStep
  <1>3. CASE KServer
    <2>1. UNCHANGED clientVars
      BY <1>3 DEF KServer, KReadDeal, KDealBegin, KTrickTaken, OtherServer
    <2>2. ClientsTyped'
      BY <1>1, <2>1 DEF ClientsTyped, clientVars
    <2> QED
      BY <1>2, <1>3, <2>2, ServerKeepsGreetings DEF KInv
  <1>4. ASSUME NEW c \in Connections, Thread(c) PROVE KInv'
    <2>1. UNCHANGED <<deals_read, taken_tricks, trick_type_global, taken_takers,
                      capacity>>
      BY <1>4, ThreadsLeaveDeals
    <2>2. ClientsTyped' /\ told' \in [Connections -> Told]
      BY <1>4, ThreadsSend
    <2>3. greeting' \in [Connections -> Greetings] /\ IteratorsGood'
      BY <1>4, ThreadsGreet
    <2>4. GreetingsTyped'
      BY <1>1, <2>1, <2>2, <2>3 DEF GreetingsTyped, Greetings, Told
    <2> QED
      BY <1>2, <2>2, <2>3, <2>4 DEF KInv
  <1>5. ASSUME NEW c \in Connections, NEW card \in client[c].my_cards,
               TypeCard(c, card)
        PROVE  KInv'
    <2>1. UNCHANGED <<vars, told, greetVars>>
      BY <1>5 DEF TypeCard
    <2>2. GreetingsTyped' /\ IteratorsGood'
      BY <1>1, <2>1 DEF GreetingsTyped, IteratorsGood, Greetings, Told, greetVars,
                        vars, mainVars, gameVars
    <2> QED
      BY <1>2, <1>5, <2>2, CardTyped DEF KInv
  <1>6. CASE UNCHANGED kierkiVars
    <2>1. ClientsTyped'
      BY <1>1, <1>6 DEF ClientsTyped, kierkiVars, clientVars
    <2>2. GreetingsTyped' /\ IteratorsGood'
      BY <1>1, <1>6 DEF GreetingsTyped, IteratorsGood, Greetings, Told, greetVars,
                        kierkiVars, clientVars, vars, mainVars, gameVars
    <2> QED
      BY <1>2, <2>1, <2>2 DEF KInv
  <1> QED
    BY <1>3, <1>4, <1>5, <1>6 DEF KNext

LEMMA KInvHolds == KSpec => []KInv
  <1> QED
    BY InitKInv, KInvStep, PTL DEF KSpec

(* What the clients know keeps its type: none gets past the last trick of  *)
(* a deal, none knows a card that is none, whatever it answers is an input *)
(* the server was modelled for, and a greeting never tells of a deal or a  *)
(* trick that is not there, whoever comes, leaves or types when.           *)
THEOREM ClientsAndServerTyped == KSpec => []KTypeOK
  <1> QED
    BY KInvHolds, TypesFollow, PTL

(* The server among real clients is the server of Serwer: no message of a  *)
(* client of klient.cpp, no resent TRICK and no step of a greeting makes   *)
(* it do what it could not do among arbitrary inputs.                      *)
THEOREM ServerAmongClients == KSpec => Spec
  <1>1. KInit => Init
    BY DEF KInit
  <1>2. KInv /\ [KNext]_kierkiVars => [Next]_vars
    BY StepOfTheServer DEF KInv, CardInv
  <1> QED
    BY <1>1, <1>2, KInvHolds, PTL DEF KSpec, Spec

(* So among real clients a seat is served by one thread, each card dealt   *)
(* is in one place, and while nobody leaves it is TrickGame that is played *)
(* between them, deal by deal to the end of the file.                      *)
THEOREM GameIsPlayedAmongClients ==
  /\ KSpec => [](SeatExclusive /\ CardPlayedOnce)
  /\ KSpec /\ []NobodyLeft => GameSpec
  <1> QED
    BY ServerAmongClients, SeatsAreExclusive, CardsArePlayedOnce, GameIsPlayed, PTL
=============================================================================
