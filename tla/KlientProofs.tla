---------------------------- MODULE KlientProofs ----------------------------
(***************************************************************************)
(* The safety of one client, for every hand, every number of tricks and of *)
(* messages, every table the server may show and every user: there is a    *)
(* queued card for each byte the worker is told, what the user types goes  *)
(* out once and in order, and success means the game came to its end.      *)
(***************************************************************************)
EXTENDS KlientProperties, SequenceTheorems, TLAPS

TheDeal == Deal(1, Hand)

(* All the server can send. *)
Messages ==
    {Busy, TheDeal, Wrong, Score, Total}
        \cup {Trick(n, table) : n \in 1..Tricks, table \in Tables}
        \cup {Taken(n, table, taker) :
                 n \in 1..Tricks, table \in TakenTables, taker \in Seats}

(* TypeOK of the properties, and the messages in the socket. *)
TypeInv == TypeOK /\ to_client \in Seq(Messages)

(* Before the worker runs nothing was typed, sent or said. *)
NotStarted ==
    /\ main = "prepare" => worker = "none"
    /\ worker = "none" =>
        /\ main \in {"prepare", "exited"}
        /\ typed = <<>> /\ messages_to_send = <<>>
        /\ to_client = <<>> /\ to_server = <<>>
        /\ said = "nothing"
        /\ client.got_total = FALSE

(* A BUSY is the only thing a refused client is sent.                      *)
BusyIsLast ==
    \A i \in DOMAIN to_client : to_client[i] = Busy => said = "busy"

(* The TOTAL at place j of what the worker has to read (0: it has read     *)
(* one) is of an earlier deal when the server has dealt since.             *)
HasTotal(j) ==
    IF j = 0 THEN client.got_total ELSE to_client[j] = Total
DealtSince(j) ==
    \E i \in DOMAIN to_client : i > j /\ to_client[i] = TheDeal
TotalsAreOver ==
    worker \in {"none", "poll"} /\ said \notin {"busy", "total"} =>
        \A j \in {0} \cup DOMAIN to_client : HasTotal(j) => DealtSince(j)

(* What the server says after the end: nothing. *)
Over == said = "busy" \/ (said = "total" /\ ~connected)
NormalEnd ==
    (status = 0 \/ \E i \in DOMAIN client_read_pipe :
                      client_read_pipe[i] = NORMAL_END) => Over

ClientInv ==
    /\ TypeInv /\ NotStarted
    /\ CardForEveryByte /\ TypedInOrder
    /\ BusyIsLast /\ TotalsAreOver /\ NormalEnd
-----------------------------------------------------------------------------
LEMMA MessageFields ==
  ASSUME NEW message \in Messages
  PROVE  /\ message.type = "DEAL" => message = TheDeal /\ message.hand = Hand
         /\ message.type = "TAKEN" => message.table \in Seq(Card)
         /\ message # Busy => message.type # "BUSY"
  BY KlientAssumption
     DEF Messages, TheDeal, Busy, Deal, Wrong, Score, Total, Trick, Taken

Clients ==
    [trick_number : Nat, my_cards : SUBSET Card,
     played_cards : SUBSET Card, taken_tricks : Seq(Seq(Card)),
     got_score : BOOLEAN, got_total : BOOLEAN]

(* A message is of one kind. *)
LEMMA OneCase ==
  ASSUME NEW message
  PROVE  /\ ~(DEAL_check(message) /\ TAKEN_check(message, client.trick_number))
         /\ ~(DEAL_check(message) /\ message \in {Score, Total})
         /\ ~(TAKEN_check(message, client.trick_number)
                 /\ message \in {Score, Total})
         /\ Score # Total
  <1>1. /\ message = Score => message.type = "SCORE"
        /\ message = Total => message.type = "TOTAL"
        /\ Score.type = "SCORE" /\ Total.type = "TOTAL"
    BY DEF Score, Total
  <1> QED
    BY <1>1 DEF DEAL_check, TAKEN_check

(* A message keeps the members of the client typed. *)
LEMMA ReceivedTyped ==
  ASSUME client \in Clients, NEW message \in Messages
  PROVE  Received(client, message, Seat) \in Clients
  <1>1. CASE DEAL_check(message)
    <2>1. message.hand \in SUBSET Card
      BY <1>1, MessageFields, KlientAssumption DEF DEAL_check
    <2> DEFINE a == [client EXCEPT !.trick_number = 1]
               b == [a EXCEPT !.got_score = FALSE]
               c == [b EXCEPT !.got_total = FALSE]
               d == [c EXCEPT !.taken_tricks = <<>>]
               e == [d EXCEPT !.my_cards = message.hand]
    <2>2. a \in Clients
      BY DEF Clients
    <2>3. b \in Clients
      <3> HIDE DEF a
      <3> QED
        BY <2>2 DEF Clients
    <2>4. c \in Clients
      <3> HIDE DEF b
      <3> QED
        BY <2>3 DEF Clients
    <2>5. d \in Clients
      <3> HIDE DEF c
      <3>1. <<>> \in Seq(Seq(Card))
        OBVIOUS
      <3> QED
        BY <2>4, <3>1 DEF Clients
    <2>6. e \in Clients
      <3> HIDE DEF d
      <3> QED
        BY <2>1, <2>5 DEF Clients
    <2>7. OnDeal(client, message) = e
      BY Zenon DEF OnDeal
    <2> QED
      BY <1>1, <2>6, <2>7, OneCase DEF Received
  <1>2. CASE TAKEN_check(message, client.trick_number)
    <2>1. message.table \in Seq(Card)
      BY <1>2, MessageFields DEF TAKEN_check
    <2>2. StillHeld(client, message.table) \in SUBSET Card
      BY DEF StillHeld, Clients
    <2>3. /\ Append(client.taken_tricks, message.table) \in Seq(Seq(Card))
          /\ client.trick_number + 1 \in Nat
      BY <2>1 DEF Clients
    <2>4. OnTaken(client, message, Seat) \in Clients
      BY <2>2, <2>3 DEF Clients, OnTaken
    <2> QED
      BY <1>2, <2>4, OneCase DEF Received
  <1>3. CASE message \in {Score, Total}
    <2>1. /\ [client EXCEPT !.got_score = TRUE] \in Clients
          /\ [client EXCEPT !.got_total = TRUE] \in Clients
      BY DEF Clients
    <2> QED
      BY <1>3, <2>1, OneCase DEF Received
  <1>4. CASE /\ ~DEAL_check(message)
             /\ ~TAKEN_check(message, client.trick_number)
             /\ message \notin {Score, Total}
    BY <1>4 DEF Received
  <1> QED
    BY <1>1, <1>2, <1>3, <1>4

LEMMA StrategyTyped ==
  ASSUME client \in Clients, NEW table, NEW card \in Strategy(client, table)
  PROVE  /\ card \in Card \cup {NoCard}
         /\ OnTrick(client, card) \in Clients
  <1>1. client.my_cards \in SUBSET Card /\ card \in Card \cup {NoCard}
    BY DEF Strategy, Clients
  <1>2. /\ client.my_cards \ {card} \in SUBSET Card
        /\ client.played_cards \cup ({card} \ {NoCard}) \in SUBSET Card
    BY <1>1 DEF Clients
  <1> QED
    BY <1>1, <1>2 DEF OnTrick, Clients
-----------------------------------------------------------------------------
LEMMA InitType == Init => TypeInv
  BY KlientAssumption DEF Init, TypeInv, TypeOK, NewClient

(* The bytes and the members of one message out. *)
LEMMA SendTyped ==
  ASSUME TypeInv, NEW number \in Nat, NEW card \in Card \cup {NoCard},
         Send(number, card)
  PROVE  /\ worker' \in {worker, "close"}
         /\ client_read_pipe'
               \in Seq({DISCONNECTED, SERVER_DISCONNECT, NORMAL_END})
         /\ to_server' \in Seq([trick : Nat, card : Card \cup {NoCard}])
  <1>1. [trick |-> number, card |-> card]
            \in [trick : Nat, card : Card \cup {NoCard}]
    OBVIOUS
  <1>2. /\ client_read_pipe
               \in Seq({DISCONNECTED, SERVER_DISCONNECT, NORMAL_END})
        /\ to_server \in Seq([trick : Nat, card : Card \cup {NoCard}])
    BY DEF TypeInv, TypeOK
  <1>3. /\ Append(client_read_pipe, DISCONNECTED)
               \in Seq({DISCONNECTED, SERVER_DISCONNECT, NORMAL_END})
        /\ Append(to_server, [trick |-> number, card |-> card])
               \in Seq([trick : Nat, card : Card \cup {NoCard}])
    BY <1>1, <1>2, AppendProperties
  <1> QED
    BY <1>2, <1>3 DEF Send, CloseWorker

LEMMA MainType == TypeInv /\ (Main \/ User) => TypeInv'
  <1> SUFFICES ASSUME TypeInv, Main \/ User PROVE TypeInv'
    OBVIOUS
  <1> USE DEF TypeInv, TypeOK
  <1>1. CASE Prepare
    BY <1>1 DEF Prepare, sharedVars, serverVars
  <1>2. CASE TellWorker
    BY <1>2 DEF TellWorker, workerVars, serverVars
  <1>3. CASE Command \/ TypeCommand
    BY <1>3 DEF Command, TypeCommand, sharedVars, workerVars, serverVars
  <1>4. CASE OnWorkerByte
    BY <1>4 DEF OnWorkerByte, workerVars, serverVars
  <1>5. CASE JoinWorker
    BY <1>5 DEF JoinWorker, sharedVars, workerVars, serverVars
  <1>6. ASSUME NEW card \in Hand, TypeCard(card) PROVE TypeInv'
    <2>1. card \in Card
      BY KlientAssumption
    <2> QED
      BY <1>6, <2>1 DEF TypeCard, Queue, workerVars, serverVars
  <1> QED
    BY <1>1, <1>2, <1>3, <1>4, <1>5, <1>6 DEF Main, User

LEMMA WorkerType == TypeInv /\ Worker => TypeInv'
  <1> SUFFICES ASSUME TypeInv, Worker PROVE TypeInv'
    OBVIOUS
  <1>1. CASE OnCardPlay
    <2>1. Head(messages_to_send) \in Card /\ client.trick_number \in Nat
      BY <1>1 DEF TypeInv, TypeOK, OnCardPlay
    <2>2. Send(client.trick_number, Head(messages_to_send))
      BY <1>1 DEF OnCardPlay
    <2>3. /\ worker' \in {worker, "close"}
          /\ client_read_pipe'
                \in Seq({DISCONNECTED, SERVER_DISCONNECT, NORMAL_END})
          /\ to_server' \in Seq([trick : Nat, card : Card \cup {NoCard}])
      BY <2>1, <2>2, SendTyped
    <2> QED
      BY <1>1, <2>3
         DEF OnCardPlay, TypeInv, TypeOK, mainVars, serverVars
  <1>2. CASE OnBusy
    BY <1>2 DEF OnBusy, UnlockForUser, CloseWorker, TypeInv, TypeOK, mainVars
  <1>3. CASE OnMessage
    <2>1. /\ UNCHANGED <<is_ai, mainVars, access_mutex, messages_to_send,
                         client_write_pipe, said, sent, connected>>
          /\ to_client' = Tail(to_client) /\ to_client # <<>>
      BY <1>3 DEF OnMessage
    <2>2. /\ client \in Clients /\ Head(to_client) \in Messages
          /\ to_client' \in Seq(Messages)
      BY <2>1 DEF TypeInv, TypeOK, Clients
    <2> DEFINE SentTyped ==
            /\ client' \in Clients
            /\ worker' \in {worker, "close"}
            /\ client_read_pipe'
                  \in Seq({DISCONNECTED, SERVER_DISCONNECT, NORMAL_END})
            /\ to_server' \in Seq([trick : Nat, card : Card \cup {NoCard}])
    <2>3. SentTyped
      <3>1. CASE /\ client' = Received(client, Head(to_client), Seat)
                 /\ UNCHANGED <<worker, client_read_pipe, to_server>>
        BY <2>2, <3>1, ReceivedTyped DEF TypeInv, TypeOK
      <3>2. ASSUME NEW card \in Strategy(client, Head(to_client).table),
                   client' = OnTrick(client, card),
                   Send(client.trick_number, card)
            PROVE  SentTyped
        <4>1. client.trick_number \in Nat
          BY <2>2 DEF Clients
        <4> QED
          BY <2>2, <3>2, <4>1, StrategyTyped, SendTyped
      <3> QED
        BY <1>3, <3>1, <3>2 DEF OnMessage
    <2> QED
      BY <2>1, <2>2, <2>3 DEF TypeInv, TypeOK, Clients, mainVars
  <1>4. CASE OnServerEnd
    BY <1>4 DEF OnServerEnd, CloseWorker, TypeInv, TypeOK, mainVars, serverVars
  <1>5. CASE OnReset
    BY <1>5 DEF OnReset, CloseWorker, TypeInv, TypeOK, mainVars
  <1>6. CASE CloseSocket
    BY <1>6 DEF CloseSocket, TypeInv, TypeOK, mainVars, sharedVars, serverVars
  <1> QED
    BY <1>1, <1>2, <1>3, <1>4, <1>5, <1>6 DEF Worker

(* A server that says something adds it to what the worker has to read.    *)
LEMMA ServerSays ==
  ASSUME Server
  PROVE  \/ \E message \in Messages, last \in {"busy", "deal", "score", "total"} :
               /\ Say(message, last)
               /\ last = "busy" <=> message = Busy
               /\ message = Total => last = "total"
               /\ last = "total" => said = "score"
               /\ said = "total" => message = TheDeal
               /\ said # "busy"
         \/ Closes
  <1>1. /\ TheDeal.type = "DEAL" /\ Busy.type = "BUSY" /\ Wrong.type = "WRONG"
        /\ Score.type = "SCORE" /\ Total.type = "TOTAL"
        /\ \A n, table : Trick(n, table).type = "TRICK"
        /\ \A n, table, taker : Taken(n, table, taker).type = "TAKEN"
    BY DEF TheDeal, Deal, Busy, Wrong, Score, Total, Trick, Taken
  <1>2. CASE Refuses
    BY <1>1, <1>2 DEF Refuses, Messages
  <1>3. CASE Deals
    BY <1>1, <1>3 DEF Deals, Messages, TheDeal
  <1>4. CASE Asks
    BY <1>1, <1>4 DEF Asks, Messages
  <1>5. CASE Takes
    BY <1>1, <1>5 DEF Takes, Messages
  <1>6. CASE Corrects
    BY <1>1, <1>6 DEF Corrects, Messages
  <1>7. CASE Scores
    BY <1>1, <1>7 DEF Scores, Messages
  <1>8. CASE Totals
    BY <1>1, <1>8 DEF Totals, Messages
  <1> QED
    BY <1>2, <1>3, <1>4, <1>5, <1>6, <1>7, <1>8 DEF Server

LEMMA ServerType == TypeInv /\ Server => TypeInv'
  <1> SUFFICES ASSUME TypeInv, Server PROVE TypeInv'
    OBVIOUS
  <1>1. ASSUME NEW message \in Messages,
               NEW last \in {"busy", "deal", "score", "total"},
               Say(message, last)
        PROVE  TypeInv'
    <2>1. sent + 1 \in 0..MaxSent
      BY <1>1, KlientAssumption DEF Say, TypeInv, TypeOK
    <2> QED
      BY <1>1, <2>1
         DEF Say, TypeInv, TypeOK, mainVars, sharedVars, workerVars
  <1>2. CASE Closes
    <2>1. /\ connected' \in BOOLEAN
          /\ UNCHANGED <<is_ai, main, status, typed, access_mutex,
                         messages_to_send, client_write_pipe, client_read_pipe,
                         worker, client, to_server, to_client, said, sent>>
      BY <1>2 DEF Closes, mainVars, sharedVars, workerVars
    <2> QED
      BY <2>1 DEF TypeInv, TypeOK
  <1> QED
    BY <1>1, <1>2, ServerSays

LEMMA TypeStep == TypeInv /\ [Next]_vars => TypeInv'
  <1>1. TypeInv /\ UNCHANGED vars => TypeInv'
    BY DEF TypeInv, TypeOK, vars, mainVars, sharedVars, workerVars, serverVars
  <1> QED
    BY <1>1, MainType, WorkerType, ServerType DEF Next

(* A client's variables keep their types. *)
THEOREM ClientTyped == Spec => []TypeOK
  <1>1. TypeInv => TypeOK
    BY DEF TypeInv
  <1> QED
    BY <1>1, InitType, TypeStep, PTL DEF Spec
-----------------------------------------------------------------------------
(* A card is queued before its byte is written and both are taken at once. *)
LEMMA CardStep ==
  TypeInv /\ TypeInv' /\ CardForEveryByte /\ [Next]_vars => CardForEveryByte'
  <1> SUFFICES ASSUME TypeInv, TypeInv', CardForEveryByte, [Next]_vars
               PROVE  CardForEveryByte'
    OBVIOUS
  <1>1. /\ messages_to_send \in Seq(Card) /\ client_write_pipe \in Seq({CARD_PLAY})
        /\ Len(messages_to_send) \in Nat /\ Len(client_write_pipe) \in Nat
    <2>1. messages_to_send \in Seq(Card) /\ client_write_pipe \in Seq({CARD_PLAY})
      BY Zenon DEF TypeInv, TypeOK
    <2> QED
      BY <2>1, LenProperties
  <1>2. CASE UNCHANGED <<main, messages_to_send, client_write_pipe>>
    BY <1>2 DEF CardForEveryByte
  <1>3. CASE \E card \in Hand : TypeCard(card)
    <2>1. PICK card \in Hand : TypeCard(card)
      BY <1>3
    <2>2. /\ main = "poll" /\ main' = "tell" /\ UNCHANGED client_write_pipe
          /\ messages_to_send' = Append(messages_to_send, card)
      BY <2>1 DEF TypeCard, Queue
    <2>3. Len(messages_to_send') = Len(messages_to_send) + 1
      BY <1>1, <2>2
    <2> QED
      BY <1>1, <2>2, <2>3 DEF CardForEveryByte
  <1>4. CASE TellWorker
    <2>1. /\ main = "tell" /\ main' = "poll" /\ UNCHANGED messages_to_send
          /\ client_write_pipe' = Append(client_write_pipe, CARD_PLAY)
      BY <1>4 DEF TellWorker
    <2>2. Len(client_write_pipe') = Len(client_write_pipe) + 1
      BY <1>1, <2>1
    <2> QED
      BY <1>1, <2>1, <2>2 DEF CardForEveryByte
  <1>5. CASE OnCardPlay
    <2>1. /\ messages_to_send # <<>> /\ client_write_pipe # <<>>
          /\ messages_to_send' = Tail(messages_to_send)
          /\ client_write_pipe' = Tail(client_write_pipe)
          /\ main' = main
      BY <1>5 DEF OnCardPlay, mainVars
    <2>2. /\ Len(messages_to_send') = Len(messages_to_send) - 1
          /\ Len(client_write_pipe') = Len(client_write_pipe) - 1
      BY <1>1, <2>1
    <2> QED
      BY <1>1, <2>1, <2>2 DEF CardForEveryByte
  <1>6. CASE /\ main # "tell" /\ main' # "tell"
             /\ UNCHANGED <<messages_to_send, client_write_pipe>>
    BY <1>6 DEF CardForEveryByte
  <1>7. \/ UNCHANGED <<main, messages_to_send, client_write_pipe>>
        \/ \E card \in Hand : TypeCard(card)
        \/ TellWorker \/ OnCardPlay
        \/ /\ main # "tell" /\ main' # "tell"
           /\ UNCHANGED <<messages_to_send, client_write_pipe>>
    <2>1. CASE Prepare \/ Command \/ OnWorkerByte \/ JoinWorker \/ TypeCommand
      BY <2>1 DEF Prepare, Command, OnWorkerByte, JoinWorker, TypeCommand,
                  sharedVars
    <2>2. CASE OnBusy \/ OnMessage \/ OnServerEnd \/ OnReset \/ CloseSocket
      BY <2>2 DEF OnBusy, OnMessage, OnServerEnd, OnReset, CloseSocket,
                  mainVars, sharedVars
    <2>3. CASE Server
      BY <2>3, ServerSays DEF Say, Closes, mainVars, sharedVars
    <2> QED
      BY <2>1, <2>2, <2>3
         DEF Next, Main, User, Worker, vars, mainVars, sharedVars
  <1> QED
    BY <1>2, <1>3, <1>4, <1>5, <1>6, <1>7

(* For every byte the worker is told there is a queued card, so the front  *)
(* of messages_to_send it takes is there, however the threads interleave.  *)
THEOREM EveryByteHasACard == Spec => []CardForEveryByte
  <1>1. Init => CardForEveryByte
    BY DEF Init, CardForEveryByte
  <1> QED
    BY <1>1, InitType, TypeStep, CardStep, PTL DEF Spec
-----------------------------------------------------------------------------
LEMMA StartStep ==
  TypeInv /\ NotStarted /\ [Next]_vars => NotStarted'
  <1> SUFFICES ASSUME TypeInv, NotStarted, [Next]_vars PROVE NotStarted'
    OBVIOUS
  <1> USE DEF mainVars, sharedVars, workerVars, serverVars
  <1>1. CASE UNCHANGED vars
    BY <1>1 DEF vars, NotStarted
  <1>2. CASE Main
    BY <1>2 DEF Main, Prepare, TellWorker, Command, OnWorkerByte, JoinWorker,
                NotStarted
  <1>3. CASE User
    BY <1>3 DEF User, TypeCommand, TypeCard, NotStarted
  <1>4. CASE Worker
    BY <1>4 DEF Worker, OnCardPlay, OnBusy, OnMessage, OnServerEnd, OnReset,
                CloseSocket, Send, CloseWorker, NotStarted
  <1>5. CASE Server
    BY <1>5, ServerSays DEF Say, Closes, NotStarted
  <1> QED
    BY <1>1, <1>2, <1>3, <1>4, <1>5 DEF Next

CardsOf(sends) == [i \in DOMAIN sends |-> sends[i].card]

LEMMA CardsOfSeq ==
  ASSUME NEW S, NEW sends \in Seq([trick : Nat, card : S])
  PROVE  /\ CardsOf(sends) \in Seq(S)
         /\ Len(CardsOf(sends)) = Len(sends)
         /\ \A i \in 1..Len(sends) : CardsOf(sends)[i] = sends[i].card
  <1>1. /\ Len(sends) \in Nat /\ DOMAIN sends = 1..Len(sends)
        /\ \A i \in 1..Len(sends) : sends[i].card \in S
    <2>1. ASSUME NEW i \in 1..Len(sends) PROVE sends[i].card \in S
      <3>1. sends[i] \in [trick : Nat, card : S]
        BY ElementOfSeq
      <3> QED
        BY <3>1
    <2> QED
      BY <2>1, LenProperties
  <1>2. CardsOf(sends) = [i \in 1..Len(sends) |-> sends[i].card]
    BY <1>1 DEF CardsOf
  <1> QED
    BY <1>1, <1>2

LEMMA CardsOfMore ==
  ASSUME NEW S, NEW sends \in Seq([trick : Nat, card : S]), NEW number \in Nat,
         NEW card \in S
  PROVE  CardsOf(Append(sends, [trick |-> number, card |-> card]))
            = Append(CardsOf(sends), card)
  <1> DEFINE more == Append(sends, [trick |-> number, card |-> card])
             a == CardsOf(more)
             b == Append(CardsOf(sends), card)
  <1>1. /\ more \in Seq([trick : Nat, card : S]) /\ Len(sends) \in Nat
        /\ Len(more) = Len(sends) + 1
        /\ \A i \in 1..Len(sends) : more[i] = sends[i]
        /\ more[Len(sends) + 1].card = card
    BY AppendProperties
  <1>2. /\ CardsOf(sends) \in Seq(S) /\ Len(CardsOf(sends)) = Len(sends)
        /\ \A i \in 1..Len(sends) : CardsOf(sends)[i] = sends[i].card
    BY CardsOfSeq
  <1>3. /\ b \in Seq(S) /\ Len(b) = Len(sends) + 1 /\ b[Len(sends) + 1] = card
        /\ \A i \in 1..Len(sends) : b[i] = sends[i].card
    BY <1>2, AppendProperties
  <1> HIDE DEF more, b
  <1>4. /\ a \in Seq(S) /\ Len(a) = Len(more)
        /\ \A i \in 1..Len(more) : a[i] = more[i].card
    BY <1>1, CardsOfSeq
  <1> HIDE DEF a
  <1>5. \A i \in 1..Len(a) : a[i] = b[i]
    <2>1. 1..Len(a) = 1..Len(sends) \cup {Len(sends) + 1}
      BY <1>1, <1>4
    <2>2. ASSUME NEW i \in 1..Len(sends) PROVE a[i] = b[i]
      <3>1. i \in 1..Len(more)
        BY <1>1
      <3>2. a[i] = more[i].card /\ more[i] = sends[i] /\ b[i] = sends[i].card
        BY <1>1, <1>3, <1>4, <3>1
      <3> QED
        BY <3>2
    <2>3. a[Len(sends) + 1] = b[Len(sends) + 1]
      BY <1>1, <1>3, <1>4
    <2> QED
      BY <2>1, <2>2, <2>3
  <1>6. a = b
    BY <1>1, <1>3, <1>4, <1>5, SeqEqual
  <1> QED
    BY <1>6 DEF a, more, b

LEMMA QueueOneLess ==
  ASSUME NEW S, NEW before \in Seq(S), NEW queue \in Seq(S), queue # <<>>
  PROVE  Append(before, Head(queue)) \o Tail(queue) = before \o queue
  OBVIOUS

(* Taking the head of the queue and sending it keeps sends and queue, one  *)
(* after the other, the same.                                              *)
LEMMA SendTheHead ==
  ASSUME NEW S, NEW sends \in Seq([trick : Nat, card : S]), NEW number \in Nat,
         NEW queue \in Seq(S), queue # <<>>
  PROVE  CardsOf(Append(sends, [trick |-> number, card |-> Head(queue)]))
            \o Tail(queue)
         = CardsOf(sends) \o queue
  <1>1. Head(queue) \in S
    OBVIOUS
  <1>2. CardsOf(Append(sends, [trick |-> number, card |-> Head(queue)]))
          = Append(CardsOf(sends), Head(queue))
    BY <1>1, CardsOfMore
  <1>3. CardsOf(sends) \in Seq(S)
    BY CardsOfSeq
  <1> QED
    BY <1>2, <1>3, QueueOneLess

LEMMA OrderStep ==
  TypeInv /\ TypeInv' /\ NotStarted /\ TypedInOrder /\ [Next]_vars
  => TypedInOrder'
  <1> SUFFICES ASSUME TypeInv, TypeInv', NotStarted, TypedInOrder, [Next]_vars,
                      worker' = "poll", ~is_ai'
               PROVE  typed' = CardsOf(to_server') \o messages_to_send'
    BY DEF TypedInOrder, CardsOf
  <1>1. /\ messages_to_send \in Seq(Card \cup {NoCard})
        /\ to_server \in Seq([trick : Nat, card : Card \cup {NoCard}])
        /\ CardsOf(to_server) \in Seq(Card \cup {NoCard})
        /\ client.trick_number \in Nat
    <2>1. /\ messages_to_send \in Seq(Card)
          /\ to_server \in Seq([trick : Nat, card : Card \cup {NoCard}])
          /\ client.trick_number \in Nat
      BY DEF TypeInv, TypeOK
    <2>2. messages_to_send \in Seq(Card \cup {NoCard})
      BY <2>1, SeqMonotonic
    <2> QED
      BY <2>1, <2>2, CardsOfSeq
  <1>2. worker = "poll" /\ ~is_ai
        => typed = CardsOf(to_server) \o messages_to_send
    BY DEF TypedInOrder, CardsOf
  <1>3. CASE UNCHANGED <<is_ai, worker, typed, to_server, messages_to_send>>
    BY <1>2, <1>3
  <1>4. CASE Prepare
    <2>1. /\ typed' = <<>> /\ messages_to_send' = <<>> /\ to_server' = <<>>
      BY <1>4 DEF Prepare, NotStarted, sharedVars
    <2>2. CardsOf(<<>>) = <<>> /\ <<>> \o <<>> = <<>>
      BY DEF CardsOf
    <2> QED
      BY <2>1, <2>2
  <1>5. ASSUME NEW card \in Hand, TypeCard(card)
        PROVE  typed' = CardsOf(to_server') \o messages_to_send'
    <2>1. /\ typed' = Append(typed, card)
          /\ messages_to_send' = Append(messages_to_send, card)
          /\ UNCHANGED <<is_ai, worker, to_server>>
      BY <1>5 DEF TypeCard, Queue, workerVars
    <2>2. card \in Card \cup {NoCard}
      BY KlientAssumption
    <2> QED
      <3>1. Append(CardsOf(to_server) \o messages_to_send, card)
              = CardsOf(to_server) \o Append(messages_to_send, card)
        <4> DEFINE S == Card \cup {NoCard}
        <4>1. /\ CardsOf(to_server) \in Seq(S) /\ messages_to_send \in Seq(S)
              /\ card \in S
          BY <1>1, <2>2
        <4> HIDE DEF S
        <4> QED
          BY <4>1
      <3> QED
        BY <1>2, <2>1, <3>1
  <1>6. CASE OnCardPlay
    <2>1. /\ messages_to_send # <<>> /\ UNCHANGED <<is_ai, typed>>
          /\ messages_to_send' = Tail(messages_to_send)
          /\ worker = "poll"
          /\ to_server' = Append(to_server, [trick |-> client.trick_number,
                                             card |-> Head(messages_to_send)])
      BY <1>6 DEF OnCardPlay, Send, CloseWorker, mainVars
    <2> QED
      BY <1>1, <1>2, <2>1, SendTheHead
  <1>7. \/ UNCHANGED <<is_ai, worker, typed, to_server, messages_to_send>>
        \/ Prepare \/ OnCardPlay \/ \E card \in Hand : TypeCard(card)
    <2> USE DEF mainVars, sharedVars, workerVars, serverVars
    <2>1. CASE UNCHANGED vars
      BY <2>1 DEF vars
    <2>2. CASE Main \/ User
      BY <2>2 DEF Main, User, TellWorker, Command, OnWorkerByte, JoinWorker,
                  TypeCommand
    <2>3. CASE Worker
      BY <2>3 DEF Worker, OnBusy, OnMessage, OnServerEnd, OnReset, CloseSocket,
                  CloseWorker, Answers
    <2>4. CASE Server
      BY <2>4, ServerSays DEF Say, Closes
    <2> QED
      BY <2>1, <2>2, <2>3, <2>4 DEF Next
  <1> QED
    BY <1>3, <1>4, <1>5, <1>6, <1>7

(* What the user types goes out once and in the order typed, while the     *)
(* worker reads messages of the server in between.                         *)
THEOREM CardsGoOutInOrder == Spec => []TypedInOrder
  <1>1. Init => NotStarted /\ TypedInOrder
    BY DEF Init, NotStarted, TypedInOrder, NewClient
  <1> QED
    BY <1>1, InitType, TypeStep, StartStep, OrderStep, PTL DEF Spec
-----------------------------------------------------------------------------
(* What the steps of a client and its server do to what the end depends    *)
(* on: the messages not read, got_total, what was said and the byte.       *)
Untouched == UNCHANGED <<to_client, client, said>>
Reads ==
    /\ worker = "poll" /\ to_client # <<>>
    /\ to_client' = Tail(to_client) /\ said' = said
    /\ client'.got_total =>
          \/ client.got_total /\ Head(to_client) # TheDeal
          \/ Head(to_client) = Total
Stops ==
    /\ worker' \in {"close", "gone"} /\ said' = said
    /\ \/ to_client' \in {to_client, <<>>}
       \/ to_client # <<>> /\ to_client' = Tail(to_client)

LEMMA MessageKinds ==
  /\ Score # Total /\ Total # TheDeal /\ Busy # TheDeal
  /\ DEAL_check(TheDeal)
  /\ \A message \in Messages : DEAL_check(message) => message = TheDeal
  /\ \A number : ~TRICK_check(TheDeal, number)
  /\ \A number : ~TRICK_check(Total, number)
  <1>1. /\ TheDeal.type = "DEAL" /\ TheDeal.hand = Hand /\ Busy.type = "BUSY"
        /\ Score.type = "SCORE" /\ Total.type = "TOTAL"
    BY DEF TheDeal, Deal, Busy, Score, Total
  <1> QED
    BY <1>1, MessageFields, KlientAssumption DEF DEAL_check, TRICK_check

(* got_total is set by TOTAL, and kept by everything but a DEAL.           *)
LEMMA ReadsOne ==
  ASSUME TypeInv, OnMessage
  PROVE  Reads
  <1>1. /\ worker = "poll" /\ to_client # <<>>
        /\ to_client' = Tail(to_client) /\ said' = said
        /\ client \in Clients /\ Head(to_client) \in Messages
    BY DEF OnMessage, TypeInv, TypeOK, Clients
  <1> DEFINE message == Head(to_client)
  <1>2. CASE /\ Answers(message)
             /\ \E card \in Strategy(client, message.table) :
                   client' = OnTrick(client, card)
    <2>1. message # TheDeal
      BY <1>2, MessageKinds DEF Answers
    <2>2. client'.got_total = client.got_total
      BY <1>1, <1>2 DEF OnTrick, Clients
    <2> QED
      BY <1>1, <2>1, <2>2 DEF Reads
  <1>3. CASE client' = Received(client, message, Seat)
    <2>1. CASE message = TheDeal
      <3>1. client' = OnDeal(client, message)
        BY <1>3, <2>1, MessageKinds, OneCase DEF Received
      <3>2. client'.got_total = FALSE
        BY <1>1, <3>1 DEF OnDeal, Clients
      <3> QED
        BY <1>1, <3>2 DEF Reads
    <2>2. CASE message # TheDeal /\ message # Total
      <3>1. \/ client' = OnTaken(client, message, Seat)
            \/ client' = [client EXCEPT !.got_score = TRUE]
            \/ client' = client
        BY <1>1, <1>3, <2>2, MessageKinds DEF Received
      <3>2. client'.got_total = client.got_total
        BY <1>1, <3>1 DEF OnTaken, Clients
      <3> QED
        BY <1>1, <2>2, <3>2 DEF Reads
    <2> QED
      BY <1>1, <2>1, <2>2 DEF Reads
  <1> QED
    BY <1>2, <1>3 DEF OnMessage

LEMMA EndSteps ==
  ASSUME TypeInv, NotStarted, [Next]_vars
  PROVE  \/ Untouched /\ (worker' \in {"none", "poll"} => worker \in {"none", "poll"})
         \/ Reads \/ Stops
         \/ \E message \in Messages, last \in {"busy", "deal", "score", "total"} :
               /\ Say(message, last)
               /\ last = "busy" <=> message = Busy
               /\ message = Total => last = "total"
               /\ last = "total" => said = "score"
               /\ said = "total" => message = TheDeal
               /\ said # "busy"
  <1> USE DEF mainVars, sharedVars, workerVars, serverVars
  <1>1. CASE UNCHANGED vars
    BY <1>1 DEF vars, Untouched
  <1>2. CASE Main \/ User
    BY <1>2 DEF Main, User, Prepare, TellWorker, Command, OnWorkerByte,
                JoinWorker, TypeCommand, TypeCard, NotStarted, Untouched
  <1>3. CASE OnCardPlay
    BY <1>3 DEF OnCardPlay, Untouched
  <1>4. CASE OnMessage
    BY <1>4, ReadsOne
  <1>5. CASE OnBusy \/ OnServerEnd \/ OnReset \/ CloseSocket
    BY <1>5 DEF OnBusy, OnServerEnd, OnReset, CloseSocket, CloseWorker, Stops
  <1>6. CASE Server
    BY <1>6, ServerSays DEF Closes, Untouched
  <1> QED
    BY <1>1, <1>2, <1>3, <1>4, <1>5, <1>6 DEF Next, Worker

(* What a server says comes last, after all it said before. *)
LEMMA SaidLast ==
  ASSUME TypeInv, NEW message \in Messages, NEW last, Say(message, last)
  PROVE  /\ DOMAIN to_client' = DOMAIN to_client \cup {Len(to_client) + 1}
         /\ Len(to_client) \in Nat /\ DOMAIN to_client = 1..Len(to_client)
         /\ \A i \in DOMAIN to_client : to_client'[i] = to_client[i]
         /\ to_client'[Len(to_client) + 1] = message
         /\ said' = last /\ UNCHANGED <<client, worker, connected>>
  <1>1. /\ to_client \in Seq(Messages) /\ to_client' = Append(to_client, message)
        /\ said' = last /\ UNCHANGED <<client, worker, connected>>
    BY DEF TypeInv, Say, workerVars
  <1> QED
    BY <1>1

LEMMA ReadFirst ==
  ASSUME TypeInv, to_client # <<>>, to_client' = Tail(to_client)
  PROVE  /\ 1 \in DOMAIN to_client /\ Head(to_client) = to_client[1]
         /\ Len(to_client) \in Nat /\ DOMAIN to_client = 1..Len(to_client)
         /\ DOMAIN to_client' = 1..Len(to_client) - 1
         /\ \A i \in DOMAIN to_client' : to_client'[i] = to_client[i + 1]
  <1>1. to_client \in Seq(Messages)
    BY DEF TypeInv
  <1> QED
    BY <1>1

LEMMA BusyStep ==
  TypeInv /\ NotStarted /\ BusyIsLast /\ [Next]_vars => BusyIsLast'
  <1> SUFFICES ASSUME TypeInv, NotStarted, BusyIsLast, [Next]_vars,
                      NEW i \in DOMAIN to_client', to_client'[i] = Busy
               PROVE  said' = "busy"
    BY DEF BusyIsLast
  <1>1. CASE UNCHANGED <<to_client, said>>
    BY <1>1 DEF BusyIsLast
  <1>2. CASE /\ to_client # <<>> /\ to_client' = Tail(to_client)
             /\ said' = said
    <2>1. i + 1 \in DOMAIN to_client /\ to_client[i + 1] = Busy
      BY <1>2, ReadFirst
    <2> QED
      BY <1>2, <2>1 DEF BusyIsLast
  <1>3. ASSUME NEW message \in Messages, NEW last, Say(message, last),
               message = Busy => last = "busy", said # "busy"
        PROVE  said' = "busy"
    BY <1>3, SaidLast DEF BusyIsLast
  <1>4. CASE to_client' = <<>>
    BY <1>4
  <1> QED
    BY <1>1, <1>2, <1>3, <1>4, EndSteps DEF Untouched, Reads, Stops

LEMMA TotalsStep ==
  TypeInv /\ NotStarted /\ BusyIsLast /\ TotalsAreOver /\ [Next]_vars
  => TotalsAreOver'
  <1> SUFFICES ASSUME TypeInv, NotStarted, TotalsAreOver, [Next]_vars,
                      worker' \in {"none", "poll"}, said' \notin {"busy", "total"},
                      NEW j \in {0} \cup DOMAIN to_client', HasTotal(j)'
               PROVE  DealtSince(j)'
    BY DEF TotalsAreOver
  <1>1. CASE Untouched /\ worker \in {"none", "poll"}
    BY <1>1 DEF Untouched, TotalsAreOver, HasTotal, DealtSince
  <1>2. CASE Reads
    <2>1. /\ to_client # <<>> /\ to_client' = Tail(to_client)
          /\ worker = "poll" /\ said \notin {"busy", "total"}
      BY <1>2 DEF Reads
    <2>2. /\ 1 \in DOMAIN to_client /\ Head(to_client) = to_client[1]
          /\ Len(to_client) \in Nat /\ DOMAIN to_client = 1..Len(to_client)
          /\ DOMAIN to_client' = 1..Len(to_client) - 1
          /\ \A i \in DOMAIN to_client' : to_client'[i] = to_client[i + 1]
      BY <2>1, ReadFirst
    <2>3. \A i \in DOMAIN to_client : i > j + 1 /\ to_client[i] = TheDeal
                                      => DealtSince(j)'
      <3> SUFFICES ASSUME NEW i \in DOMAIN to_client, i > j + 1,
                          to_client[i] = TheDeal
                   PROVE  DealtSince(j)'
        OBVIOUS
      <3>1. i - 1 \in DOMAIN to_client' /\ i - 1 > j /\ (i - 1) + 1 = i
        BY <2>2
      <3> QED
        BY <2>2, <3>1 DEF DealtSince
    <2>4. CASE j # 0 \/ Head(to_client) = Total
      <3>1. j + 1 \in DOMAIN to_client /\ to_client[j + 1] = Total /\ j + 1 # 0
        BY <2>2, <2>4 DEF HasTotal
      <3> QED
        BY <2>1, <2>3, <3>1 DEF TotalsAreOver, HasTotal, DealtSince
    <2>5. CASE j = 0 /\ client.got_total /\ Head(to_client) # TheDeal
      <3>1. PICK i \in DOMAIN to_client : i > 0 /\ to_client[i] = TheDeal
        BY <2>1, <2>5 DEF TotalsAreOver, HasTotal, DealtSince
      <3>2. i > j + 1
        BY <2>2, <2>5, <3>1
      <3> QED
        BY <2>3, <3>1, <3>2
    <2> QED
      BY <1>2, <2>4, <2>5 DEF Reads, HasTotal
  <1>3. ASSUME NEW message \in Messages, NEW last, Say(message, last),
               message = Total => last = "total",
               said = "total" => message = TheDeal, said # "busy"
        PROVE  DealtSince(j)'
    <2>1. /\ DOMAIN to_client' = DOMAIN to_client \cup {Len(to_client) + 1}
          /\ Len(to_client) \in Nat /\ DOMAIN to_client = 1..Len(to_client)
          /\ \A i \in DOMAIN to_client : to_client'[i] = to_client[i]
          /\ to_client'[Len(to_client) + 1] = message
          /\ said' = last /\ UNCHANGED <<client, worker>>
      BY <1>3, SaidLast
    <2>2. message # Total
      BY <1>3, <2>1
    <2>3. j \in {0} \cup DOMAIN to_client /\ HasTotal(j)
      <3>1. j # Len(to_client) + 1
        BY <2>1, <2>2 DEF HasTotal
      <3> QED
        BY <2>1, <3>1 DEF HasTotal
    <2>4. CASE said = "total"
      <3>1. Len(to_client) + 1 \in DOMAIN to_client' /\ Len(to_client) + 1 > j
        BY <2>1, <2>3
      <3> QED
        BY <1>3, <2>1, <2>4, <3>1 DEF DealtSince
    <2>5. CASE said # "total"
      <3>1. DealtSince(j)
        BY <1>3, <2>1, <2>3, <2>5 DEF TotalsAreOver
      <3> QED
        BY <2>1, <3>1 DEF DealtSince
    <2> QED
      BY <2>4, <2>5
  <1> QED
    BY <1>1, <1>2, <1>3, EndSteps DEF Stops

HasNormalEnd(pipe) == \E i \in DOMAIN pipe : pipe[i] = NORMAL_END

LEMMA OverStays ==
  ASSUME TypeInv, NotStarted, [Next]_vars, Over
  PROVE  Over'
  <1>1. CASE UNCHANGED <<said, connected>>
    BY <1>1 DEF Over
  <1>2. CASE UNCHANGED said /\ connected' = FALSE
    BY <1>2 DEF Over
  <1>3. ASSUME NEW message, NEW last, Say(message, last), said # "busy"
        PROVE  Over'
    BY <1>3 DEF Say, Over
  <1>4. \/ UNCHANGED <<said, connected>>
        \/ UNCHANGED said /\ connected' = FALSE
        \/ \E message \in Messages, last \in {"busy", "deal", "score", "total"} :
              Say(message, last) /\ said # "busy"
    <2> USE DEF mainVars, sharedVars, workerVars, serverVars
    <2>1. CASE UNCHANGED vars
      BY <2>1 DEF vars
    <2>2. CASE Main \/ User
      BY <2>2 DEF Main, User, Prepare, TellWorker, Command, OnWorkerByte,
                  JoinWorker, TypeCommand, TypeCard
    <2>3. CASE Worker
      BY <2>3 DEF Worker, OnCardPlay, OnMessage, OnBusy, OnServerEnd, OnReset,
                  CloseSocket
    <2>4. CASE Server
      BY <2>4, ServerSays DEF Closes
    <2> QED
      BY <2>1, <2>2, <2>3, <2>4 DEF Next
  <1> QED
    BY <1>1, <1>2, <1>3, <1>4

(* The worker says NORMAL_END only after a BUSY, or at the end of what a   *)
(* server that closed has sent, when it has read the last TOTAL.           *)
LEMMA WorkerEnds ==
  ASSUME TypeInv, BusyIsLast, TotalsAreOver, Worker
  PROVE  \/ UNCHANGED client_read_pipe
         \/ client_read_pipe' = Append(client_read_pipe, DISCONNECTED)
         \/ client_read_pipe' = Append(client_read_pipe, SERVER_DISCONNECT)
         \/ client_read_pipe' = Append(client_read_pipe, NORMAL_END) /\ Over'
  <1>1. CASE OnCardPlay
    BY <1>1 DEF OnCardPlay, Send, CloseWorker
  <1>2. CASE OnBusy
    <2>1. 1 \in DOMAIN to_client /\ to_client[1] = Busy
      BY <1>2, ReadFirst DEF OnBusy
    <2>2. said' = "busy"
      BY <1>2, <2>1 DEF BusyIsLast, OnBusy
    <2> QED
      BY <1>2, <2>2 DEF OnBusy, CloseWorker, Over
  <1>3. CASE OnMessage
    BY <1>3 DEF OnMessage, Send, CloseWorker
  <1>4. CASE OnServerEnd
    <2>1. worker = "poll" /\ to_client = <<>> /\ ~connected
          /\ UNCHANGED <<said, connected>>
      BY <1>4 DEF OnServerEnd, serverVars
    <2>2. client.got_total => said \in {"busy", "total"}
      BY <2>1 DEF TotalsAreOver, HasTotal, DealtSince
    <2> QED
      BY <1>4, <2>1, <2>2 DEF OnServerEnd, CloseWorker, Over
  <1>5. CASE OnReset \/ CloseSocket
    BY <1>5 DEF OnReset, CloseSocket, CloseWorker, sharedVars
  <1> QED
    BY <1>1, <1>2, <1>3, <1>4, <1>5 DEF Worker

LEMMA NormalEndStep ==
  /\ TypeInv /\ NotStarted /\ BusyIsLast /\ TotalsAreOver /\ NormalEnd
  /\ [Next]_vars
  => NormalEnd'
  <1> SUFFICES ASSUME TypeInv, NotStarted, BusyIsLast, TotalsAreOver, NormalEnd,
                      [Next]_vars, status' = 0 \/ HasNormalEnd(client_read_pipe')
               PROVE  Over'
    BY DEF NormalEnd, HasNormalEnd
  <1>1. Over => Over'
    BY OverStays
  <1>2. status = 0 \/ HasNormalEnd(client_read_pipe) => Over
    BY DEF NormalEnd, HasNormalEnd
  <1>3. client_read_pipe \in Seq({DISCONNECTED, SERVER_DISCONNECT, NORMAL_END})
    BY DEF TypeInv, TypeOK
  <1>4. CASE UNCHANGED <<status, client_read_pipe>>
    BY <1>1, <1>2, <1>4
  <1>5. CASE OnWorkerByte
    <2>1. /\ client_read_pipe # <<>>
          /\ client_read_pipe' = Tail(client_read_pipe)
          /\ status' = 0 => Head(client_read_pipe) = NORMAL_END
      BY <1>5 DEF OnWorkerByte
    <2>2. HasNormalEnd(client_read_pipe)
      BY <1>3, <2>1 DEF HasNormalEnd
    <2> QED
      BY <1>1, <1>2, <2>2
  <1>6. CASE Worker
    <2>1. status' = status
      BY <1>6 DEF Worker, OnCardPlay, OnMessage, OnBusy, OnServerEnd, OnReset,
                  CloseSocket, mainVars
    <2>2. ASSUME NEW byte \in {DISCONNECTED, SERVER_DISCONNECT},
                 client_read_pipe' = Append(client_read_pipe, byte)
          PROVE  Over'
      <3>1. byte # NORMAL_END
        BY DEF DISCONNECTED, SERVER_DISCONNECT, NORMAL_END
      <3>2. HasNormalEnd(client_read_pipe') => HasNormalEnd(client_read_pipe)
        BY <1>3, <2>2, <3>1 DEF HasNormalEnd
      <3> QED
        BY <1>1, <1>2, <2>1, <3>2
    <2> QED
      BY <1>1, <1>2, <1>6, <2>1, <2>2, WorkerEnds
  <1>7. \/ UNCHANGED <<status, client_read_pipe>>
        \/ OnWorkerByte \/ Worker
    <2> USE DEF mainVars, sharedVars, workerVars, serverVars
    <2>1. CASE UNCHANGED vars
      BY <2>1 DEF vars
    <2>2. CASE Main \/ User
      BY <2>2 DEF Main, User, Prepare, TellWorker, Command,
                  JoinWorker, TypeCommand, TypeCard
    <2>3. CASE Server
      BY <2>3, ServerSays DEF Closes, Say
    <2> QED
      BY <2>1, <2>2, <2>3 DEF Next
  <1> QED
    BY <1>4, <1>5, <1>6, <1>7

(* The process ends with 0 only when the server refused it or had ended    *)
(* the game: a TOTAL of an earlier deal is forgotten at the DEAL after it, *)
(* whatever of the server's messages is still unread when it closes.       *)
THEOREM SuccessIsTheEnd == Spec => []StatusTellsTheEnd
  <1>1. Init => NotStarted /\ BusyIsLast /\ TotalsAreOver /\ NormalEnd
    BY DEF Init, NotStarted, BusyIsLast, TotalsAreOver, HasTotal, DealtSince,
           NormalEnd, NewClient
  <1>2. NormalEnd => StatusTellsTheEnd
    BY DEF NormalEnd, Over, StatusTellsTheEnd
  <1> QED
    BY <1>1, <1>2, InitType, TypeStep, StartStep, BusyStep, TotalsStep,
       NormalEndStep, PTL DEF Spec
=============================================================================
