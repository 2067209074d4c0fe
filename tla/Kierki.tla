------------------------------- MODULE Kierki -------------------------------
(***************************************************************************)
(* The whole game: the server of Serwer, unchanged, with the clients of    *)
(* klient.cpp in the place of arbitrary inputs.  Every message the server  *)
(* sends is here, with what the client makes of it (KlientMessages), and   *)
(* every answer on its way back.  A client handles its messages one by one *)
(* in the order sent, so a message that is slow to arrive is one whose     *)
(* answer is slow: what is sent is received at once, and only the answers  *)
(* wait.  The greeting of reserve_spot is taken apart into its critical    *)
(* sections, with the members of Serwer that only messages need.           *)
(***************************************************************************)
EXTENDS Serwer

CONSTANTS
    Automatic,    \* clients run with -a; at the others somebody types
    Leavers,      \* clients whose connection may break
    LeaveOnTurn,  \* and only when asked for a card, instead of answering
    Wishes,       \* which seats the clients may be started for
    MaxTyped,     \* bound: cards typed at one client
    MaxResends,   \* bound: TRICKs sent again
    NoCard        \* the "" of strategy

Client == INSTANCE KlientMessages

DealtCards == UNION {GameFile[d].cards[s] : d \in DOMAIN GameFile, s \in Seats}

(* Whatever a client may answer is an input of the server.                 *)
ASSUME KierkiAssumption ==
    /\ [trick : 1..Tricks + 1, card : DealtCards] \cup {Garbage} \subseteq Inputs
    /\ Automatic \subseteq Connections
    /\ Leavers \subseteq Droppers
    /\ LeaveOnTurn \in BOOLEAN
    /\ Wishes \subseteq [Connections -> Seats]
    /\ NoCard \notin Card
    /\ Garbage \notin [trick : Nat, card : Card]
    /\ {MaxTyped, MaxResends} \subseteq Nat

(* The deals are those of a game file as it should be, 13 cards a hand: a  *)
(* DEAL with another number of cards is none for a client.                 *)
ASSUME HandsFull ==
    \A d \in DOMAIN GameFile : \A s \in Seats :
        Cardinality(GameFile[d].cards[s]) = Tricks

VARIABLES
    wanted,             \* the seat each client was started for
    client,             \* the members of Klient, for each connection
    answers,            \* sent by the client and not read by its thread
    typed,              \* how many cards were typed
    resends,            \* how many TRICKs were sent again
    trick_type_global,  \* the deal whose type it is
    taken_takers,
    capacity,           \* of the vector taken_tricks
    greeting,           \* locals of reserve_spot
    told                \* history: the last DEAL, its type and cards by deal

clientVars == <<wanted, client, answers, typed, resends, told>>
greetVars == <<trick_type_global, taken_takers, capacity, greeting>>
kierkiVars == <<vars, clientVars, greetVars>>

(* Before the lock of line 699 there are no iterators.                     *)
NoGreeting == [step |-> "none", deal |-> 0, i |-> 0, valid |-> FALSE]

KInit ==
    /\ Init
    /\ wanted \in Wishes
    /\ client = [c \in Connections |-> Client!NewClient]
    /\ answers = [c \in Connections |-> <<>>]
    /\ typed = [c \in Connections |-> 0] /\ resends = 0
    /\ trick_type_global = 0 /\ taken_takers = <<>> /\ capacity = 0
    /\ greeting = [c \in Connections |-> NoGreeting]
    /\ told = [c \in Connections |-> [type |-> 0, hand |-> 0]]
-----------------------------------------------------------------------------
(* What client c is sent.  An automatic player answers a TRICK of its own  *)
(* trick with a card or, when it has none left, with no card: a message    *)
(* TRICK_client_check refuses.                                             *)
Answer(c, card) ==
    IF card = NoCard THEN Garbage
    ELSE [trick |-> client[c].trick_number, card |-> card]

SendTrick(c, number, table) ==
    LET message == Client!Trick(number, table) IN
    /\ IF c \in Automatic /\ Client!TRICK_check(message, client[c].trick_number)
       THEN \E card \in Client!Strategy(client[c], table) :
              /\ client' = [client EXCEPT ![c] = Client!OnTrick(@, card)]
              /\ answers' = [answers EXCEPT ![c] = Append(@, Answer(c, card))]
       ELSE UNCHANGED <<client, answers>>
    /\ UNCHANGED <<wanted, typed, told>>

SendOther(c, message) ==
    /\ client' = [client EXCEPT ![c] = Client!Received(@, message, seat[c])]
    /\ UNCHANGED <<wanted, answers, typed, resends>>

SendDeal(c, deal, hand) ==
    /\ SendOther(c, Client!Deal(deal, hand))
    /\ told' = [told EXCEPT ![c] = [type |-> deal, hand |-> deals_read]]

SendTaken(c, number, table, taker) ==
    SendOther(c, Client!Taken(number, table, taker)) /\ UNCHANGED told

SendScoreAndTotal(c) ==
    /\ client' = [client EXCEPT ![c] =
          Client!Received(Client!Received(@, Client!Score, seat[c]), Client!Total, seat[c])]
    /\ UNCHANGED <<wanted, answers, typed, resends, told>>
-----------------------------------------------------------------------------
(* The main thread: clear() and a push_back beyond the capacity of         *)
(* taken_tricks make the iterators of a greeting invalid.                  *)
Invalidated ==
    [c \in Connections |-> [greeting[c] EXCEPT !.valid = FALSE]]

KReadDeal ==
    /\ ReadDeal
    /\ IF server' = "run_deal"
       THEN /\ taken_takers' = <<>>
            /\ greeting' = Invalidated
       ELSE UNCHANGED <<taken_takers, greeting>>
    /\ UNCHANGED <<clientVars, trick_type_global, capacity>>

KDealBegin ==
    /\ DealBegin
    /\ trick_type_global' = deals_read
    /\ UNCHANGED <<clientVars, taken_takers, capacity, greeting>>

KTrickTaken ==
    /\ TrickTaken
    /\ taken_takers' = Append(taken_takers, last_taker')
    /\ IF Len(taken_tricks) = capacity
       THEN /\ capacity' = IF capacity = 0 THEN 1 ELSE 2 * capacity
            /\ greeting' = Invalidated
       ELSE UNCHANGED <<capacity, greeting>>
    /\ UNCHANGED <<clientVars, trick_type_global>>

OtherServer ==
    /\ server \notin {"read_deal", "run_deal", "taken"}
    /\ Server
    /\ UNCHANGED <<clientVars, greetVars>>

KServer == KReadDeal \/ KDealBegin \/ KTrickTaken \/ OtherServer
-----------------------------------------------------------------------------
(* reserve_spot: the type of the deal is copied with the seat, its cards   *)
(* are read when the DEAL is sent, without the lock.                       *)
KReserve(c) ==
    /\ Reserve(c, wanted[c])
    /\ greeting' = IF ~DealIsOn THEN greeting ELSE [greeting EXCEPT ![c] =
          [step |-> "deal", deal |-> trick_type_global, i |-> 0,
           valid |-> FALSE]]
    /\ UNCHANGED <<clientVars, trick_type_global, taken_takers, capacity>>

(* The seat is taken: BUSY; or no IAM came from one whose connection broke. *)
KNoSeat(c) ==
    /\ NoSeat(c)
    /\ c \in Leavers \/ seats_status[wanted[c]] # Free
    /\ UNCHANGED <<clientVars, greetVars>>

GreetingSteps(c, step) ==
    /\ greeting' = [greeting EXCEPT ![c].step = step]
    /\ UNCHANGED <<vars, trick_type_global, taken_takers, capacity>>

GreetDeal(c) ==
    /\ pc[c] = "greet" /\ greeting[c].step = "deal"
    /\ SendDeal(c, greeting[c].deal, GameFile[deals_read].cards[seat[c]])
    /\ GreetingSteps(c, "begin")

(* A critical section of the loop: the next trick to tell of, if there is  *)
(* one; else TRICK is sent to the player whose turn it is.                 *)
NextTaken(c, i, valid) ==
    \/ /\ i < Len(taken_tricks)
       /\ greeting' = [greeting EXCEPT ![c].step = "taken", ![c].i = i,
                                        ![c].valid = valid]
       /\ UNCHANGED <<vars, clientVars>>
    \/ /\ i >= Len(taken_tricks)
       /\ Greet(c)
       /\ greeting' = [greeting EXCEPT ![c] = NoGreeting]
       /\ IF player_turn = seat[c]
          THEN SendTrick(c, trick_number, cards_on_table) /\ UNCHANGED resends
          ELSE UNCHANGED clientVars

GreetBegin(c) ==
    /\ pc[c] = "greet" /\ greeting[c].step = "begin"
    /\ NextTaken(c, 0, TRUE)
    /\ UNCHANGED <<trick_type_global, taken_takers, capacity>>

(* One TAKEN, its cards read through the iterator while the lock is not    *)
(* held; what is read through an invalid iterator is undefined, and here   *)
(* nothing the client knows.                                               *)
NumberFromZero(i) == i
NumberOf(i) == i + 1
GreetTaken(c) ==
    LET i == greeting[c].i IN
    /\ pc[c] = "greet" /\ greeting[c].step = "taken"
    /\ IF greeting[c].valid
       THEN SendTaken(c, NumberOf(i), taken_tricks[i + 1], taken_takers[i + 1])
       ELSE UNCHANGED clientVars
    /\ GreetingSteps(c, "sent")

GreetNext(c) ==
    /\ pc[c] = "greet" /\ greeting[c].step = "sent"
    /\ NextTaken(c, greeting[c].i + 1, greeting[c].valid)
    /\ UNCHANGED <<trick_type_global, taken_takers, capacity>>
-----------------------------------------------------------------------------
(* client_poll: what each byte of the main thread makes it send.           *)
KOnCardPlay(c) ==
    /\ OnCardPlay(c)
    /\ SendTrick(c, trick_number, cards_on_table)
    /\ UNCHANGED <<resends, greetVars>>

Announce(c, byte) ==
    \/ byte = DEAL /\ SendDeal(c, trick_type_global, cards[seat[c]])
    \/ byte = TAKEN /\ SendTaken(c, current_trick[c], cards_on_table, last_taker)
    \/ byte = SCORES /\ SendScoreAndTotal(c)

KOnAnnouncement(c) ==
    /\ OnAnnouncement(c)
    /\ Announce(c, Head(server_write_pipes[seat[c]]))
    /\ UNCHANGED greetVars

(* TRICK is sent again when the poll timed out or a byte of the pipe woke  *)
(* it late, in a barrier only then; that byte is read next.                *)
Resend(c) ==
    /\ resends < MaxResends
    /\ Timeout(c)
    /\ b_is_barrier[c] => pc'[c] = "pipe"
    /\ SendTrick(c, current_trick[c], cards_on_table)
    /\ resends' = resends + 1
    /\ UNCHANGED greetVars

(* The thread reads an answer, at once or out of barrier_messages.  Only a *)
(* broken connection or a message that is no TRICK ends it.                *)
OnlyGarbageExpels(c, message) ==
    pc'[c] = "bye" => c \in Leavers \/ message = Garbage

ReadAnswer(c) ==
    /\ answers[c] # <<>>
    /\ SocketMessage(c, Head(answers[c]))
    /\ OnlyGarbageExpels(c, Head(answers[c]))
    /\ answers' = [answers EXCEPT ![c] = Tail(@)]
    /\ UNCHANGED <<wanted, client, typed, resends, told, greetVars>>

DrainAnswer(c) ==
    /\ Drain(c)
    /\ OnlyGarbageExpels(c, Head(barrier_messages[seat[c]]))
    /\ UNCHANGED <<clientVars, greetVars>>

(* Somebody types a card at client c: any it holds, at any time.           *)
TypeCard(c, card) ==
    /\ c \notin Automatic /\ pc[c] \in Serving
    /\ typed[c] < MaxTyped
    /\ typed' = [typed EXCEPT ![c] = @ + 1]
    /\ answers' = [answers EXCEPT ![c] = Append(@, Answer(c, card))]
    /\ UNCHANGED <<wanted, client, resends, told, vars, greetVars>>

(* The connection breaks: noticed by a read, or by a send.                 *)
Breaks(c) ==
    /\ c \in Leavers
    /\ LeaveOnTurn => b_was_destined_to_play[c]
    /\ GreetFails(c) \/ SocketClosed(c) \/ SendFails(c)
    /\ answers' = [answers EXCEPT ![c] = <<>>]
    /\ greeting' = [greeting EXCEPT ![c] = NoGreeting]
    /\ UNCHANGED <<wanted, client, typed, resends, told, trick_type_global,
                   taken_takers, capacity>>

Silent(c) ==
    /\ \/ Accept(c) \/ Enter(c) \/ LoopTop(c) \/ Bye(c)
       \/ Notify(c) \/ OnBarrierResponse(c) \/ OnBarrierEnd(c)
       \/ OnDisconnected(c)
       \/ (Timeout(c) /\ b_is_barrier[c] /\ pc'[c] = "top")
    /\ UNCHANGED <<clientVars, greetVars>>
-----------------------------------------------------------------------------
Greeting(c) ==
    GreetDeal(c) \/ GreetBegin(c) \/ GreetTaken(c) \/ GreetNext(c)

Thread(c) ==
    \/ Greeting(c) \/ Silent(c) \/ KOnCardPlay(c) \/ KOnAnnouncement(c)
    \/ Resend(c) \/ ReadAnswer(c) \/ DrainAnswer(c) \/ Breaks(c)
    \/ KReserve(c) \/ KNoSeat(c)

KNext ==
    \/ KServer
    \/ \E c \in Connections :
          Thread(c) \/ \E card \in client[c].my_cards : TypeCard(c, card)

KSpec == KInit /\ [][KNext]_kierkiVars

(* Every thread keeps running.  A poll reports the socket and the pipe     *)
(* together and the pipe is read in the same round, so a client that keeps *)
(* sending does not keep its thread from the pipe: strong fairness.        *)
(* reserve_spot ends: SO_RCVTIMEO bounds its wait for the IAM.  Nothing is *)
(* assumed of players: what an automatic one answers is there, and read.   *)
KOwnStep(c) ==
    \/ Greeting(c) \/ DrainAnswer(c)
    \/ (OwnStep(c) /\ Silent(c))
KPipeStep(c) ==
    \/ KOnCardPlay(c) \/ KOnAnnouncement(c)
    \/ (PipeStep(c) /\ Silent(c))
KFairSpec ==
    /\ KSpec
    /\ WF_kierkiVars(KServer)
    /\ \A c \in Connections :
          /\ WF_kierkiVars(KOwnStep(c)) /\ WF_kierkiVars(KReserve(c) \/ KNoSeat(c))
          /\ SF_kierkiVars(KPipeStep(c)) /\ SF_kierkiVars(ReadAnswer(c))
=============================================================================
