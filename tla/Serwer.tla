------------------------------- MODULE Serwer -------------------------------
(***************************************************************************)
(* The game server of serwer.cpp: the main thread (start_game, run_game,   *)
(* run_deal, barrier, close_server), one thread per accepted connection    *)
(* (handle_client: reserve_spot, client_poll, parse_message,               *)
(* close_thread), and the pipes, one pair per SEAT, through which they     *)
(* talk one byte at a time.  Every action is the code between two          *)
(* accesses to something another thread can see: a critical section of     *)
(* memory_mutex, a byte read from or written to a pipe.  A broadcast to    *)
(* all the seats is one action with the critical section before it: only   *)
(* the main thread writes server_write_pipes, so writing early takes       *)
(* nothing from the readers but waiting.  What a player sends is any       *)
(* member of Inputs, at any time; what it is sent back is not kept here.   *)
(***************************************************************************)
EXTENDS Cards

CONSTANTS
    N,            \* number of seats: the literal 4 of the program
    Tricks,       \* tricks in a deal: the literal 13 of run_deal
    GameFile,     \* the deals FileReader returns, [seat, cards]
    Connections,  \* the client connections, one thread each
    Droppers,     \* those that may break off or send garbage
    Inputs,       \* what a player may send: TRICKs, [trick, card], or Garbage
    Garbage,      \* a message TRICK_client_check refuses
    MaxQueued,    \* bound: messages one seat's barrier_messages may hold
    Free          \* the -1 of seats_status

Seats == 0 .. N - 1
Nobody == N       \* the "x" of player_turn and the "" of seat

ASSUME ServerAssumption ==
    /\ N \in Nat \ {0}
    /\ Tricks \in Nat \ {0}
    /\ MaxQueued \in Nat
    /\ Droppers \subseteq Connections
    /\ Free \notin Connections
    /\ Inputs \subseteq [trick : Nat, card : Card] \cup {Garbage}
    /\ GameFile \in Seq([seat : Seats, cards : [Seats -> SUBSET Card]])
    /\ \A d \in DOMAIN GameFile : \A s, t \in Seats :
          s # t => GameFile[d].cards[s] \cap GameFile[d].cards[t] = {}

(* No hand has more cards than there are tricks: 13 in the program.        *)
ASSUME HandsFit ==
    \A d \in DOMAIN GameFile : \A s \in Seats :
        /\ IsFiniteSet(GameFile[d].cards[s])
        /\ Cardinality(GameFile[d].cards[s]) <= Tricks

(* The bytes of common.h. *)
DISCONNECTED == "c"
CARD_PLAY == "p"
BARRIER_RESPONSE == "b"
SCORES == "s"
TAKEN == "t"
DEAL == "l"
BARRIER_END == "r"
ToServer == {DISCONNECTED, CARD_PLAY, BARRIER_RESPONSE}
ToClient == {DISCONNECTED, CARD_PLAY, BARRIER_RESPONSE, SCORES, TAKEN, DEAL,
             BARRIER_END}

VARIABLES
    (* the main thread *)
    server,               \* where it is
    caller,               \* where barrier() returns to
    deals_read,           \* deals read_next_deal has returned
    turn,                 \* the loop variable i over the players of a trick
    b_received_card,
    ready,                \* seats whose revents of run_deal's poll are unread
    barrier_ready,        \* the same for barrier's poll
    aborted,              \* close_server was called with an error message
    (* members of Serwer, shared by all threads *)
    listening,            \* the connection thread runs
    occupied,
    b_is_barrier_ongoing,
    seats_status,
    cards,
    cards_on_table,
    taken_tricks,
    trick_number,
    last_taker,
    player_turn,
    barrier_messages,
    server_read_pipes,    \* bytes from the threads of a seat to the main thread
    server_write_pipes,   \* bytes from the main thread to the seat
    (* the client threads *)
    pc,
    seat,                 \* the seat of a thread, once it has reserved one
    b_was_destined_to_play,
    b_is_barrier,
    current_trick

mainVars == <<server, caller, deals_read, turn, b_received_card, ready,
              barrier_ready, aborted, listening>>
gameVars == <<cards, cards_on_table, taken_tricks, trick_number, last_taker,
              player_turn>>
barrierVars == <<occupied, b_is_barrier_ongoing>>
pipeVars == <<server_read_pipes, server_write_pipes>>
threadVars == <<pc, seat, b_was_destined_to_play, b_is_barrier, current_trick>>
vars == <<mainVars, gameVars, barrierVars, pipeVars, threadVars, seats_status,
          barrier_messages>>

InBarrier == {"barrier", "barrier_poll", "barrier_scan"}
MainStates == InBarrier \cup {"read_deal", "run_deal", "trick", "turn", "ask",
    "await", "scan", "taken", "scores", "close", "join", "closed"}
(* The thread is between reserving its seat and giving it up. *)
Serving == {"greet", "enter", "top", "poll", "pipe", "notify", "drain",
            "barrier_end"}
ThreadStates == Serving \cup {"idle", "iam", "bye", "gone"}

Init ==
    /\ server = "barrier" /\ caller = "read_deal"
    /\ deals_read = 0 /\ turn = 0 /\ b_received_card = FALSE
    /\ ready = {} /\ barrier_ready = {} /\ aborted = FALSE
    /\ listening = TRUE
    /\ occupied = 0 /\ b_is_barrier_ongoing = FALSE
    /\ seats_status = [s \in Seats |-> Free]
    /\ cards = [s \in Seats |-> {}]
    /\ cards_on_table = <<>> /\ taken_tricks = <<>> /\ trick_number = 0
    /\ last_taker = 0 /\ player_turn = Nobody
    /\ barrier_messages = [s \in Seats |-> <<>>]
    /\ server_read_pipes = [s \in Seats |-> <<>>]
    /\ server_write_pipes = [s \in Seats |-> <<>>]
    /\ pc = [c \in Connections |-> "idle"]
    /\ seat = [c \in Connections |-> Nobody]
    /\ b_was_destined_to_play = [c \in Connections |-> FALSE]
    /\ b_is_barrier = [c \in Connections |-> FALSE]
    /\ current_trick = [c \in Connections |-> 0]
-----------------------------------------------------------------------------
(* write_to_pipe and read_from_pipe, one byte.                             *)
Broadcast(byte) ==
    server_write_pipes' = [s \in Seats |-> Append(server_write_pipes[s], byte)]
WriteToClient(s, byte) ==
    server_write_pipes' = [server_write_pipes EXCEPT ![s] = Append(@, byte)]
WriteToServer(s, byte) ==
    server_read_pipes' = [server_read_pipes EXCEPT ![s] = Append(@, byte)]
ReadFromClients(s) ==
    /\ server_read_pipes[s] # <<>>
    /\ server_read_pipes' = [server_read_pipes EXCEPT ![s] = Tail(@)]

(* The seats whose revents a poll sets.                                    *)
ReadableOrNot == Seats
Readable == {s \in Seats : server_read_pipes[s] # <<>>}

(* The poll loops look at the seats in index order.                        *)
IsNext(j, S) == j \in S /\ \A k \in S : j <= k

(* close_server(message) with a message: the server gives up.              *)
Abort == server' = "close" /\ aborted' = TRUE
-----------------------------------------------------------------------------
(* waiting = 4 - occupied, and the loop goes on while it is positive.      *)
LoopOrReturnStale(count) == IF N - occupied > 0 THEN "barrier_poll" ELSE caller
LoopOrReturn(count) == IF N - count > 0 THEN "barrier_poll" ELSE caller

KeepCount == UNCHANGED occupied
ResetCount == occupied' = 0

(* barrier(): one critical section resets the count, then every seat is    *)
(* sent a BARRIER_RESPONSE.                                                *)
BarrierBegin ==
    /\ server = "barrier"
    /\ b_is_barrier_ongoing' = TRUE
    /\ ResetCount
    /\ Broadcast(BARRIER_RESPONSE)
    /\ server' = LoopOrReturn(0)
    /\ UNCHANGED <<caller, deals_read, turn, b_received_card, ready,
                   barrier_ready, aborted, listening, gameVars, seats_status,
                   server_read_pipes, barrier_messages, threadVars>>

BarrierPoll ==
    /\ server = "barrier_poll"
    /\ Readable # {}
    /\ barrier_ready' = Readable
    /\ server' = "barrier_scan"
    /\ UNCHANGED <<caller, deals_read, turn, b_received_card, ready, aborted,
                   listening, gameVars, barrierVars, seats_status, pipeVars,
                   barrier_messages, threadVars>>

(* One byte of seat j's pipe.  Whoever takes the seat of a client that     *)
(* left is sent a BARRIER_RESPONSE of its own; a byte that is neither      *)
(* DISCONNECTED nor BARRIER_RESPONSE closes the server.                    *)
BarrierScan(j) ==
    /\ server = "barrier_scan"
    /\ IsNext(j, barrier_ready)
    /\ ReadFromClients(j)
    /\ LET wake_msg == Head(server_read_pipes[j]) IN
       \/ /\ wake_msg = DISCONNECTED
          /\ WriteToClient(j, BARRIER_RESPONSE)
          /\ barrier_ready' = barrier_ready \ {j}
          /\ UNCHANGED <<server, aborted>>
       \/ /\ wake_msg = BARRIER_RESPONSE
          /\ barrier_ready' = barrier_ready \ {j}
          /\ UNCHANGED <<server, aborted, server_write_pipes>>
       \/ /\ wake_msg \notin {DISCONNECTED, BARRIER_RESPONSE}
          /\ Abort
          /\ UNCHANGED <<barrier_ready, server_write_pipes>>
    /\ UNCHANGED <<caller, deals_read, turn, b_received_card, ready, listening,
                   gameVars, barrierVars, seats_status, barrier_messages,
                   threadVars>>

(* The critical section at the end of the loop's body.  More than N        *)
(* answers end the loop too, but only N of them clear the flag.            *)
BarrierCheck ==
    /\ server = "barrier_scan"
    /\ barrier_ready = {}
    /\ server' = LoopOrReturn(occupied)
    /\ \/ /\ occupied < N
          /\ UNCHANGED <<b_is_barrier_ongoing, server_write_pipes>>
       \/ /\ occupied >= N
          /\ b_is_barrier_ongoing' = (occupied # N /\ b_is_barrier_ongoing)
          /\ Broadcast(BARRIER_END)
    /\ UNCHANGED <<caller, deals_read, turn, b_received_card, ready,
                   barrier_ready, aborted, listening, gameVars, occupied,
                   seats_status, server_read_pipes, barrier_messages,
                   threadVars>>
-----------------------------------------------------------------------------
(* run_game: the critical section that takes the next deal of the file, or *)
(* the end of the game.                                                    *)
ReadDeal ==
    /\ server = "read_deal"
    /\ \/ /\ deals_read < Len(GameFile)
          /\ deals_read' = deals_read + 1
          /\ cards' = GameFile[deals_read + 1].cards
          /\ taken_tricks' = <<>>
          /\ server' = "run_deal"
       \/ /\ deals_read = Len(GameFile)
          /\ server' = "close"
          /\ UNCHANGED <<deals_read, cards, taken_tricks>>
    /\ UNCHANGED <<caller, turn, b_received_card, ready, barrier_ready, aborted,
                   listening, cards_on_table, trick_number, last_taker,
                   player_turn, barrierVars, seats_status, pipeVars,
                   barrier_messages, threadVars>>

(* run_deal up to the loop over the tricks. *)
DealBegin ==
    /\ server = "run_deal"
    /\ last_taker' = GameFile[deals_read].seat
    /\ trick_number' = 0
    /\ Broadcast(DEAL)
    /\ server' = "trick"
    /\ UNCHANGED <<caller, deals_read, turn, b_received_card, ready,
                   barrier_ready, aborted, listening, cards, cards_on_table,
                   taken_tricks, player_turn, barrierVars, seats_status,
                   server_read_pipes, barrier_messages, threadVars>>

(* The critical section that opens a trick, or the way out of the loop.    *)
TrickBegin ==
    /\ server = "trick"
    /\ \/ /\ trick_number < Tricks
          /\ cards_on_table' = <<>>
          /\ trick_number' = trick_number + 1
          /\ turn' = 0
          /\ server' = "turn"
       \/ /\ trick_number = Tricks
          /\ server' = "scores"
          /\ UNCHANGED <<cards_on_table, trick_number, turn>>
    /\ UNCHANGED <<caller, deals_read, b_received_card, ready, barrier_ready,
                   aborted, listening, cards, taken_tricks, last_taker,
                   player_turn, barrierVars, seats_status, pipeVars,
                   barrier_messages, threadVars>>

(* The seat whose card is due: beginning is last_taker for the whole trick. *)
AskedFromNorth == turn
AskedBackwards == (last_taker + N - turn) % N
Asked == (last_taker + turn) % N

TurnBegin ==
    /\ server = "turn"
    /\ player_turn' = Asked
    /\ server' = "ask"
    /\ UNCHANGED <<caller, deals_read, turn, b_received_card, ready,
                   barrier_ready, aborted, listening, cards, cards_on_table,
                   taken_tricks, trick_number, last_taker, barrierVars,
                   seats_status, pipeVars, barrier_messages, threadVars>>

AskForCard ==
    /\ server = "ask"
    /\ WriteToClient(Asked, CARD_PLAY)
    /\ b_received_card' = FALSE
    /\ server' = "await"
    /\ UNCHANGED <<caller, deals_read, turn, ready, barrier_ready, aborted,
                   listening, gameVars, barrierVars, seats_status,
                   server_read_pipes, barrier_messages, threadVars>>

Poll ==
    /\ server = "await"
    /\ Readable # {}
    /\ ready' = Readable
    /\ server' = "scan"
    /\ UNCHANGED <<caller, deals_read, turn, b_received_card, barrier_ready,
                   aborted, listening, gameVars, barrierVars, seats_status,
                   pipeVars, barrier_messages, threadVars>>

(* barrier() is called and returns to "where".                             *)
NoBarrier(where) == server' = where /\ UNCHANGED caller
BarrierThen(where) == server' = "barrier" /\ caller' = where

(* One byte of seat j's pipe.  The read blocks while the pipe is empty,    *)
(* whatever the revents of an earlier poll say of it.                      *)
Scan(j) ==
    /\ server = "scan"
    /\ IsNext(j, ready)
    /\ ReadFromClients(j)
    /\ ready' = ready \ {j}
    /\ LET thread_message == Head(server_read_pipes[j]) IN
       \/ /\ thread_message = CARD_PLAY /\ j = Asked
          /\ b_received_card' = TRUE
          /\ UNCHANGED <<server, caller, aborted>>
       \/ /\ thread_message = DISCONNECTED
          /\ BarrierThen("scan")
          /\ UNCHANGED <<b_received_card, aborted>>
       \/ /\ thread_message # DISCONNECTED
          /\ ~(thread_message = CARD_PLAY /\ j = Asked)
          /\ Abort
          /\ UNCHANGED <<b_received_card, caller>>
    /\ UNCHANGED <<deals_read, turn, barrier_ready, listening, gameVars,
                   barrierVars, seats_status, server_write_pipes,
                   barrier_messages, threadVars>>

LastTurnPlusOne == turn = N
LastTurn == turn = N - 1

(* The end of a scan: poll again, ask the next player or take the trick.   *)
ScanEnd ==
    /\ server = "scan"
    /\ ready = {}
    /\ \/ /\ ~b_received_card
          /\ server' = "await"
          /\ UNCHANGED turn
       \/ /\ b_received_card
          /\ ~LastTurn
          /\ turn' = turn + 1
          /\ server' = "turn"
       \/ /\ b_received_card
          /\ LastTurn
          /\ server' = "taken"
          /\ UNCHANGED turn
    /\ UNCHANGED <<caller, deals_read, b_received_card, ready, barrier_ready,
                   aborted, listening, gameVars, barrierVars, seats_status,
                   pipeVars, barrier_messages, threadVars>>

(* PointsCalculator reads the first N cards of the table, the leader's     *)
(* first, and find_taker returns the seat of the winning one.  Reading     *)
(* past the end of a shorter table is undefined: any seat may come out.    *)
TakersFromNorth ==
    IF Len(cards_on_table) < N
    THEN Seats
    ELSE {s \in Seats : Wins(SubSeq(cards_on_table, 1, N), s + 1)}
Takers ==
    IF Len(cards_on_table) < N
    THEN Seats
    ELSE {s \in Seats : \E p \in 1..N :
             /\ Wins(SubSeq(cards_on_table, 1, N), p)
             /\ s = (last_taker + p - 1) % N}

(* N CARD_PLAYs received. *)
TrickTaken ==
    /\ server = "taken"
    /\ last_taker' \in Takers
    /\ taken_tricks' = Append(taken_tricks, cards_on_table)
    /\ Broadcast(TAKEN)
    /\ BarrierThen("trick")
    /\ UNCHANGED <<deals_read, turn, b_received_card, ready, barrier_ready,
                   aborted, listening, cards, cards_on_table, trick_number,
                   player_turn, barrierVars, seats_status, server_read_pipes,
                   barrier_messages, threadVars>>

SendScores ==
    /\ server = "scores"
    /\ Broadcast(SCORES)
    /\ BarrierThen("read_deal")
    /\ UNCHANGED <<deals_read, turn, b_received_card, ready, barrier_ready,
                   aborted, listening, gameVars, barrierVars, seats_status,
                   server_read_pipes, barrier_messages, threadVars>>

(* close_server: the connection thread is ended and joined, every seat is  *)
(* sent DISCONNECTED, every client thread is joined.                       *)
CloseServer ==
    /\ server = "close"
    /\ listening' = FALSE
    /\ Broadcast(DISCONNECTED)
    /\ server' = "join"
    /\ UNCHANGED <<caller, deals_read, turn, b_received_card, ready,
                   barrier_ready, aborted, gameVars, barrierVars, seats_status,
                   server_read_pipes, barrier_messages, threadVars>>

JoinThreads ==
    /\ server = "join"
    /\ \A c \in Connections : pc[c] \in {"idle", "gone"}
    /\ server' = "closed"
    /\ UNCHANGED <<caller, deals_read, turn, b_received_card, ready,
                   barrier_ready, aborted, listening, gameVars, barrierVars,
                   seats_status, pipeVars, barrier_messages, threadVars>>
-----------------------------------------------------------------------------
Goto(c, where) == pc' = [pc EXCEPT ![c] = where]

(* handle_connections: accept and start a thread. *)
Accept(c) ==
    /\ listening
    /\ pc[c] = "idle"
    /\ Goto(c, "iam")
    /\ UNCHANGED <<mainVars, gameVars, barrierVars, seats_status, pipeVars,
                   barrier_messages, seat, b_was_destined_to_play, b_is_barrier,
                   current_trick>>

(* reserve_spot ends without a seat: no IAM in time, something else than   *)
(* an IAM, or the seat asked for is taken and BUSY is the answer.          *)
NoSeat(c) ==
    /\ pc[c] = "iam"
    /\ Goto(c, "gone")
    /\ \/ c \in Droppers
       \/ \E s \in Seats : seats_status[s] # Free
    /\ UNCHANGED <<mainVars, gameVars, barrierVars, seats_status, pipeVars,
                   barrier_messages, seat, b_was_destined_to_play, b_is_barrier,
                   current_trick>>

AnySeat(s) == TRUE
SeatIsFree(s) == seats_status[s] = Free

(* deal[0] is not empty: a deal was read and gave its first seat cards.    *)
DealIsOn == deals_read > 0 /\ GameFile[deals_read].cards[0] # {}

(* reserve_spot takes the seat; when a deal is on the newcomer is sent     *)
(* what it missed.                                                         *)
Reserve(c, s) ==
    /\ pc[c] = "iam"
    /\ SeatIsFree(s)
    /\ seats_status' = [seats_status EXCEPT ![s] = c]
    /\ seat' = [seat EXCEPT ![c] = s]
    /\ Goto(c, IF DealIsOn THEN "greet" ELSE "enter")
    /\ UNCHANGED <<mainVars, gameVars, barrierVars, pipeVars, barrier_messages,
                   b_was_destined_to_play, b_is_barrier, current_trick>>

(* The last critical section of the greeting: is it my turn?               *)
Greet(c) ==
    /\ pc[c] = "greet"
    /\ b_was_destined_to_play' =
          [b_was_destined_to_play EXCEPT ![c] = (player_turn = seat[c])]
    /\ Goto(c, "enter")
    /\ UNCHANGED <<mainVars, gameVars, barrierVars, seats_status, pipeVars,
                   barrier_messages, seat, b_is_barrier, current_trick>>

(* A write of the greeting fails: close_thread with b_was_occupying false, *)
(* which does not give the seat back.                                      *)
GreetFails(c) ==
    /\ c \in Droppers
    /\ pc[c] = "greet"
    /\ Goto(c, "gone")
    /\ UNCHANGED <<mainVars, gameVars, barrierVars, seats_status, pipeVars,
                   barrier_messages, seat, b_was_destined_to_play, b_is_barrier,
                   current_trick>>

(* The critical section at the end of reserve_spot. *)
Enter(c) ==
    /\ pc[c] = "enter"
    /\ b_is_barrier' = [b_is_barrier EXCEPT ![c] = b_is_barrier_ongoing]
    /\ Goto(c, "top")
    /\ UNCHANGED <<mainVars, gameVars, barrierVars, seats_status, pipeVars,
                   barrier_messages, seat, b_was_destined_to_play, current_trick>>

(* The critical section at the top of client_poll's loop. *)
LoopTop(c) ==
    /\ pc[c] = "top"
    /\ current_trick' = [current_trick EXCEPT ![c] = trick_number]
    /\ b_is_barrier' = [b_is_barrier EXCEPT ![c] = @ \/ b_is_barrier_ongoing]
    /\ Goto(c, IF \/ b_is_barrier[c] \/ b_is_barrier_ongoing
                  \/ barrier_messages[seat[c]] = <<>>
               THEN "poll" ELSE "drain")
    /\ UNCHANGED <<mainVars, gameVars, barrierVars, seats_status, pipeVars,
                   barrier_messages, seat, b_was_destined_to_play>>
-----------------------------------------------------------------------------
(* The critical section of close_thread, for a thread that holds a seat.   *)
(* The seat stays taken when it is the server that ends.                   *)
Leave(c, b_was_ended_by_server) ==
    /\ occupied' = IF occupied > 0 THEN occupied - 1 ELSE 0
    /\ IF b_was_ended_by_server
       THEN UNCHANGED <<b_is_barrier_ongoing, seats_status>>
       ELSE /\ b_is_barrier_ongoing' = TRUE
            /\ seats_status' = [seats_status EXCEPT ![seat[c]] = Free]

(* The client is gone: DISCONNECTED is written after that, by Bye.         *)
CloseThread(c) ==
    /\ Leave(c, FALSE)
    /\ Goto(c, "bye")

Bye(c) ==
    /\ pc[c] = "bye"
    /\ WriteToServer(seat[c], DISCONNECTED)
    /\ Goto(c, "gone")
    /\ UNCHANGED <<mainVars, gameVars, barrierVars, seats_status,
                   server_write_pipes, barrier_messages, seat,
                   b_was_destined_to_play, b_is_barrier, current_trick>>

(* parse_message lets the card through. *)
LegalUnasked(c, message) ==
    /\ message.trick = current_trick[c]
    /\ message.card \in cards[seat[c]]
    /\ PlayedRightColour(message.card, cards[seat[c]], cards_on_table)
LegalUnheld(c, message) ==
    /\ b_was_destined_to_play[c]
    /\ message.trick = current_trick[c]
    /\ PlayedRightColour(message.card, cards[seat[c]], cards_on_table)
Legal(c, message) ==
    /\ b_was_destined_to_play[c]
    /\ message.trick = current_trick[c]
    /\ message.card \in cards[seat[c]]
    /\ PlayedRightColour(message.card, cards[seat[c]], cards_on_table)

StillDestined(c) == UNCHANGED b_was_destined_to_play
Answered(c) ==
    b_was_destined_to_play' = [b_was_destined_to_play EXCEPT ![c] = FALSE]

(* parse_message, after which the thread goes on at "after": the card is   *)
(* played, or WRONG is sent, or the connection is closed because the       *)
(* message is no TRICK or WRONG could not be sent.                         *)
PlayCard(c, message, after) ==
    /\ cards' = [cards EXCEPT ![seat[c]] = @ \ {message.card}]
    /\ cards_on_table' = Append(cards_on_table, message.card)
    /\ player_turn' = Nobody
    /\ WriteToServer(seat[c], CARD_PLAY)
    /\ Answered(c)
    /\ Goto(c, after)
    /\ UNCHANGED <<barrierVars, seats_status, taken_tricks, trick_number,
                   last_taker>>

Parse(c, message, after) ==
    \/ /\ message # Garbage
       /\ Legal(c, message)
       /\ PlayCard(c, message, after)
    \/ /\ message # Garbage
       /\ ~Legal(c, message)
       /\ Goto(c, after)
       /\ UNCHANGED <<gameVars, barrierVars, seats_status, server_read_pipes,
                      b_was_destined_to_play>>
    \/ /\ c \in Droppers
       /\ message # Garbage => ~Legal(c, message)
       /\ CloseThread(c)
       /\ UNCHANGED <<gameVars, server_read_pipes, b_was_destined_to_play>>

(* The loops over barrier_messages: at the top of the loop, when no        *)
(* barrier is on, and on BARRIER_END.  One message a step.                 *)
Drain(c) ==
    /\ pc[c] \in {"drain", "barrier_end"}
    /\ barrier_messages[seat[c]] # <<>>
    /\ barrier_messages' = [barrier_messages EXCEPT ![seat[c]] = Tail(@)]
    /\ LET queued == barrier_messages[seat[c]]
           after == IF Len(queued) > 1 THEN pc[c]
                    ELSE IF pc[c] = "drain" THEN "poll" ELSE "top"
       IN  Parse(c, Head(queued), after)
    /\ UNCHANGED <<mainVars, server_write_pipes, seat, b_is_barrier,
                   current_trick>>

(* What follows the socket's branch: the same poll may have reported the   *)
(* pipe too, if it is readable now; else the loop starts over.             *)
AfterSocket(c) ==
    {"top"} \cup (IF server_write_pipes[seat[c]] # <<>> THEN {"pipe"} ELSE {})

(* The client sent a message: kept for later during a barrier.             *)
SocketMessage(c, message) ==
    /\ pc[c] = "poll"
    /\ message = Garbage => c \in Droppers
    /\ \/ /\ b_is_barrier[c]
          /\ Len(barrier_messages[seat[c]]) < MaxQueued
          /\ barrier_messages' =
                [barrier_messages EXCEPT ![seat[c]] = Append(@, message)]
          /\ \E after \in AfterSocket(c) : Goto(c, after)
          /\ UNCHANGED <<gameVars, barrierVars, seats_status, server_read_pipes,
                         b_was_destined_to_play>>
       \/ /\ ~b_is_barrier[c]
          /\ \E after \in AfterSocket(c) : Parse(c, message, after)
          /\ UNCHANGED barrier_messages
    /\ UNCHANGED <<mainVars, server_write_pipes, seat, b_is_barrier,
                   current_trick>>

(* The client closed the connection, or TRICK could not be sent again.     *)
SocketClosed(c) ==
    /\ c \in Droppers
    /\ pc[c] = "poll"
    /\ CloseThread(c)
    /\ UNCHANGED <<mainVars, gameVars, pipeVars, barrier_messages, seat,
                   b_was_destined_to_play, b_is_barrier, current_trick>>

(* TRICK is sent again: the poll timed out and the loop starts over, or it *)
(* woke for the pipe after the timeout and goes on to read it.             *)
Timeout(c) ==
    /\ pc[c] = "poll"
    /\ b_was_destined_to_play[c]
    /\ \E after \in AfterSocket(c) : Goto(c, after)
    /\ UNCHANGED <<mainVars, gameVars, barrierVars, seats_status, pipeVars,
                   barrier_messages, seat, b_was_destined_to_play, b_is_barrier,
                   current_trick>>
-----------------------------------------------------------------------------
(* One byte of the server, read after poll reported the pipe.              *)
ReadFromServer(c, byte) ==
    /\ pc[c] \in {"poll", "pipe"}
    /\ server_write_pipes[seat[c]] # <<>>
    /\ byte = Head(server_write_pipes[seat[c]])
    /\ server_write_pipes' = [server_write_pipes EXCEPT ![seat[c]] = Tail(@)]

(* CARD_PLAY: TRICK is sent with the number and the table of this moment.  *)
OnCardPlay(c) ==
    /\ ReadFromServer(c, CARD_PLAY)
    /\ current_trick' = [current_trick EXCEPT ![c] = trick_number]
    /\ b_was_destined_to_play' = [b_was_destined_to_play EXCEPT ![c] = TRUE]
    /\ Goto(c, "top")
    /\ UNCHANGED <<mainVars, gameVars, barrierVars, seats_status,
                   server_read_pipes, barrier_messages, seat, b_is_barrier>>

(* DEAL, TAKEN and SCORES only send to the client. *)
OnAnnouncement(c) ==
    /\ \E byte \in {DEAL, TAKEN, SCORES} : ReadFromServer(c, byte)
    /\ Goto(c, "top")
    /\ UNCHANGED <<mainVars, gameVars, barrierVars, seats_status,
                   server_read_pipes, barrier_messages, seat,
                   b_was_destined_to_play, b_is_barrier, current_trick>>

(* A handler that sends finds the connection broken: the byte is consumed. *)
SendFails(c) ==
    /\ c \in Droppers
    /\ \E byte \in {CARD_PLAY, DEAL, TAKEN, SCORES} : ReadFromServer(c, byte)
    /\ CloseThread(c)
    /\ UNCHANGED <<mainVars, gameVars, server_read_pipes, barrier_messages,
                   seat, b_was_destined_to_play, b_is_barrier, current_trick>>

EachAnswer == occupied + 1 >= N - 1
LastAnswer == occupied + 1 = N

(* BARRIER_RESPONSE: the thread counts itself; the one that makes it four  *)
(* tells the main thread.                                                  *)
OnBarrierResponse(c) ==
    /\ ReadFromServer(c, BARRIER_RESPONSE)
    /\ b_is_barrier' = [b_is_barrier EXCEPT ![c] = TRUE]
    /\ occupied' = occupied + 1
    /\ Goto(c, IF LastAnswer THEN "notify" ELSE "top")
    /\ UNCHANGED <<mainVars, gameVars, b_is_barrier_ongoing, seats_status,
                   server_read_pipes, barrier_messages, seat,
                   b_was_destined_to_play, current_trick>>

Notify(c) ==
    /\ pc[c] = "notify"
    /\ WriteToServer(seat[c], BARRIER_RESPONSE)
    /\ Goto(c, "top")
    /\ UNCHANGED <<mainVars, gameVars, barrierVars, seats_status,
                   server_write_pipes, barrier_messages, seat,
                   b_was_destined_to_play, b_is_barrier, current_trick>>

OnBarrierEnd(c) ==
    /\ ReadFromServer(c, BARRIER_END)
    /\ b_is_barrier' = [b_is_barrier EXCEPT ![c] = FALSE]
    /\ Goto(c, IF barrier_messages[seat[c]] = <<>> THEN "top" ELSE "barrier_end")
    /\ UNCHANGED <<mainVars, gameVars, barrierVars, seats_status,
                   server_read_pipes, barrier_messages, seat,
                   b_was_destined_to_play, current_trick>>

(* DISCONNECTED: the server ends, the seat stays taken. *)
OnDisconnected(c) ==
    /\ ReadFromServer(c, DISCONNECTED)
    /\ Leave(c, TRUE)
    /\ Goto(c, "gone")
    /\ UNCHANGED <<mainVars, gameVars, server_read_pipes, barrier_messages, seat,
                   b_was_destined_to_play, b_is_barrier, current_trick>>
-----------------------------------------------------------------------------
Server ==
    \/ BarrierBegin \/ BarrierPoll \/ BarrierCheck
    \/ \E j \in Seats : BarrierScan(j) \/ Scan(j)
    \/ ReadDeal \/ DealBegin \/ TrickBegin \/ TurnBegin \/ AskForCard
    \/ Poll \/ ScanEnd \/ TrickTaken \/ SendScores
    \/ CloseServer \/ JoinThreads

OwnStep(c) ==
    \/ Greet(c) \/ Enter(c) \/ LoopTop(c) \/ Bye(c) \/ Drain(c) \/ Notify(c)
PipeStep(c) ==
    \/ OnCardPlay(c) \/ OnAnnouncement(c) \/ OnBarrierResponse(c)
    \/ OnBarrierEnd(c) \/ OnDisconnected(c)

Environment(c) ==
    \/ Accept(c) \/ NoSeat(c) \/ GreetFails(c) \/ SocketClosed(c)
    \/ Timeout(c) \/ SendFails(c)
    \/ \E s \in Seats : Reserve(c, s)
    \/ \E message \in Inputs : SocketMessage(c, message)

Next == Server \/ \E c \in Connections :
            OwnStep(c) \/ PipeStep(c) \/ Environment(c)

Spec == Init /\ [][Next]_vars
=============================================================================
