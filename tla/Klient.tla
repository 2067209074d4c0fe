------------------------------- MODULE Klient -------------------------------
(***************************************************************************)
(* One client of klient.cpp: its main thread (run_client), which reads     *)
(* what the user types, and its worker (handle_client), which talks to the *)
(* server; the queue, the mutex and the two pipes between them; an         *)
(* automatic player types nothing and its worker answers by itself.  The   *)
(* server is any peer that deals, asks, takes tricks and scores, in that   *)
(* order, and may stop anywhere.  An action is the code between two        *)
(* accesses to what the other thread can see.                              *)
(***************************************************************************)
EXTENDS KlientMessages

CONSTANTS
    Seats,
    Seat,           \* the seat of this client
    Hand,           \* the cards of every DEAL
    Tables,         \* what may lie on the table of a TRICK
    TakenTables,    \* what may be taken
    MaxTyped,       \* bound: cards the user types
    MaxSent,        \* bound: messages of the server
    Unlocked, Locked

ASSUME KlientAssumption ==
    /\ Seat \in Seats
    /\ NoCard \notin Card
    /\ Hand \subseteq Card /\ Cardinality(Hand) = Tricks
    /\ Tables \subseteq Seq(Card) /\ TakenTables \subseteq Seq(Card)
    /\ {MaxTyped, MaxSent} \subseteq Nat
    /\ Unlocked # Locked

(* The bytes of common.h. *)
DISCONNECTED == "c"
CARD_PLAY == "p"
SERVER_DISCONNECT == "d"
NORMAL_END == "n"

VARIABLES
    is_ai,
    main,               \* where the main thread is
    worker,             \* where the worker is
    status,             \* what run_client returns
    access_mutex,
    messages_to_send,
    client_write_pipe,  \* bytes for the worker
    client_read_pipe,   \* bytes for the main thread
    client,             \* what the server's messages change
    to_client,          \* messages of the server not read yet
    to_server,          \* all that was sent to the server
    typed,              \* all the cards the user typed
    said,               \* the last message of the server that counts
    sent,               \* how many it sent
    connected           \* the server has not closed the connection

mainVars == <<main, status, typed>>
sharedVars == <<access_mutex, messages_to_send, client_write_pipe,
                client_read_pipe>>
workerVars == <<worker, client, to_server>>
serverVars == <<to_client, said, sent, connected>>
vars == <<is_ai, mainVars, sharedVars, workerVars, serverVars>>

Init ==
    /\ is_ai \in BOOLEAN
    /\ main = "prepare" /\ worker = "none" /\ status = 1
    /\ access_mutex = Unlocked
    /\ messages_to_send = <<>>
    /\ client_write_pipe = <<>> /\ client_read_pipe = <<>>
    /\ client = NewClient
    /\ to_client = <<>> /\ to_server = <<>> /\ typed = <<>>
    /\ said = "nothing" /\ sent = 0 /\ connected = TRUE
-----------------------------------------------------------------------------
(* prepare_client: the connection, IAM and the worker; or the process ends. *)
Prepare ==
    /\ main = "prepare"
    /\ \/ main' = "poll" /\ worker' = "poll"
       \/ main' = "exited" /\ UNCHANGED worker
    /\ UNCHANGED <<is_ai, status, typed, sharedVars, client, to_server,
                   serverVars>>

(* run_client: a line "!card" is queued in a critical section, then the    *)
(* worker is told.                                                         *)
QueueLatest(card) == <<card>>
Queue(card) == Append(messages_to_send, card)

TypeCard(card) ==
    /\ main = "poll" /\ ~is_ai
    /\ Len(typed) < MaxTyped
    /\ access_mutex = Unlocked
    /\ messages_to_send' = Queue(card)
    /\ typed' = Append(typed, card)
    /\ main' = "tell"
    /\ UNCHANGED <<is_ai, status, access_mutex, client_write_pipe,
                   client_read_pipe, workerVars, serverVars>>

TellWorker ==
    /\ main = "tell"
    /\ client_write_pipe' = Append(client_write_pipe, CARD_PLAY)
    /\ main' = "poll"
    /\ UNCHANGED <<is_ai, status, typed, access_mutex, messages_to_send,
                   client_read_pipe, workerVars, serverVars>>

(* "cards", "tricks" and wrong commands print in a critical section.       *)
TypeCommand ==
    /\ main = "poll" /\ ~is_ai
    /\ main' = "command"
    /\ UNCHANGED <<is_ai, status, typed, sharedVars, workerVars, serverVars>>

Command ==
    /\ main = "command"
    /\ access_mutex = Unlocked
    /\ main' = "poll"
    /\ UNCHANGED <<is_ai, status, typed, sharedVars, workerVars, serverVars>>

(* A byte of the worker: it ends, and so does the client, after a join.    *)
OnWorkerByte ==
    /\ main = "poll"
    /\ client_read_pipe # <<>>
    /\ client_read_pipe' = Tail(client_read_pipe)
    /\ status' = IF Head(client_read_pipe) = NORMAL_END THEN 0 ELSE 1
    /\ main' = "join"
    /\ UNCHANGED <<is_ai, typed, access_mutex, messages_to_send,
                   client_write_pipe, workerVars, serverVars>>

JoinWorker ==
    /\ main = "join"
    /\ worker = "gone"
    /\ main' = "exited"
    /\ UNCHANGED <<is_ai, status, typed, sharedVars, workerVars, serverVars>>
-----------------------------------------------------------------------------
(* close_worker: the byte for the main thread, then the socket.            *)
CloseWorker(byte) ==
    /\ client_read_pipe' = Append(client_read_pipe, byte)
    /\ worker' = "close"

CloseSocket ==
    /\ worker = "close"
    /\ worker' = "gone"
    /\ UNCHANGED <<is_ai, mainVars, sharedVars, client, to_server, serverVars>>

(* write_to_socket: fails only on a connection the server has closed.      *)
Send(number, card) ==
    \/ /\ to_server' = Append(to_server, [trick |-> number, card |-> card])
       /\ UNCHANGED <<worker, client_read_pipe>>
    \/ /\ ~connected
       /\ CloseWorker(DISCONNECTED)
       /\ UNCHANGED to_server

(* The byte is read, a card taken from the queue and sent.  front() of an  *)
(* empty queue is undefined: the properties say it does not happen.        *)
OnCardPlay ==
    /\ worker = "poll"
    /\ client_write_pipe # <<>>
    /\ messages_to_send # <<>>
    /\ access_mutex = Unlocked
    /\ client_write_pipe' = Tail(client_write_pipe)
    /\ messages_to_send' = Tail(messages_to_send)
    /\ Send(client.trick_number, Head(messages_to_send))
    /\ UNCHANGED <<is_ai, mainVars, access_mutex, client, serverVars>>

(* BUSY: the automatic client does not unlock the mutex.                   *)
NeverUnlock == access_mutex' = Locked
UnlockForUser ==
    access_mutex' = IF is_ai THEN Locked ELSE Unlocked

OnBusy ==
    /\ worker = "poll"
    /\ to_client # <<>> /\ Head(to_client) = Busy
    /\ access_mutex = Unlocked
    /\ UnlockForUser
    /\ CloseWorker(NORMAL_END)
    /\ to_client' = Tail(to_client)
    /\ UNCHANGED <<is_ai, mainVars, messages_to_send, client_write_pipe, client,
                   to_server, said, sent, connected>>

(* A TRICK of the client's own trick: the automatic player answers it      *)
(* before it unlocks.                                                      *)
Answers(message) == is_ai /\ TRICK_check(message, client.trick_number)

OnMessage ==
    /\ worker = "poll"
    /\ to_client # <<>> /\ Head(to_client) # Busy
    /\ access_mutex = Unlocked
    /\ to_client' = Tail(to_client)
    /\ LET message == Head(to_client) IN
       \/ /\ ~Answers(message)
          /\ client' = Received(client, message, Seat)
          /\ UNCHANGED <<worker, client_read_pipe, to_server>>
       \/ /\ Answers(message)
          /\ \E card \in Strategy(client, message.table) :
                /\ client' = OnTrick(client, card)
                /\ Send(client.trick_number, card)
    /\ UNCHANGED <<is_ai, mainVars, access_mutex, messages_to_send,
                   client_write_pipe, said, sent, connected>>

(* The end of the connection, once everything before it was read: the end  *)
(* of the game, or not.                                                    *)
OnServerEnd ==
    /\ worker = "poll"
    /\ ~connected /\ to_client = <<>>
    /\ access_mutex = Unlocked
    /\ CloseWorker(IF client.got_score /\ client.got_total
                   THEN NORMAL_END ELSE SERVER_DISCONNECT)
    /\ UNCHANGED <<is_ai, mainVars, access_mutex, messages_to_send,
                   client_write_pipe, client, to_server, serverVars>>

(* The server closed with something of the client's unread: the            *)
(* connection is reset and what it said last is lost.                      *)
OnReset ==
    /\ worker = "poll"
    /\ ~connected /\ to_server # <<>>
    /\ CloseWorker(DISCONNECTED)
    /\ to_client' = <<>>
    /\ UNCHANGED <<is_ai, mainVars, access_mutex, messages_to_send,
                   client_write_pipe, client, to_server, said, sent, connected>>
-----------------------------------------------------------------------------
(* The server, as far as a client can tell: it answers IAM.                *)
Say(message, last) ==
    /\ worker # "none"
    /\ connected /\ sent < MaxSent
    /\ to_client' = Append(to_client, message)
    /\ said' = last
    /\ sent' = sent + 1
    /\ UNCHANGED <<is_ai, mainVars, sharedVars, workerVars, connected>>

Refuses == said = "nothing" /\ Say(Busy, "busy")
Deals == said \in {"nothing", "total"} /\ Say(Deal(1, Hand), "deal")
Asks == /\ said = "deal"
        /\ \E n \in 1..Tricks : \E table \in Tables :
              Say(Trick(n, table), said)
Takes == /\ said = "deal"
         /\ \E n \in 1..Tricks, table \in TakenTables, taker \in Seats :
              Say(Taken(n, table, taker), said)
Corrects == said = "deal" /\ Say(Wrong, said)
Scores == said = "deal" /\ Say(Score, "score")
Totals == said = "score" /\ Say(Total, "total")

Closes ==
    /\ worker # "none"
    /\ connected
    /\ connected' = FALSE
    /\ UNCHANGED <<is_ai, mainVars, sharedVars, workerVars, to_client, said,
                   sent>>
-----------------------------------------------------------------------------
Main ==
    \/ Prepare \/ TellWorker \/ Command \/ OnWorkerByte \/ JoinWorker
User == TypeCommand \/ \E card \in Hand : TypeCard(card)
Worker ==
    \/ OnCardPlay \/ OnBusy \/ OnMessage \/ OnServerEnd \/ OnReset
    \/ CloseSocket
Server ==
    \/ Refuses \/ Deals \/ Asks \/ Takes \/ Corrects \/ Scores \/ Totals
    \/ Closes

Next == Main \/ User \/ Worker \/ Server

Spec == Init /\ [][Next]_vars

(* Both threads keep running.  A poll of the main thread reports the user  *)
(* and the pipe together and both are served in the same round, and so     *)
(* does one of the worker: strong fairness, as a user that keeps typing    *)
(* keeps neither from the rest.                                            *)
FairSpec ==
    /\ Spec
    /\ WF_vars(Main) /\ SF_vars(OnWorkerByte)
    /\ WF_vars(Worker) /\ SF_vars(OnMessage) /\ SF_vars(OnServerEnd)
=============================================================================
