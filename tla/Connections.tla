----------------------------- MODULE Connections -----------------------------
(***************************************************************************)
(* The server of Serwer with a connection thread (handle_connections) that *)
(* can fail, and what its one byte, in the fifth pipe, does to the main    *)
(* thread: in barrier() it ends the server, in run_deal close_server is    *)
(* called and the loop goes on over pipes that are closed.  A socket that  *)
(* cannot be set up is -1, or 1 when only its options cannot be set.       *)
(***************************************************************************)
EXTENDS Serwer

CONSTANT Setup     \* how setup_server_socket may end: "socket", "-1", "1"

ASSUME ConnectionsAssumption == Setup \subseteq {"socket", "-1", "1"}

VARIABLES
    connection,        \* where the connection thread is
    connection_pipe,   \* server_read_pipes[4]
    fifth_ready,       \* its revents in run_deal's poll
    barrier_fifth,     \* and in barrier's
    goes_on            \* run_deal called close_server and does not return

connectionVars == <<connection, connection_pipe, fifth_ready, barrier_fifth,
                    goes_on>>
allVars == <<vars, connectionVars>>

CInit ==
    /\ Init
    /\ \E fd \in Setup :
          connection = CASE fd = "socket" -> "listens"
                         [] fd = "-1" -> "failed"
                         [] fd = "1" -> "deaf"
    /\ connection_pipe = <<>>
    /\ fifth_ready = FALSE /\ barrier_fifth = FALSE /\ goes_on = FALSE
-----------------------------------------------------------------------------
(* close_thread("K"): no seat to give back; the main thread is told.       *)
TellNobody == UNCHANGED connection_pipe
TellServer ==
    connection_pipe' = Append(connection_pipe, DISCONNECTED)

(* No socket: the thread tells the main thread and ends.                   *)
NoSocket ==
    /\ connection = "failed"
    /\ connection' = "gone"
    /\ TellServer
    /\ UNCHANGED <<vars, fifth_ready, barrier_fifth, goes_on>>

(* accept fails: the thread closes the socket and goes on polling it; a    *)
(* descriptor 1 that becomes readable is no socket either.  Or no thread   *)
(* can be started for the client, and the connection thread ends.          *)
AcceptFails ==
    /\ listening
    /\ \/ connection \in {"listens", "deaf"} /\ connection' = "closed"
       \/ connection = "listens" /\ connection' = "gone"
    /\ TellServer
    /\ UNCHANGED <<vars, fifth_ready, barrier_fifth, goes_on>>

Client(c) ==
    /\ OwnStep(c) \/ PipeStep(c) \/ Environment(c)
    /\ pc[c] = "idle" => connection = "listens"
    /\ UNCHANGED connectionVars
-----------------------------------------------------------------------------
(* The polls of the main thread look at the fifth pipe too, after those of *)
(* the seats.                                                              *)
FifthReadable == connection_pipe # <<>>

PollFive ==
    /\ server = "await"
    /\ Readable # {} \/ FifthReadable
    /\ ready' = Readable
    /\ fifth_ready' = FifthReadable
    /\ server' = "scan"
    /\ UNCHANGED <<caller, deals_read, turn, b_received_card, barrier_ready,
                   aborted, listening, gameVars, barrierVars, seats_status,
                   pipeVars, barrier_messages, threadVars, connection,
                   connection_pipe, barrier_fifth, goes_on>>

BarrierPollFive ==
    /\ server = "barrier_poll"
    /\ Readable # {} \/ FifthReadable
    /\ barrier_ready' = Readable
    /\ barrier_fifth' = FifthReadable
    /\ server' = "barrier_scan"
    /\ UNCHANGED <<caller, deals_read, turn, b_received_card, ready, aborted,
                   listening, gameVars, barrierVars, seats_status, pipeVars,
                   barrier_messages, threadVars, connection, connection_pipe,
                   fifth_ready, goes_on>>

(* The byte is read, and the server closed: in the barrier for good.       *)
CloseFor(goes) ==
    /\ connection_pipe' = Tail(connection_pipe)
    /\ Abort
    /\ goes_on' = goes
    /\ UNCHANGED <<caller, deals_read, turn, b_received_card, ready,
                   barrier_ready, listening, gameVars, barrierVars,
                   seats_status, pipeVars, barrier_messages, threadVars,
                   connection>>

ScanFifth ==
    /\ server = "scan" /\ ready = {} /\ fifth_ready
    /\ FifthReadable
    /\ fifth_ready' = FALSE
    /\ CloseFor(TRUE)
    /\ UNCHANGED barrier_fifth

BarrierScanFifth ==
    /\ server = "barrier_scan" /\ barrier_ready = {} /\ barrier_fifth
    /\ barrier_fifth' = FALSE
    /\ CloseFor(FALSE)
    /\ UNCHANGED fifth_ready

(* close_server: END ends the connection thread, wherever it polls.        *)
CloseConnection ==
    /\ CloseServer
    /\ connection' = "gone"
    /\ UNCHANGED <<connection_pipe, fifth_ready, barrier_fifth, goes_on>>

(* Back in run_deal, all pipes closed: with the card it waited for it goes *)
(* on to a write that fails and ends the server; without, every poll       *)
(* reports the closed descriptors and nothing the loop looks for.          *)
CloseReturns ==
    /\ JoinThreads
    /\ goes_on => b_received_card
    /\ UNCHANGED connectionVars

BackInDeal ==
    /\ server = "join"
    /\ \A c \in Connections : pc[c] \in {"idle", "gone"}
    /\ goes_on /\ ~b_received_card
    /\ server' = "spins"
    /\ UNCHANGED <<caller, deals_read, turn, b_received_card, ready,
                   barrier_ready, aborted, listening, gameVars, barrierVars,
                   seats_status, pipeVars, barrier_messages, threadVars,
                   connectionVars>>

OtherServer ==
    /\ server \notin {"await", "barrier_poll", "close", "join"}
    /\ ~(server = "scan" /\ ready = {} /\ fifth_ready)
    /\ ~(server = "barrier_scan" /\ barrier_ready = {} /\ barrier_fifth)
    /\ Server
    /\ UNCHANGED connectionVars
-----------------------------------------------------------------------------
CServer ==
    \/ PollFive \/ BarrierPollFive \/ ScanFifth \/ BarrierScanFifth
    \/ CloseConnection \/ CloseReturns \/ BackInDeal \/ OtherServer

CNext ==
    \/ CServer \/ NoSocket \/ AcceptFails
    \/ \E c \in Connections : Client(c)

CSpec == CInit /\ [][CNext]_allVars

(* Every thread keeps running, with the fairness and for the reasons of    *)
(* Kierki; nothing is assumed of players, and nothing makes the connection *)
(* thread fail.                                                            *)
CFairness ==
    /\ WF_allVars(CServer) /\ WF_allVars(NoSocket)
    /\ \A c \in Connections :
          /\ WF_allVars(OwnStep(c) /\ UNCHANGED connectionVars)
          /\ SF_allVars(PipeStep(c) /\ UNCHANGED connectionVars)
          /\ WF_allVars(/\ NoSeat(c) \/ \E s \in Seats : Reserve(c, s)
                        /\ UNCHANGED connectionVars)

CFairSpec == CSpec /\ CFairness
-----------------------------------------------------------------------------
(* Without a connection thread no seat is ever taken again: the server     *)
(* ends, wherever its main thread is, and dismisses every client it has.   *)
NoMoreClients == connection \in {"failed", "closed", "gone"}

PlayersAreDismissed ==
    \A c \in Connections : NoMoreClients /\ pc[c] # "idle" ~> pc[c] = "gone"

(* "Connection thread failed. Close server.": run_game returns.            *)
FailureClosesServer == NoMoreClients ~> server = "closed"
=============================================================================
