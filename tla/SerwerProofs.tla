---------------------------- MODULE SerwerProofs ----------------------------
(***************************************************************************)
(* Theorems about the server, for any number of seats, tricks, connections *)
(* and leavers, any game file and any messages.                            *)
(***************************************************************************)
EXTENDS SerwerProperties, FiniteSetTheorems, TLAPS

(* Facts about the data.                                                   *)
LEMMA ModInSeats == \A a \in Nat : a % N \in Seats
  BY ServerAssumption DEF Seats

LEMMA EmptyIsSeq == \A S : <<>> \in Seq(S)
  OBVIOUS

LEMMA AppendIsSeq == \A S : \A s \in Seq(S) : \A e \in S : Append(s, e) \in Seq(S)
  OBVIOUS

LEMMA HeadTailOfSeq ==
  \A S : \A s \in Seq(S) : s # <<>> => Head(s) \in S /\ Tail(s) \in Seq(S)
  OBVIOUS

LEMMA GameFileFacts ==
  /\ Len(GameFile) \in Nat
  /\ DOMAIN GameFile = 1..Len(GameFile)
  /\ \A d \in 1..Len(GameFile) :
        /\ GameFile[d].seat \in Seats
        /\ GameFile[d].cards \in [Seats -> SUBSET Card]
  <1> DEFINE Deals == [seat : Seats, cards : [Seats -> SUBSET Card]]
  <1>1. GameFile \in Seq(Deals)
    BY ServerAssumption
  <1>2. \A deal \in Deals : deal.seat \in Seats /\ deal.cards \in [Seats -> SUBSET Card]
    OBVIOUS
  <1> HIDE DEF Deals
  <1>3. /\ Len(GameFile) \in Nat
        /\ DOMAIN GameFile = 1..Len(GameFile)
        /\ \A d \in 1..Len(GameFile) : GameFile[d] \in Deals
    BY <1>1
  <1> QED
    BY <1>2, <1>3

(* The pipes carry bytes of common.h, whoever reads or writes them.        *)
LEMMA BroadcastType ==
  ASSUME TypeOK, NEW byte \in ToClient, Broadcast(byte)
  PROVE  server_write_pipes' \in [Seats -> Seq(ToClient)]
  BY AppendIsSeq DEF Broadcast, TypeOK

LEMMA WriteToClientType ==
  ASSUME TypeOK, NEW s \in Seats, NEW byte \in ToClient, WriteToClient(s, byte)
  PROVE  server_write_pipes' \in [Seats -> Seq(ToClient)]
  BY AppendIsSeq DEF WriteToClient, TypeOK

LEMMA ReadFromClientsType ==
  ASSUME TypeOK, NEW s \in Seats, ReadFromClients(s)
  PROVE  server_read_pipes' \in [Seats -> Seq(ToServer)]
  BY HeadTailOfSeq DEF ReadFromClients, TypeOK

LEMMA WriteToServerType ==
  ASSUME TypeOK, NEW s \in Seats, NEW byte \in ToServer, WriteToServer(s, byte)
  PROVE  server_read_pipes' \in [Seats -> Seq(ToServer)]
  BY AppendIsSeq DEF WriteToServer, TypeOK

LEMMA ReadFromServerType ==
  ASSUME TypeOK, NEW c \in Connections, NEW byte, ReadFromServer(c, byte),
         seat[c] \in Seats
  PROVE  server_write_pipes' \in [Seats -> Seq(ToClient)]
  BY HeadTailOfSeq DEF ReadFromServer, TypeOK
-----------------------------------------------------------------------------
(* A pipe holds a byte; holds it only at its end; ends with it and holds   *)
(* it nowhere else, unless it is empty; holds it once at most.             *)
Has(pipe, byte) == \E i \in DOMAIN pipe : pipe[i] = byte
AtEnd(pipe, byte) == \A i \in DOMAIN pipe : pipe[i] = byte => i = Len(pipe)
EndsWith(pipe, byte) ==
    \A i \in DOMAIN pipe : pipe[i] = byte <=> i = Len(pipe)
Once(pipe, byte) ==
    \A i, j \in DOMAIN pipe : pipe[i] = byte /\ pipe[j] = byte => i = j

LEMMA EmptyPipe ==
  ASSUME NEW byte
  PROVE  ~Has(<<>>, byte) /\ AtEnd(<<>>, byte) /\ EndsWith(<<>>, byte)
  <1>1. DOMAIN <<>> = {}
    OBVIOUS
  <1> QED
    BY <1>1 DEF Has, AtEnd, EndsWith

LEMMA Written ==
  ASSUME NEW S, NEW pipe \in Seq(S), NEW new \in S, NEW byte
  PROVE  /\ Has(Append(pipe, new), byte) <=> Has(pipe, byte) \/ new = byte
         /\ ~Has(pipe, byte) => AtEnd(Append(pipe, new), byte)
         /\ ~Has(pipe, new) => EndsWith(Append(pipe, new), new)
         /\ Append(pipe, new) # <<>>
  <1> DEFINE more == Append(pipe, new)
             n == Len(pipe)
  <1>1. /\ n \in Nat /\ DOMAIN pipe = 1..n
        /\ Len(more) = n + 1 /\ DOMAIN more = 1..n + 1
        /\ \A i \in 1..n : more[i] = pipe[i]
        /\ more[n + 1] = new
    OBVIOUS
  <1>2. more # <<>>
    BY <1>1
  <1> HIDE DEF more, n
  <1>3. Has(more, byte) <=> Has(pipe, byte) \/ new = byte
    BY <1>1 DEF Has
  <1>4. ~Has(pipe, byte) => AtEnd(more, byte)
    BY <1>1 DEF Has, AtEnd
  <1>5. ~Has(pipe, new) => EndsWith(more, new)
    BY <1>1 DEF Has, EndsWith
  <1> QED
    BY <1>2, <1>3, <1>4, <1>5 DEF more

LEMMA Consumed ==
  ASSUME NEW S, NEW pipe \in Seq(S), pipe # <<>>, NEW byte
  PROVE  /\ Has(pipe, Head(pipe))
         /\ Has(Tail(pipe), byte) => Has(pipe, byte)
         /\ Has(pipe, byte) /\ Head(pipe) # byte => Has(Tail(pipe), byte)
         /\ AtEnd(pipe, byte) => AtEnd(Tail(pipe), byte)
         /\ EndsWith(pipe, byte) => EndsWith(Tail(pipe), byte)
         /\ AtEnd(pipe, byte) /\ Head(pipe) = byte => Tail(pipe) = <<>>
         /\ EndsWith(pipe, byte) => AtEnd(pipe, byte) /\ Has(pipe, byte)
  <1> DEFINE rest == Tail(pipe)
             n == Len(pipe)
  <1>1. /\ n \in Nat \ {0} /\ DOMAIN pipe = 1..n
        /\ Len(rest) = n - 1 /\ DOMAIN rest = 1..n - 1
        /\ \A i \in 1..n - 1 : rest[i] = pipe[i + 1]
        /\ Head(pipe) = pipe[1]
    OBVIOUS
  <1>2. n = 1 => rest = <<>>
    <2>1. rest \in Seq(S)
      BY HeadTailOfSeq
    <2>2. \A s \in Seq(S) : Len(s) = 0 => s = <<>>
      OBVIOUS
    <2> QED
      BY <1>1, <2>1, <2>2
  <1> HIDE DEF rest, n
  <1>3. Has(pipe, Head(pipe))
    BY <1>1 DEF Has
  <1>4. Has(rest, byte) => Has(pipe, byte)
    BY <1>1 DEF Has
  <1>5. Has(pipe, byte) /\ Head(pipe) # byte => Has(rest, byte)
    <2> SUFFICES ASSUME NEW i \in DOMAIN pipe, pipe[i] = byte, Head(pipe) # byte
                 PROVE  Has(rest, byte)
      BY DEF Has
    <2>1. i - 1 \in 1..n - 1 /\ (i - 1) + 1 = i
      BY <1>1
    <2> QED
      BY <1>1, <2>1 DEF Has
  <1>6. AtEnd(pipe, byte) => AtEnd(rest, byte)
    BY <1>1 DEF AtEnd, n
  <1>7. EndsWith(pipe, byte) => EndsWith(rest, byte)
    BY <1>1 DEF EndsWith, n
  <1>8. AtEnd(pipe, byte) /\ Head(pipe) = byte => rest = <<>>
    BY <1>1, <1>2 DEF AtEnd, n
  <1>9. EndsWith(pipe, byte) => AtEnd(pipe, byte) /\ Has(pipe, byte)
    BY <1>1 DEF EndsWith, AtEnd, Has, n
  <1> QED
    BY <1>3, <1>4, <1>5, <1>6, <1>7, <1>8, <1>9 DEF rest

LEMMA WrittenOnce ==
  ASSUME NEW S, NEW pipe \in Seq(S), NEW new \in S, NEW byte
  PROVE  /\ Once(pipe, byte) /\ new # byte => Once(Append(pipe, new), byte)
         /\ ~Has(pipe, new) => Once(Append(pipe, new), new)
  <1> DEFINE more == Append(pipe, new)
             n == Len(pipe)
  <1>1. /\ n \in Nat /\ DOMAIN pipe = 1..n /\ DOMAIN more = 1..n + 1
        /\ \A i \in 1..n : more[i] = pipe[i]
        /\ more[n + 1] = new
    OBVIOUS
  <1> HIDE DEF more, n
  <1>2. Once(pipe, byte) /\ new # byte => Once(more, byte)
    BY <1>1 DEF Once
  <1>3. ~Has(pipe, new) => Once(more, new)
    BY <1>1 DEF Once, Has
  <1> QED
    BY <1>2, <1>3 DEF more

LEMMA ConsumedOnce ==
  ASSUME NEW S, NEW pipe \in Seq(S), pipe # <<>>, NEW byte
  PROVE  /\ Once(pipe, byte) => Once(Tail(pipe), byte)
         /\ Once(pipe, byte) /\ Head(pipe) = byte => ~Has(Tail(pipe), byte)
  <1> DEFINE rest == Tail(pipe)
             n == Len(pipe)
  <1>1. /\ n \in Nat \ {0} /\ DOMAIN pipe = 1..n /\ DOMAIN rest = 1..n - 1
        /\ \A i \in 1..n - 1 : rest[i] = pipe[i + 1]
        /\ Head(pipe) = pipe[1]
    OBVIOUS
  <1> HIDE DEF rest, n
  <1>2. Once(pipe, byte) => Once(rest, byte)
    <2> SUFFICES ASSUME Once(pipe, byte), NEW i \in DOMAIN rest, NEW j \in DOMAIN rest,
                        rest[i] = byte, rest[j] = byte
                 PROVE  i = j
      BY DEF Once
    <2>1. i + 1 \in 1..n /\ j + 1 \in 1..n /\ pipe[i + 1] = byte /\ pipe[j + 1] = byte
      BY <1>1
    <2>2. i + 1 = j + 1
      BY <1>1, <2>1 DEF Once
    <2> QED
      BY <1>1, <2>2
  <1>3. Once(pipe, byte) /\ Head(pipe) = byte => ~Has(rest, byte)
    <2> SUFFICES ASSUME Once(pipe, byte), pipe[1] = byte, NEW i \in DOMAIN rest,
                        rest[i] = byte
                 PROVE  FALSE
      BY <1>1 DEF Has
    <2>1. i + 1 \in 1..n /\ 1 \in 1..n /\ pipe[i + 1] = byte /\ i + 1 # 1
      BY <1>1
    <2> QED
      BY <1>1, <2>1 DEF Once
  <1> QED
    BY <1>2, <1>3 DEF rest
-----------------------------------------------------------------------------
(* run_deal works on a deal that was read, a thread that serves on a seat. *)
DealIsRead == server = "run_deal" => deals_read > 0
ServesASeat == \A c \in Connections : Serves(c) \/ pc[c] = "bye" => seat[c] \in Seats

TypeInv == TypeOK /\ DealIsRead /\ ServesASeat

LEMMA InitTypeInv == Init => TypeInv
  <1> SUFFICES ASSUME Init PROVE TypeInv
    OBVIOUS
  <1>1. 0 \in Seats /\ 0 \in 0..N - 1 /\ 0 \in 0..Tricks /\ 0 \in 0..Len(GameFile)
    BY ServerAssumption, GameFileFacts DEF Seats
  <1>2. TypeOK
    <2>1. cards_on_table \in Seq(Card) /\ taken_tricks \in Seq(Seq(Card))
      BY EmptyIsSeq DEF Init
    <2>2. /\ barrier_messages \in [Seats -> Seq(Inputs)]
          /\ server_read_pipes \in [Seats -> Seq(ToServer)]
          /\ server_write_pipes \in [Seats -> Seq(ToClient)]
      BY EmptyIsSeq DEF Init
    <2> QED
      BY <1>1, <2>1, <2>2 DEF Init, TypeOK, MainStates, InBarrier, ThreadStates
  <1>3. DealIsRead /\ ServesASeat
    BY DEF Init, DealIsRead, ServesASeat, Serves, Serving
  <1> QED
    BY <1>2, <1>3 DEF TypeInv

(* The steps of the main thread.                                           *)
LEMMA ServerTypeOK == TypeInv /\ Server => TypeOK'
  <1> SUFFICES ASSUME TypeInv, Server PROVE TypeOK'
    OBVIOUS
  <1> USE DEF TypeInv, mainVars, gameVars, barrierVars, pipeVars, threadVars
  <1>1. CASE BarrierBegin
    <2>1. server_write_pipes' \in [Seats -> Seq(ToClient)]
      BY <1>1, BroadcastType DEF BarrierBegin, ToClient
    <2>2. server' \in MainStates
      BY <1>1 DEF BarrierBegin, LoopOrReturn, TypeOK, MainStates, InBarrier
    <2> QED
      BY <1>1, <2>1, <2>2 DEF BarrierBegin, ResetCount, TypeOK
  <1>2. CASE BarrierPoll
    <2>1. server' \in MainStates /\ barrier_ready' \subseteq Seats
      BY <1>2 DEF BarrierPoll, Readable, MainStates, InBarrier
    <2> QED
      BY <1>2, <2>1 DEF BarrierPoll, TypeOK
  <1>3. CASE BarrierCheck
    <2>1. server_write_pipes' \in [Seats -> Seq(ToClient)]
      BY <1>3, BroadcastType DEF BarrierCheck, ToClient, TypeOK
    <2>2. server' \in MainStates
      BY <1>3 DEF BarrierCheck, LoopOrReturn, TypeOK, MainStates, InBarrier
    <2>3. b_is_barrier_ongoing' \in BOOLEAN
      BY <1>3 DEF BarrierCheck, TypeOK
    <2> QED
      BY <1>3, <2>1, <2>2, <2>3 DEF BarrierCheck, TypeOK
  <1>4. ASSUME NEW j \in Seats, BarrierScan(j) PROVE TypeOK'
    <2>1. server_write_pipes' \in [Seats -> Seq(ToClient)]
      BY <1>4, WriteToClientType DEF BarrierScan, ToClient, TypeOK
    <2>2. server_read_pipes' \in [Seats -> Seq(ToServer)]
      BY <1>4, ReadFromClientsType DEF BarrierScan
    <2>3. /\ server' \in MainStates
          /\ barrier_ready' \subseteq Seats
          /\ aborted' \in BOOLEAN
      BY <1>4 DEF BarrierScan, Abort, TypeOK, MainStates
    <2> QED
      BY <1>4, <2>1, <2>2, <2>3 DEF BarrierScan, TypeOK
  <1>5. ASSUME NEW j \in Seats, Scan(j) PROVE TypeOK'
    <2>1. server_read_pipes' \in [Seats -> Seq(ToServer)]
      BY <1>5, ReadFromClientsType DEF Scan
    <2>2. /\ server' \in MainStates
          /\ caller' \in {"read_deal", "scan", "trick"}
          /\ ready' \subseteq Seats
          /\ b_received_card' \in BOOLEAN
          /\ aborted' \in BOOLEAN
      BY <1>5 DEF Scan, BarrierThen, Abort, TypeOK, MainStates, InBarrier
    <2> QED
      BY <1>5, <2>1, <2>2 DEF Scan, TypeOK
  <1>6. CASE ReadDeal
    <2>1. deals_read' \in 0..Len(GameFile) /\ cards' \in [Seats -> SUBSET Card]
      <3>1. CASE deals_read < Len(GameFile)
        <4>1. deals_read + 1 \in 1..Len(GameFile)
          BY <3>1, GameFileFacts DEF TypeOK
        <4>2. /\ deals_read' = deals_read + 1
              /\ cards' = GameFile[deals_read + 1].cards
          <5>1. Len(GameFile) \in Nat /\ deals_read \in Nat
            BY GameFileFacts DEF TypeOK
          <5>2. deals_read # Len(GameFile)
            BY <3>1, <5>1
          <5> QED
            BY <1>6, <5>2 DEF ReadDeal
        <4> QED
          BY <4>1, <4>2, GameFileFacts
      <3>2. CASE ~(deals_read < Len(GameFile))
        BY <1>6, <3>2 DEF ReadDeal, TypeOK
      <3> QED
        BY <3>1, <3>2
    <2>2. taken_tricks' \in Seq(Seq(Card))
      BY <1>6, EmptyIsSeq DEF ReadDeal, TypeOK
    <2>3. server' \in MainStates
      BY <1>6 DEF ReadDeal, MainStates
    <2> QED
      BY <1>6, <2>1, <2>2, <2>3 DEF ReadDeal, TypeOK
  <1>7. CASE DealBegin
    <2>1. server_write_pipes' \in [Seats -> Seq(ToClient)]
      BY <1>7, BroadcastType DEF DealBegin, ToClient
    <2>2. last_taker' \in Seats
      BY <1>7, GameFileFacts DEF DealBegin, TypeOK, DealIsRead
    <2>3. server' \in MainStates /\ trick_number' \in 0..Tricks
      BY <1>7, ServerAssumption DEF DealBegin, MainStates
    <2> QED
      BY <1>7, <2>1, <2>2, <2>3 DEF DealBegin, TypeOK
  <1>8. CASE TrickBegin
    <2>1. cards_on_table' \in Seq(Card)
      BY <1>8, EmptyIsSeq DEF TrickBegin, TypeOK
    <2>2. trick_number' \in 0..Tricks /\ turn' \in 0..N - 1
      BY <1>8, ServerAssumption DEF TrickBegin, TypeOK
    <2>3. server' \in MainStates
      BY <1>8 DEF TrickBegin, MainStates
    <2> QED
      BY <1>8, <2>1, <2>2, <2>3 DEF TrickBegin, TypeOK
  <1>9. Asked \in Seats
    <2>1. last_taker + turn \in Nat
      BY ServerAssumption DEF TypeOK, Seats
    <2> QED
      BY <2>1, ModInSeats DEF Asked
  <1>10. CASE TurnBegin
    <2>1. server' \in MainStates
      BY <1>10 DEF TurnBegin, MainStates
    <2> QED
      BY <1>10, <1>9, <2>1 DEF TurnBegin, TypeOK
  <1>11. CASE AskForCard
    <2>1. server_write_pipes' \in [Seats -> Seq(ToClient)]
      BY <1>11, <1>9, WriteToClientType DEF AskForCard, ToClient
    <2>2. server' \in MainStates
      BY <1>11 DEF AskForCard, MainStates
    <2> QED
      BY <1>11, <2>1, <2>2 DEF AskForCard, TypeOK
  <1>12. CASE Poll
    <2>1. server' \in MainStates /\ ready' \subseteq Seats
      BY <1>12 DEF Poll, Readable, MainStates
    <2> QED
      BY <1>12, <2>1 DEF Poll, TypeOK
  <1>13. CASE ScanEnd
    <2>1. turn' \in 0..N - 1
      BY <1>13, ServerAssumption DEF ScanEnd, LastTurn, TypeOK
    <2>2. server' \in MainStates
      BY <1>13 DEF ScanEnd, MainStates
    <2> QED
      BY <1>13, <2>1, <2>2 DEF ScanEnd, TypeOK
  <1>14. CASE TrickTaken
    <2>1. server_write_pipes' \in [Seats -> Seq(ToClient)]
      BY <1>14, BroadcastType DEF TrickTaken, ToClient
    <2>2. last_taker' \in Seats
      BY <1>14 DEF TrickTaken, Takers
    <2>3. taken_tricks' \in Seq(Seq(Card))
      BY <1>14, AppendIsSeq DEF TrickTaken, TypeOK
    <2>4. server' \in MainStates /\ caller' \in {"read_deal", "scan", "trick"}
      BY <1>14 DEF TrickTaken, BarrierThen, MainStates, InBarrier
    <2> QED
      BY <1>14, <2>1, <2>2, <2>3, <2>4 DEF TrickTaken, TypeOK
  <1>15. CASE SendScores
    <2>1. server_write_pipes' \in [Seats -> Seq(ToClient)]
      BY <1>15, BroadcastType DEF SendScores, ToClient
    <2>2. server' \in MainStates /\ caller' \in {"read_deal", "scan", "trick"}
      BY <1>15 DEF SendScores, BarrierThen, MainStates, InBarrier
    <2> QED
      BY <1>15, <2>1, <2>2 DEF SendScores, TypeOK
  <1>16. CASE CloseServer
    <2>1. server_write_pipes' \in [Seats -> Seq(ToClient)]
      BY <1>16, BroadcastType DEF CloseServer, ToClient
    <2>2. server' \in MainStates
      BY <1>16 DEF CloseServer, MainStates
    <2> QED
      BY <1>16, <2>1, <2>2 DEF CloseServer, TypeOK
  <1>17. CASE JoinThreads
    <2>1. server' \in MainStates
      BY <1>17 DEF JoinThreads, MainStates
    <2> QED
      BY <1>17, <2>1 DEF JoinThreads, TypeOK
  <1> QED
    BY <1>1, <1>2, <1>3, <1>4, <1>5, <1>6, <1>7, <1>8, <1>10, <1>11, <1>12, <1>13,
       <1>14, <1>15, <1>16, <1>17 DEF Server

(* The count of close_thread never goes below zero.                        *)
LEMMA LeaveType ==
  ASSUME TypeOK, NEW c \in Connections, NEW b_was_ended_by_server,
         Leave(c, b_was_ended_by_server)
  PROVE  /\ occupied' \in Nat
         /\ b_is_barrier_ongoing' \in BOOLEAN
         /\ seats_status' \in [Seats -> Connections \cup {Free}]
  <1>1. occupied \in Nat
    BY DEF TypeOK
  <1>2. occupied' \in Nat
    BY <1>1 DEF Leave
  <1> QED
    BY <1>2 DEF Leave, TypeOK

(* parse_message, whichever way it ends.                                   *)
LEMMA ParseType ==
  ASSUME TypeOK, NEW c \in Connections, NEW message \in Inputs,
         NEW after \in ThreadStates, seat[c] \in Seats, Parse(c, message, after)
  PROVE  /\ cards' \in [Seats -> SUBSET Card]
         /\ cards_on_table' \in Seq(Card)
         /\ UNCHANGED <<taken_tricks, trick_number, last_taker>>
         /\ player_turn' \in Seats \cup {Nobody}
         /\ occupied' \in Nat
         /\ b_is_barrier_ongoing' \in BOOLEAN
         /\ seats_status' \in [Seats -> Connections \cup {Free}]
         /\ server_read_pipes' \in [Seats -> Seq(ToServer)]
         /\ pc' \in [Connections -> ThreadStates]
         /\ b_was_destined_to_play' \in [Connections -> BOOLEAN]
  <1> USE DEF gameVars, barrierVars
  <1>1. CASE message # Garbage /\ Legal(c, message) /\ PlayCard(c, message, after)
    <2>1. message.card \in Card
      BY <1>1 DEF Legal, TypeOK
    <2>2. cards_on_table' \in Seq(Card)
      BY <1>1, <2>1, AppendIsSeq DEF PlayCard, TypeOK
    <2>3. server_read_pipes' \in [Seats -> Seq(ToServer)]
      BY <1>1, WriteToServerType DEF PlayCard, ToServer
    <2>4. cards' \in [Seats -> SUBSET Card]
      BY <1>1 DEF PlayCard, TypeOK
    <2> QED
      BY <1>1, <2>2, <2>3, <2>4 DEF PlayCard, Answered, Goto, TypeOK
  <1>2. CASE Goto(c, after) /\ UNCHANGED <<gameVars, barrierVars, seats_status,
                server_read_pipes, b_was_destined_to_play>>
    BY <1>2 DEF Goto, TypeOK
  <1>3. CASE CloseThread(c) /\ UNCHANGED <<gameVars, server_read_pipes,
                b_was_destined_to_play>>
    BY <1>3, LeaveType DEF CloseThread, Goto, TypeOK, ThreadStates
  <1> QED
    BY <1>1, <1>2, <1>3 DEF Parse

(* A TRICK sent again leads back to the poll or on to the pipe. *)
LEMMA TimeoutGoesOn ==
  ASSUME NEW c, Timeout(c)
  PROVE  pc[c] = "poll" /\ \E after \in {"top", "pipe"} : Goto(c, after)
  BY DEF Timeout, AfterSocket

(* The steps a thread takes.                                               *)
LEMMA ThreadTypeOK ==
  ASSUME TypeInv, NEW c \in Connections,
         OwnStep(c) \/ PipeStep(c) \/ Environment(c)
  PROVE  TypeOK'
  <1> USE DEF mainVars, gameVars, barrierVars, pipeVars
  <1>0. TypeOK
    BY DEF TypeInv
  <1>s. Serves(c) \/ pc[c] = "bye" => seat[c] \in Seats
    BY DEF TypeInv, ServesASeat
  <1>1. CASE Accept(c)
    BY <1>0, <1>1 DEF Accept, Goto, TypeOK, ThreadStates
  <1>2. CASE NoSeat(c)
    BY <1>0, <1>2 DEF NoSeat, Goto, TypeOK, ThreadStates
  <1>3. ASSUME NEW s \in Seats, Reserve(c, s) PROVE TypeOK'
    <2>1. pc' \in [Connections -> ThreadStates]
      BY <1>0, <1>3 DEF Reserve, Goto, TypeOK, ThreadStates, Serving
    <2> QED
      BY <1>0, <1>3, <2>1 DEF Reserve, TypeOK
  <1>4. CASE Greet(c)
    <2>1. pc' \in [Connections -> ThreadStates]
      BY <1>0, <1>4 DEF Greet, Goto, TypeOK, ThreadStates, Serving
    <2>2. b_was_destined_to_play' \in [Connections -> BOOLEAN]
      BY <1>0, <1>4 DEF Greet, TypeOK
    <2> QED
      BY <1>0, <1>4, <2>1, <2>2 DEF Greet, TypeOK
  <1>5. CASE GreetFails(c)
    BY <1>0, <1>5 DEF GreetFails, Goto, TypeOK, ThreadStates
  <1>6. CASE Enter(c)
    BY <1>0, <1>6 DEF Enter, Goto, TypeOK, ThreadStates, Serving
  <1>7. CASE LoopTop(c)
    <2>1. pc' \in [Connections -> ThreadStates]
      BY <1>0, <1>7 DEF LoopTop, Goto, TypeOK, ThreadStates, Serving
    <2>2. /\ b_is_barrier' \in [Connections -> BOOLEAN]
          /\ current_trick' \in [Connections -> Nat]
      BY <1>0, <1>7, ServerAssumption DEF LoopTop, TypeOK
    <2> QED
      BY <1>0, <1>7, <2>1, <2>2 DEF LoopTop, TypeOK
  <1>8. CASE Bye(c)
    <2>1. server_read_pipes' \in [Seats -> Seq(ToServer)]
      BY <1>0, <1>8, <1>s, WriteToServerType DEF Bye, ToServer
    <2> QED
      BY <1>0, <1>8, <2>1 DEF Bye, Goto, TypeOK, ThreadStates
  <1>9. CASE Drain(c)
    <2> DEFINE queued == barrier_messages[seat[c]]
               after == IF Len(queued) > 1 THEN pc[c]
                        ELSE IF pc[c] = "drain" THEN "poll" ELSE "top"
    <2>1. seat[c] \in Seats
      BY <1>9, <1>s DEF Drain, Serves, Serving
    <2>2. queued \in Seq(Inputs) /\ queued # <<>>
      BY <1>0, <1>9, <2>1 DEF Drain, TypeOK
    <2>3. barrier_messages' \in [Seats -> Seq(Inputs)] /\ Head(queued) \in Inputs
      BY <1>0, <1>9, <2>2, HeadTailOfSeq DEF Drain, TypeOK
    <2>4. after \in ThreadStates
      BY <1>0 DEF TypeOK, ThreadStates, Serving
    <2>5. Parse(c, Head(queued), after)
      BY <1>9 DEF Drain
    <2>6. UNCHANGED <<mainVars, server_write_pipes, seat, b_is_barrier, current_trick>>
      BY <1>9 DEF Drain
    <2> HIDE DEF queued, after
    <2> QED
      BY <1>0, <2>1, <2>3, <2>4, <2>5, <2>6, ParseType DEF TypeOK
  <1>10. ASSUME NEW message \in Inputs, SocketMessage(c, message) PROVE TypeOK'
    <2>1. seat[c] \in Seats
      BY <1>10, <1>s DEF SocketMessage, Serves, Serving
    <2>2. AfterSocket(c) \subseteq ThreadStates
      BY DEF AfterSocket, ThreadStates, Serving
    <2>3. CASE b_is_barrier[c]
      <3>1. barrier_messages' \in [Seats -> Seq(Inputs)]
        <4>1. /\ barrier_messages \in [Seats -> Seq(Inputs)]
              /\ barrier_messages' = [barrier_messages EXCEPT
                                        ![seat[c]] = Append(@, message)]
          BY <1>0, <1>10, <2>3 DEF SocketMessage, TypeOK
        <4> QED
          BY <2>1, <4>1, AppendIsSeq
      <3>2. pc' \in [Connections -> ThreadStates]
        BY <1>0, <1>10, <2>2, <2>3 DEF SocketMessage, Goto, TypeOK
      <3> QED
        BY <1>0, <1>10, <2>3, <3>1, <3>2 DEF SocketMessage, TypeOK
    <2>4. CASE ~b_is_barrier[c]
      <3>1. PICK after \in AfterSocket(c) : Parse(c, message, after)
        BY <1>10, <2>4 DEF SocketMessage
      <3>2. UNCHANGED <<mainVars, server_write_pipes, seat, b_is_barrier,
                        current_trick, barrier_messages>>
        BY <1>10, <2>4 DEF SocketMessage
      <3> QED
        BY <1>0, <2>1, <2>2, <3>1, <3>2, ParseType DEF TypeOK
    <2> QED
      BY <2>3, <2>4
  <1>11. CASE SocketClosed(c)
    BY <1>0, <1>11, LeaveType DEF SocketClosed, CloseThread, Goto, TypeOK, ThreadStates
  <1>12. CASE Timeout(c)
    <2>1. PICK after \in {"top", "pipe"} : Goto(c, after)
      BY <1>12, TimeoutGoesOn
    <2>2. pc' \in [Connections -> ThreadStates]
      BY <1>0, <2>1 DEF Goto, TypeOK, ThreadStates, Serving
    <2> QED
      BY <1>0, <1>12, <2>2 DEF Timeout, TypeOK
  <1>13. ASSUME NEW byte, ReadFromServer(c, byte)
         PROVE  server_write_pipes' \in [Seats -> Seq(ToClient)]
    <2>1. seat[c] \in Seats
      BY <1>13, <1>s DEF ReadFromServer, Serves, Serving
    <2> QED
      BY <1>0, <1>13, <2>1, ReadFromServerType
  <1>14. CASE OnCardPlay(c)
    <2>1. server_write_pipes' \in [Seats -> Seq(ToClient)]
      BY <1>13, <1>14 DEF OnCardPlay
    <2>2. current_trick' \in [Connections -> Nat]
      BY <1>0, <1>14, ServerAssumption DEF OnCardPlay, TypeOK
    <2> QED
      BY <1>0, <1>14, <2>1, <2>2 DEF OnCardPlay, Goto, TypeOK, ThreadStates, Serving
  <1>15. CASE OnAnnouncement(c)
    <2>1. server_write_pipes' \in [Seats -> Seq(ToClient)]
      BY <1>13, <1>15 DEF OnAnnouncement
    <2> QED
      BY <1>0, <1>15, <2>1 DEF OnAnnouncement, Goto, TypeOK, ThreadStates, Serving
  <1>16. CASE SendFails(c)
    <2>1. server_write_pipes' \in [Seats -> Seq(ToClient)]
      BY <1>13, <1>16 DEF SendFails
    <2> QED
      BY <1>0, <1>16, <2>1, LeaveType DEF SendFails, CloseThread, Goto, TypeOK, ThreadStates
  <1>17. CASE OnBarrierResponse(c)
    <2>1. server_write_pipes' \in [Seats -> Seq(ToClient)]
      BY <1>13, <1>17 DEF OnBarrierResponse
    <2>2. pc' \in [Connections -> ThreadStates]
      BY <1>0, <1>17 DEF OnBarrierResponse, Goto, TypeOK, ThreadStates, Serving
    <2>3. occupied' \in Nat
      BY <1>0, <1>17 DEF OnBarrierResponse, TypeOK
    <2> QED
      BY <1>0, <1>17, <2>1, <2>2, <2>3 DEF OnBarrierResponse, TypeOK
  <1>18. CASE Notify(c)
    <2>1. server_read_pipes' \in [Seats -> Seq(ToServer)]
      BY <1>0, <1>18, <1>s, WriteToServerType DEF Notify, ToServer, Serves, Serving
    <2> QED
      BY <1>0, <1>18, <2>1 DEF Notify, Goto, TypeOK, ThreadStates, Serving
  <1>19. CASE OnBarrierEnd(c)
    <2>1. server_write_pipes' \in [Seats -> Seq(ToClient)]
      BY <1>13, <1>19 DEF OnBarrierEnd
    <2>2. pc' \in [Connections -> ThreadStates]
      BY <1>0, <1>19 DEF OnBarrierEnd, Goto, TypeOK, ThreadStates, Serving
    <2> QED
      BY <1>0, <1>19, <2>1, <2>2 DEF OnBarrierEnd, TypeOK
  <1>20. CASE OnDisconnected(c)
    <2>1. server_write_pipes' \in [Seats -> Seq(ToClient)]
      BY <1>13, <1>20 DEF OnDisconnected
    <2> QED
      BY <1>0, <1>20, <2>1, LeaveType DEF OnDisconnected, Goto, TypeOK, ThreadStates
  <1> QED
    BY <1>1, <1>2, <1>3, <1>4, <1>5, <1>6, <1>7, <1>8, <1>9, <1>10, <1>11, <1>12, <1>14,
       <1>15, <1>16, <1>17, <1>18, <1>19, <1>20 DEF OwnStep, PipeStep, Environment
-----------------------------------------------------------------------------
(* What a thread's step does to the seats: nothing, it takes a free one,   *)
(* or it gives its own back and serves no more.                            *)
SeatKept(c) ==
  /\ UNCHANGED <<seat, seats_status>>
  /\ pc'[c] \in Serving => pc[c] \in Serving
  /\ pc'[c] # "bye"
SeatTaken(c) ==
  /\ pc'[c] # "bye"
  /\ \E s \in Seats : /\ seats_status[s] = Free
                     /\ seats_status' = [seats_status EXCEPT ![s] = c]
                     /\ seat' = [seat EXCEPT ![c] = s]
SeatGiven(c) ==
  /\ pc[c] \in Serving
  /\ pc'[c] = "bye"
  /\ UNCHANGED seat
  /\ seats_status' = [seats_status EXCEPT ![seat[c]] = Free]

LEMMA ParseSeat ==
  ASSUME TypeOK, NEW c \in Connections, NEW message, NEW after \in Serving,
         pc[c] \in Serving, UNCHANGED seat, Parse(c, message, after)
  PROVE  SeatKept(c) \/ SeatGiven(c)
  <1>1. CASE Goto(c, after) /\ UNCHANGED seats_status
    BY <1>1 DEF Goto, SeatKept, TypeOK, Serving
  <1>2. CASE CloseThread(c)
    BY <1>2 DEF CloseThread, Leave, Goto, SeatGiven, TypeOK
  <1> QED
    BY <1>1, <1>2 DEF Parse, PlayCard

LEMMA OthersStay ==
  ASSUME TypeInv, NEW c \in Connections,
         OwnStep(c) \/ PipeStep(c) \/ Environment(c)
  PROVE  \A d \in Connections \ {c} : pc'[d] = pc[d]
  <1>1. \A where : Goto(c, where) => \A d \in Connections \ {c} : pc'[d] = pc[d]
    BY DEF Goto, TypeInv, TypeOK
  <1>2. \A message, after : Parse(c, message, after) =>
            \A d \in Connections \ {c} : pc'[d] = pc[d]
    BY <1>1 DEF Parse, PlayCard, CloseThread
  <1>3. CASE OwnStep(c)
    BY <1>1, <1>2, <1>3 DEF OwnStep, Greet, Enter, LoopTop, Bye, Drain, Notify
  <1>4. CASE PipeStep(c)
    BY <1>1, <1>4 DEF PipeStep, OnCardPlay, OnAnnouncement, OnBarrierResponse,
       OnBarrierEnd, OnDisconnected
  <1>5. CASE Environment(c)
    BY <1>1, <1>2, <1>5 DEF Environment, Accept, NoSeat, GreetFails, SocketClosed,
       CloseThread, Timeout, SendFails, Reserve, SocketMessage
  <1> QED
    BY <1>3, <1>4, <1>5

LEMMA ThreadSeat ==
  ASSUME TypeInv, NEW c \in Connections,
         OwnStep(c) \/ PipeStep(c) \/ Environment(c)
  PROVE  SeatKept(c) \/ SeatTaken(c) \/ SeatGiven(c)
  <1>0. TypeOK
    BY DEF TypeInv
  <1>1. CASE Drain(c)
    <2> DEFINE queued == barrier_messages[seat[c]]
               after == IF Len(queued) > 1 THEN pc[c]
                        ELSE IF pc[c] = "drain" THEN "poll" ELSE "top"
    <2>1. pc[c] \in Serving /\ after \in Serving /\ UNCHANGED seat
      BY <1>1 DEF Drain, Serving
    <2>2. Parse(c, Head(queued), after)
      BY <1>1 DEF Drain
    <2> HIDE DEF queued, after
    <2> QED
      BY <1>0, <2>1, <2>2, ParseSeat
  <1>2. CASE OwnStep(c) /\ ~Drain(c)
    BY <1>0, <1>2 DEF OwnStep, Greet, Enter, LoopTop, Bye, Notify, Goto, SeatKept, Serving,
       TypeOK
  <1>3. CASE PipeStep(c)
    BY <1>0, <1>3 DEF PipeStep, OnCardPlay, OnAnnouncement, OnBarrierResponse, OnBarrierEnd,
       OnDisconnected, Leave, ReadFromServer, Goto, SeatKept, Serving, TypeOK
  <1>4. ASSUME NEW message \in Inputs, SocketMessage(c, message)
        PROVE  SeatKept(c) \/ SeatGiven(c)
    <2>1. AfterSocket(c) \subseteq Serving
      BY DEF AfterSocket, Serving
    <2>2. pc[c] \in Serving /\ UNCHANGED seat
      BY <1>4 DEF SocketMessage, Serving
    <2>3. CASE \E after \in AfterSocket(c) : Goto(c, after) /\ UNCHANGED seats_status
      BY <1>0, <2>1, <2>2, <2>3 DEF Goto, SeatKept, TypeOK, Serving
    <2>4. CASE \E after \in AfterSocket(c) : Parse(c, message, after)
      BY <1>0, <2>1, <2>2, <2>4, ParseSeat
    <2> QED
      BY <1>4, <2>3, <2>4 DEF SocketMessage
  <1>5. CASE SocketClosed(c) \/ SendFails(c)
    BY <1>0, <1>5 DEF SocketClosed, SendFails, ReadFromServer, CloseThread, Leave, Goto,
       SeatGiven, Serving, TypeOK
  <1>6. ASSUME NEW s \in Seats, Reserve(c, s) PROVE SeatTaken(c)
    BY <1>0, <1>6 DEF Reserve, SeatIsFree, Goto, SeatTaken, TypeOK
  <1>7. CASE Accept(c) \/ NoSeat(c) \/ GreetFails(c)
    BY <1>0, <1>7 DEF Accept, NoSeat, GreetFails, Goto, SeatKept, Serving, TypeOK
  <1>8. CASE Timeout(c)
    <2>1. PICK after \in {"top", "pipe"} : pc[c] = "poll" /\ Goto(c, after)
      BY <1>8, TimeoutGoesOn
    <2>2. pc[c] \in Serving /\ pc'[c] # "bye"
      BY <1>0, <2>1 DEF Goto, TypeOK, Serving
    <2> QED
      BY <1>8, <2>2 DEF Timeout, SeatKept
  <1> QED
    BY <1>1, <1>2, <1>3, <1>4, <1>5, <1>6, <1>7, <1>8 DEF Environment

(* The main thread leaves the client threads and the seats alone, and goes *)
(* on to run_deal only with a deal.                                        *)
LEMMA ServerLeavesThreads == Server => UNCHANGED <<threadVars, seats_status>>
  BY DEF Server, BarrierBegin, BarrierPoll, BarrierCheck, BarrierScan, Scan, ReadDeal,
     DealBegin, TrickBegin, TurnBegin, AskForCard, Poll, ScanEnd, TrickTaken, SendScores,
     CloseServer, JoinThreads

LEMMA ThreadsLeaveMain ==
  ASSUME NEW c \in Connections, OwnStep(c) \/ PipeStep(c) \/ Environment(c)
  PROVE  UNCHANGED mainVars
  BY DEF OwnStep, PipeStep, Environment, Greet, Enter, LoopTop, Bye, Drain, Notify,
     OnCardPlay, OnAnnouncement, OnBarrierResponse, OnBarrierEnd, OnDisconnected, Accept,
     NoSeat, GreetFails, SocketClosed, Timeout, SendFails, Reserve, SocketMessage

LEMMA DealIsReadStep == TypeInv /\ [Next]_vars => DealIsRead'
  <1> SUFFICES ASSUME TypeInv, [Next]_vars PROVE DealIsRead'
    OBVIOUS
  <1>1. CASE Server
    BY <1>1, GameFileFacts DEF Server, BarrierBegin, LoopOrReturn, BarrierPoll,
       BarrierCheck, BarrierScan, Abort, Scan, BarrierThen, ReadDeal, DealBegin,
       TrickBegin, TurnBegin, AskForCard, Poll, ScanEnd, TrickTaken, SendScores,
       CloseServer, JoinThreads, TypeInv, TypeOK, DealIsRead
  <1>2. CASE UNCHANGED mainVars
    BY <1>2 DEF mainVars, TypeInv, DealIsRead
  <1> QED
    BY <1>1, <1>2, ThreadsLeaveMain DEF Next, vars

SeatInv == TypeInv /\ SeatExclusive

LEMMA ServesASeatStep == TypeInv /\ [Next]_vars => ServesASeat'
  <1> SUFFICES ASSUME TypeInv, [Next]_vars PROVE ServesASeat'
    OBVIOUS
  <1> USE DEF TypeInv, TypeOK, ServesASeat, Serves
  <1>1. ASSUME NEW c \in Connections, OwnStep(c) \/ PipeStep(c) \/ Environment(c)
        PROVE  ServesASeat'
    <2>1. CASE SeatKept(c)
      BY <1>1, <2>1, OthersStay DEF SeatKept
    <2>2. CASE SeatTaken(c)
      <3>1. PICK s \in Seats : seat' = [seat EXCEPT ![c] = s]
        BY <2>2 DEF SeatTaken
      <3>2. \A d \in Connections : seat'[d] = IF d = c THEN s ELSE seat[d]
        BY <3>1
      <3>3. \A d \in Connections \ {c} : pc'[d] = pc[d]
        BY <1>1, OthersStay
      <3> QED
        BY <3>2, <3>3
    <2>3. CASE SeatGiven(c)
      BY <1>1, <2>3, OthersStay DEF SeatGiven
    <2> QED
      BY <1>1, <2>1, <2>2, <2>3, ThreadSeat
  <1>2. CASE UNCHANGED threadVars
    BY <1>2 DEF threadVars
  <1> QED
    BY <1>1, <1>2, ServerLeavesThreads DEF Next, vars

LEMMA TypeInvStep == TypeInv /\ [Next]_vars => TypeInv'
  <1> SUFFICES ASSUME TypeInv, [Next]_vars PROVE TypeInv'
    OBVIOUS
  <1>1. CASE UNCHANGED vars
    <2>1. /\ UNCHANGED mainVars /\ UNCHANGED gameVars /\ UNCHANGED barrierVars
          /\ UNCHANGED pipeVars /\ UNCHANGED threadVars
          /\ UNCHANGED <<seats_status, barrier_messages>>
      BY <1>1 DEF vars
    <2>2. TypeOK'
      BY <2>1 DEF mainVars, gameVars, barrierVars, pipeVars, threadVars, TypeInv, TypeOK
    <2>3. DealIsRead' /\ ServesASeat'
      BY <2>1 DEF mainVars, threadVars, TypeInv, DealIsRead, ServesASeat, Serves
    <2> QED
      BY <2>2, <2>3 DEF TypeInv
  <1>2. TypeOK'
    BY <1>1, ServerTypeOK, ThreadTypeOK DEF Next, TypeInv
  <1> QED
    BY <1>2, DealIsReadStep, ServesASeatStep DEF TypeInv

(* Every variable keeps its type, whatever clients do.                     *)
THEOREM TypeCorrect == Spec => []TypeOK
  <1>1. TypeInv => TypeOK
    BY DEF TypeInv
  <1> QED
    BY InitTypeInv, TypeInvStep, <1>1, PTL DEF Spec

(* No step puts a second thread on a seat: one that starts to serve found  *)
(* its seat free, and a thread frees only the seat that is marked as its   *)
(* own.                                                                    *)
LEMMA SeatExclusiveStep == SeatInv /\ [Next]_vars => SeatExclusive'
  <1> SUFFICES ASSUME SeatInv, [Next]_vars PROVE SeatExclusive'
    OBVIOUS
  <1> USE DEF SeatInv, TypeInv, TypeOK, ServesASeat, SeatExclusive, Serves
  <1>1. ASSUME NEW c \in Connections, OwnStep(c) \/ PipeStep(c) \/ Environment(c)
        PROVE  SeatExclusive'
    <2>0. \A d \in Connections \ {c} : pc'[d] = pc[d]
      BY <1>1, OthersStay
    <2>1. CASE SeatKept(c)
      BY <2>0, <2>1 DEF SeatKept
    <2>2. CASE SeatTaken(c)
      BY <2>0, <2>2, ServerAssumption DEF SeatTaken
    <2>3. CASE SeatGiven(c)
      <3>1. SUFFICES ASSUME NEW d \in Connections, pc'[d] \in Serving
                     PROVE  seats_status'[seat'[d]] = d
        BY DEF SeatExclusive, Serves
      <3>2. d # c
        BY <2>3, <3>1 DEF SeatGiven, Serving
      <3>3. pc[d] \in Serving
        BY <2>0, <3>1, <3>2
      <3>4. seat[d] # seat[c]
        BY <2>3, <3>2, <3>3 DEF SeatGiven
      <3> QED
        BY <2>3, <3>3, <3>4 DEF SeatGiven
    <2> QED
      BY <1>1, <2>1, <2>2, <2>3, ThreadSeat
  <1>2. CASE UNCHANGED <<threadVars, seats_status>>
    BY <1>2 DEF threadVars
  <1> QED
    BY <1>1, <1>2, ServerLeavesThreads DEF Next, vars

(* Two threads never serve one seat.                                       *)
THEOREM SeatsAreExclusive == Spec => []SeatExclusive
  <1>1. Init => SeatInv
    <2>1. Init => SeatExclusive
      BY DEF Init, SeatExclusive, Serves, Serving
    <2> QED
      BY <2>1, InitTypeInv DEF SeatInv
  <1>2. SeatInv /\ [Next]_vars => SeatInv'
    BY TypeInvStep, SeatExclusiveStep DEF SeatInv
  <1>3. SeatInv => SeatExclusive
    BY DEF SeatInv
  <1> QED
    BY <1>1, <1>2, <1>3, PTL DEF Spec
-----------------------------------------------------------------------------
(* No card is ever in two places: CardPlayedOnce, for every number of      *)
(* seats, tricks, deals and connections, whatever clients send and however *)
(* often they leave.  The invariant needs one thing besides the types:     *)
(* where the main thread stands tells whether the cards on the table are   *)
(* those of a trick still to be recorded.                                  *)

(* Every card of the tricks is there once, and in no hand.                 *)
EachOnce(tricks, hands) ==
    \A i \in DOMAIN tricks : \A p \in DOMAIN tricks[i] :
        /\ \A s \in Seats : tricks[i][p] \notin hands[s]
        /\ \A j \in DOMAIN tricks : \A q \in DOMAIN tricks[j] :
              tricks[i][p] = tricks[j][q] => i = j /\ p = q

HandsDisjoint == \A s, t \in Seats : s # t => cards[s] \cap cards[t] = {}
TricksOnce == server # "run_deal" => EachOnce(Append(taken_tricks, Table), cards)

(* A trick is being played, or a barrier interrupts it.                    *)
Playing ==
    \/ server \in {"turn", "ask", "await", "scan", "taken"}
    \/ server \in InBarrier /\ caller = "scan"
(* No trick is being played. *)
Between ==
    \/ server \in {"read_deal", "trick", "scores"}
    \/ server \in InBarrier /\ caller # "scan"

Recorded ==
    /\ Playing => trick_number = Len(taken_tricks) + 1
    /\ Between => trick_number = Len(taken_tricks)
    /\ server = "run_deal" => taken_tricks = <<>>

CardInv == TypeInv /\ Recorded /\ HandsDisjoint /\ TricksOnce
-----------------------------------------------------------------------------
(* Putting an empty trick last, when a trick was recorded.                 *)
LEMMA EmptyTrick ==
  ASSUME NEW tricks \in Seq(Seq(Card)), NEW hands, EachOnce(tricks, hands)
  PROVE  EachOnce(Append(tricks, <<>>), hands)
  <1> DEFINE more == Append(tricks, <<>>)
  <1>1. /\ DOMAIN tricks = 1..Len(tricks)
        /\ Len(tricks) \in Nat
        /\ DOMAIN more = 1..Len(tricks) + 1
        /\ \A i \in 1..Len(tricks) : more[i] = tricks[i]
        /\ more[Len(tricks) + 1] = <<>>
    BY EmptyIsSeq
  <1>2. DOMAIN <<>> = {}
    OBVIOUS
  <1> HIDE DEF more
  <1>3. \A i \in DOMAIN more : \A p \in DOMAIN more[i] :
           i \in DOMAIN tricks /\ more[i] = tricks[i]
    BY <1>1, <1>2
  <1>4. EachOnce(more, hands)
    BY <1>3 DEF EachOnce
  <1> QED
    BY <1>4 DEF more

(* A card moves from a hand to the last trick. *)
LEMMA CardMoves ==
  ASSUME NEW tricks \in Seq(Seq(Card)), NEW table \in Seq(Card),
         NEW hands \in [Seats -> SUBSET Card], NEW s \in Seats,
         NEW card \in hands[s],
         \A t, u \in Seats : t # u => hands[t] \cap hands[u] = {},
         EachOnce(Append(tricks, table), hands)
  PROVE  LET moved == [hands EXCEPT ![s] = @ \ {card}] IN
           /\ EachOnce(Append(tricks, Append(table, card)), moved)
           /\ \A t, u \in Seats : t # u => moved[t] \cap moved[u] = {}
  <1> DEFINE moved == [hands EXCEPT ![s] = @ \ {card}]
             n == Len(tricks)
             m == Len(table)
             old == Append(tricks, table)
             new == Append(tricks, Append(table, card))
  <1>1. /\ n \in Nat /\ m \in Nat
        /\ DOMAIN old = 1..n + 1 /\ DOMAIN new = 1..n + 1
        /\ \A i \in 1..n : old[i] = tricks[i] /\ new[i] = tricks[i]
        /\ old[n + 1] = table /\ new[n + 1] = Append(table, card)
    BY AppendIsSeq
  <1>2. /\ DOMAIN table = 1..m
        /\ DOMAIN Append(table, card) = 1..m + 1
        /\ \A p \in 1..m : Append(table, card)[p] = table[p]
        /\ Append(table, card)[m + 1] = card
    OBVIOUS
  <1>3. \A t \in Seats : moved[t] \subseteq hands[t] /\ card \notin moved[t]
    OBVIOUS
  <1> HIDE DEF moved, n, m, old, new
  (* A place of the new tricks is a place of the old ones or the card's.   *)
  <1>4. ASSUME NEW i \in DOMAIN new, NEW p \in DOMAIN new[i]
        PROVE  \/ i = n + 1 /\ p = m + 1 /\ new[i][p] = card
               \/ i \in DOMAIN old /\ p \in DOMAIN old[i] /\ new[i][p] = old[i][p]
    <2>1. CASE i = n + 1
      <3>1. new[i] = Append(table, card) /\ old[i] = table /\ i \in DOMAIN old
        BY <1>1, <2>1
      <3>2. p \in 1..m + 1
        BY <1>2, <3>1
      <3>3. CASE p = m + 1
        BY <1>2, <2>1, <3>1, <3>3
      <3>4. CASE p \in 1..m
        BY <1>2, <3>1, <3>4
      <3> QED
        BY <1>1, <3>2, <3>3, <3>4
    <2>2. CASE i \in 1..n
      BY <1>1, <2>2
    <2> QED
      BY <1>1, <2>1, <2>2
  <1>9. \A i \in DOMAIN old : \A p \in DOMAIN old[i] : \A t \in Seats :
           old[i][p] \notin hands[t]
    BY DEF EachOnce, old
  <1>10. \A i, j \in DOMAIN old : \A p \in DOMAIN old[i], q \in DOMAIN old[j] :
            old[i][p] = old[j][q] => i = j /\ p = q
    BY DEF EachOnce, old
  <1>5. \A i \in DOMAIN old : \A p \in DOMAIN old[i] : old[i][p] # card
    BY <1>9
  <1>6. ASSUME NEW i \in DOMAIN new, NEW p \in DOMAIN new[i]
        PROVE  \A t \in Seats : new[i][p] \notin moved[t]
    <2>1. CASE new[i][p] = card
      BY <1>3, <2>1
    <2>2. CASE i \in DOMAIN old /\ p \in DOMAIN old[i] /\ new[i][p] = old[i][p]
      BY <1>3, <1>9, <2>2
    <2> QED
      BY <1>4, <2>1, <2>2
  <1>7. ASSUME NEW i \in DOMAIN new, NEW p \in DOMAIN new[i],
               NEW j \in DOMAIN new, NEW q \in DOMAIN new[j],
               new[i][p] = new[j][q]
        PROVE  i = j /\ p = q
    BY <1>4, <1>5, <1>7, <1>10
  <1>8. EachOnce(new, moved)
    BY <1>6, <1>7 DEF EachOnce
  <1> QED
    BY <1>3, <1>8 DEF new, moved
-----------------------------------------------------------------------------
(* What a step of a client thread does to the game: nothing, or the thread *)
(* plays a card of its seat's hand.                                        *)
CardPlayed(s, card) ==
    /\ card \in cards[s]
    /\ cards' = [cards EXCEPT ![s] = @ \ {card}]
    /\ cards_on_table' = Append(cards_on_table, card)
    /\ UNCHANGED <<taken_tricks, trick_number>>

LEMMA ParsePlays ==
  ASSUME NEW c \in Connections, NEW message, NEW after, Parse(c, message, after)
  PROVE  \/ UNCHANGED <<cards, cards_on_table, taken_tricks, trick_number>>
         \/ \E card : CardPlayed(seat[c], card)
  BY DEF Parse, PlayCard, Legal, CardPlayed, gameVars

LEMMA ThreadPlays ==
  ASSUME TypeInv, NEW c \in Connections,
         OwnStep(c) \/ PipeStep(c) \/ Environment(c)
  PROVE  /\ UNCHANGED <<server, caller>>
         /\ \/ UNCHANGED <<cards, cards_on_table, taken_tricks, trick_number>>
            \/ \E s \in Seats : \E card : CardPlayed(s, card)
  <1>1. UNCHANGED <<server, caller>>
    BY ThreadsLeaveMain DEF mainVars
  <1>2. CASE Drain(c) \/ \E message \in Inputs : SocketMessage(c, message)
    <2>1. seat[c] \in Seats
      BY <1>2 DEF Drain, SocketMessage, TypeInv, ServesASeat, Serves, Serving
    <2>2. \/ UNCHANGED gameVars
          \/ \E message, after : Parse(c, message, after)
      BY <1>2 DEF Drain, SocketMessage
    <2> QED
      BY <1>1, <2>1, <2>2, ParsePlays DEF gameVars
  <1>3. CASE OwnStep(c) /\ ~Drain(c)
    BY <1>1, <1>3 DEF OwnStep, Greet, Enter, LoopTop, Bye, Notify, gameVars
  <1>4. CASE PipeStep(c)
    BY <1>1, <1>4 DEF PipeStep, OnCardPlay, OnAnnouncement, OnBarrierResponse,
       OnBarrierEnd, OnDisconnected, gameVars
  <1>5. CASE Environment(c) /\ ~\E message \in Inputs : SocketMessage(c, message)
    BY <1>1, <1>5 DEF Environment, Accept, NoSeat, GreetFails, SocketClosed, Timeout,
       SendFails, Reserve, gameVars
  <1> QED
    BY <1>2, <1>3, <1>4, <1>5
-----------------------------------------------------------------------------
LEMMA ThreadCardStep ==
  ASSUME CardInv, NEW c \in Connections,
         OwnStep(c) \/ PipeStep(c) \/ Environment(c)
  PROVE  Recorded' /\ HandsDisjoint' /\ TricksOnce'
  <1>0. /\ taken_tricks \in Seq(Seq(Card)) /\ cards_on_table \in Seq(Card)
        /\ cards \in [Seats -> SUBSET Card]
        /\ trick_number \in Nat
    BY ServerAssumption DEF CardInv, TypeInv, TypeOK
  <1>1. UNCHANGED <<server, caller>>
    BY ThreadPlays DEF CardInv
  <1>2. CASE UNCHANGED <<cards, cards_on_table, taken_tricks, trick_number>>
    BY <1>1, <1>2
    DEF CardInv, Recorded, Playing, Between, HandsDisjoint, TricksOnce, Table, EachOnce
  <1>3. ASSUME NEW s \in Seats, NEW card, CardPlayed(s, card)
        PROVE  Recorded' /\ HandsDisjoint' /\ TricksOnce'
    <2>1. Recorded'
      BY <1>1, <1>3 DEF CardInv, Recorded, Playing, Between, CardPlayed
    <2>2. /\ card \in cards[s]
          /\ cards' = [cards EXCEPT ![s] = @ \ {card}]
          /\ cards_on_table' = Append(cards_on_table, card)
          /\ UNCHANGED <<taken_tricks, trick_number>>
      BY <1>3 DEF CardPlayed
    <2>3. \A t, u \in Seats : t # u => cards[t] \cap cards[u] = {}
      BY DEF CardInv, HandsDisjoint
    <2>4. HandsDisjoint'
      BY <1>0, <2>2, <2>3 DEF HandsDisjoint
    <2>5. CASE server = "run_deal"
      BY <1>1, <2>1, <2>4, <2>5 DEF TricksOnce
    <2>6. CASE server # "run_deal" /\ Len(taken_tricks) = trick_number
      <3>1. Table = <<>> /\ Table' = <<>>
        BY <1>1, <2>2, <2>6 DEF Table
      <3>2. EachOnce(Append(taken_tricks, <<>>), cards)
        BY <2>6, <3>1 DEF CardInv, TricksOnce
      <3>3. \A t \in Seats : cards'[t] \subseteq cards[t]
        BY <1>0, <2>2
      <3>4. EachOnce(Append(taken_tricks, <<>>), cards')
        BY <3>2, <3>3 DEF EachOnce
      <3> QED
        BY <2>1, <2>2, <2>4, <3>1, <3>4 DEF TricksOnce
    <2>7. CASE server # "run_deal" /\ Len(taken_tricks) # trick_number
      <3>1. Table = cards_on_table /\ Table' = Append(cards_on_table, card)
        BY <1>1, <2>2, <2>7 DEF Table
      <3>2. EachOnce(Append(taken_tricks, cards_on_table), cards)
        BY <2>7, <3>1 DEF CardInv, TricksOnce
      <3>3. EachOnce(Append(taken_tricks, Append(cards_on_table, card)), cards')
        BY <1>0, <2>2, <2>3, <3>2, CardMoves
      <3> QED
        BY <2>1, <2>2, <2>4, <3>1, <3>3 DEF TricksOnce
    <2> QED
      BY <2>5, <2>6, <2>7
  <1> QED
    BY <1>2, <1>3, ThreadPlays DEF CardInv

(* The four actions of the main thread that touch the cards or the tricks; *)
(* the others only move it about.                                          *)
LEMMA ServerMoves ==
  ASSUME TypeOK, Recorded, Server,
         ~ReadDeal, ~DealBegin, ~TrickBegin, ~TrickTaken
  PROVE  /\ UNCHANGED <<cards, cards_on_table, taken_tricks, trick_number>>
         /\ server # "run_deal" /\ server' # "run_deal"
         /\ Playing' => Playing
         /\ Between' => Between
  <1> USE DEF Playing, Between, InBarrier, TypeOK, gameVars
  <1>1. CASE BarrierBegin
    BY <1>1 DEF BarrierBegin, LoopOrReturn
  <1>2. CASE BarrierPoll
    BY <1>2 DEF BarrierPoll
  <1>3. CASE BarrierCheck
    BY <1>3 DEF BarrierCheck, LoopOrReturn
  <1>4. ASSUME NEW j \in Seats, BarrierScan(j)
        PROVE  /\ UNCHANGED <<cards, cards_on_table, taken_tricks, trick_number>>
               /\ server # "run_deal" /\ server' # "run_deal"
               /\ Playing' => Playing
               /\ Between' => Between
    BY <1>4 DEF BarrierScan, Abort
  <1>5. ASSUME NEW j \in Seats, Scan(j)
        PROVE  /\ UNCHANGED <<cards, cards_on_table, taken_tricks, trick_number>>
               /\ server # "run_deal" /\ server' # "run_deal"
               /\ Playing' => Playing
               /\ Between' => Between
    BY <1>5 DEF Scan, BarrierThen, Abort
  <1>6. CASE TurnBegin \/ AskForCard \/ Poll
    BY <1>6 DEF TurnBegin, AskForCard, Poll
  <1>7. CASE ScanEnd
    BY <1>7 DEF ScanEnd
  <1>8. CASE SendScores
    BY <1>8 DEF SendScores, BarrierThen
  <1>9. CASE CloseServer \/ JoinThreads
    BY <1>9 DEF CloseServer, JoinThreads
  <1> QED
    BY <1>1, <1>2, <1>3, <1>4, <1>5, <1>6, <1>7, <1>8, <1>9 DEF Server

LEMMA ServerCardStep ==
  ASSUME CardInv, Server
  PROVE  Recorded' /\ HandsDisjoint' /\ TricksOnce'
  <1>0. /\ taken_tricks \in Seq(Seq(Card)) /\ cards_on_table \in Seq(Card)
        /\ trick_number \in Nat /\ Len(taken_tricks) \in Nat
        /\ deals_read \in 0..Len(GameFile) /\ Len(GameFile) \in Nat
    BY ServerAssumption, GameFileFacts DEF CardInv, TypeInv, TypeOK
  <1>1. CASE ReadDeal
    <2>1. CASE deals_read < Len(GameFile)
      <3>1. /\ server' = "run_deal" /\ taken_tricks' = <<>>
            /\ cards' = GameFile[deals_read + 1].cards
        BY <1>1, <2>1 DEF ReadDeal
      <3>2. deals_read + 1 \in DOMAIN GameFile
        BY <1>0, <2>1, GameFileFacts
      <3> QED
        BY <3>1, <3>2, ServerAssumption
        DEF Recorded, Playing, Between, InBarrier, HandsDisjoint, TricksOnce
    <2>2. CASE ~(deals_read < Len(GameFile))
      BY <1>0, <1>1, <2>2 DEF ReadDeal, CardInv, Recorded, Playing, Between,
         InBarrier, HandsDisjoint, TricksOnce, Table, EachOnce
    <2> QED
      BY <2>1, <2>2
  <1>2. CASE DealBegin
    <2>1. /\ taken_tricks' = <<>> /\ Len(taken_tricks') = 0
          /\ trick_number' = 0 /\ server' = "trick" /\ UNCHANGED cards
      BY <1>2 DEF DealBegin, CardInv, Recorded
    <2>2. Recorded' /\ HandsDisjoint'
      BY <2>1 DEF CardInv, Recorded, Playing, Between, InBarrier, HandsDisjoint
    <2>3. Table' = <<>>
      BY <2>1 DEF Table
    <2>4. EachOnce(<<>>, cards')
      BY DEF EachOnce
    <2>5. EachOnce(Append(<<>>, <<>>), cards')
      BY <2>4, EmptyTrick, EmptyIsSeq
    <2> QED
      BY <2>1, <2>2, <2>3, <2>5 DEF TricksOnce
  <1>3. CASE TrickBegin
    <2>1. trick_number = Len(taken_tricks) /\ server = "trick"
      BY <1>3 DEF TrickBegin, CardInv, Recorded, Between
    <2>2. Table = <<>>
      BY <2>1 DEF Table
    <2>3. UNCHANGED <<cards, taken_tricks>> /\ server' \in {"turn", "scores"}
      BY <1>3 DEF TrickBegin
    <2>4. Table' = <<>> /\ Recorded'
      <3>1. CASE trick_number < Tricks
        BY <1>3, <2>1, <2>3, <3>1, <1>0
        DEF TrickBegin, Table, Recorded, Playing, Between, InBarrier
      <3>2. CASE ~(trick_number < Tricks)
        BY <1>3, <2>1, <2>3, <3>2, <1>0
        DEF TrickBegin, Table, Recorded, Playing, Between, InBarrier
      <3> QED
        BY <3>1, <3>2
    <2> QED
      BY <2>1, <2>2, <2>3, <2>4 DEF CardInv, HandsDisjoint, TricksOnce
  <1>4. CASE TrickTaken
    <2>1. trick_number = Len(taken_tricks) + 1 /\ server = "taken"
      BY <1>4 DEF TrickTaken, CardInv, Recorded, Playing
    <2>2. Table = cards_on_table
      BY <1>0, <2>1 DEF Table
    <2>3. /\ UNCHANGED <<cards, trick_number>>
          /\ server' = "barrier" /\ caller' = "trick"
          /\ taken_tricks' = Append(taken_tricks, cards_on_table)
      BY <1>4 DEF TrickTaken, BarrierThen
    <2>4. Len(taken_tricks') = trick_number' /\ taken_tricks' \in Seq(Seq(Card))
      BY <1>0, <2>1, <2>3, AppendIsSeq
    <2>5. Table' = <<>>
      BY <2>4 DEF Table
    <2>6. EachOnce(taken_tricks', cards')
      BY <2>1, <2>2, <2>3 DEF CardInv, TricksOnce
    <2>7. EachOnce(Append(taken_tricks', <<>>), cards')
      BY <2>4, <2>6, EmptyTrick
    <2>8. Recorded'
      BY <2>3, <2>4 DEF Recorded, Playing, Between, InBarrier
    <2> QED
      BY <2>3, <2>5, <2>7, <2>8 DEF CardInv, HandsDisjoint, TricksOnce
  <1>5. CASE ~ReadDeal /\ ~DealBegin /\ ~TrickBegin /\ ~TrickTaken
    <2>1. /\ UNCHANGED <<cards, cards_on_table, taken_tricks, trick_number>>
          /\ server # "run_deal" /\ server' # "run_deal"
          /\ Playing' => Playing
          /\ Between' => Between
      BY <1>5, ServerMoves DEF CardInv, TypeInv
    <2>2. Recorded' /\ HandsDisjoint'
      BY <2>1 DEF CardInv, Recorded, HandsDisjoint
    <2>3. Table' = Table
      BY <2>1 DEF Table
    <2> QED
      BY <2>1, <2>2, <2>3 DEF CardInv, TricksOnce
  <1> QED
    BY <1>1, <1>2, <1>3, <1>4, <1>5

LEMMA CardInvStep == CardInv /\ [Next]_vars => CardInv'
  <1> SUFFICES ASSUME CardInv, [Next]_vars PROVE CardInv'
    OBVIOUS
  <1>1. TypeInv'
    BY TypeInvStep DEF CardInv
  <1>2. CASE UNCHANGED vars
    <2>1. UNCHANGED <<server, caller, cards, cards_on_table, taken_tricks, trick_number>>
      BY <1>2 DEF vars, mainVars, gameVars
    <2>2. Recorded' /\ HandsDisjoint' /\ TricksOnce'
      BY <2>1 DEF CardInv, Recorded, Playing, Between, HandsDisjoint, TricksOnce,
         Table, EachOnce
    <2> QED
      BY <1>1, <2>2 DEF CardInv
  <1> QED
    BY <1>1, <1>2, ThreadCardStep, ServerCardStep DEF Next, CardInv

LEMMA InitCardInv == Init => CardInv
  <1>1. Init => Recorded /\ HandsDisjoint
    BY DEF Init, Recorded, Playing, Between, InBarrier, HandsDisjoint
  <1>2. Init => TricksOnce
    <2> SUFFICES ASSUME Init PROVE EachOnce(Append(<<>>, <<>>), cards)
      BY DEF Init, TricksOnce, Table
    <2>1. EachOnce(<<>>, cards)
      BY DEF EachOnce
    <2> QED
      BY <2>1, EmptyTrick, EmptyIsSeq
  <1> QED
    BY <1>1, <1>2, InitTypeInv DEF CardInv

(* No card is ever in two hands, in a hand and a trick, twice in a trick   *)
(* or in two tricks of a deal.                                             *)
THEOREM CardsArePlayedOnce == Spec => []CardPlayedOnce
  <1>1. CardInv => CardPlayedOnce
    BY DEF CardInv, HandsDisjoint, TricksOnce, EachOnce, CardPlayedOnce
  <1> QED
    BY <1>1, InitCardInv, CardInvStep, PTL DEF Spec
-----------------------------------------------------------------------------
(* Who has left; while it is one at most, its DISCONNECTED is the only one *)
(* there will be: it has not been read yet, or nobody has left.            *)
Departed == {c \in Connections : HasLeft(c)}
OneLeft == \A c, d \in Departed : c = d
Unreported ==
    \/ Departed = {}
    \/ \E c \in Connections : pc[c] = "bye"
    \/ \E s \in Seats : Has(server_read_pipes[s], DISCONNECTED)

Nowhere(byte) == \A s \in Seats : ~Has(server_read_pipes[s], byte)
Single(byte) ==
    \A s, t \in Seats :
        \A i \in DOMAIN server_read_pipes[s], j \in DOMAIN server_read_pipes[t] :
            server_read_pipes[s][i] = byte /\ server_read_pipes[t][j] = byte
                => s = t /\ i = j

Reports ==
    /\ ~Nowhere(DISCONNECTED) => \E c \in Departed : pc[c] = "gone"
    /\ OneLeft => Single(DISCONNECTED)

(* Until that DISCONNECTED is read, a barrier counts no seat twice: a seat *)
(* has one BARRIER_RESPONSE at most to answer, no more of them than        *)
(* answers are missing, and the one that reports the last answer does so   *)
(* when there is none left.  The barrier does not end before its report is *)
(* read, because nothing else wakes the main thread.                       *)
Waits == server \in {"barrier_poll", "barrier_scan"}
Due == {s \in Seats : Has(server_write_pipes[s], BARRIER_RESPONSE)}
NoReport ==
    /\ Nowhere(BARRIER_RESPONSE)
    /\ \A c \in Connections : pc[c] # "notify"
OneReport ==
    /\ Single(BARRIER_RESPONSE)
    /\ \A c, d \in Connections : pc[c] = "notify" /\ pc[d] = "notify" => c = d
    /\ (\E c \in Connections : pc[c] = "notify") => Nowhere(BARRIER_RESPONSE)
Counted ==
    /\ \A s \in Seats : Once(server_write_pipes[s], BARRIER_RESPONSE)
    /\ Waits => occupied + Cardinality(Due) <= N
    /\ ~Waits => Due = {}
    /\ OneReport
    /\ ~Waits \/ Due # {} => NoReport
    /\ server = "barrier_scan" /\ barrier_ready = {} => Due = {} /\ NoReport
Counting == OneLeft /\ Unreported /\ server \notin Closing => Counted

(* What run_deal's scan has still to read is there; a barrier inside it    *)
(* takes nothing of that without closing the server.                       *)
Scanned ==
    OneLeft => \A k \in ready :
        /\ server = "scan" => server_read_pipes[k] # <<>>
        /\ server \in InBarrier /\ caller = "scan" =>
              /\ server_read_pipes[k] # <<>>
              /\ Head(server_read_pipes[k]) \notin {BARRIER_RESPONSE, DISCONNECTED}

LeaverInv ==
    /\ TypeInv /\ IsFiniteSet(Departed)
    /\ Reports /\ Counting /\ Scanned
-----------------------------------------------------------------------------
(* Whoever left stays away. *)
LEMMA LeftStays ==
  ASSUME TypeInv, [Next]_vars, NEW c \in Connections, HasLeft(c)
  PROVE  HasLeft(c)' /\ (pc[c] = "gone" => pc'[c] = "gone")
  <1> USE DEF HasLeft
  <1>1. CASE UNCHANGED <<pc, seat>>
    BY <1>1
  <1>2. CASE OwnStep(c) \/ PipeStep(c) \/ Environment(c)
    <2>1. /\ ~PipeStep(c)
          /\ ~(Greet(c) \/ Enter(c) \/ LoopTop(c) \/ Drain(c) \/ Notify(c))
      BY DEF PipeStep, OnCardPlay, OnAnnouncement, OnBarrierResponse, OnBarrierEnd,
         OnDisconnected, ReadFromServer, Greet, Enter, LoopTop, Drain, Notify
    <2>2. ~Environment(c)
      BY DEF Environment, Accept, NoSeat, GreetFails, SocketClosed, Timeout, SendFails,
         ReadFromServer, Reserve, SocketMessage
    <2>3. Bye(c)
      BY <1>2, <2>1, <2>2 DEF OwnStep
    <2> QED
      BY <2>3 DEF Bye, Goto, TypeInv, TypeOK
  <1>3. ASSUME NEW d \in Connections, d # c,
               OwnStep(d) \/ PipeStep(d) \/ Environment(d)
        PROVE  HasLeft(c)' /\ pc'[c] = pc[c]
    <2>1. pc'[c] = pc[c]
      BY <1>3, OthersStay
    <2>2. seat'[c] = seat[c]
      BY <1>3, ThreadSeat DEF SeatKept, SeatTaken, SeatGiven, TypeInv, TypeOK
    <2> QED
      BY <2>1, <2>2
  <1> QED
    BY <1>1, <1>2, <1>3, ServerLeavesThreads DEF Next, vars, threadVars

(* A byte at one place of all the pipes at most: when it is read it is     *)
(* nowhere, and what is written beside it changes nothing.                 *)
LEMMA SingleRead ==
  ASSUME TypeOK, NEW j \in Seats, ReadFromClients(j), NEW byte
  PROVE  /\ Nowhere(byte) => Nowhere(byte)'
         /\ Single(byte) => Single(byte)'
         /\ Single(byte) /\ Head(server_read_pipes[j]) = byte => Nowhere(byte)'
         /\ \A s \in Seats \ {j} : server_read_pipes'[s] = server_read_pipes[s]
         /\ server_read_pipes'[j] = Tail(server_read_pipes[j])
         /\ Has(server_read_pipes[j], Head(server_read_pipes[j]))
  <1>1. /\ server_read_pipes[j] \in Seq(ToServer) /\ server_read_pipes[j] # <<>>
        /\ server_read_pipes'[j] = Tail(server_read_pipes[j])
        /\ \A s \in Seats \ {j} : server_read_pipes'[s] = server_read_pipes[s]
    BY DEF ReadFromClients, TypeOK
  <1>2. \A b : /\ Has(server_read_pipes[j], Head(server_read_pipes[j]))
               /\ Has(Tail(server_read_pipes[j]), b) => Has(server_read_pipes[j], b)
    BY <1>1, Consumed
  <1>3. Nowhere(byte) => Nowhere(byte)'
    BY <1>1, <1>2 DEF Nowhere
  <1>4. /\ Len(server_read_pipes[j]) \in Nat
        /\ DOMAIN server_read_pipes[j] = 1..Len(server_read_pipes[j])
        /\ DOMAIN server_read_pipes'[j] = 1..Len(server_read_pipes[j]) - 1
        /\ \A i \in 1..Len(server_read_pipes[j]) - 1 :
              /\ server_read_pipes'[j][i] = server_read_pipes[j][i + 1]
              /\ i + 1 \in DOMAIN server_read_pipes[j]
        /\ Head(server_read_pipes[j]) = server_read_pipes[j][1]
        /\ 1 \in DOMAIN server_read_pipes[j]
    BY <1>1
  <1> DEFINE from(s, i) == IF s = j THEN i + 1 ELSE i
  <1>5. \A s \in Seats : \A i \in DOMAIN server_read_pipes'[s] :
            /\ from(s, i) \in DOMAIN server_read_pipes[s]
            /\ server_read_pipes'[s][i] = server_read_pipes[s][from(s, i)]
    BY <1>1, <1>4
  <1>6. ASSUME Single(byte) PROVE Single(byte)'
    <2> SUFFICES ASSUME NEW s \in Seats, NEW t \in Seats,
                        NEW i \in DOMAIN server_read_pipes'[s],
                        NEW k \in DOMAIN server_read_pipes'[t],
                        server_read_pipes'[s][i] = byte, server_read_pipes'[t][k] = byte
                 PROVE  s = t /\ i = k
      BY DEF Single
    <2>1. s = t /\ from(s, i) = from(t, k)
      BY <1>5, <1>6 DEF Single
    <2> QED
      BY <1>4, <2>1
  <1>7. ASSUME Single(byte), Head(server_read_pipes[j]) = byte, NEW s \in Seats,
               NEW i \in DOMAIN server_read_pipes'[s], server_read_pipes'[s][i] = byte
        PROVE  FALSE
    <2>1. s = j /\ from(s, i) = 1
      BY <1>4, <1>5, <1>7 DEF Single
    <2> QED
      BY <1>4, <1>7, <2>1
  <1> QED
    BY <1>1, <1>2, <1>3, <1>6, <1>7 DEF Nowhere, Has

LEMMA SingleWrite ==
  ASSUME TypeOK, NEW t \in Seats, NEW new \in ToServer, WriteToServer(t, new), NEW byte
  PROVE  /\ new # byte => /\ Nowhere(byte)' <=> Nowhere(byte)
                          /\ Single(byte) => Single(byte)'
         /\ Nowhere(new) => Single(new)'
         /\ ~Nowhere(new)'
         /\ \A s \in Seats : server_read_pipes[s] # <<>> =>
               /\ server_read_pipes'[s] # <<>>
               /\ Head(server_read_pipes'[s]) = Head(server_read_pipes[s])
  <1>1. /\ server_read_pipes[t] \in Seq(ToServer)
        /\ server_read_pipes'[t] = Append(server_read_pipes[t], new)
        /\ \A s \in Seats \ {t} : server_read_pipes'[s] = server_read_pipes[s]
    BY DEF WriteToServer, TypeOK
  <1>2. \A b : Has(server_read_pipes'[t], b) <=> Has(server_read_pipes[t], b) \/ new = b
    BY <1>1, Written
  <1>3. /\ Len(server_read_pipes[t]) \in Nat
        /\ DOMAIN server_read_pipes[t] = 1..Len(server_read_pipes[t])
        /\ DOMAIN server_read_pipes'[t] = 1..Len(server_read_pipes[t]) + 1
        /\ \A i \in 1..Len(server_read_pipes[t]) :
              server_read_pipes'[t][i] = server_read_pipes[t][i]
        /\ server_read_pipes'[t][Len(server_read_pipes[t]) + 1] = new
        /\ server_read_pipes'[t] # <<>>
        /\ server_read_pipes[t] # <<>> =>
              Head(server_read_pipes'[t]) = Head(server_read_pipes[t])
    <2>1. \A pipe \in Seq(ToServer) :
             /\ Len(pipe) \in Nat /\ DOMAIN pipe = 1..Len(pipe)
             /\ DOMAIN Append(pipe, new) = 1..Len(pipe) + 1
             /\ \A i \in 1..Len(pipe) : Append(pipe, new)[i] = pipe[i]
             /\ Append(pipe, new)[Len(pipe) + 1] = new
      OBVIOUS
    <2>2. \A pipe \in Seq(ToServer) : Append(pipe, new) # <<>>
      BY Written
    <2>3. \A pipe \in Seq(ToServer) : pipe # <<>> => 1 \in 1..Len(pipe)
      OBVIOUS
    <2>4. \A pipe \in Seq(ToServer) :
             pipe # <<>> => Head(Append(pipe, new)) = Head(pipe)
      <3> SUFFICES ASSUME NEW pipe \in Seq(ToServer), pipe # <<>>
                   PROVE  Head(Append(pipe, new)) = Head(pipe)
        OBVIOUS
      <3>1. Append(pipe, new) \in Seq(ToServer) /\ Append(pipe, new)[1] = pipe[1]
        BY <2>1, <2>3
      <3>2. \A more \in Seq(ToServer) : more # <<>> => Head(more) = more[1]
        OBVIOUS
      <3> QED
        BY <2>2, <3>1, <3>2
    <2> QED
      BY <1>1, <2>1, <2>2, <2>4
  <1>4. \A b : \A s \in Seats : \A i \in DOMAIN server_read_pipes'[s] :
            server_read_pipes'[s][i] = b =>
                \/ i \in DOMAIN server_read_pipes[s] /\ server_read_pipes[s][i] = b
                \/ s = t /\ i = Len(server_read_pipes[t]) + 1 /\ b = new
    BY <1>1, <1>3
  <1>5. ASSUME new # byte PROVE /\ Nowhere(byte)' <=> Nowhere(byte)
                                /\ Single(byte) => Single(byte)'
    BY <1>1, <1>2, <1>4, <1>5 DEF Nowhere, Single
  <1>6. ASSUME Nowhere(new) PROVE Single(new)'
    <2>1. \A s \in Seats : \A i \in DOMAIN server_read_pipes'[s] :
             server_read_pipes'[s][i] = new => s = t /\ i = Len(server_read_pipes[t]) + 1
      BY <1>4, <1>6 DEF Nowhere, Has
    <2> QED
      BY <2>1 DEF Single
  <1> QED
    BY <1>1, <1>2, <1>3, <1>5, <1>6 DEF Nowhere

(* Who has still to answer a barrier: those that have not read their       *)
(* BARRIER_RESPONSE.                                                       *)
LEMMA DueKept ==
  ASSUME TypeOK, NEW byte \in ToClient \ {BARRIER_RESPONSE},
         Broadcast(byte) \/ \E s \in Seats : WriteToClient(s, byte)
  PROVE  /\ Due' = Due
         /\ \A s \in Seats : Once(server_write_pipes[s], BARRIER_RESPONSE) =>
               Once(server_write_pipes'[s], BARRIER_RESPONSE)
  <1>1. ASSUME NEW s \in Seats
        PROVE  /\ Has(server_write_pipes'[s], BARRIER_RESPONSE)
                     <=> Has(server_write_pipes[s], BARRIER_RESPONSE)
               /\ Once(server_write_pipes[s], BARRIER_RESPONSE) =>
                     Once(server_write_pipes'[s], BARRIER_RESPONSE)
    <2> DEFINE pipe == server_write_pipes[s]
    <2>1. pipe \in Seq(ToClient) /\ byte # BARRIER_RESPONSE
      BY DEF TypeOK
    <2>2. server_write_pipes'[s] \in {pipe, Append(pipe, byte)}
      BY DEF TypeOK, Broadcast, WriteToClient
    <2>3. /\ Has(Append(pipe, byte), BARRIER_RESPONSE) <=> Has(pipe, BARRIER_RESPONSE)
          /\ Once(pipe, BARRIER_RESPONSE) => Once(Append(pipe, byte), BARRIER_RESPONSE)
      BY <2>1, Written, WrittenOnce
    <2> QED
      BY <2>2, <2>3
  <1> QED
    BY <1>1 DEF Due

LEMMA DueRead ==
  ASSUME TypeOK, NEW c \in Connections, seat[c] \in Seats, NEW byte,
         ReadFromServer(c, byte)
  PROVE  /\ Due' \subseteq Due
         /\ \A s \in Seats : Once(server_write_pipes[s], BARRIER_RESPONSE) =>
               Once(server_write_pipes'[s], BARRIER_RESPONSE)
         /\ byte = BARRIER_RESPONSE => seat[c] \in Due
         /\ byte = BARRIER_RESPONSE
            /\ Once(server_write_pipes[seat[c]], BARRIER_RESPONSE) => seat[c] \notin Due'
  <1> DEFINE pipe == server_write_pipes[seat[c]]
             rest == server_write_pipes'[seat[c]]
  <1>1. /\ pipe \in Seq(ToClient) /\ pipe # <<>> /\ Head(pipe) = byte
        /\ rest = Tail(pipe)
        /\ \A s \in Seats \ {seat[c]} : server_write_pipes'[s] = server_write_pipes[s]
    BY DEF TypeOK, ReadFromServer
  <1> HIDE DEF pipe, rest
  <1>2. /\ Has(rest, BARRIER_RESPONSE) => Has(pipe, BARRIER_RESPONSE)
        /\ Once(pipe, BARRIER_RESPONSE) => Once(rest, BARRIER_RESPONSE)
        /\ Has(pipe, byte)
        /\ byte = BARRIER_RESPONSE /\ Once(pipe, BARRIER_RESPONSE) =>
              ~Has(rest, BARRIER_RESPONSE)
    BY <1>1, Consumed, ConsumedOnce
  <1> QED
    BY <1>1, <1>2 DEF Due, pipe, rest

LEMMA DueAsked ==
  ASSUME TypeOK, Due = {}, Broadcast(BARRIER_RESPONSE)
  PROVE  \A s \in Seats : Once(server_write_pipes'[s], BARRIER_RESPONSE)
  <1> SUFFICES ASSUME NEW s \in Seats PROVE Once(server_write_pipes'[s], BARRIER_RESPONSE)
    OBVIOUS
  <1>1. /\ server_write_pipes[s] \in Seq(ToClient) /\ BARRIER_RESPONSE \in ToClient
        /\ server_write_pipes'[s] = Append(server_write_pipes[s], BARRIER_RESPONSE)
        /\ ~Has(server_write_pipes[s], BARRIER_RESPONSE)
    BY DEF TypeOK, Broadcast, Due, ToClient
  <1> QED
    BY <1>1, WrittenOnce

LEMMA DueIsFinite == IsFiniteSet(Seats) /\ Cardinality(Seats) = N
  <1>1. 0 \in Int /\ N - 1 \in Int /\ N \in Nat \ {0} /\ Seats = 0..N - 1
    BY ServerAssumption DEF Seats
  <1>2. IsFiniteSet(0..N - 1) /\ Cardinality(0..N - 1) = IF 0 > N - 1 THEN 0 ELSE N - 1 - 0 + 1
    BY <1>1, FS_Interval, Zenon
  <1> QED
    BY <1>1, <1>2
-----------------------------------------------------------------------------
(* What a step of a thread does to the pipes and to the count.             *)
Steady(c) ==
    /\ UNCHANGED server_read_pipes
    /\ occupied' <= occupied
    /\ pc[c] # "notify" /\ pc'[c] # "notify" /\ pc[c] # "bye"
Sends(c) ==
    /\ seat[c] \in Seats /\ WriteToServer(seat[c], CARD_PLAY)
    /\ UNCHANGED occupied
    /\ pc[c] # "notify" /\ pc'[c] \notin {"notify", "bye"} /\ pc[c] # "bye"

LEMMA LeaveCounts ==
  ASSUME TypeOK, NEW c, NEW byServer, Leave(c, byServer)
  PROVE  occupied' <= occupied
  BY DEF Leave, TypeOK

LEMMA ParseEffect ==
  ASSUME TypeOK, NEW c \in Connections, NEW message, NEW after, seat[c] \in Seats,
         after \notin {"notify", "bye"}, pc[c] \notin {"notify", "bye"},
         Parse(c, message, after)
  PROVE  Steady(c) \/ Sends(c)
  <1>1. CASE CloseThread(c) /\ UNCHANGED server_read_pipes
    <2>1. pc'[c] = "bye"
      BY <1>1 DEF CloseThread, Goto, TypeOK
    <2> QED
      BY <1>1, <2>1, LeaveCounts DEF Steady, CloseThread
  <1>2. CASE Goto(c, after) /\ UNCHANGED <<occupied, server_read_pipes>>
    BY <1>2 DEF Goto, TypeOK, Steady
  <1>3. CASE PlayCard(c, message, after)
    BY <1>3 DEF PlayCard, Goto, TypeOK, Sends, barrierVars
  <1> QED
    BY <1>1, <1>2, <1>3 DEF Parse, barrierVars

LEMMA ThreadEffect ==
  ASSUME TypeInv, NEW c \in Connections, OwnStep(c) \/ PipeStep(c) \/ Environment(c)
  PROVE  \/ Steady(c) \/ Sends(c)
         \/ OnBarrierResponse(c) \/ Notify(c) \/ Bye(c)
  <1>0. /\ TypeOK
        /\ UNCHANGED occupied => occupied' <= occupied
        /\ \A where : Goto(c, where) => pc'[c] = where
    BY DEF TypeInv, TypeOK, Goto
  <1>1. CASE Drain(c)
    <2> DEFINE queued == barrier_messages[seat[c]]
               after == IF Len(queued) > 1 THEN pc[c]
                        ELSE IF pc[c] = "drain" THEN "poll" ELSE "top"
    <2>1. /\ pc[c] \in {"drain", "barrier_end"} /\ after \notin {"notify", "bye"}
          /\ seat[c] \in Seats
      BY <1>1 DEF Drain, TypeInv, ServesASeat, Serves, Serving
    <2>2. Parse(c, Head(queued), after)
      BY <1>1 DEF Drain
    <2> HIDE DEF queued, after
    <2>3. Steady(c) \/ Sends(c)
      BY <1>0, <2>1, <2>2, ParseEffect
    <2> QED
      BY <2>3
  <1>2. ASSUME NEW message \in Inputs, SocketMessage(c, message)
        PROVE  Steady(c) \/ Sends(c)
    <2>1. /\ pc[c] = "poll" /\ AfterSocket(c) \subseteq {"top", "pipe"}
          /\ seat[c] \in Seats
      BY <1>2 DEF SocketMessage, AfterSocket, TypeInv, ServesASeat, Serves, Serving
    <2>2. \/ \E after \in AfterSocket(c) : /\ Goto(c, after)
                                           /\ UNCHANGED <<occupied, server_read_pipes>>
          \/ \E after \in AfterSocket(c) : Parse(c, message, after)
      BY <1>2 DEF SocketMessage, barrierVars
    <2>3. ASSUME NEW after \in AfterSocket(c), Goto(c, after),
                 UNCHANGED <<occupied, server_read_pipes>>
          PROVE  Steady(c)
      <3>1. pc'[c] = after /\ after \in {"top", "pipe"} /\ occupied' <= occupied
        BY <1>0, <2>1, <2>3
      <3> QED
        BY <2>1, <2>3, <3>1 DEF Steady
    <2> QED
      BY <1>0, <2>1, <2>2, <2>3, ParseEffect
  <1>3. CASE SocketClosed(c) \/ SendFails(c)
    <2>1. /\ pc[c] \in {"poll", "pipe"} /\ CloseThread(c) /\ UNCHANGED server_read_pipes
      BY <1>3 DEF SocketClosed, SendFails, ReadFromServer, pipeVars
    <2>2. pc'[c] = "bye"
      BY <1>0, <2>1 DEF CloseThread, Goto, TypeOK
    <2>3. occupied' <= occupied
      BY <1>0, <2>1, LeaveCounts DEF CloseThread
    <2> QED
      BY <2>1, <2>2, <2>3 DEF Steady
  <1>4. CASE OnDisconnected(c)
    <2>1. occupied' <= occupied
      BY <1>0, <1>4, LeaveCounts DEF OnDisconnected
    <2> QED
      BY <1>0, <1>4, <2>1 DEF OnDisconnected, ReadFromServer, Goto, TypeOK, Steady
  <1>5. CASE Greet(c) \/ Enter(c) \/ LoopTop(c)
    BY <1>0, <1>5 DEF Greet, Enter, LoopTop, Goto, TypeOK, Steady, barrierVars, pipeVars
  <1>6. CASE OnCardPlay(c) \/ OnAnnouncement(c) \/ OnBarrierEnd(c)
    <2>1. /\ pc[c] \in {"poll", "pipe"} /\ UNCHANGED <<occupied, server_read_pipes>>
          /\ Goto(c, "top") \/ Goto(c, "barrier_end")
      BY <1>6 DEF OnCardPlay, OnAnnouncement, OnBarrierEnd, ReadFromServer, barrierVars
    <2>2. pc'[c] \in {"top", "barrier_end"} /\ occupied' <= occupied
      BY <1>0, <2>1
    <2> QED
      BY <2>1, <2>2 DEF Steady
  <1>7. CASE Accept(c) \/ NoSeat(c) \/ GreetFails(c)
    BY <1>0, <1>7 DEF Accept, NoSeat, GreetFails, Goto, TypeOK, Steady,
       barrierVars, pipeVars
  <1>10. CASE Timeout(c)
    <2>1. PICK after \in {"top", "pipe"} : pc[c] = "poll" /\ Goto(c, after)
      BY <1>10, TimeoutGoesOn
    <2>2. pc'[c] # "notify"
      BY <1>0, <2>1 DEF Goto, TypeOK
    <2>3. occupied' <= occupied /\ UNCHANGED server_read_pipes
      BY <1>0, <1>10 DEF Timeout, TypeOK, barrierVars, pipeVars
    <2> QED
      BY <2>1, <2>2, <2>3 DEF Steady
  <1>8. ASSUME NEW s \in Seats, Reserve(c, s) PROVE Steady(c)
    BY <1>0, <1>8 DEF Reserve, Goto, TypeOK, Steady, barrierVars, pipeVars
  <1>9. \/ Drain(c) \/ SocketClosed(c) \/ SendFails(c) \/ OnDisconnected(c)
        \/ Greet(c) \/ Enter(c) \/ LoopTop(c)
        \/ OnCardPlay(c) \/ OnAnnouncement(c) \/ OnBarrierEnd(c)
        \/ Accept(c) \/ NoSeat(c) \/ GreetFails(c) \/ Timeout(c)
        \/ (\E message \in Inputs : SocketMessage(c, message))
        \/ (\E s \in Seats : Reserve(c, s))
        \/ OnBarrierResponse(c) \/ Notify(c) \/ Bye(c)
    BY DEF OwnStep, PipeStep, Environment
  <1> QED
    BY <1>1, <1>2, <1>3, <1>4, <1>5, <1>6, <1>7, <1>8, <1>9, <1>10

LEMMA ThreadDue ==
  ASSUME TypeInv, NEW c \in Connections, OwnStep(c) \/ PipeStep(c) \/ Environment(c)
  PROVE  /\ Due' \subseteq Due
         /\ \A s \in Seats : Once(server_write_pipes[s], BARRIER_RESPONSE) =>
               Once(server_write_pipes'[s], BARRIER_RESPONSE)
  <1>1. CASE UNCHANGED server_write_pipes
    BY <1>1 DEF Due
  <1>2. ASSUME NEW byte, ReadFromServer(c, byte)
        PROVE  /\ Due' \subseteq Due
               /\ \A s \in Seats : Once(server_write_pipes[s], BARRIER_RESPONSE) =>
                     Once(server_write_pipes'[s], BARRIER_RESPONSE)
    <2>1. seat[c] \in Seats
      BY <1>2 DEF ReadFromServer, TypeInv, ServesASeat, Serves, Serving
    <2> QED
      BY <1>2, <2>1, DueRead DEF TypeInv
  <1>3. CASE OwnStep(c)
    BY <1>1, <1>3 DEF OwnStep, Greet, Enter, LoopTop, Bye, Drain, Notify, pipeVars
  <1>4. CASE PipeStep(c)
    BY <1>2, <1>4 DEF PipeStep, OnCardPlay, OnAnnouncement, OnBarrierResponse,
       OnBarrierEnd, OnDisconnected
  <1>5. CASE Environment(c)
    BY <1>1, <1>2, <1>5 DEF Environment, Accept, NoSeat, GreetFails, SocketClosed, Timeout,
       SendFails, Reserve, SocketMessage, pipeVars
  <1> QED
    BY <1>3, <1>4, <1>5

(* Who leaves, and who says so. *)
LEMMA ThreadLeavers ==
  ASSUME TypeInv, NEW c \in Connections, OwnStep(c) \/ PipeStep(c) \/ Environment(c)
  PROVE  /\ Departed \subseteq Departed' /\ Departed' \subseteq Departed \cup {c}
         /\ pc'[c] = "bye" => Serves(c) /\ c \notin Departed
         /\ \A d \in Connections \ {c} : pc'[d] = pc[d]
  <1>1. /\ \A d \in Connections \ {c} : pc'[d] = pc[d]
        /\ \A d \in Connections \ {c} : seat'[d] = seat[d]
    <2>1. \A d \in Connections \ {c} : seat'[d] = seat[d]
      BY ThreadSeat DEF SeatKept, SeatTaken, SeatGiven, TypeInv, TypeOK
    <2> QED
      BY <2>1, OthersStay
  <1>2. Departed \subseteq Departed'
    BY LeftStays DEF Departed, Next
  <1>3. Departed' \subseteq Departed \cup {c}
    BY <1>1 DEF Departed, HasLeft
  <1>4. pc'[c] = "bye" => Serves(c)
    BY ThreadSeat DEF SeatKept, SeatTaken, SeatGiven, Serves
  <1> QED
    BY <1>1, <1>2, <1>3, <1>4 DEF Departed, HasLeft, Serves, Serving

(* What a thread writes is its report or an answer, and its report follows *)
(* its leaving.                                                            *)
LEMMA ThreadWrites ==
  ASSUME TypeInv, NEW c \in Connections, OwnStep(c) \/ PipeStep(c) \/ Environment(c)
  PROVE  \/ UNCHANGED server_read_pipes /\ (Steady(c) \/ OnBarrierResponse(c))
         \/ \E byte \in ToServer :
               /\ seat[c] \in Seats /\ WriteToServer(seat[c], byte)
               /\ byte = DISCONNECTED => Bye(c) /\ c \in Departed
               /\ byte = BARRIER_RESPONSE => Notify(c)
               /\ byte = CARD_PLAY => Sends(c)
  <1>1. CASE Steady(c) \/ OnBarrierResponse(c)
    BY <1>1 DEF Steady, OnBarrierResponse
  <1>2. CASE Sends(c)
    <2>1. /\ seat[c] \in Seats /\ WriteToServer(seat[c], CARD_PLAY)
          /\ CARD_PLAY \in ToServer
          /\ CARD_PLAY # DISCONNECTED /\ CARD_PLAY # BARRIER_RESPONSE
      BY <1>2 DEF Sends, ToServer, CARD_PLAY, DISCONNECTED, BARRIER_RESPONSE
    <2> QED
      BY <1>2, <2>1
  <1>3. CASE Notify(c)
    <2>1. /\ seat[c] \in Seats /\ WriteToServer(seat[c], BARRIER_RESPONSE)
          /\ BARRIER_RESPONSE \in ToServer
          /\ CARD_PLAY # BARRIER_RESPONSE /\ DISCONNECTED # BARRIER_RESPONSE
      BY <1>3 DEF Notify, ToServer, CARD_PLAY, DISCONNECTED, BARRIER_RESPONSE, TypeInv,
         ServesASeat, Serves, Serving
    <2> QED
      BY <1>3, <2>1
  <1>4. CASE Bye(c)
    <2>1. /\ seat[c] \in Seats /\ WriteToServer(seat[c], DISCONNECTED)
          /\ DISCONNECTED \in ToServer /\ pc[c] = "bye"
          /\ CARD_PLAY # DISCONNECTED /\ DISCONNECTED # BARRIER_RESPONSE
      BY <1>4 DEF Bye, ToServer, CARD_PLAY, DISCONNECTED, BARRIER_RESPONSE, TypeInv,
         ServesASeat
    <2>2. c \in Departed
      BY <2>1, ServerAssumption DEF Departed, HasLeft, Seats, Nobody
    <2> QED
      BY <1>4, <2>1, <2>2
  <1> QED
    BY <1>1, <1>2, <1>3, <1>4, ThreadEffect

LEMMA ReportsStep == TypeInv /\ Reports /\ [Next]_vars => Reports'
  <1> SUFFICES ASSUME TypeInv, Reports, [Next]_vars PROVE Reports'
    OBVIOUS
  <1>0. TypeOK
    BY DEF TypeInv
  <1>1. /\ Departed \subseteq Departed'
        /\ (\E c \in Departed : pc[c] = "gone") => \E c \in Departed' : pc'[c] = "gone"
    BY LeftStays DEF Departed
  <1>2. OneLeft' => OneLeft
    BY <1>1 DEF OneLeft
  <1>3. CASE UNCHANGED server_read_pipes
    <2>1. Nowhere(DISCONNECTED)' <=> Nowhere(DISCONNECTED)
      BY <1>3 DEF Nowhere
    <2>2. Single(DISCONNECTED)' <=> Single(DISCONNECTED)
      BY <1>3 DEF Single
    <2> QED
      BY <1>1, <1>2, <2>1, <2>2 DEF Reports
  <1>4. ASSUME NEW j \in Seats, ReadFromClients(j) PROVE Reports'
    BY <1>0, <1>1, <1>2, <1>4, SingleRead DEF Reports
  <1>5. ASSUME NEW c \in Connections, NEW byte \in ToServer, seat[c] \in Seats,
               WriteToServer(seat[c], byte), byte # DISCONNECTED
        PROVE  Reports'
    BY <1>0, <1>1, <1>2, <1>5, SingleWrite DEF Reports
  <1>6. ASSUME NEW c \in Departed, Bye(c), seat[c] \in Seats,
               WriteToServer(seat[c], DISCONNECTED), DISCONNECTED \in ToServer
        PROVE  Reports'
    <2>1. c \in Departed' /\ pc'[c] = "gone" /\ pc[c] = "bye"
      BY <1>0, <1>1, <1>6 DEF Bye, Goto, TypeOK, Departed
    <2>2. OneLeft' => Nowhere(DISCONNECTED)
      BY <1>2, <2>1 DEF Reports, OneLeft
    <2> QED
      BY <1>0, <1>6, <2>1, <2>2, SingleWrite DEF Reports
  <1>7. CASE Server
    BY <1>3, <1>4, <1>7 DEF Server, BarrierBegin, BarrierPoll, BarrierCheck, BarrierScan,
       Scan, ReadDeal, DealBegin, TrickBegin, TurnBegin, AskForCard, Poll, ScanEnd,
       TrickTaken, SendScores, CloseServer, JoinThreads, pipeVars
  <1>8. ASSUME NEW c \in Connections, OwnStep(c) \/ PipeStep(c) \/ Environment(c)
        PROVE  Reports'
    BY <1>3, <1>5, <1>6, <1>8, ThreadWrites
  <1> QED
    BY <1>3, <1>7, <1>8 DEF Next, vars, pipeVars

(* It is not unread again once it has been read.                           *)
LEMMA UnreportedBefore ==
  ASSUME TypeInv, Reports, [Next]_vars, OneLeft', Unreported'
  PROVE  Unreported
  <1>0. TypeOK
    BY DEF TypeInv
  <1>1. Departed \subseteq Departed'
    BY LeftStays DEF Departed
  <1>2. ~Nowhere(DISCONNECTED) => Unreported
    BY DEF Unreported, Nowhere
  <1>3. CASE Departed' = {}
    BY <1>1, <1>3 DEF Unreported
  <1>4. ASSUME NEW c \in Connections, pc'[c] = "bye", pc[c] # "bye" PROVE Unreported
    <2>1. OwnStep(c) \/ PipeStep(c) \/ Environment(c)
      <3>1. ~Server /\ ~UNCHANGED vars
        BY <1>4, ServerLeavesThreads DEF vars, threadVars
      <3>2. PICK d \in Connections : OwnStep(d) \/ PipeStep(d) \/ Environment(d)
        BY <3>1 DEF Next
      <3> QED
        BY <1>4, <3>2, OthersStay
    <2>2. c \notin Departed
      BY <1>4, <2>1, ThreadLeavers
    <2>3. c \in Departed'
      <3>1. TypeInv'
        BY TypeInvStep
      <3>2. seat'[c] \in Seats
        BY <1>4, <3>1 DEF TypeInv, ServesASeat
      <3> QED
        BY <1>4, <3>2, ServerAssumption DEF Departed, HasLeft, Seats, Nobody
    <2>4. Departed = {}
      BY <1>1, <2>2, <2>3 DEF OneLeft
    <2> QED
      BY <2>4 DEF Unreported
  <1>5. ASSUME Nowhere(DISCONNECTED), ~Nowhere(DISCONNECTED)' PROVE Unreported
    <2>1. ~UNCHANGED server_read_pipes
      BY <1>5 DEF Nowhere
    <2>2. ~Server
      BY <1>0, <1>5, <2>1, SingleRead DEF Server, BarrierBegin, BarrierPoll, BarrierCheck, BarrierScan,
       Scan, ReadDeal, DealBegin, TrickBegin, TurnBegin, AskForCard, Poll, ScanEnd,
       TrickTaken, SendScores, CloseServer, JoinThreads, pipeVars
    <2>3. PICK c \in Connections : OwnStep(c) \/ PipeStep(c) \/ Environment(c)
      BY <2>1, <2>2 DEF Next, vars, pipeVars
    <2>4. PICK byte \in ToServer :
             /\ seat[c] \in Seats /\ WriteToServer(seat[c], byte)
             /\ byte = DISCONNECTED => Bye(c)
      BY <2>1, <2>3, ThreadWrites
    <2>5. byte = DISCONNECTED
      BY <1>0, <1>5, <2>4, SingleWrite
    <2> QED
      BY <2>4, <2>5 DEF Bye, Unreported
  <1> QED
    BY <1>2, <1>3, <1>4, <1>5 DEF Unreported, Nowhere

LEMMA ReportRead ==
  ASSUME TypeInv, Reports, OneLeft, NEW j \in Seats, ReadFromClients(j),
         Head(server_read_pipes[j]) = DISCONNECTED, UNCHANGED threadVars
  PROVE  ~Unreported'
  <1>1. Nowhere(DISCONNECTED)' /\ ~Nowhere(DISCONNECTED)
    BY SingleRead DEF TypeInv, Reports, Nowhere
  <1>2. PICK d \in Departed : pc[d] = "gone"
    BY <1>1 DEF Reports
  <1>3. Departed' # {}
    BY DEF Departed, HasLeft, threadVars
  <1>4. \A c \in Connections : pc[c] = "bye" => c \in Departed
    BY ServerAssumption DEF TypeInv, ServesASeat, Departed, HasLeft, Seats, Nobody
  <1>5. \A c \in Connections : pc[c] # "bye"
    BY <1>2, <1>4 DEF OneLeft
  <1>6. pc' = pc
    BY DEF threadVars
  <1> QED
    BY <1>1, <1>3, <1>5, <1>6 DEF Unreported, Nowhere
-----------------------------------------------------------------------------
(* The count during a barrier. *)
LEMMA Rest ==
  /\ Due = {} /\ NoReport /\ occupied \in Nat /\ (Waits => occupied <= N) => Counted
  /\ (Due = {} /\ NoReport /\ occupied \in Nat /\ (Waits => occupied <= N) => Counted)'
  <1>1. Cardinality({}) = 0
    BY FS_EmptySet
  <1>2. N \in Nat
    BY ServerAssumption
  <1>3. \A o \in Nat : o <= N => o + Cardinality({}) <= N
    BY <1>1, <1>2
  <1> QED
    BY <1>3 DEF Counted, OneReport, NoReport, Nowhere, Single, Has, Due, Once

LEMMA DueCount ==
  /\ IsFiniteSet(Due) /\ Cardinality(Due) \in Nat /\ Cardinality(Due) <= N
  /\ IsFiniteSet(Due') /\ Cardinality(Due') \in Nat /\ Cardinality(Due') <= N
  <1>1. Due \subseteq Seats /\ Due' \subseteq Seats
    BY DEF Due
  <1>2. ASSUME NEW S, S \subseteq Seats
        PROVE  IsFiniteSet(S) /\ Cardinality(S) \in Nat /\ Cardinality(S) <= N
    BY <1>2, DueIsFinite, FS_Subset, FS_CardinalityType
  <1> QED
    BY <1>1, <1>2

LEMMA ThreadCounts ==
  ASSUME TypeInv, Counted, NEW c \in Connections,
         OwnStep(c) \/ PipeStep(c) \/ Environment(c)
  PROVE  Counted'
  <1>0. /\ TypeOK
        /\ N \in Nat
        /\ occupied \in Nat
    BY ServerAssumption DEF TypeInv, TypeOK
  <1>1. UNCHANGED mainVars
    BY ThreadsLeaveMain
  <1>2. /\ Due' \subseteq Due
        /\ \A s \in Seats : Once(server_write_pipes'[s], BARRIER_RESPONSE)
    BY ThreadDue DEF Counted
  <1>3. /\ Waits' <=> Waits
        /\ server' = "barrier_scan" /\ barrier_ready' = {} =>
              server = "barrier_scan" /\ barrier_ready = {}
    BY <1>1 DEF Waits, mainVars
  <1>4. \A d \in Connections \ {c} : pc'[d] = pc[d]
    BY OthersStay
  <1>5. Cardinality(Due') <= Cardinality(Due)
    BY <1>2, DueCount, FS_Subset
  (* A step that neither counts nor reports. *)
  <1>6. ASSUME occupied' <= occupied, occupied' \in Nat, pc'[c] # "notify",
               pc[c] # "notify",
               Nowhere(BARRIER_RESPONSE) => Nowhere(BARRIER_RESPONSE)',
               Single(BARRIER_RESPONSE) => Single(BARRIER_RESPONSE)'
        PROVE  Counted'
    <2>1. \A d \in Connections : pc'[d] = "notify" <=> pc[d] = "notify"
      BY <1>4, <1>6
    <2>2. NoReport => NoReport'
      BY <1>6, <2>1 DEF NoReport
    <2>3. OneReport'
      BY <1>6, <2>1 DEF Counted, OneReport
    <2>4. Waits' => occupied' + Cardinality(Due') <= N
      <3> SUFFICES ASSUME Waits' PROVE occupied' + Cardinality(Due') <= N
        OBVIOUS
      <3>1. occupied + Cardinality(Due) <= N
        BY <1>3 DEF Counted
      <3> QED
        BY <1>0, <1>5, <1>6, <3>1, DueCount
    <2> QED
      BY <1>2, <1>3, <2>2, <2>3, <2>4 DEF Counted
  <1>7. CASE Steady(c)
    <2>1. occupied' \in Nat
      BY TypeInvStep DEF Next, TypeInv, TypeOK
    <2>2. /\ Nowhere(BARRIER_RESPONSE) => Nowhere(BARRIER_RESPONSE)'
          /\ Single(BARRIER_RESPONSE) => Single(BARRIER_RESPONSE)'
      BY <1>7 DEF Steady, Nowhere, Single
    <2> QED
      BY <1>6, <1>7, <2>1, <2>2 DEF Steady
  <1>8. CASE Sends(c)
    <2>1. /\ Nowhere(BARRIER_RESPONSE) => Nowhere(BARRIER_RESPONSE)'
          /\ Single(BARRIER_RESPONSE) => Single(BARRIER_RESPONSE)'
      <3>1. CARD_PLAY \in ToServer /\ CARD_PLAY # BARRIER_RESPONSE
        BY DEF ToServer, CARD_PLAY, BARRIER_RESPONSE
      <3> QED
        BY <1>0, <1>8, <3>1, SingleWrite DEF Sends
    <2> QED
      BY <1>0, <1>6, <1>8, <2>1 DEF Sends
  <1>9. CASE Bye(c)
    <2>1. /\ Nowhere(BARRIER_RESPONSE) => Nowhere(BARRIER_RESPONSE)'
          /\ Single(BARRIER_RESPONSE) => Single(BARRIER_RESPONSE)'
      <3>1. DISCONNECTED \in ToServer /\ DISCONNECTED # BARRIER_RESPONSE
        BY DEF ToServer, DISCONNECTED, BARRIER_RESPONSE
      <3>2. seat[c] \in Seats
        BY <1>9 DEF Bye, TypeInv, ServesASeat
      <3> QED
        BY <1>0, <1>9, <3>1, <3>2, SingleWrite DEF Bye
    <2>2. pc[c] = "bye" /\ pc'[c] = "gone" /\ occupied' = occupied
      BY <1>0, <1>9 DEF Bye, Goto, TypeOK, barrierVars
    <2> QED
      BY <1>0, <1>6, <2>1, <2>2
  <1>10. CASE Notify(c)
    <2>1. pc[c] = "notify" /\ pc'[c] = "top" /\ occupied' = occupied
      BY <1>0, <1>10 DEF Notify, Goto, TypeOK, barrierVars
    <2>2. Waits /\ Due = {} /\ Nowhere(BARRIER_RESPONSE)
      BY <2>1 DEF Counted, OneReport, NoReport
    <2>3. \A d \in Connections : pc'[d] # "notify"
      BY <1>4, <2>1 DEF Counted, OneReport
    <2>4. Single(BARRIER_RESPONSE)'
      <3>1. BARRIER_RESPONSE \in ToServer
        BY DEF ToServer
      <3>2. seat[c] \in Seats
        BY <2>1 DEF TypeInv, ServesASeat, Serves, Serving
      <3> QED
        BY <1>0, <1>10, <2>2, <3>1, <3>2, SingleWrite DEF Notify
    <2>5. OneReport'
      BY <2>3, <2>4 DEF OneReport
    <2>6. ~(server' = "barrier_scan" /\ barrier_ready' = {})
      BY <1>3, <2>1 DEF Counted, NoReport
    <2>7. Due' = {} /\ Waits'
      BY <1>2, <1>3, <2>2
    <2>8. occupied' + Cardinality(Due') <= N
      BY <2>1, <2>2, <2>7 DEF Counted
    <2> QED
      BY <1>2, <2>5, <2>6, <2>7, <2>8 DEF Counted
  <1>11. CASE OnBarrierResponse(c)
    <2>1. /\ seat[c] \in Due /\ seat[c] \notin Due'
      <3>1. ReadFromServer(c, BARRIER_RESPONSE) /\ seat[c] \in Seats
        BY <1>11 DEF OnBarrierResponse, ReadFromServer, TypeInv, ServesASeat, Serves, Serving
      <3> QED
        BY <1>0, <3>1, DueRead DEF Counted
    <2>2. /\ Waits /\ NoReport
          /\ occupied + Cardinality(Due) <= N
          /\ ~(server' = "barrier_scan" /\ barrier_ready' = {})
      BY <1>3, <2>1 DEF Counted
    <2>3. Cardinality(Due') + 1 <= Cardinality(Due)
      <3>1. Due' \subseteq Due \ {seat[c]}
        BY <1>2, <2>1
      <3>2. /\ IsFiniteSet(Due \ {seat[c]})
            /\ Cardinality(Due \ {seat[c]}) = Cardinality(Due) - 1
        BY <2>1, DueCount, FS_RemoveElement
      <3>3. Cardinality(Due') <= Cardinality(Due \ {seat[c]})
        BY <3>1, <3>2, FS_Subset
      <3> QED
        BY <3>2, <3>3, DueCount
    <2>4. /\ occupied' = occupied + 1
          /\ pc'[c] = IF LastAnswer THEN "notify" ELSE "top"
          /\ UNCHANGED server_read_pipes
      BY <1>0, <1>11 DEF OnBarrierResponse, Goto, TypeOK
    <2>5. occupied' + Cardinality(Due') <= N
      BY <1>0, <2>2, <2>3, <2>4, DueCount
    <2>6. Due' # {} => ~LastAnswer
      <3>1. Due' # {} => Cardinality(Due') >= 1
        BY DueCount, FS_EmptySet
      <3> QED
        BY <1>0, <2>4, <2>5, <3>1, DueCount DEF LastAnswer
    <2>7. /\ Nowhere(BARRIER_RESPONSE)' /\ Single(BARRIER_RESPONSE)'
          /\ \A d \in Connections : pc'[d] = "notify" => d = c
      BY <1>4, <2>2, <2>4 DEF NoReport, Nowhere, Single, Has
    <2>8. OneReport'
      BY <2>7 DEF OneReport
    <2>9. Due' # {} => NoReport'
      BY <2>4, <2>6, <2>7 DEF NoReport
    <2>10. Waits'
      BY <1>3, <2>2
    <2> QED
      BY <1>2, <2>2, <2>5, <2>8, <2>9, <2>10 DEF Counted
  <1> QED
    BY <1>7, <1>8, <1>9, <1>10, <1>11, ThreadEffect

LEMMA ServerCounts ==
  ASSUME TypeInv, Reports, OneLeft, Counted, Server, Unreported', server' \notin Closing
  PROVE  Counted'
  <1>0. /\ TypeOK /\ N \in Nat \ {0}
        /\ occupied \in Nat /\ occupied' \in Nat
        /\ caller \notin {"barrier_poll", "barrier_scan"}
    BY TypeInvStep, ServerAssumption DEF Next, TypeInv, TypeOK
  <1>1. UNCHANGED threadVars
    BY ServerLeavesThreads
  <1>2. CASE BarrierBegin
    <2>1. Due = {} /\ NoReport
      BY <1>2 DEF BarrierBegin, Counted, Waits
    <2>2. \A s \in Seats : Once(server_write_pipes'[s], BARRIER_RESPONSE)
      BY <1>0, <1>2, <2>1, DueAsked DEF BarrierBegin
    <2>3. NoReport' /\ OneReport'
      BY <1>1, <1>2, <2>1 DEF BarrierBegin, NoReport, OneReport, Nowhere, Single, Has,
         threadVars
    <2>4. occupied' + Cardinality(Due') <= N
      <3>1. occupied' = 0
        BY <1>2 DEF BarrierBegin, ResetCount
      <3> QED
        BY <1>0, <3>1, DueCount
    <2>5. server' = "barrier_poll"
      BY <1>0, <1>2 DEF BarrierBegin, LoopOrReturn
    <2> QED
      BY <2>2, <2>3, <2>4, <2>5 DEF Counted, Waits
  <1>3. CASE BarrierPoll
    <2>1. /\ Waits /\ Waits'
          /\ UNCHANGED <<occupied, server_read_pipes, server_write_pipes, pc>>
          /\ barrier_ready' # {}
      BY <1>3 DEF BarrierPoll, Waits, barrierVars, pipeVars, threadVars
    <2> QED
      BY <2>1 DEF Counted, Due, NoReport, OneReport, Nowhere, Single
  <1>4. ASSUME NEW j \in Seats, BarrierScan(j) PROVE Counted'
    <2>1. ReadFromClients(j)
      BY <1>4 DEF BarrierScan
    <2>2. Head(server_read_pipes[j]) # DISCONNECTED
      BY <1>1, <2>1, ReportRead
    <2>3. CASE Head(server_read_pipes[j]) = BARRIER_RESPONSE
      <3>1. Nowhere(BARRIER_RESPONSE)' /\ ~Nowhere(BARRIER_RESPONSE)
        BY <1>0, <2>1, <2>3, SingleRead DEF Counted, OneReport, Nowhere
      <3>2. Due = {} /\ \A c \in Connections : pc[c] # "notify"
        BY <3>1 DEF Counted, OneReport, NoReport
      <3>3. UNCHANGED <<occupied, server_write_pipes>> /\ server' = server
        BY <1>4, <2>2, <2>3 DEF BarrierScan, barrierVars, DISCONNECTED, BARRIER_RESPONSE
      <3>4. Due' = {} /\ NoReport'
        BY <1>1, <3>1, <3>2, <3>3 DEF Due, NoReport, threadVars
      <3>5. occupied' <= N
        <4>1. Waits
          BY <1>4 DEF BarrierScan, Waits
        <4>2. occupied + Cardinality(Due) <= N
          BY <4>1 DEF Counted
        <4> QED
          BY <1>0, <3>3, <4>2, DueCount
      <3> QED
        BY <1>0, <3>4, <3>5, Rest
    <2>4. CASE Head(server_read_pipes[j]) # BARRIER_RESPONSE
      BY <1>4, <2>2, <2>4 DEF BarrierScan, Abort, Closing
    <2> QED
      BY <2>3, <2>4
  <1>5. ASSUME Due = {}, NoReport,
               \/ UNCHANGED server_write_pipes
               \/ \E byte \in ToClient \ {BARRIER_RESPONSE} :
                     Broadcast(byte) \/ \E s \in Seats : WriteToClient(s, byte),
               \/ UNCHANGED server_read_pipes
               \/ \E j \in Seats : ReadFromClients(j),
               Waits' => occupied' <= N
        PROVE  Counted'
    <2>1. Due' = {}
      <3>1. CASE UNCHANGED server_write_pipes
        BY <1>5, <3>1 DEF Due
      <3>2. ASSUME NEW byte \in ToClient \ {BARRIER_RESPONSE},
                   Broadcast(byte) \/ \E s \in Seats : WriteToClient(s, byte)
            PROVE  Due' = {}
        BY <1>0, <1>5, <3>2, DueKept
      <3> QED
        BY <1>5, <3>1, <3>2
    <2>2. Nowhere(BARRIER_RESPONSE)'
      <3>1. CASE UNCHANGED server_read_pipes
        BY <1>5, <3>1 DEF NoReport, Nowhere
      <3>2. ASSUME NEW j \in Seats, ReadFromClients(j) PROVE Nowhere(BARRIER_RESPONSE)'
        BY <1>0, <1>5, <3>2, SingleRead DEF NoReport
      <3> QED
        BY <1>5, <3>1, <3>2
    <2>3. NoReport'
      BY <1>1, <1>5, <2>2 DEF NoReport, threadVars
    <2> QED
      BY <1>0, <1>5, <2>1, <2>3, Rest
  <1>6. {DEAL, TAKEN, SCORES, DISCONNECTED, CARD_PLAY, BARRIER_END}
            \subseteq ToClient \ {BARRIER_RESPONSE}
    BY DEF DEAL, TAKEN, SCORES, DISCONNECTED, CARD_PLAY, BARRIER_END, BARRIER_RESPONSE,
       ToClient
  <1>7. CASE BarrierCheck
    <2>1. Due = {} /\ NoReport /\ Waits
      BY <1>7 DEF BarrierCheck, Counted, Waits
    <2>2. occupied' <= N
      <3>1. occupied + Cardinality(Due) <= N /\ occupied' = occupied
        BY <1>7, <2>1 DEF Counted, BarrierCheck
      <3> QED
        BY <1>0, <3>1, DueCount
    <2>3. UNCHANGED server_read_pipes
      BY <1>7 DEF BarrierCheck
    <2>4. UNCHANGED server_write_pipes \/ Broadcast(BARRIER_END)
      BY <1>7 DEF BarrierCheck
    <2> QED
      BY <1>5, <1>6, <2>1, <2>2, <2>3, <2>4
  <1>8. ASSUME ~Waits, ~Waits',
               \/ UNCHANGED server_write_pipes
               \/ \E byte \in ToClient \ {BARRIER_RESPONSE} :
                     Broadcast(byte) \/ \E s \in Seats : WriteToClient(s, byte),
               \/ UNCHANGED server_read_pipes
               \/ \E j \in Seats : ReadFromClients(j)
        PROVE  Counted'
    <2>1. Due = {} /\ NoReport
      BY <1>8 DEF Counted
    <2> QED
      BY <1>5, <1>8, <2>1
  <1>9. ASSUME NEW j \in Seats, Scan(j) PROVE Counted'
    <2>1. /\ ~Waits /\ ~Waits' /\ UNCHANGED server_write_pipes /\ ReadFromClients(j)
      BY <1>9 DEF Scan, BarrierThen, Abort, Waits
    <2> QED
      BY <1>8, <2>1
  <1>10. CASE AskForCard
    <2>1. Asked \in Seats
      <3>1. last_taker + turn \in Nat
        BY <1>0, ServerAssumption DEF TypeOK, Seats
      <3> QED
        BY <3>1, ModInSeats DEF Asked
    <2>2. /\ ~Waits /\ ~Waits' /\ WriteToClient(Asked, CARD_PLAY)
          /\ UNCHANGED server_read_pipes
      BY <1>10 DEF AskForCard, Waits
    <2> QED
      BY <1>6, <1>8, <2>1, <2>2
  <1>11. CASE DealBegin \/ TrickTaken \/ SendScores \/ CloseServer
    <2>1. /\ ~Waits /\ ~Waits' /\ UNCHANGED server_read_pipes
      BY <1>11 DEF DealBegin, TrickTaken, SendScores, CloseServer, BarrierThen, Waits
    <2>2. Broadcast(DEAL) \/ Broadcast(TAKEN) \/ Broadcast(SCORES) \/ Broadcast(DISCONNECTED)
      BY <1>11 DEF DealBegin, TrickTaken, SendScores, CloseServer
    <2> QED
      BY <1>6, <1>8, <2>1, <2>2
  <1>12. CASE ReadDeal \/ TrickBegin \/ TurnBegin \/ Poll \/ ScanEnd \/ JoinThreads
    <2>1. /\ ~Waits /\ ~Waits' /\ UNCHANGED <<server_read_pipes, server_write_pipes>>
      BY <1>12 DEF ReadDeal, TrickBegin, TurnBegin, Poll, ScanEnd, JoinThreads, Waits,
         pipeVars
    <2> QED
      BY <1>8, <2>1
  <1> QED
    BY <1>2, <1>3, <1>4, <1>7, <1>9, <1>10, <1>11, <1>12 DEF Server

LEMMA CountingStep ==
  TypeInv /\ Reports /\ Counting /\ [Next]_vars => Counting'
  <1> SUFFICES ASSUME TypeInv, Reports, Counting, [Next]_vars,
                      OneLeft', Unreported', server' \notin Closing
               PROVE  Counted'
    BY DEF Counting
  <1>1. Departed \subseteq Departed'
    BY LeftStays DEF Departed
  <1>2. OneLeft /\ Unreported
    BY <1>1, UnreportedBefore DEF OneLeft
  <1>3. server \notin Closing
    <2>1. CASE Server
      BY <2>1 DEF Closing, Server, BarrierBegin, BarrierPoll, BarrierCheck, BarrierScan,
         Scan, ReadDeal, DealBegin, TrickBegin, TurnBegin, AskForCard, Poll, ScanEnd,
         TrickTaken, SendScores, CloseServer, JoinThreads
    <2>2. CASE UNCHANGED mainVars
      BY <2>2 DEF mainVars
    <2> QED
      BY <2>1, <2>2, ThreadsLeaveMain DEF Next, vars
  <1>4. Counted
    BY <1>2, <1>3 DEF Counting
  <1>5. CASE UNCHANGED vars
    BY <1>4, <1>5 DEF Counted, Due, Once, Waits, NoReport, OneReport, Nowhere, Single, Has,
       vars, mainVars, barrierVars, pipeVars, threadVars
  <1> QED
    BY <1>2, <1>4, <1>5, ServerCounts, ThreadCounts DEF Next
-----------------------------------------------------------------------------
(* What the scan of run_deal has still to read. *)
LEMMA ScannedStep ==
  TypeInv /\ Reports /\ Counting /\ Scanned /\ [Next]_vars => Scanned'
  <1> SUFFICES ASSUME TypeInv, Reports, Counting, Scanned, [Next]_vars, OneLeft',
                      NEW k \in ready'
               PROVE  /\ server' = "scan" => server_read_pipes'[k] # <<>>
                      /\ server' \in InBarrier /\ caller' = "scan" =>
                            /\ server_read_pipes'[k] # <<>>
                            /\ Head(server_read_pipes'[k])
                                  \notin {BARRIER_RESPONSE, DISCONNECTED}
    BY DEF Scanned
  <1>0. TypeOK
    BY DEF TypeInv
  <1>1. OneLeft
    <2>1. Departed \subseteq Departed'
      BY LeftStays DEF Departed
    <2> QED
      BY <2>1 DEF OneLeft
  <1>2. k \in ready =>
           /\ server = "scan" => server_read_pipes[k] # <<>>
           /\ server \in InBarrier /\ caller = "scan" =>
                 /\ server_read_pipes[k] # <<>>
                 /\ Head(server_read_pipes[k]) \notin {BARRIER_RESPONSE, DISCONNECTED}
    BY <1>1 DEF Scanned
  <1>3. CASE UNCHANGED <<mainVars, server_read_pipes>>
    BY <1>2, <1>3 DEF mainVars
  <1>4. ASSUME NEW c \in Connections, OwnStep(c) \/ PipeStep(c) \/ Environment(c),
               NEW byte \in ToServer, seat[c] \in Seats, WriteToServer(seat[c], byte)
        PROVE  /\ server' = "scan" => server_read_pipes'[k] # <<>>
               /\ server' \in InBarrier /\ caller' = "scan" =>
                     /\ server_read_pipes'[k] # <<>>
                     /\ Head(server_read_pipes'[k])
                           \notin {BARRIER_RESPONSE, DISCONNECTED}
    <2>1. UNCHANGED <<server, caller, ready>>
      BY <1>4, ThreadsLeaveMain DEF mainVars
    <2>2. k \in Seats
      BY <1>0, <2>1 DEF TypeOK
    <2>3. server_read_pipes[k] # <<>> =>
             /\ server_read_pipes'[k] # <<>>
             /\ Head(server_read_pipes'[k]) = Head(server_read_pipes[k])
      BY <1>0, <1>4, <2>2, SingleWrite
    <2> QED
      BY <1>2, <2>1, <2>3
  <1>5. CASE Poll
    BY <1>5 DEF Poll, Readable, InBarrier, pipeVars
  <1>6. ASSUME NEW j \in Seats, Scan(j)
        PROVE  /\ server' = "scan" => server_read_pipes'[k] # <<>>
               /\ server' \in InBarrier /\ caller' = "scan" =>
                     /\ server_read_pipes'[k] # <<>>
                     /\ Head(server_read_pipes'[k])
                           \notin {BARRIER_RESPONSE, DISCONNECTED}
    <2>1. /\ k \in ready /\ k # j /\ k \in Seats /\ server = "scan"
          /\ ReadFromClients(j)
      BY <1>0, <1>6 DEF Scan, TypeOK
    <2>2. server_read_pipes'[k] = server_read_pipes[k] /\ server_read_pipes[k] # <<>>
      BY <1>0, <1>2, <2>1, SingleRead
    <2>3. CASE Head(server_read_pipes[j]) = DISCONNECTED
      <3>1. /\ Has(server_read_pipes[j], DISCONNECTED)
            /\ Has(server_read_pipes[k], Head(server_read_pipes[k]))
        <4>1. \A s \in Seats : server_read_pipes[s] \in Seq(ToServer)
          BY <1>0 DEF TypeOK
        <4>2. server_read_pipes[j] # <<>>
          BY <2>1 DEF ReadFromClients
        <4> QED
          BY <2>1, <2>2, <2>3, <4>1, <4>2, Consumed
      <3>2. Nowhere(BARRIER_RESPONSE)
        <4>1. Unreported /\ server \notin Closing /\ ~Waits
          BY <2>1, <3>1 DEF Unreported, Closing, Waits
        <4> QED
          BY <1>1, <4>1 DEF Counting, Counted, NoReport
      <3>3. Head(server_read_pipes[k]) # DISCONNECTED
        <4>1. Single(DISCONNECTED)
          BY <1>1 DEF Reports
        <4> QED
          BY <2>1, <3>1, <4>1 DEF Single, Has
      <3>4. Head(server_read_pipes[k]) # BARRIER_RESPONSE
        BY <2>1, <3>1, <3>2 DEF Nowhere
      <3> QED
        BY <2>2, <3>3, <3>4
    <2>4. CASE Head(server_read_pipes[j]) # DISCONNECTED
      <3>1. server' \in {"scan", "close"}
        BY <1>6, <2>1, <2>4 DEF Scan, Abort
      <3> QED
        BY <2>2, <3>1 DEF InBarrier
    <2> QED
      BY <2>3, <2>4
  <1>7. CASE BarrierBegin \/ BarrierPoll \/ BarrierCheck
    <2>1. /\ server \in InBarrier /\ UNCHANGED <<caller, ready, server_read_pipes>>
          /\ server' \in {"barrier_poll", "barrier_scan", caller}
      BY <1>7 DEF BarrierBegin, BarrierPoll, BarrierCheck, LoopOrReturn, InBarrier, pipeVars
    <2>2. caller \in {"read_deal", "scan", "trick"}
      BY <1>0 DEF TypeOK
    <2> QED
      BY <1>2, <2>1, <2>2 DEF InBarrier
  <1>8. ASSUME NEW j \in Seats, BarrierScan(j)
        PROVE  /\ server' = "scan" => server_read_pipes'[k] # <<>>
               /\ server' \in InBarrier /\ caller' = "scan" =>
                     /\ server_read_pipes'[k] # <<>>
                     /\ Head(server_read_pipes'[k])
                           \notin {BARRIER_RESPONSE, DISCONNECTED}
    <2>1. /\ server = "barrier_scan" /\ server' \in {"barrier_scan", "close"}
          /\ UNCHANGED <<caller, ready>> /\ ReadFromClients(j)
          /\ Head(server_read_pipes[j]) \notin {BARRIER_RESPONSE, DISCONNECTED} =>
                server' = "close"
      BY <1>8 DEF BarrierScan, Abort
    <2>2. server_read_pipes'[k] = server_read_pipes[k] \/ k = j
      BY <1>0, <2>1, SingleRead DEF TypeOK
    <2> QED
      BY <1>2, <2>1, <2>2 DEF InBarrier
  <1>9. CASE ScanEnd
    BY <1>9 DEF ScanEnd
  <1>10. CASE \/ ReadDeal \/ DealBegin \/ TrickBegin \/ TurnBegin \/ AskForCard
              \/ TrickTaken \/ SendScores \/ CloseServer \/ JoinThreads
    <2>1. server' # "scan" /\ ~(server' \in InBarrier /\ caller' = "scan")
      BY <1>10 DEF ReadDeal, DealBegin, TrickBegin, TurnBegin, AskForCard, TrickTaken,
         SendScores, CloseServer, JoinThreads, BarrierThen, InBarrier
    <2> QED
      BY <2>1
  <1>11. CASE Server
    BY <1>5, <1>6, <1>7, <1>8, <1>9, <1>10, <1>11 DEF Server
  <1>12. ASSUME NEW c \in Connections, OwnStep(c) \/ PipeStep(c) \/ Environment(c),
                UNCHANGED server_read_pipes
         PROVE  UNCHANGED <<mainVars, server_read_pipes>>
    BY <1>12, ThreadsLeaveMain
  <1>13. ASSUME NEW c \in Connections, OwnStep(c) \/ PipeStep(c) \/ Environment(c)
         PROVE  /\ server' = "scan" => server_read_pipes'[k] # <<>>
                /\ server' \in InBarrier /\ caller' = "scan" =>
                      /\ server_read_pipes'[k] # <<>>
                      /\ Head(server_read_pipes'[k])
                            \notin {BARRIER_RESPONSE, DISCONNECTED}
    BY <1>3, <1>4, <1>12, <1>13, ThreadWrites
  <1> QED
    BY <1>3, <1>11, <1>13 DEF Next, vars, pipeVars

LEMMA LeaversFinite ==
  TypeInv /\ IsFiniteSet(Departed) /\ [Next]_vars => IsFiniteSet(Departed')
  <1> SUFFICES ASSUME TypeInv, IsFiniteSet(Departed), [Next]_vars
               PROVE  IsFiniteSet(Departed')
    OBVIOUS
  <1>1. CASE UNCHANGED threadVars
    <2>1. Departed' = Departed
      BY <1>1 DEF Departed, HasLeft, threadVars
    <2> QED
      BY <2>1
  <1>2. ASSUME NEW c \in Connections, OwnStep(c) \/ PipeStep(c) \/ Environment(c)
        PROVE  IsFiniteSet(Departed')
    <2>1. Departed' \subseteq Departed \cup {c}
      BY <1>2, ThreadLeavers
    <2>2. IsFiniteSet(Departed \cup {c})
      BY FS_AddElement
    <2> QED
      BY <2>1, <2>2, FS_Subset
  <1> QED
    BY <1>1, <1>2, ServerLeavesThreads DEF Next, vars

LEMMA InitLeaverInv == Init => LeaverInv
  <1> SUFFICES ASSUME Init PROVE LeaverInv
    OBVIOUS
  <1>1. Departed = {}
    BY DEF Init, Departed, HasLeft
  <1>2. IsFiniteSet(Departed)
    BY <1>1, FS_EmptySet
  <1>3. \A byte : Nowhere(byte) /\ Single(byte)
    <2>1. \A s \in Seats : server_read_pipes[s] = <<>>
      BY DEF Init
    <2>2. DOMAIN <<>> = {}
      OBVIOUS
    <2> QED
      BY <2>1, <2>2 DEF Nowhere, Single, Has
  <1>4. Due = {} /\ NoReport /\ ~Waits
    <2>1. \A s \in Seats : server_write_pipes[s] = <<>>
      BY DEF Init
    <2> QED
      BY <1>3, <2>1, EmptyPipe DEF Init, Due, NoReport, Waits
  <1>5. Counted
    BY <1>4, Rest DEF Init
  <1>6. Reports /\ Counting /\ Scanned
    BY <1>3, <1>5 DEF Init, Reports, Counting, Scanned
  <1> QED
    BY <1>2, <1>6, InitTypeInv DEF LeaverInv

LEMMA LeaverInvStep == LeaverInv /\ [Next]_vars => LeaverInv'
  BY TypeInvStep, LeaversFinite, ReportsStep, CountingStep, ScannedStep DEF LeaverInv

(* While one player at most has left, the main thread never waits for one  *)
(* seat in particular: what run_deal's scan is about to read is there,     *)
(* whatever the barriers nested in it have read.                           *)
THEOREM ScansFindTheirBytes == Spec => []ScanFindsBytes
  <1>1. LeaverInv => ScanFindsBytes
    <2> SUFFICES ASSUME LeaverInv, server = "scan", Cardinality(Departed) <= 1,
                        NEW j \in Seats, IsNext(j, ready)
                 PROVE  server_read_pipes[j] # <<>>
      BY DEF ScanFindsBytes, Departed
    <2>1. OneLeft
      <3> SUFFICES ASSUME NEW c \in Departed, NEW d \in Departed, c # d PROVE FALSE
        BY DEF OneLeft
      <3>1. IsFiniteSet({c, d}) /\ Cardinality({c, d}) = 2
        <4>1. IsFiniteSet({c}) /\ Cardinality({c}) = 1
          BY FS_Singleton
        <4>2. {c} \cup {d} = {c, d} /\ d \notin {c}
          OBVIOUS
        <4>3. /\ IsFiniteSet({c} \cup {d})
              /\ Cardinality({c} \cup {d}) = Cardinality({c}) + 1
          BY <4>1, <4>2, FS_AddElement
        <4> QED
          BY <4>1, <4>2, <4>3
      <3>2. Cardinality({c, d}) <= Cardinality(Departed) /\ Cardinality(Departed) \in Nat
        BY FS_Subset, FS_CardinalityType DEF LeaverInv
      <3> QED
        BY <3>1, <3>2
    <2> QED
      BY <2>1 DEF LeaverInv, Scanned, IsNext
  <1> QED
    BY <1>1, InitLeaverInv, LeaverInvStep, PTL DEF Spec
=============================================================================
