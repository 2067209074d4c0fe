# Kierki: a TLA+ development of the game

This directory specifies and verifies KIERKI, a four-player trick-taking card
game played over TCP: the server (`src/serwer.cpp`, with
`src/points_calculator.cpp`, `src/file_reader.cpp`), the client
(`src/klient.cpp`) and what they share (`src/common.*`, `src/senders.*`,
`src/regex.*`). The specifications are translated from the
code; the repository has no other description of the protocol than the comments
in the headers, and where one of those says something the code does not do, a run
shows it (section 5).

## 1. The system

### Main thread of the server: `serwer.cpp`, `start_game`, `run_game`, `run_deal`, `barrier`, `close_server`
- *State.* Its place in the code; the members it writes under `memory_mutex`:
  `occupied`, `b_is_barrier_ongoing`, `cards`, `cards_on_table`, `taken_tricks`,
  `taken_takers`, `trick_number`, `last_taker`, `player_turn`, the scores; one end
  of the pipes of each seat.
- *Operations.* Wait in `barrier()` until every seat has answered; read a deal; for
  each trick ask the seats in turn (byte `p` into the seat's pipe) and poll the
  pipes for the answer; take the trick; send `TAKEN` and `SCORES`; close.
- *Hard.* It polls several pipes and handles what the poll reported one seat at a
  time, calling `barrier()`, which polls the same pipes again, in the middle. Bytes
  outlive the thread they were written for.
- *Correct when* it plays the card game (`TrickGame`), never blocks for good on a
  pipe, never ends because of something a player may legally do.

### Client threads: `handle_client`, `reserve_spot`, `client_poll`, `parse_message`, `close_thread`
- *State.* Locals of each thread: its seat, `b_was_destined_to_play`, `b_is_barrier`,
  `current_trick`; shared: `seats_status`, `barrier_messages`.
- *Operations.* Reserve a seat on `IAM` (or answer `BUSY`), greet the newcomer,
  then poll the socket and the pipe: parse a `TRICK`, play the card, answer a
  barrier, send again after a timeout, and on a broken connection give the seat
  back and tell the main thread.
- *Hard.* Four and more of them interleave with the main thread and with each other;
  a connection may break at any point; a successor takes over the seat with its
  pipes, its hand and its queued messages; answers come late, twice, or for another
  trick; messages of a barrier are parsed when it ends.
- *Correct when* a card is played at most once and from the hand that holds it, in
  turn; two threads never serve one seat; a seat given up can be taken again; every
  thread ends when the server closes.

### Connection thread: `handle_connections`
- *State.* The listening socket and its own pipe (number 4).
- *Operations.* Accepts, starts a client thread; ends on the main thread's byte; writes
  `DISCONNECTED` on a failure.
- *Hard.* What it does after a failure, and connections accepted while the server closes.
- *Correct when* a failure ends the server, wherever its main thread is, and lets every
  client go.

### Client: `klient.cpp`, main thread and worker
- *State.* Shared under `access_mutex`: the cards typed and not sent
  (`messages_to_send`), two pipes. The worker's: `trick_number`, `my_cards`,
  `played_cards`, `taken_tricks`, `got_score`, `got_total`.
- *Operations.* The main thread queues what is typed and writes a byte for each card;
  the worker polls the socket and that pipe, keeps the hand and the tricks from what the
  server sends, answers `TRICK` itself when it is automatic (`strategy`), and at the end
  tells the main thread whether the game was over.
- *Hard.* The queue and the pipe are filled and emptied at different moments; the mutex
  stays locked after `BUSY` in the automatic client; whether an end of the connection is
  the end of the game is read from flags; a `TRICK` sent again takes another card from
  the hand; cards given away in vain have to come back.
- *Correct when* what is typed is sent once and in order, the process ends whenever the
  server goes or refuses it, its status tells the truth, and its hand is that of the
  server.

### Messages: `senders.cpp`, `regex.cpp`, the cutting in `serwer.cpp` and `klient.cpp`
- A message is a word, a number of one or two digits, cards of two or three characters
  and nothing between them; the reader cuts by *its own* trick number.
- *Correct when* a message is read for what was sent, or for nothing.

### PointsCalculator: `points_calculator.cpp`
- Pure: from the four cards in the order played, the starter, the type of the deal and
  the number of the trick, the seat that takes and the points.
- *Hard.* The order played is not the order of the seats; the conditions of seven types
  and of the tricks 7 and 13.
- *Correct when* the best card of the leader's colour takes, and the cost depends on the
  cards and not on who played them.

### Scores of deals and game: parts of `run_game` and `run_deal`
- *State.* `taken_tricks`, `taken_takers`, the local `scores`, `round_scores`,
  `total_scores`. *Operations.* Open a deal, score a trick, close a deal.
- *Correct when* the three levels agree: tricks, deal, game.

### The parts around them
- `FileReader` reads a deal at a time from the game file.
- `common.*`: pipes of one-byte messages, sockets, polls.
- `klient_printer.*`: what the user reads.
- Mains, command-line arguments, CMake and scripts.

### How they interact
The main thread and the client threads share the members of `Serwer` under
`memory_mutex` and talk through a pair of pipes *for each seat*, not for each thread.
To the client: `p` (play), `b` (answer the barrier), `r` (barrier ended), `l` (deal),
`t` (taken), `s` (scores), `c` (end). To the server: `p` (a card was played), `b`
(all have answered), `c` (the client left). Everything hard in the system comes from
the two channels not being ordered with respect to each other, and from a seat's
pipes surviving its clients.

## 2. Modules

| module | what it is |
|---|---|
| `Cards` | cards, the order of figures, the colour rule of `parse_message`, the winning card |
| `TrickGame` | abstract specification: four players, deals, turns, tricks; no threads |
| `Serwer` | the server: main thread, client threads, pipes; every interleaving of their critical sections |
| `SerwerProperties` | its properties and the refinement mapping to `TrickGame` |
| `MCSerwer` | instances of it for TLC |
| `PointsCalculator` | `points_calculator.cpp` as operators, loop by loop |
| `PointsRules` | reference: cost of a table from its cards alone |
| `DealScores` | the records of tricks, takers and scores over a game; what is said of the calculator and of the file |
| `FileReader` | the deals of a game file, as functions of its lines |
| `MCDealScores` | a game of two deals, a small deck for the tables, small files |
| `KlientMessages` | the messages as records, and what the client makes of each |
| `Klient`, `KlientProperties` | the client's two threads against any server; its properties |
| `Messages` | `TRICK`, `TAKEN` and `DEAL` character by character: written, checked, cut |
| `MCKlient` | instances of the client, and small decks for its messages |
| `Kierki`, `KierkiProperties` | server and clients together: `Serwer` with `KlientMessages` in the place of its inputs |
| `MCKierki` | instances of the whole game |
| `Connections` | `Serwer` with a connection thread that can fail, and its fifth pipe |
| `ClientThreads` | the records of the client threads, and the loop that joins threads while it erases from the vector it walks |
| `MCConnections` | instance of `Connections`, and beside it one of `ClientThreads` |
| `SerwerProofs` | proofs, whoever leaves: types, seats, each card in one place, what `run_deal`'s scan reads |
| `TurnProofs` | proofs: barriers, turns, pipes and hands while nobody leaves, and that `Serwer` implements `TrickGame` |
| `FunctionProofs` | proofs: two principles of induction, sums, the calculator for every table |
| `ClientThreadsProofs` | proof: each client thread is joined once |
| `DealScoresProofs` | proofs: types, taker, scores of a deal, totals of the game, deals of a file |
| `KlientProofs` | proofs: the client's queue, its order, its status |
| `KierkiProofs` | proofs: types of the composition; the server in it is that of `Serwer` |
| `PlayersProofs` | proofs: what the clients know of the game while nobody leaves, and that automatic ones play legally |

### `Serwer` and the code
`server` is the place of the main thread and `pc[c]` that of the thread of
connection `c`; the other variables have the names of the members and locals they
stand for. The seats N, E, S, W are `0..N-1` in that order.

| actions | code |
|---|---|
| `BarrierBegin`, `BarrierPoll`, `BarrierScan`, `BarrierCheck` | `barrier()`: reset and broadcast; the poll; one descriptor of the loop after it; the end |
| `ReadDeal`, `CloseServer`, `JoinThreads` | `run_game`'s loop over the file, `close_server` |
| `DealBegin`, `TrickBegin`, `TurnBegin`, `AskForCard`, `Poll`, `Scan`, `ScanEnd`, `TrickTaken`, `SendScores` | `run_deal` |
| `Accept`, `NoSeat`, `Reserve`, `Greet`, `GreetFails` | the accept and `reserve_spot` |
| `Enter`, `LoopTop`, `SocketMessage`, `SocketClosed`, `Timeout`, `Drain` | `client_poll`'s loop and its socket branch |
| `Parse`, `Legal`, `PlayCard` | `parse_message` |
| `OnCardPlay`, `OnAnnouncement`, `OnBarrierResponse`, `Notify`, `OnBarrierEnd`, `OnDisconnected`, `SendFails` | its pipe branch, one action for each byte |
| `CloseThread`, `Leave`, `Bye` | `close_thread` |

An action is the code between two accesses to what another thread can see. Merged,
with the reason:
- a broadcast to the seats, with the critical section before it. Only the main
  thread writes these pipes; a reader that has to wait for its byte sees nothing that
  a reader that was slow would not see;
- the push of a card and the `p` written for it, at the moment of the write. Until the
  `p` is read the main thread can only poll, scan and run a nested `barrier()`, none of
  which looks at the hands, the table or `player_turn`, and no other thread is asked, so
  the push can be moved to the write. (Where two threads have been asked at once, which
  only the overcounted barrier of section 5 makes possible, the merged step leaves some
  interleavings out; `CardPlayedOnce` does not depend on the pipes at all);
- the read of a byte by a client thread with the critical section that handles it: nobody
  else reads that pipe, so the read can be moved to the critical section;
- sending to a client, with the critical section it belongs to: the peer is outside
  the model and only the failure of the send comes back, as `SendFails`,
  `GreetFails` or `SocketClosed`.

Kept apart, because another thread can come between: the two critical sections of
`run_deal` before a player is asked (`TurnBegin`, `AskForCard`), `occupied` and the
byte that announces it (`OnBarrierResponse`, `Notify`), giving the seat back and
telling the main thread (`CloseThread`, `Bye`), reserving the seat and greeting.

One poll of a client thread may report both the socket and the pipe, so after the
socket branch the thread may go to the pipe branch (`AfterSocket`). `Timeout` is always
possible for a player that was asked: after the poll's own timeout the loop starts over,
after the elapsed-time branch, which only a byte in the pipe can lead to, the pipe is
read in the same iteration.

A short table (fewer than four cards on it) makes `PointsCalculator` read outside its
vector; `Takers` then lets any seat take the trick.

### Deliberate abstractions
- Four seats and thirteen tricks are the constants `N` and `Tricks`; the game file is
  the constant `GameFile`.
- In `Serwer` alone a client is any sequence of `TRICK` messages at any time, and what
  it is sent is left out; only connections in `Droppers` break off or send garbage.
  `Kierki` has the messages and the clients.
- Logs and wording are left out.
- A failed `poll` or pipe of a seat, which makes the server close, is left out; failures
  of the connection thread are in `Connections`.

### `PointsCalculator`, `DealScores`
The four counting loops of the calculator are cardinalities; the constructor
(`Placed`) and `find_taker` keep the arithmetic modulo four. In `DealScores` a trick is
one step with a table that `CardPlayedOnce` and `PlayedInTurn` of `Serwer` justify: a
card of each seat, in turn, following the colour. The module keeps the points,
`Serwer` the concurrency; `TrickGame!Take` and `Serwer!Takers` state the taker as
the winning card of `Cards`, and `TakerIsTheCalculators` proves that this is what `find_taker`
computes. `FileReader` is `read_next_deal` and the loop of `run_game` over it, as a
function from the lines of a file to the deals of the game: it tells what the constant
`GameFile` of the other modules may be.

### `Klient` and the code
`main` and `worker` are the places of the two threads. `Prepare` is `prepare_client`
(the worker does not run before); `TypeCard` and `TellWorker` are the critical section of
`run_client` and the byte after it, between which the worker may run; `OnWorkerByte` and
`JoinWorker` are the end of the main thread; `OnCardPlay`, `OnMessage`, `OnBusy`,
`OnServerEnd`, `OnReset` and `CloseSocket` are the branches of `handle_client`, each of
which is one critical section of `access_mutex` with the send in it. The server is what a
client can tell of it: `BUSY`, or deals, tricks, corrections and scores in the order of the
protocol, with any trick numbers, and an end at any moment. `OnReset` is the connection reset
that follows when the server closes with something unread.

`KlientMessages` holds what a message does to the members of `Klient` that only messages
change, so that `Klient` and `Kierki` use one definition. Hands are sets: the order of
`my_cards` only decides which of several cards `strategy` returns, and depends on the order
in the game file, so any of them is allowed.

### `Kierki`: the composition
`KNext` conjoins each step of `Serwer` with what it sends and what the client makes of it.
The server part is `Serwer`, unchanged. What is added and what is merged:
- `reserve_spot` is taken apart again: `GreetDeal`, and `GreetBegin`, `GreetTaken`,
  `GreetNext` for the loop over `taken_tricks`, which unlocks in the middle. `capacity` and
  `greeting[c].valid` tell whether its iterators still point into the vector;
- a message is received when it is sent, and only answers wait (`answers`). A client
  handles its messages one by one in their order and does nothing between them but type,
  so one that receives late differs from one that answers late only in its own state,
  which no other process reads;
- `TypeCard` sends any card the client still has, at any time; `Klient`'s queue and pipe
  in front of it, which keep the order (`TypedInOrder`), are not repeated;
- `Resend` is a timeout that sends `TRICK` again, in a barrier only by the elapsed-time
  branch, which goes on to the pipe; `Breaks` is a broken connection. With
  `LeaveOnTurn` a client only breaks off when it has been asked and instead of answering.

### `Messages`
Texts are sequences of characters, cut with `substr` at the positions of the code.
The regular expressions are `Matches`: a prefix, a number of cards and nothing else, a
suffix. `extract_cards` takes matches from the left; no card's text begins another's.

### `Connections`, `ClientThreads`
`Connections` adds to `Serwer` the place of the connection thread, its pipe and the
branches of both polls that read it. In `barrier()` its byte ends the server; in `run_deal`
`close_server` is called and there is no `return` (`goes_on`): the loop polls descriptors
that are closed. `Setup` says how `setup_server_socket` may end: a socket, -1, or the 1 it
returns when options cannot be set, which is taken for a descriptor.
`ClientThreads` is a specification of its own: threads start (`StartThread`), add their ids when
they end (`ThreadEnds`), and are joined at the start of a trick (`JoinFinished`) or at the end
(`JoinRest`). What clients do between is left out; `joined` and `lost` are history. `JoinJoinable`
is the range-for of `run_deal` over `joinable_threads`, with
`erase` moving the rest of the vector and the loop going on to where the end was.

## 3. Properties

Safety of `Serwer`:
- `CardPlayedOnce`: never a card in two places, even with players leaving and replaced;
- `NoCardLost`: while nobody leaves, nor is a card lost between hand and tricks;
- `PlayedInTurn`: the p-th card on the table is from the p-th seat after the leader,
  which is what `PointsCalculator` takes for granted;
- `RequestIsCurrent`: a request for a card, in a pipe or already sent, is for the player
  whose turn it is;
- `TakenIsCurrent`: a `TAKEN` not yet read will send the trick it is about;
- `BarrierSynchronises`, `BarrierCounts`: `barrier()` returns when, and only when, every
  seat has answered this one;
- `ScanFindsBytes`: `run_deal` reads only what is there, while no more than one has left;
- `SeatExclusive`: one thread a seat;
- `NoAbort`: legal players, however fast or slow, do not make the server give up;
- `GameSpec`: `Serwer` implements `TrickGame`.

Scores, calculator and file: `ScoresMatchTricks`, `TotalsAddUp`, `WinnersTake`,
`AgreesWithRules`, `DealsInOrder`.

The client:
- `CardForEveryByte`: `front()` of the queue is never taken from an empty one;
- `TypedInOrder`: what is typed is sent once, in order;
- `StatusTellsTheEnd`: exit status 0 only after `BUSY` or after the scores of the deal
  dealt last;
- `ClientEnds` (liveness): it ends when refused or left, although the automatic client
  keeps the mutex at `BUSY` and a user may keep typing;
- `AnswerIsRead`, `ColourIsRead`, `TakenIsRead`, `HandIsRead`: the texts are read for what
  was sent, whatever the number of digits, or refused.

Server and clients together:
- `AskedInStep`: who is asked knows the type and the cards of this deal and every trick
  before, a newcomer from its greeting and from the bytes its predecessor left in the pipe;
- `AnswersAreLegal`: the server refuses no answer of an automatic player, as long as no
  `TRICK` is sent again;
- `HandKept`: a card the server would accept from a seat is one its client still counts
  as its own, whatever was refused, repeated or came too late;
- `TricksAgree`: a player is shown the tricks its seat took, each once, though a newcomer
  may be told of one twice;
- `KTypeOK`: types, and that no client gets past the last trick of a deal;
- `GameFinishes`, `ReplacedGameFinishes` (liveness): the game file is played to its end
  and every thread joined, once every seat has a player that stays, whoever left before.

Connection thread: `PlayersAreDismissed` (liveness): when it has failed every client
thread ends. Records of the threads: `ThreadsAreJoined`: the loop joins finished threads
only, each once over all tricks, finds what it erases, keeps the records consistent, and
joins at least one if there is any, so that none is left for ever; the end joins the rest.

## 4. Runs

| run | instance | shows |
|---|---|---|
| `serwer_plays` | 2 seats, 2 tricks, 3 connections, none leaves, any `TRICK` at any time | order and number of cards, turns, barriers, no abort, refinement of `TrickGame` |
| `serwer_loss` | 2 seats, 1 trick, 3 connections, two may leave at any point, also during their greeting | `CardPlayedOnce`, `ScanFindsBytes`, `SeatExclusive` |
| `deal_scores` | 4 seats, a bandit and a misters deal of 3 tricks, every legal play; every table of 4 of 6 cards, 4 starters, 8 types, 13 trick numbers; files of up to 3 deals, whole, cut or gone | the scores, the calculator against `PointsRules`, `DealsInOrder` |
| `klient` | automatic or not, 2 cards, up to 2 typed and 4 messages of the server; small decks and all 13 trick numbers for the texts | the client alone, and its messages |
| `kierki_plays` | 3 seats, 2 deals of one trick, automatic clients | `GameFinishes`; turns and takers of `TrickGame` with a seat between first and last |
| `kierki_returns` | 2 seats, 2 tricks, 3 automatic clients, one leaves when asked | `AskedInStep`, `AnswersAreLegal`, `TrickGame`, `ReplacedGameFinishes` |
| `kierki_leaver` | the same, with somebody typing at the one that leaves and a `TRICK` sent again | `KTypeOK`, `HandKept`, `TricksAgree` |
| `connection_fails` | 2 seats, 2 connections of which one may leave, any failure at any moment; 5 threads that start and end in any order, tricks at any time | `PlayersAreDismissed`, `ThreadsAreJoined` |

What is said of functions depends on no state: `AgreesWithRules`, `DealsInOrder` and the
four of the texts begin with `Init =>`, so that TLC evaluates them in the initial states
only. The first two range over constants, `Deck` and `SomeDeals` of `DealScores`.

Bounds, and why they are enough for the cases that matter:
- two seats have a leader and a follower, a wrong player to ask, a barrier that needs
  more than one answer; what two seats cannot tell (the turns from their reverse) is
  in `kierki_plays`;
- two tricks are needed for a late or repeated answer to reach the next trick, with a
  winner that is not the seat that comes next; two colours in each hand so that the
  colour rule refuses some answers; a third connection meets `BUSY` or replaces one
  that left;
- `MaxQueued = 1` (`serwer_plays`) message waiting for the end of a barrier: one is enough to be parsed
  with the `current_trick` of the trick before;
- with two players that leave, two tricks have more states than a run of minutes holds, so
  `serwer_loss` has one, and `MaxQueued = 0`: an answer that comes during a barrier stays
  in the socket until it ends, which within one trick is what parsing it then comes to
  (with players that leave, answers are queued in `kierki_returns` and `kierki_leaver`);
- `MaxQueued = 3` in `Kierki`, more than the answers its clients can have under way;
  `MaxResends = 1` and `MaxTyped = 1` let the automatic player run out of cards and the
  typing one answer twice, or the wrong trick;
- two deals in `kierki_plays` for what a client must forget between them; two tricks in
  `kierki_returns` for what a newcomer must be told;
- four messages in `klient` are `DEAL`, `SCORE`, `TOTAL` and another `DEAL`: the flags
  of one deal meet the next; two cards typed are needed for an order;
- one trick in `connection_fails`: the failure meets every place of the main thread;
  `MCConnections` explores `ClientThreads` beside it, each of the two only while the other
  rests: they share nothing but the start of a thread, and the two clients of this
  instance would leave the loop nothing to skip. Five threads leave some behind in two
  tricks and end between them (`MaxThreads`; `connection_lost` has none);
- the six cards of `deal_scores` hold each card that costs and one that does not;
  the trick numbers are those around the special ones; the texts have figures of one
  and of two characters and every trick number.

Symmetry of the connections is used in safety runs only. `CHECK_DEADLOCK` is off: the
server really ends (`closed`), the connections are finite in number, and players may
stay silent for ever.

### Fairness
- `KFairSpec` (`kierki_plays`, `kierki_returns`) assumes that the main thread and each
  client thread keep running (weak fairness). Reading the pipe is strongly fair: a poll
  reports the socket and the pipe together and the loop looks at the pipe in the same
  iteration, so a client that keeps sending cannot keep its thread from its pipe; and so
  is reading an answer. `NoSeat` or `Reserve` comes in the end because `SO_RCVTIMEO`
  bounds the wait for `IAM`. Nothing is assumed of players: the answer of an automatic
  one is there. Nothing forces a player to leave or a timeout to occur.
- `CFairSpec` (`connection_fails`, `connection_lost`) has the same for the threads of
  `Serwer`, and `NoSocket`, which the connection thread reaches by itself; no failure is
  forced, and players may be silent for ever.
- `FairSpec` of `Klient` has both threads running, and strong fairness where one round of a
  poll serves both descriptors: `OnWorkerByte` against a user that keeps typing,
  `OnMessage` and `OnServerEnd` against a pipe that is never empty. Nothing is assumed of
  the user or the server.

## 5. Where the code departs from what it says

Four runs are expected to end in a counterexample, each with one property that states
a comment of the repository:
- `everyone_came` (`EveryoneCame`): "Here we should have all 4 clients"
  (`serwer.cpp:513`). A client takes a seat and leaves before its thread has read the
  seat's `b`, while `occupied` is 0: `close_thread` subtracts it although it was never
  counted, and the floor at zero (`serwer.cpp:44`) swallows that. `barrier()` writes a second
  `b` for the successor (270-275) beside the unread one; the successor reads both and counts
  twice, and the game begins with a seat never taken. If the one that leaves had counted
  itself, it has consumed its `b` and is rightly subtracted: its successor finds one. If it
  leaves uncounted while `occupied` is positive, it takes somebody else's count away, and the
  second count of its successor makes up for it.
- `barrier_takes_cards` (`BarrierTakesCards`): "1 if card was received during the
  barrier" (`serwer.h:72`). `barrier()` never returns 1; a card that reaches its poll
  closes the server.
- `seat_given_back` (`SeatGivenBack`): barriers wait "for a specific player to return"
  (`serwer.h:70`). A player lost during its greeting leaves the seat taken for good.
- `connection_lost` (`FailureClosesServer`): "Connection thread failed. Close server."
  (`serwer.cpp:443`). After `close_server` there is no `return`: `run_deal` polls closed
  descriptors and the process never ends. (Its clients are dismissed all the same:
  `PlayersAreDismissed`.)

Met while modelling, and part of the models without a run of their own, all consequences
of a barrier that counts a newcomer twice as in `everyone_came`, or of a client that
leaves out of its turn:
- the late player of that run is asked by its greeting and by the pipe, plays twice, and
  the trick is scored with a card too many;
- `waiting` becomes negative, the loop of `barrier()` ends and `b_is_barrier_ongoing`, cleared
  only at 0, stays set: every thread keeps its player's messages for later (`serwer.cpp:297`);
- the game goes on while a greeting walks `taken_tricks` by iterators taken before an
  unlock, and a `push_back` or `clear` makes them invalid (`serwer.cpp:700`); `greeting[c].valid`
  becomes `FALSE`;
- a newcomer is sent the type of one deal with the cards of the next (`serwer.cpp:683-694`).

And independent of it:
- two clients that leave at once, or one that leaves while an automatic one is expelled for
  an answer without a card, make `run_deal` wait on a pipe that a nested barrier has
  drained: `ScanFindsBytes` is claimed while no more than one has left;
- an automatic player gives up one more card for each `TRICK` sent again and, with none
  left, answers with none, which closes its connection (`klient.cpp:328`);
- `setup_server_socket` returns 1 when options cannot be set (`common.cpp:306`), which passes the
  test for failure: `start_game` waits for ever (`connection = "deaf"`);
- a game file that cannot be opened when the players have come is a game of no deals that
  ends with status 0 (`serwer.cpp:516`), and one that ends inside a deal is played with
  empty hands (`file_reader.cpp:34`): `DealsInOrder` has both.

`PlayedInTurn`, `NoCardLost`, `NoAbort`, `RequestIsCurrent` are therefore claimed only
while nobody leaves, and the properties of `Kierki` with leavers only while the one that
leaves does so in its turn (`LeaveOnTurn`), when the main thread is waiting for it and no
byte of a former barrier is left in its pipe.

Without a statement to compare with, only noted: tricks 7 and 13 cost 40 points each,
because the loop over the four cards adds 10 for each.

## 6. Proofs

TLC checks small instances; the theorems hold for every number of seats, tricks, deals,
connections and messages. The bounds of the models (`MaxQueued`, `MaxTyped`,
`MaxResends`, `MaxSent`, `MaxThreads`) are parameters of the theorems too: any natural number.

### Assumptions on the constants
Each is named, in the module that declares the constants, and evaluated by TLC on every
instance:
- `ServerAssumption` (`Serwer`): types, at least one seat and one trick, and no card in
  two hands of a deal;
- `HandsFit` (`Serwer`, `DealScores`): no hand has more cards than there are tricks. Only
  the refinement of `TrickGame` and the totals use it (a deal ends with empty hands). It
  leaves in the empty hands of a file that ends inside a deal;
- `DealAssumption` (`DealScores`): the same as `ServerAssumption` for its game file; `Deck`
  is any set of cards and `SomeDeals` any set of sequences of deals;
- `KlientAssumption` (`Klient`): types, and a hand of as many cards as there are tricks:
  `DEAL_check` takes no other;
- `KierkiAssumption` (`Kierki`): types, and that every answer a client can give (a dealt
  card or a bad message, for a trick number up to `Tricks + 1`) is one of the inputs
  `Serwer` is modelled for. It makes the arbitrary players of `Serwer` cover the clients.
  The bad message is no card and `NoCard` is none either, so that they can be told apart;
- `HandsFull` (`Kierki`): every hand of the game file has exactly as many cards as there
  are tricks. With another number the client refuses its `DEAL` (`regex.cpp`), and nothing
  that is said of what it knows would hold.

`NobodyLeft` (`TurnProofs`) is the hypothesis of the theorems on the order of the game: no
thread has lost its client yet, or no client is a `Dropper`. It speaks of the
state: a theorem `Spec => [](NobodyLeft => P)` has `P` until the first player leaves,
whoever may leave later.

### Theorems

| theorem | statement |
|---|---|
| `SerwerProofs!TypeCorrect` | `Spec => []TypeOK` |
| `SerwerProofs!SeatsAreExclusive` | `Spec => []SeatExclusive` |
| `SerwerProofs!CardsArePlayedOnce` | `Spec => []CardPlayedOnce` |
| `SerwerProofs!ScansFindTheirBytes` | `Spec => []ScanFindsBytes` |
| `TurnProofs!BarriersSynchronise` | `Spec => [](NobodyLeft => BarrierSynchronises)` |
| `TurnProofs!BarriersCount` | `Spec => [](NobodyLeft => BarrierCounts)` |
| `TurnProofs!NeverAborts` | `Spec => [](NobodyLeft => NoAbort)` |
| `TurnProofs!RequestsAreCurrent` | `Spec => [](NobodyLeft => RequestIsCurrent)` |
| `TurnProofs!TakensAreCurrent` | `Spec => [](NobodyLeft => TakenIsCurrent)` |
| `TurnProofs!PlayersTakeTurns` | `Spec => [](NobodyLeft => PlayedInTurn)` |
| `TurnProofs!NoCardIsLost` | `Spec => [](NobodyLeft => NoCardLost)` |
| `TurnProofs!GameIsPlayed` | `Spec /\ []NobodyLeft => GameSpec` |
| `TurnProofs!TakerIsTheCalculators` | `Spec => [](N = 4 => FindsTaker)` |
| `DealScoresProofs!TypeCorrect` | `Spec => []TypeOK` |
| `DealScoresProofs!BestCardTakes` | `Spec => []WinnersTake` |
| `DealScoresProofs!ScoresAreTheTricks` | `Spec => []ScoresMatchTricks` |
| `DealScoresProofs!EverythingIsPaid` | `Spec => []TotalsAddUp` |
| `DealScoresProofs!PointsAreTheRules` | `PointsFollow(Int, Int) /\ (Spec => []AgreesWithRules)` |
| `DealScoresProofs!FileGivesTheDeals` | `Spec => []DealsInOrder` |
| `ClientThreadsProofs!FinishedThreadsAreJoined` | `TSpec => []ThreadsAreJoined` |
| `KlientProofs!ClientTyped` | `Spec => []TypeOK` |
| `KlientProofs!EveryByteHasACard` | `Spec => []CardForEveryByte` |
| `KlientProofs!CardsGoOutInOrder` | `Spec => []TypedInOrder` |
| `KlientProofs!SuccessIsTheEnd` | `Spec => []StatusTellsTheEnd` |
| `KierkiProofs!ClientsAndServerTyped` | `KSpec => []KTypeOK` |
| `KierkiProofs!ServerAmongClients` | `KSpec => Spec` |
| `KierkiProofs!GameIsPlayedAmongClients` | `KSpec => [](SeatExclusive /\ CardPlayedOnce)`, and `KSpec /\ []NobodyLeft => GameSpec` |
| `PlayersProofs!PlayersAreInStep` | `KSpec => [](NobodyLeft => AskedInStep)` |
| `PlayersProofs!HandsAreKept` | `KSpec => [](NobodyLeft => HandKept)` |
| `PlayersProofs!PlayersSeeTheirTricks` | `KSpec => [](NobodyLeft => TricksAgree)` |
| `PlayersProofs!AutomaticPlayersPlayLegally` | `KSpec => [](NobodyLeft /\ resends = 0 => AnswersAreLegal)` |

### The arguments
- `TypeOK` is not inductive: `DealBegin` needs a deal to have been read, a thread that
  serves needs a seat. `TypeInv` adds `DealIsRead` and `ServesASeat`. One lemma covers
  the main thread's actions, one those of a client thread, one case for each action.
- `SeatInv` adds `SeatExclusive`. Each thread step keeps the thread's seat, takes a free
  one or gives its own up (`SeatKept`, `SeatTaken`, `SeatGiven`), and no step touches
  the record of another thread.
- `CardPlayedOnce` speaks of the table only while a trick is played, so `CardInv` needs
  the phase of the main thread: `Recorded` says that `trick_number` is one ahead of
  `taken_tricks` during a trick (`Playing`) and equal to it between tricks (`Between`),
  a barrier belonging to the phase it interrupts. `EachOnce` is the statement over any
  hands and tricks, and two lemmas say what the code does to it: a card moves from a
  hand to the last trick (`CardMoves`), an empty table opens (`EmptyTrick`). The proof
  does not need anybody to stay: the guard of `Legal`, the card still being in the
  hand at the moment it is erased, is what matters.
- `ScanFindsBytes` is about players that leave, so nothing of `Calm` below can be used.
  `LeaverInv` says what one of them can disturb. While no second has left, the
  `DISCONNECTED` of the first is the only one there ever is (`Reports`). Until the main
  thread has read it nobody has been replaced, so a barrier counts no seat twice
  (`Counting`): `occupied` and the seats that still have the barrier's byte to read (`Due`)
  are never more than `N` together, and who reports the last answer does so when none is
  due. No report of a barrier is then in a pipe unless that barrier waits for it. So when
  `run_deal`'s scan comes upon the `DISCONNECTED`, the other heads it has to read are
  neither that byte nor a report, and the barrier it starts cannot take one
  of them without closing the server (`Scanned`). `LeaverInv` was model-checked in the
  instance of `serwer_loss` before it was proved.
- `Calm` (`TurnProofs`) is what holds of pipes, threads and main thread before anybody
  leaves. A pipe to a seat is described by the bytes in it and the place of the main
  thread (`Announced`, `Requested`): `BARRIER_RESPONSE` is there only while its barrier
  waits, and last; `CARD_PLAY` only for the seat asked, last, and while no thread has a
  request out. The pipes back hold one byte altogether, the one the main
  thread waits for (`Reported`): a barrier's last answer, which exactly one thread reports
  (`Notifies`), or the card asked for. From this every scan finds what it expects, no
  `return false` of the server is reached (`NeverAborts`), and `player_turn`, the
  table's length and the loop's counter agree (`Turns`). `HandsDealt` and `TableDealt`
  place the cards for `PlayedInTurn`. The parts need each other: `TurnInv` is inductive,
  no single property is. `TurnInv` was model-checked in the instances of `serwer_plays` and
  `serwer_loss` before it was proved.
- `GameIsPlayed` shows each step of `Serwer` to be, under the mapping of
  `SerwerProperties`, a step of `TrickGame` or none. `TurnInv` does most; what it lacks is
  that a deal ends with empty hands, before the next is dealt. `HandsShrink` bounds the
  hand of a seat by the tricks left, with one more until it has played this one
  (`MostLeft`); after the last trick the bound is 0 (`HandsEmpty`). This needs that the
  p-th players of a trick are all the seats (`EverySeatHasATurn`).
- `WinnersTake` needs the invariant that `last_taker` is the leader of the next trick;
  `FindTakerWins` shows that the loop of `find_taker` over the seats from the starter
  on returns the owner of the winning card.
- Induction over data. The induction theorems of the library take a predicate, which no
  installed prover can instantiate; with a set in its place they need none. `LeastNumber`
  is `WFMin` of the library on the order of the naturals. From it follow `Counting` (a set
  with 0 and, with each number, the next, holds them all) and `Gathering` (the same over the
  subsets of a finite set). A proof names the set of the numbers for which its claim holds
  and shows the two steps.
- Sums: `SumFunction` is a fold, a function chosen by its equation. `SumsExist` (by
  `Gathering`) shows that there is one, `SumUnfolds` what it does with one element,
  `SumTakesOut`, `SumTakesIn`, `SumOfBoth` and `SumOfSame` what the sums of the scores need.
  `ScoresMatchTricks` is inductive with the types; `TotalsAddUp` is not, because
  within a deal only part is paid: paid (`scores`) and to pay (`ToPay`: the cards in the
  hands, the tricks ahead) add up to the cost of the deal, and after the last trick the
  hands are empty (`HandsShrink`).
- `PointsFollow` for every table of any deck and every integer as type and number,
  `AgreesWithRules` with it: the counting loops are cardinalities,
  `CountIsSum` makes each the sum of what the cards cost one by one, and `PointsAreCosts`
  adds them up type by type. `DealsInOrder` for every game: what `ReadOn` returns from a line on is
  the rest of the deals, by induction from the end of the file backwards, also for a file cut
  inside a deal.
- `ThreadsAreJoined`: `RoundsEnd` shows by `Counting` that the function of the rounds exists.
  The invariant of the loop (`Sound`): the threads joined and those left in the vector are
  together the finished ones, none is both, and the slots beyond the end still hold ids of
  finished threads. A slot read there is of one already joined, which the map no longer has,
  or of one that moved towards the front and is still found. `LoopJoins` says what the loop
  returns for any vector; over the steps, the map holds the running threads and those of the
  vector, and every other one was joined once (`Inv`).
- `FindsTaker`: of different cards only one wins (`OneWins`), those on the table are different
  (`CardInv`), and `FindTakerWins` gives the seat. So `Serwer!Takers`, stated as a rule, is what
  the calculator computes, and `GameIsPlayed` is about the code's own taker.
- `Klient`: `CardForEveryByte` is stated with the byte still to be written after the unlock
  and is inductive over `TypeInv` and `NotStarted` (the worker does not run before the
  client is prepared). `StatusTellsTheEnd` is not: the flag `got_total` is cleared only when the next
  `DEAL` is read, and that may still wait in the socket. `TotalsAreOver` says that a `TOTAL`
  already read, or standing at some place of the socket, is followed there by a `DEAL` unless it is the
  last thing said; `NormalEnd` carries the verdict through the pipe to the main thread.
- `KSpec => Spec`: each action of `Kierki` is one of `Serwer` or leaves its variables alone
  (`StepOfTheServer`), given that every answer on its way is an input of `Serwer`. That is the
  type of `answers` in `KInv`, which in turn needs the types of what a client knows, and
  that a greeting whose iterators are good points at a trick that exists (`IteratorsGood`).
  `KInv` was model-checked in the instances of `kierki_leaver` and `kierki_plays`.
- `PlayersInv` adds to both invariants how far a client is behind the main thread:
  by the bytes of its seat's pipe, no more (`InStep`). It has been told of this deal unless
  `DEAL` is in the pipe, and of every trick unless `TAKEN` is; each is there at most once
  (`ToldOnce`), a `DEAL` only before the seat has played (`DealIsCurrent`), and what is sent when
  a `TAKEN` is read is the trick it was written for (`TrickIsCurrent`). Only with this are `HandKept` and
  `TricksAgree` inductive, because `DEAL` and `TAKEN` are sent from the shared members, long
  after the byte was written.
- `AnswersAreLegal` needs more: that the client knows no *other* cards than the server.
  `AnswersInv` says that an automatic client has either nothing on its way, or the one answer to
  the request of its thread; then its own hand is that of the server less that card
  (`Prepared`, `Asks`, `Idles`). It is stated while no `TRICK` was sent again: one that is
  makes an automatic client give up a second card and answer twice (section 5).

### What only TLC checks, and why
- Liveness (`GameFinishes`, `ReplacedGameFinishes`, `ClientEnds`, `PlayersAreDismissed`): liveness
  under fairness and `ENABLED` are outside the prover.
- `AnswerIsRead`, `ColourIsRead`, `TakenIsRead`, `HandIsRead`: the texts character by character,
  cut at positions that depend on the number of digits. Every trick number and both
  lengths of a figure are in the instance; what the run bounds is the deck.
- What `Kierki`'s runs with leavers show of newcomers (`AskedInStep`, `HandKept`, `TricksAgree`,
  `AnswersAreLegal`): the greeting takes over the bytes of a predecessor, and the
  invariant would have to follow them from one client to the next. `kierki_returns` and
  `kierki_leaver` check it for one that leaves; the theorems have them until the first does.
- The order of the game once somebody has left (`PlayedInTurn` and its like) is not claimed
  at all: section 5 shows why.

## 7. Not modelled

- Failures of `poll`, of a seat's pipes and of `start_game`'s pipes and thread (`312-347`);
  `close_main` of the client.
- A peer that sends part of a message, or several in one read; `cin`'s buffering, by which
  a second line typed at once waits for the next (`klient.cpp:265`).
- How long a wait lasts: `timeout * 1000` beyond an int32, and the timeout 0, which
  removes the limit on the wait for `IAM`.
- A card typed at an automatic client: it reads no user.
- A first line of a deal that is no number (`stoi` throws).
- That the number of the listening descriptor, closed after a failed `accept` and still
  polled, may be given to another file.
- The texts of `IAM`, `BUSY`, `WRONG`, `SCORE`, `TOTAL`, and what is only printed
  (`extract_trick_nr`, `extract_seat_score`, `klient_printer`, logs); arguments, mains,
  scripts.

## 8. Plan

Order, the most important first; 1 to 15 are done.

1. `Cards`, `TrickGame`, `Serwer`, `SerwerProperties`, `MCSerwer`: the server and the
   refinement of the abstract game.
2. `SerwerProofs`: types, seats, cards.
3. `PointsCalculator`, `PointsRules`, their check.
4. `DealScores`, `DealScoresProofs`.
5. `Klient`, `KlientMessages`: both threads, the queue, the mutex, the automatic player.
6. `Kierki`: server and clients together; what is assumed of players in `Serwer` becomes a
   consequence of the client.
7. `Connections`, `ClientThreads`: the connection thread with its failures; the records of
   threads.
8. The greeting, in `Kierki`: what a newcomer learns of the deal.
9. `FileReader`, `Messages`.
10. `KlientProofs`: `TypeOK`, `CardForEveryByte`, `TypedInOrder`, `StatusTellsTheEnd`.
11. `TurnProofs`: the barrier, the turns and the cards while nobody leaves,
    and the refinement of `TrickGame`.
12. `KierkiProofs`, `PlayersProofs`: `KSpec => Spec`, which carries the above to the
    composition, and what the clients know.
13. `FunctionProofs`, `ClientThreadsProofs`, the sums and the file in `DealScoresProofs`: the
    calculator, the scores, the deals of a file and the loop over `joinable_threads`, for all
    data.
14. `AnswersAreLegal` without resent `TRICK`s, and `ScanFindsBytes` with leavers.
15. `TakerIsTheCalculators`, which links `Takers` of `Serwer` with `FindTaker` of
    `PointsCalculator` for four seats.
16. The properties of `Kierki` with leavers: an invariant that follows the bytes of a pipe from
    one client to its successor.
