---------------------------- MODULE ClientThreads ----------------------------
(***************************************************************************)
(* The records of the client threads: client_threads, a map the connection *)
(* thread adds to, and joinable_threads, a vector every thread adds its id *)
(* to when it ends.  At the start of a trick run_deal, holding             *)
(* memory_mutex, joins the threads of the vector and erases from it while  *)
(* a range-for walks it: the loop runs to where the end was, over slots    *)
(* that erase moved and slots beyond the new end, which keep their values. *)
(* close_server joins whatever the map still holds.                        *)
(***************************************************************************)
EXTENDS Integers, SequencesExt

CONSTANT MaxThreads     \* how many clients are accepted

VARIABLES
    main,               \* the main thread: it plays, or has closed the server
    thread_id,          \* the number of the next thread
    running,            \* the threads that have not reached their end
    client_threads,     \* the keys of the map
    joinable_threads,
    joined,             \* the threads joined so far, in order
    lost                \* erase was given the end of the vector

recordVars ==
    <<main, thread_id, running, client_threads, joinable_threads, joined, lost>>

TInit ==
    /\ main = "plays"
    /\ thread_id = 0
    /\ running = {} /\ client_threads = {}
    /\ joinable_threads = <<>> /\ joined = <<>>
    /\ lost = FALSE

(* handle_connections starts a thread and records it in one critical       *)
(* section.                                                                *)
StartThread ==
    /\ main = "plays"
    /\ thread_id < MaxThreads
    /\ running' = running \cup {thread_id}
    /\ client_threads' = client_threads \cup {thread_id}
    /\ thread_id' = thread_id + 1
    /\ UNCHANGED <<main, joinable_threads, joined, lost>>

(* handle_client adds its own id last.                                     *)
ThreadEnds(id) ==
    /\ id \in running
    /\ running' = running \ {id}
    /\ joinable_threads' = Append(joinable_threads, id)
    /\ UNCHANGED <<main, thread_id, client_threads, joined, lost>>
-----------------------------------------------------------------------------
(* The loop of run_deal.  What it works on: the slots of the vector, those *)
(* past its end with them, and the map; and what it did: the threads it    *)
(* joined, whether what it looked for was not there.                       *)
Records(vector, map) ==
    [slots |-> vector, size |-> Len(vector), map |-> map,
     joined |-> <<>>, lost |-> FALSE]

EraseFirst(records, id) == 1
Find(records, id) ==
    SelectInSubSeq(records.slots, 1, records.size, LAMBDA held : held = id)

(* erase moves what follows; the last slot keeps its value.                *)
Erased(records, at) ==
    LET slots == records.slots IN
    SubSeq(slots, 1, at - 1) \o SubSeq(slots, at + 1, records.size)
        \o SubSeq(slots, records.size, Len(slots))

EraseThread(records, id) ==
    LET at == Find(records, id) IN
    IF at = 0 THEN [records EXCEPT !.lost = TRUE]
    ELSE [records EXCEPT !.slots = Erased(records, at), !.size = @ - 1]

JoinThread(records, id) ==
    [records EXCEPT !.joined = Append(@, id), !.map = @ \ {id}]

(* A round of the loop: a thread the map holds is joined, and erased.      *)
Round(records, i) ==
    LET id == records.slots[i] IN
    IF id \in records.map THEN EraseThread(JoinThread(records, id), id) ELSE records

JoinJoinable(vector, map) ==
    LET after[i \in 0..Len(vector)] ==
            IF i = 0 THEN Records(vector, map) ELSE Round(after[i - 1], i)
    IN after[Len(vector)]

(* The start of a trick.  The threads it joins have left their last        *)
(* critical section, so that it does not wait for them.                    *)
JoinFinished ==
    LET after == JoinJoinable(joinable_threads, client_threads) IN
    /\ main = "plays"
    /\ joinable_threads' = SubSeq(after.slots, 1, after.size)
    /\ client_threads' = after.map
    /\ joined' = joined \o after.joined
    /\ lost' = (lost \/ after.lost)
    /\ UNCHANGED <<main, thread_id, running>>

(* close_server, after the connection thread has been joined: join waits   *)
(* for each thread of the map.                                             *)
JoinRest ==
    /\ main = "plays"
    /\ client_threads \cap running = {}
    /\ main' = "closed"
    /\ joined' = joined \o SetToSeq(client_threads)
    /\ UNCHANGED <<thread_id, running, client_threads, joinable_threads, lost>>

TNext ==
    \/ StartThread
    \/ \E id \in running : ThreadEnds(id)
    \/ JoinFinished
    \/ JoinRest

TSpec == TInit /\ [][TNext]_recordVars
-----------------------------------------------------------------------------
(* Finished threads, in the order they ended: the loop over a vector it    *)
(* erases from joins such threads only, each once whatever tricks went     *)
(* before, and drops both records of just those.  It may leave some for    *)
(* the next trick but never all, so that none is left for ever; and the    *)
(* end of the server joins the rest.  A slot past the end is never taken   *)
(* for a thread to join, and what is erased is there: a second join, or    *)
(* erasing the end, would be the end of the process.                       *)
Started == 0..thread_id - 1
ThreadsAreJoined ==
    /\ ~lost
    /\ IsInjective(joined)
    /\ Range(joined) = IF main = "closed" THEN Started ELSE Started \ client_threads
    /\ client_threads = running \cup Range(joinable_threads)
    /\ joinable_threads # <<>> =>
          JoinJoinable(joinable_threads, client_threads).joined # <<>>
=============================================================================
