---------------------------- MODULE MCConnections ----------------------------
(***************************************************************************)
(* Two seats, one trick and two clients; the connection thread fails at    *)
(* any moment.  And the records of more threads than those two: the loop   *)
(* over them shares nothing with a failing connection thread, and only     *)
(* more threads than these seats need leave it anything to skip, so        *)
(* ClientThreads is explored beside Connections, the one while the other   *)
(* rests.                                                                  *)
(***************************************************************************)
EXTENDS Connections, SerwerProperties, ClientThreads, TLC

CONSTANTS c1, c2

Of(figure, colour) == [figure |-> figure, colour |-> colour]
OneTrick ==
    <<[seat |-> 1, cards |-> (0 :> {Of(2, "H")}) @@ (1 :> {Of(3, "H")})]>>
TheirCards == [trick : {1}, card : {Of(2, "H"), Of(3, "H")}]

MCInit == CInit /\ TInit
MCNext ==
    \/ CNext /\ TInit /\ UNCHANGED recordVars
    \/ TNext /\ CInit /\ UNCHANGED allVars

MCSpec == MCInit /\ [][MCNext]_<<allVars, recordVars>> /\ CFairness
=============================================================================
