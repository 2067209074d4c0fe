------------------------------ MODULE FileReader ------------------------------
(***************************************************************************)
(* FileReader (file_reader.cpp) and the loop of run_game over the deals it *)
(* returns.  A file is the sequence of its lines, the head of a deal, a    *)
(* hand or empty, or NoFile when there is none by the time all players     *)
(* have come, which is when it is opened.                                  *)
(***************************************************************************)
EXTENDS Integers, Sequences

HeadLine(type, seat) == [line |-> "head", type |-> type, seat |-> seat]
Hand(cards) == [line |-> "hand", cards |-> cards]
Empty == [line |-> "empty"]
NoFile == <<[line |-> "no file"]>>

(* getline: at the end of the file it leaves the line empty.  extract_cards *)
(* finds cards in a hand, and none in an empty line.                       *)
Line(file, i) == IF i <= Len(file) THEN file[i] ELSE Empty
Cards(file, i) ==
    IF Line(file, i).line = "hand" THEN Line(file, i).cards ELSE {}

HandFromTheEnd(file, position, s) == Cards(file, position + 5 - s)
HandOf(file, position, s) == Cards(file, position + 2 + s)

(* read_next_deal, with position lines read before.                        *)
EndOfFile(file, position) == Line(file, position + 1) = Empty
ReadDeal(file, position) ==
    LET head == Line(file, position + 1) IN
    [trick_type |-> head.type, seat |-> head.seat,
     cards |-> [s \in 0..3 |-> HandOf(file, position, s)]]

(* The deals run_game plays: -1, for a file that cannot be opened, ends    *)
(* the loop as 0 does.                                                     *)
DealsOf(file) ==
    LET from[position \in Nat] ==
            IF EndOfFile(file, position) THEN <<>>
            ELSE <<ReadDeal(file, position)>> \o from[position + 5]
    IN IF file = NoFile THEN <<>> ELSE from[0]
=============================================================================
