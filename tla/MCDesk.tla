------------------------------- MODULE MCDesk -------------------------------
(***************************************************************************)
(* Values for the constants of Panel and Desk: a panel of two columns with *)
(* a button for each, one for both and one that fixes a value; two streams *)
(* of two signals, which may be a row; a binary and a text profile.        *)
(***************************************************************************)
EXTENDS Desk

CONSTANTS a, b, kp

Left == <<"L", kp>>
Right == <<"R", kp>>
MCFields == [x \in {"L", "R", "both", "stop"} |->
    CASE x = "L" -> {Left} [] x = "R" -> {Right} [] x = "both" -> Cells [] OTHER -> {}]
MCFixed == [x \in {"L", "R", "both", "stop"} |-> IF x = "stop" THEN (Left :> 0) ELSE <<>>]
MCLiveButton == [c \in {"L", "R"} |-> c]
MCDocuments == {<<a, b>>, <<b>>, <<>>}
MCFirstFiles == [robot |-> <<a, b>>, board |-> <<b>>]
MCOrder == <<"x", "y">>
MCRows == {{"x"}, {"y"}, {"x", "y"}}
MCConfigLane == [s \in {"x", "y"} |-> 9]
=============================================================================
