------------------------------ MODULE SampleLog ------------------------------
(***************************************************************************)
(* What a stream's store promises to its readers, whatever it is made of:  *)
(* the newest rows written since the last clear, as many as fit, in the    *)
(* order they were written.  A row is known by its number: how many rows   *)
(* had been written when it was.                                           *)
(***************************************************************************)
EXTENDS Integers, Sequences

CONSTANT Capacities

VARIABLES
    written,    \* rows ever written
    window,     \* the rows there are
    size        \* how many fit

Rows(from, to) == [i \in 1..(to - from) |-> from + i]
Newest(s, n) == IF Len(s) <= n THEN s ELSE SubSeq(s, Len(s) - n + 1, Len(s))

Init == written = 0 /\ window = <<>> /\ size \in Capacities

\* Rows only ever make room for newer ones.
Write ==
    /\ written' \in Nat /\ written' >= written
    /\ window' = Newest(window \o Rows(written, written'), size)
    /\ UNCHANGED size

Clear == window' = <<>> /\ UNCHANGED <<written, size>>

Resize ==
    /\ size' \in Capacities /\ window' = Newest(window, size')
    /\ UNCHANGED written

Next == Write \/ Clear \/ Resize

Spec == Init /\ [][Next]_<<written, window, size>>
=============================================================================
