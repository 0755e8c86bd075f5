------------------------------ MODULE MCTrigger ------------------------------
(***************************************************************************)
(* Values for the constants of SampleStore and Trigger: batches of one     *)
(* row, of several with a gap marker among them, and of more rows than the *)
(* ring has; and triggers on either edge.                                  *)
(***************************************************************************)
EXTENDS Trigger

MCBatches == {<<1, 0>>, <<2, 1>>, <<10, 0>>}
\* A wave met a quarter of the way up; an edge with a gap in it, of which only the other side
\* crosses; a level that samples lie on, and a window that has hardly a row.
MCSpecs == {
    [signal |-> <<4, 0, 0, 4>>, edge |-> "rising", level |-> 1, pre |-> 8, post |-> 8],
    [signal |-> <<0, 0, 9, 2>>, edge |-> "either", level |-> 1, pre |-> 4, post |-> 2],
    [signal |-> <<4, 1>>, edge |-> "falling", level |-> 1, pre |-> 0, post |-> 1]}
=============================================================================
