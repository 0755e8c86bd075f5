----------------------------- MODULE MCTimeBase -----------------------------
(* Values for the constants of TimeBase. *)
EXTENDS TimeBase

CONSTANTS MaxAdvance

\* Whole and uneven distances, up to the window.
MCAdvances == 1..MaxAdvance
=============================================================================
