------------------------------- MODULE MCLink -------------------------------
(***************************************************************************)
(* Values for the constants of Link: a text configuration whose two        *)
(* patterns match the same lines, in either order and one alone; layouts   *)
(* that share an ID, and an ID and a size.                                 *)
(***************************************************************************)
EXTENDS Link

CONSTANTS k1, k2, k3

A == 65
B == 66
MCLines == {<<>>, <<SP, SP>>, <<A, 1>>, <<SP, A, 3>>, <<A>>, <<B>>, <<B, B, B, B>>,
            <<B, B, B, B, B, B, A, 3>>}
MCFrames == {[id |-> 1, size |-> 8, counter |-> 1], [id |-> 1, size |-> 8, counter |-> 2],
             [id |-> 1, size |-> 8, counter |-> 4], [id |-> 1, size |-> 4, counter |-> 1],
             [id |-> 2, size |-> 8, counter |-> 1]}
Counted == [key |-> k1, pieces |-> <<<<A>>, <<>>>>, types |-> <<"u32">>, time |-> 1, step |-> 1]
Measured == [key |-> k2, pieces |-> <<<<A>>, <<>>>>, types |-> <<"f32">>, time |-> 0, step |-> 1]
MCTexts == {<<Counted, Measured>>, <<Measured, Counted>>, <<Counted>>}
Field(name, type) == [name |-> name, type |-> type]
Counter == Field("loop_cntr", "u32")
Motors == [key |-> k1, id |-> 1, order |-> "little", fields |-> <<Counter, Field("x", "f32")>>]
Again == [Motors EXCEPT !.key = k2, !.fields = <<Field("x", "f32"), Field("y", "u32")>>]
Renamed == [Motors EXCEPT !.key = k2, !.fields = <<Counter, Field("y", "f32")>>]
Short == [Motors EXCEPT !.key = k3, !.fields = <<Field("x", "f32")>>]
MCBinaries == {<<Motors, Again>>, <<Again, Motors>>, <<Motors, Short>>, <<Motors, Renamed>>}
=============================================================================
