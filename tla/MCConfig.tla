------------------------------ MODULE MCConfig ------------------------------
(***************************************************************************)
(* Values for the constants of Config: profiles of both formats, of which  *)
(* one does not load and one has a stream whose pattern does not parse.    *)
(***************************************************************************)
EXTENDS Config, TLC

CONSTANTS lc, v1, v2, L, R, k1, k2, speed, other, size, bad

MCMates == {<<L, R>>, <<R, L>>}
Sig(i, f, l) == [at |-> i, key |-> [base |-> f, n |-> 1], field |-> f, label |-> l, lane |-> speed]
Wheels == [name |-> L, rest |-> 0, fields |-> <<lc, v1>>, slots |-> <<>>,
           signals |-> {Sig(1, lc, L), Sig(2, v1, R)}, sim |-> {v1}, time |-> v1]
Log == [name |-> L, rest |-> 0, fields |-> <<v1, v2>>, slots |-> <<v1, v2>>,
        signals |-> {Sig(1, v1, L)}, sim |-> {v1}, time |-> v1]
Short == [name |-> R, rest |-> 0, fields |-> <<lc>>, slots |-> <<lc>>,
          signals |-> {}, sim |-> {}, time |-> None]
Unclear == [Log EXCEPT !.slots = Broken]
Of(text, ds) == [text |-> text, top |-> speed,
                 streams |-> [i \in 1..Len(ds) |-> [key |-> <<k1, k2>>[i], data |-> ds[i]]]]
MCDisks == {(p :> Of(FALSE, <<Wheels>>) @@ q :> Of(TRUE, <<Log>>)),
            (p :> Of(TRUE, <<Log, Short>>) @@ q :> [Of(FALSE, <<Wheels>>) EXCEPT !.top = Unusable]),
            (p :> Of(TRUE, <<Unclear>>) @@ q :> Of(FALSE, <<>>))}
\* The counter and a byte, not packed; an array and what is not read; a struct grown since.
Wheel == [bare |-> FALSE, packed |-> FALSE, sizes |-> <<>>, members |->
    <<[type |-> "u8", names |-> <<[name |-> v2, count |-> Plain]>>],
      [type |-> "u16", names |-> <<[name |-> lc, count |-> Plain]>>],
      [type |-> "u8", names |-> <<[name |-> v1, count |-> Plain], [name |-> bad, count |-> bad]>>]>>]
Array == [bare |-> TRUE, packed |-> FALSE, sizes |-> (size :> 2), members |->
    <<[type |-> "u32", names |-> <<[name |-> lc, count |-> Plain]>>], [type |-> bad, names |-> <<>>],
      [type |-> "f32", names |-> <<[name |-> v1, count |-> size]>>]>>]
MCSources == {Wheel, Array}
MCPatterns == {<<lc>>, <<v2, v1>>}
=============================================================================
