------------------------------ MODULE MCWindow ------------------------------
(***************************************************************************)
(* Values for the constants of Window: two profiles' streams (binary and   *)
(* text), and an edited version of the binary one.                         *)
(***************************************************************************)
EXTENDS Window

CONSTANTS a, b, t

MCConfigs == {a, b, t}
OneConfig == {a}
Empty == {NoCfg}
MCFmtOf == [c \in Configs \cup {NoCfg} |-> IF c = t THEN Text ELSE Binary]
NoCalls == {}
=============================================================================
