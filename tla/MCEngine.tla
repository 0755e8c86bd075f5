------------------------------ MODULE MCEngine ------------------------------
(***************************************************************************)
(* Values for the constants of Engine: two stream sets written for binary  *)
(* frames, one for text lines, and the calls each run lets the user make.  *)
(***************************************************************************)
EXTENDS Engine

CONSTANTS a, b, t

MCConfigs == {a, b, t}
MCFmtOf == [c \in MCConfigs \cup {NoCfg} |-> IF c = t THEN Text ELSE Binary]

Start(kind) == [op |-> "start", kind |-> kind, id |-> 0]
Replay(fmt) == [op |-> "replay", fmt |-> fmt, id |-> 0]
Configure(cfg) == [op |-> "configure", cfg |-> cfg]
Profile(fmt) == [op |-> "profile", fmt |-> fmt]
Do(op) == [op |-> op]

ListenCalls == {Configure(a), Start("serial"), Do("stop")}
FormatCalls == {Configure(a), Configure(t), Configure(NoCfg), Profile(Binary), Profile(Text),
                Start("serial"), Start("sim"), Replay(Text), Replay(Unknown), Do("stop"),
                Do("record"), Do("unrecord"), Do("listen"), Do("unlisten")}
=============================================================================
