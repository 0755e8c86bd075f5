---------------------------- MODULE MCSimulator ----------------------------
(***************************************************************************)
(* Two files of one command, whose layouts have the same ID and size and   *)
(* read the same bytes as other numbers; a command too long for a packet,  *)
(* a panel with a button that has no column, and one of which a parameter  *)
(* is null.                                                                *)
(***************************************************************************)
EXTENDS Simulator

MCTypes == [u1 |-> [size |-> 1, signed |-> FALSE, whole |-> TRUE],
            i1 |-> [size |-> 1, signed |-> TRUE, whole |-> TRUE],
            u2 |-> [size |-> 2, signed |-> FALSE, whole |-> TRUE],
            f2 |-> [size |-> 2, signed |-> TRUE, whole |-> FALSE]]
MCNumbers == {-2, 0, 1, 2, 8}
MCPeriods == [slow |-> 2, fast |-> 1]

FieldOf(name, type, value, param, column) ==
    [name |-> name, type |-> type, value |-> value, param |-> param, column |-> column]
ParamOf(kind, min, max) == [kind |-> kind, default |-> None, min |-> min, max |-> max]
NoValues == [x \in {} |-> 0]
ButtonOf(command, column, values) == [command |-> command, column |-> column, values |-> values]

Gains == [id |-> 1, big |-> FALSE,
          fields |-> <<FieldOf("motor", "u1", None, None, None), FieldOf("kp", "u2", None, "p", None)>>]
GainsTheOtherWay == [id |-> 1, big |-> TRUE,
          fields |-> <<FieldOf("kp", "f2", None, "p", "right"), FieldOf("motor", "i1", 0, None, None)>>]
TooLong == [id |-> 0, big |-> FALSE,
          fields |-> [i \in 1..3 |-> FieldOf(<<"u1", "u2", "f2">>[i], "u2", 0, None, None)]]

Motors == [columns |-> <<"left", "right">>, params |-> [p |-> ParamOf("float", -2, 8)],
           buttons |-> <<ButtonOf("gains", "left", [motor |-> 0]), ButtonOf("gains", "right", [motor |-> 2])>>]
OneMotor == [columns |-> <<>>, params |-> [p |-> ParamOf("int", 0, 8)],
             buttons |-> <<ButtonOf("gains", None, [motor |-> 0])>>]
NoColumn == [Motors EXCEPT !.buttons = <<ButtonOf("gains", None, [motor |-> 0])>>]

MCFiles ==
    [old |-> [commands |-> [gains |-> Gains, long |-> TooLong],
      panels |-> [motors |-> Motors, one |-> OneMotor, none |-> NoColumn]],
     new |-> [commands |-> [gains |-> GainsTheOtherWay], panels |-> [motors |-> Motors, one |-> OneMotor]],
     null |-> [commands |-> [gains |-> Gains],
               panels |-> [motors |-> [Motors EXCEPT !.params.p.default = Null]]]]
=============================================================================
