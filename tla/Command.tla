------------------------------- MODULE Command -------------------------------
(***************************************************************************)
(* Commands and panels of a configuration, and how a command is encoded:   *)
(* core/config/controls.py, core/protocol/commands.py.                     *)
(*                                                                         *)
(* Numbers go in halves: n stands for n/2, so that a value may be no whole *)
(* number.  A payload is a sequence of digits to the base Base, which      *)
(* stand for bytes.  Of the values in a file, Bad has a wrong type, Null   *)
(* is null and None is not there.                                          *)
(***************************************************************************)
EXTENDS Integers, Sequences, FiniteSets, Functions, SequencesExt

CONSTANTS
    Types,      \* type -> [size, signed, whole]: STRUCT_TYPE_MAP
    Base,       \* values of a byte: an even number
    MaxId,      \* packet IDs go from 0 to MaxId
    MaxPayload, \* MAX_PAYLOAD_BYTES
    Numbers,    \* the numbers a file may hold
    Implicit,   \* IMPLICIT_COLUMN
    None, Null, Bad

ASSUME CommandAssumption ==
    /\ Base \in Nat \ {0} /\ Base % 2 = 0 /\ MaxId \in Nat /\ MaxPayload \in Nat
    /\ Numbers \subseteq Int /\ None \notin Numbers /\ Bad \notin Numbers /\ None # Implicit
    /\ Null \notin Numbers \cup {None}
    /\ Types \in [DOMAIN Types -> [size : Nat \ {0}, signed : BOOLEAN, whole : BOOLEAN]]

----------------------------------------------------------------------------
(* What a file's command must be to be taken (_command_problems).          *)
(* A command is [id, big, fields], a field [name, type, value, param,      *)
(* column].                                                                *)

Fields(command) == ToSet(command.fields)
SizeOf(type) == Types[type].size
PayloadSize(command) == FoldLeft(LAMBDA n, f : n + SizeOf(f.type), 0, command.fields)

FieldIsValid(f) ==
    /\ f.name # None
    /\ f.type \in DOMAIN Types
    /\ f.value \in Numbers \cup {None}
    /\ f.param # Bad /\ f.column # Bad
    /\ f.value = None \/ f.param = None

CommandIsValid(command) ==
    /\ command.id \in 0..MaxId
    /\ \A f \in Fields(command) : FieldIsValid(f)
    /\ \A i, j \in DOMAIN command.fields : command.fields[i].name = command.fields[j].name => i = j
    /\ PayloadSize(command) <= MaxPayload

\* parse_commands: a command with errors is left out.
ParseCommands(raw) == [key \in {k \in DOMAIN raw : CommandIsValid(raw[k])} |-> raw[key]]

----------------------------------------------------------------------------
(* What a panel must be (_panel, _param, _button).  A panel is [columns,   *)
(* params, buttons], a parameter [kind, default, min, max], a button       *)
(* [command, column, values].                                              *)

\* The numbers of a parameter that says none.
Low(p) == IF p.min # None THEN p.min ELSE IF p.kind = "bool" THEN 0 ELSE -2000
High(p) == IF p.max # None THEN p.max ELSE IF p.kind = "bool" THEN 2 ELSE 2000
Given(p) == IF p.default = None THEN 0 ELSE p.default
Clamped(n, lo, hi) == IF n < lo THEN lo ELSE IF n > hi THEN hi ELSE n
DefaultOf(p) == Clamped(Given(p), Low(p), High(p))

Kinds == {"float", "int", "bool"}

\* A null passes the check that they are numbers, and float() raises TypeError, which
\* nothing catches: the file is not loaded at all.
ParamRaises(p) ==
    /\ p.kind \in Kinds
    /\ {p.default, p.min, p.max} \subseteq Numbers \cup {None, Null}
    /\ Null \in {p.default, p.min, p.max}

ParamIsValid(p) ==
    /\ p.kind \in Kinds
    /\ {p.default, p.min, p.max} \subseteq Numbers \cup {None}
    /\ Low(p) < High(p)
    /\ p.kind # "float" => DefaultOf(p) % 2 = 0

\* The column a field's parameter comes from, for a button of column col.
ColumnOf(f, col) == IF f.column # None THEN f.column ELSE col

\* "Every field must get a value when this button is pressed."
FieldOfNoColumn(f, b, panel) ==    \* mutant
    f.name \in DOMAIN b.values \/ f.value # None \/ (f.param # None /\ f.param \in DOMAIN panel.params)
FieldGetsAValue(f, b, panel) ==
    \/ f.name \in DOMAIN b.values
    \/ f.value # None
    \/ /\ f.param # None /\ f.param \in DOMAIN panel.params
       /\ panel.columns # <<>> => ColumnOf(f, b.column) # None
       /\ f.column # None => f.column \in ToSet(panel.columns)

ButtonIsValid(b, panel, commands) ==
    /\ b.command \in DOMAIN commands
    /\ b.column # None => b.column \in ToSet(panel.columns)
    /\ Range(b.values) \subseteq Numbers
    /\ DOMAIN b.values \subseteq {f.name : f \in Fields(commands[b.command])}
    /\ \A f \in Fields(commands[b.command]) : FieldGetsAValue(f, b, panel)

PanelIsValid(panel, commands) ==
    /\ None \notin ToSet(panel.columns) /\ Bad \notin ToSet(panel.columns) /\ IsInjective(panel.columns)
    /\ \A key \in DOMAIN panel.params : ParamIsValid(panel.params[key])
    /\ panel.buttons # <<>>
    /\ \A b \in ToSet(panel.buttons) : ButtonIsValid(b, panel, commands)

ParsePanels(raw, commands) == [key \in {k \in DOMAIN raw : PanelIsValid(raw[k], commands)} |-> raw[key]]

Raises(raw) == \E panel \in Range(raw) : \E p \in Range(panel.params) : ParamRaises(p)

ColumnKeys(panel) == IF panel.columns = <<>> THEN {Implicit} ELSE ToSet(panel.columns)
ButtonColumn(b, panel) == IF panel.columns = <<>> THEN Implicit ELSE b.column

\* The values the inputs of a panel may hold.
InputsOf(panel) ==
    {v \in [ColumnKeys(panel) -> [DOMAIN panel.params -> Numbers]] :
        \A c \in DOMAIN v : \A key \in DOMAIN panel.params :
            LET p == panel.params[key] IN
            /\ v[c][key] >= Low(p) /\ v[c][key] <= High(p)
            /\ p.kind # "float" => v[c][key] % 2 = 0}

----------------------------------------------------------------------------
(* A send: the value of each field, and its bytes. *)

\* resolve_values: None stands for the CommandError it raises.
Resolve(command, values, col, fixed) ==
    [f \in Fields(command) |->
        IF f.name \in DOMAIN fixed THEN fixed[f.name]
        ELSE IF f.value # None THEN f.value
        ELSE IF f.param = None THEN None
        ELSE LET c == ColumnOf(f, col) IN
             IF c \in DOMAIN values /\ f.param \in DOMAIN values[c] THEN values[c][f.param] ELSE None]

\* How many numbers so many bytes can hold.
Power[n \in Nat] == IF n = 0 THEN 1 ELSE Base * Power[n - 1]

\* What fits a field of a type, in halves.  (A float's numbers here are as wide as
\* a whole field's would be in halves.)
Span(type) == Power[SizeOf(type)]
Least(type) == IF Types[type].signed THEN -(Span(type) \div 2) ELSE 0
Number(type, n) == IF Types[type].whole THEN n \div 2 ELSE n

FitsAny(type, n) == Types[type].whole => n % 2 = 0    \* mutant: numpy would wrap it
\* _checked
FitsIn(type, n) ==
    /\ Types[type].whole => n % 2 = 0
    /\ Number(type, n) \in Least(type)..(Least(type) + Span(type) - 1)

\* A number's bytes, least significant first, and back.
Digits(n, size) == [i \in 1..size |-> (n \div Power[i - 1]) % Base]
NumberOf(ds) == FoldLeft(LAMBDA n, d : n * Base + d, 0, Reverse(ds))
InOrder(ds, big) == IF big THEN Reverse(ds) ELSE ds

Pack(command, vals) ==
    FoldLeft(LAMBDA bytes, f :
        bytes \o InOrder(Digits(Number(f.type, vals[f]) % Span(f.type), SizeOf(f.type)), command.big),
        <<>>, command.fields)
Encodes(command, vals) == \A f \in Fields(command) : FitsIn(f.type, vals[f])

\* decode_command, as the firmware reads it.
Start(command, i) == FoldLeft(LAMBDA n, f : n + SizeOf(f.type), 1, SubSeq(command.fields, 1, i - 1))
Read(type, ds) ==
    LET n == NumberOf(ds)
        s == IF Types[type].signed /\ n >= Span(type) \div 2 THEN n - Span(type) ELSE n
    IN  IF Types[type].whole THEN 2 * s ELSE s
Unpack(command, payload) ==
    [f \in Fields(command) |->
        LET at == Start(command, SelectInSeq(command.fields, LAMBDA x : x = f))
        IN  Read(f.type, InOrder(SubSeq(payload, at, at + SizeOf(f.type) - 1), command.big))]

\* apply_command: the first command of the ID whose size is the payload's.
TakenBy(commands, id, payload) ==
    {key \in DOMAIN commands : commands[key].id = id /\ PayloadSize(commands[key]) = Len(payload)}
=============================================================================
