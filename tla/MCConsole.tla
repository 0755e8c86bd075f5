------------------------------ MODULE MCConsole ------------------------------
(***************************************************************************)
(* Values for the constants of Console: console output with a counter that *)
(* is as irregular as is tolerated, or more, with numbers of every kind,   *)
(* padded by spaces, and with a value of a reserved name.                  *)
(***************************************************************************)
EXTENDS MCEngine, Console

Imu == 65
Temp == 66
LineNo == 67
MCDigits == {-1, 1, 2, 5, 9}

Regular == <<<<Imu, 1, SP, 1>>, <<Imu, 2, SP, 2>>, <<Imu, 9, SP, 5>>>>
Padded == <<<<Temp, SP, 1>>, <<Temp, SP, SP, -1>>, <<SP, Temp, SP, 9>>, <<SP>>, <<Temp, SP, SP, DOT>>>>
LineNumbers == <<<<LineNo, 1>>, <<LineNo, 2>>>>
MCBoxes == {<<>>, Regular, SubSeq(Padded, 1, 3), Padded, LineNumbers}
=============================================================================
