-------------------------- MODULE MCSlaveFirmware --------------------------
(***************************************************************************)
(* SlaveFirmware under a serial console: someone sends the commands of     *)
(* rover_slave/notes.md, whole or cut short, with or without pauses, and   *)
(* the board may be reset at any time.                                     *)
(***************************************************************************)
EXTENDS SlaveFirmware

CONSTANTS
  Console,   \* the commands that may be typed
  COMMANDS   \* bound on the commands of a session

ASSUME ConsoleAssumption == Console \subseteq Seq(Byte)

VARIABLE commands    \* commands sent so far

\* Binary commands: log info, pinMode(3,OUT), digitalWrite(5,1), digitalRead(9),
\* analogRead(14), initPwm on the five outputs, pwmDuty(A,67) and (LED,255).
Binary == {<<0>>, <<1, 67>>, <<2, 69>>, <<3, 9>>, <<4, 14>>,
           <<5, 13>>, <<5, 9>>, <<5, 8>>, <<5, 10>>, <<5, 11>>, <<6, 5, 67>>, <<6, 3, 255>>}

\* "A;" "B0301;" "C0501;" "D09;" "E14;" "F211;" "G21063;" and an unknown command.
Text == {<<65, 59>>, <<66, 48, 51, 48, 49, 59>>, <<67, 48, 53, 48, 49, 59>>,
         <<68, 48, 57, 59>>, <<69, 49, 52, 59>>, <<70, 50, 49, 49, 59>>,
         <<71, 50, 49, 48, 54, 51, 59>>, <<72, 59>>}

\* Commands cut short: a parser left waiting for a body, for the last byte, for
\* the delimiter, and a text command longer than the buffer.
Partial == {<<6>>, <<6, 5>>, <<66, 48>>, <<72, 48, 48, 48, 48, 48, 48, 48, 48>>}

Everything == Binary \union Text \union Partial

MCInit == PowerUp /\ commands = 0

Send(m) ==
  /\ commands < COMMANDS
  /\ to_slave = <<>>
  /\ to_slave' = m
  /\ commands' = commands + 1
  /\ UNCHANGED <<to_master, parser, board>>

\* The console shows every reply; nothing depends on the bytes left unread.
ReadReplies ==
  /\ to_master # <<>>
  /\ to_master' = <<>>
  /\ UNCHANGED <<to_slave, parser, board, commands>>

MCNext ==
  \/ \E m \in Console : Send(m)
  \/ ReadReplies
  \/ /\ \/ ReadHeaderOnly \/ ReadType \/ ReadText \/ ReadBody \/ ReadBodyEnd \/ ReadTextEnd
        \/ Idle
        \/ setup
     /\ UNCHANGED commands

MCSpec == MCInit /\ [][MCNext]_<<slave_vars, commands>>
=============================================================================
