--------------------------- MODULE ConsoleProofs ---------------------------
(***************************************************************************)
(* The firmware under a serial console: whatever commands are typed, whole *)
(* or cut short, with whatever pauses and resets, for every buffer of six  *)
(* bytes or more and every session length.                                 *)
(***************************************************************************)
EXTENDS MCSlaveFirmware, SlaveFirmwareProofs

LEMMA SendStep == ASSUME FirmwareInv, NEW m \in Console, Send(m) PROVE FirmwareInv'
<1>1. to_slave' = m /\ UNCHANGED to_master /\ UNCHANGED parser /\ UNCHANGED board
  BY Zenon DEF Send
<1>2. to_slave' \in Seq(Byte)
  BY <1>1, ConsoleAssumption
<1>3. ParserTypeOK' /\ Framing'
  BY <1>1 DEF parser, FirmwareInv, FirmwareTypeOK, ParserTypeOK, Framing, AtRest
<1> QED
  BY <1>1, <1>2, <1>3, QuietStep

LEMMA ReadRepliesStep == ASSUME FirmwareInv, ReadReplies PROVE FirmwareInv'
<1>1. to_master' = <<>> /\ UNCHANGED to_slave /\ UNCHANGED parser /\ UNCHANGED board
  BY Zenon DEF ReadReplies
<1>2. BoardTypeOK /\ OutputsConfigured /\ to_slave \in Seq(Byte)
  BY DEF FirmwareInv, FirmwareTypeOK
<1>3. BoardTypeOK' /\ OutputsConfigured'
  BY <1>1, <1>2, BoardStays
<1>4. ParserTypeOK' /\ Framing'
  BY <1>1 DEF parser, FirmwareInv, FirmwareTypeOK, ParserTypeOK, Framing, AtRest
<1>5. to_slave' \in Seq(Byte) /\ to_master' \in Seq(Byte)
  BY <1>1, <1>2
<1> QED
  BY <1>3, <1>4, <1>5 DEF FirmwareInv, FirmwareTypeOK

LEMMA StutterStep == ASSUME FirmwareInv, UNCHANGED <<slave_vars, commands>> PROVE FirmwareInv'
<1>1. UNCHANGED to_slave /\ UNCHANGED to_master /\ UNCHANGED parser /\ UNCHANGED board
  BY Zenon DEF slave_vars
<1>2. ParserTypeOK' /\ Framing'
  BY <1>1 DEF parser, FirmwareInv, FirmwareTypeOK, ParserTypeOK, Framing, AtRest
<1>3. to_slave' \in Seq(Byte)
  BY <1>1 DEF FirmwareInv, FirmwareTypeOK
<1> QED
  BY <1>1, <1>2, <1>3, QuietStep

\* Types, framing and configured outputs together are inductive for the slave: the
\* handlers are given well-formed messages, so every field they extract fits.
THEOREM FirmwareInvariant == MCSpec => []FirmwareInv
<1>1. MCInit => FirmwareInv
  BY PowerUpInv DEF MCInit
<1>2. FirmwareInv /\ [MCNext]_<<slave_vars, commands>> => FirmwareInv'
  <2> SUFFICES ASSUME FirmwareInv, [MCNext]_<<slave_vars, commands>> PROVE FirmwareInv'
    OBVIOUS
  <2>1. CASE \E m \in Console : Send(m)
    BY <2>1, SendStep
  <2>2. CASE ReadReplies
    BY <2>2, ReadRepliesStep
  <2>3. CASE ReadByte \/ Idle \/ setup
    BY <2>3, FirmwareStep
  <2>4. CASE UNCHANGED <<slave_vars, commands>>
    BY <2>4, StutterStep
  <2> QED
    BY <2>1, <2>2, <2>3, <2>4, Zenon DEF MCNext, ReadByte
<1> QED
  BY <1>1, <1>2, PTL DEF MCSpec

\* Every field of the firmware keeps its width: no index leaves serial_data, no
\* parameter, read from a text command at a fixed offset or from a bit field,
\* leaves its uint8_t, and no register is written a value it cannot hold.
THEOREM FirmwareTypeCorrect == MCSpec => []FirmwareTypeOK
<1>1. FirmwareInv => FirmwareTypeOK
  BY DEF FirmwareInv
<1> QED
  BY <1>1, FirmwareInvariant, PTL

\* The parser's state, index and count of bytes awaited agree at every byte
\* boundary, after cut-off commands, text longer than the buffer, pauses, resets.
THEOREM AlwaysFramed == MCSpec => []Framing
<1>1. FirmwareInv => Framing
  BY DEF FirmwareInv
<1> QED
  BY <1>1, FirmwareInvariant, PTL

\* timers[] knows of every output that is connected, so no initPwm reassigns the
\* mode register under a running output.
THEOREM OutputsAlwaysConfigured == MCSpec => []OutputsConfigured
<1>1. FirmwareInv => OutputsConfigured
  BY DEF FirmwareInv
<1> QED
  BY <1>1, FirmwareInvariant, PTL
=============================================================================
