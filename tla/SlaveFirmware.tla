--------------------------- MODULE SlaveFirmware ---------------------------
(***************************************************************************)
(* The Arduino slave (rover_slave/src/main.cpp): the byte-at-a-time parser *)
(* of loop(), the binary and the text command handlers, and the PWM timers *)
(* they program.  The module has no Next of its own: SerialLink drives it  *)
(* with the rover's serial driver, MCSlaveFirmware with a serial console.  *)
(***************************************************************************)
EXTENDS Messages, Sequences, FiniteSets

CONSTANTS
  BUF,         \* length of serial_data; its uint8_t index wraps there (256)
  SLAVE_IDLE,  \* serial_idle_count limit, in ticks of 1 ms (274 counts: 2)
  Pins,        \* the pins something is wired to
  Samples      \* values the ADC can deliver

ASSUME BufAssumption     == BUF \in Nat /\ BUF >= 6
ASSUME IdleAssumption    == SLAVE_IDLE \in Nat \ {0}
ASSUME PinsAssumption    == Pins \subseteq Byte
ASSUME SamplesAssumption == Samples \subseteq 0..1023

Timers   == 0..2
Channels == Timers \X (0..1)

VARIABLES
  to_slave,           \* bytes on their way to the slave, its UART's included
  to_master,          \* bytes on their way to the rover
  serial_data, serial_data_idx, serial_state, expected_size, serial_idle_count,
  timers,             \* timer_config timers[3]
  wgm, clk, com, ocr, \* TCCRnA/B and OCRnx: mode, clock, connected outputs, duty
  pin_mode, pin_level

parser == <<serial_data, serial_data_idx, serial_state, expected_size, serial_idle_count>>
board  == <<timers, wgm, clk, com, ocr, pin_mode, pin_level>>
slave_vars == <<to_slave, to_master, parser, board>>

ParserTypeOK ==
  /\ serial_data \in [0..BUF-1 -> Byte]
  /\ serial_data_idx \in 0..BUF-1
  /\ serial_state \in {"TYPE", "BODY", "TEXT"}
  /\ expected_size \in Byte
  /\ serial_idle_count \in 0..SLAVE_IDLE

BoardTypeOK ==
  /\ timers \in [Timers -> [prescale : Byte, configured : BOOLEAN]]
  /\ wgm \in [Timers -> {"fast", "phase"}]
  /\ clk \in [Timers -> 0..7]
  /\ com \subseteq Channels
  /\ ocr \in [Channels -> Byte]
  /\ pin_mode \in [Pins -> Byte]
  /\ pin_level \in [Pins -> Byte]

FirmwareTypeOK ==
  /\ to_slave \in Seq(Byte)
  /\ to_master \in Seq(Byte)
  /\ ParserTypeOK
  /\ BoardTypeOK

-----------------------------------------------------------------------------
(* The Arduino core, as the firmware uses it. *)

\* The PWM output sharing a pin: the table above PIN_HBRIDGE_A in app.cpp, and pin
\* 11, the one the rover leaves free.
pin_channel(pin) ==
  CASE pin = 3 -> {<<2, 1>>} [] pin = 5 -> {<<0, 1>>} [] pin = 6  -> {<<0, 0>>}
    [] pin = 9 -> {<<1, 0>>} [] pin = 10 -> {<<1, 1>>} [] pin = 11 -> {<<2, 0>>}
    [] OTHER -> {}

pinMode(pin, mode) ==
  /\ pin_mode' = [pin_mode EXCEPT ![pin] = mode]
  /\ UNCHANGED <<timers, wgm, clk, com, ocr, pin_level>>

\* digitalWrite and digitalRead take the pin away from its timer.
digitalWrite(pin, value) ==
  /\ com' = com \ pin_channel(pin)
  /\ pin_level' = [pin_level EXCEPT ![pin] = value]
  /\ UNCHANGED <<timers, wgm, clk, ocr, pin_mode>>

digitalRead(pin) ==
  /\ com' = com \ pin_channel(pin)
  /\ UNCHANGED <<timers, wgm, clk, ocr, pin_mode, pin_level>>

\* What the core's own init() leaves in the timers before setup() runs.
core_wgm == [t \in Timers |-> IF t = 0 THEN "fast" ELSE "phase"]
core_clk == [t \in Timers |-> IF t = 2 THEN 4 ELSE 3]

-----------------------------------------------------------------------------
(* PWM programming. *)

out(channel) == IF channel = 0 THEN 0 ELSE 1

\* TCCRnB on first use and on a change of prescale.  Timer 1's first write ors
\* in _BV(WGM10), which in TCCR1B is clock bit 0; a new prescale of timer 2 is
\* written to TCCR0B.
clock_after(timer, prescale) ==
  LET bits == prescale % 8
  IN  IF ~timers[timer].configured
        THEN [clk EXCEPT ![timer] = IF timer = 1 /\ bits % 2 = 0 THEN bits + 1 ELSE bits]
      ELSE IF timers[timer].prescale # prescale
        THEN [clk EXCEPT ![IF timer = 2 THEN 0 ELSE timer] = bits]
      ELSE clk

config_unmarked(prescale) == [prescale |-> prescale, configured |-> FALSE]
config(prescale) == [prescale |-> prescale, configured |-> TRUE]

\* On first use the mode is assigned to TCCRnA, which disconnects both outputs:
\* WGMn1|WGMn0 for timers 0 and 2, WGM10 alone for timer 1.
initPwm(timer, channel, prescale) ==
  IF timer \in Timers
  THEN /\ timers' = [timers EXCEPT ![timer] = config(prescale)]
       /\ wgm' = IF timers[timer].configured THEN wgm
                 ELSE [wgm EXCEPT ![timer] = IF timer = 1 THEN "phase" ELSE "fast"]
       /\ clk' = clock_after(timer, prescale)
       /\ com' = (IF timers[timer].configured THEN com ELSE com \ ({timer} \X (0..1)))
                   \union {<<timer, out(channel)>>}
       /\ UNCHANGED <<ocr, pin_mode, pin_level>>
  ELSE UNCHANGED board

pwmDuty(timer, channel, duty) ==
  /\ ocr' = [ocr EXCEPT ![<<timer, out(channel)>>] = duty]
  /\ UNCHANGED <<timers, wgm, clk, com, pin_mode, pin_level>>

-----------------------------------------------------------------------------
(* The command handlers.  data is the serial_data array they are given. *)

send_serial(bytes) == to_master' = to_master \o bytes

process_message(data) ==
  LET type == data[0]
      body == data[1]
  IN  \/ /\ type = LOG_INFO
         /\ UNCHANGED board /\ UNCHANGED to_master
      \/ /\ type = PINMODE
         /\ pinMode(get_param(body, PIN), get_param(body, MODE))
         /\ send_serial(<<0>>)
      \/ /\ type = DIGITAL_WRITE
         /\ digitalWrite(get_param(body, PIN), get_param(body, VALUE))
         /\ send_serial(<<0>>)
      \/ /\ type = DIGITAL_READ
         /\ digitalRead(body)
         /\ \E rval \in 0..1 : send_serial(<<rval>>)
      \/ /\ type = ANALOG_READ
         /\ \E rval \in Samples : send_serial(<<rval % 256, rval \div 256>>)
         /\ UNCHANGED board
      \/ /\ type = PWM_INIT
         /\ initPwm(get_param(body, TIMER), get_param(body, CHANNEL), get_param(body, PRESCALER))
         /\ send_serial(<<0>>)
      \/ /\ type = PWM_DUTY
         /\ pwmDuty(get_param(body, TIMER), get_param(body, CHANNEL), data[2])
         /\ send_serial(<<0>>)

TEXT_TYPES == 65..71   \* 'A'..'G'
DELIMITER  == 59       \* ';'

\* The text replies echo the call; only their ';' is kept.  Arguments are read
\* at fixed offsets whatever was received: bytes of earlier commands show through.
process_text_message(data) ==
  LET type == data[0]
      param(pos, size) == get_str_param_n(data, pos, size)
  IN  \/ /\ type = 65
         /\ UNCHANGED board
         /\ send_serial(<<DELIMITER>>)
      \/ /\ type = 66
         /\ pinMode(param(1, 2), param(3, 2))
         /\ send_serial(<<DELIMITER>>)
      \/ /\ type = 67
         /\ digitalWrite(param(1, 2), param(3, 2))
         /\ send_serial(<<DELIMITER>>)
      \/ /\ type = 68
         /\ digitalRead(param(1, 2))
         /\ send_serial(<<DELIMITER>>)
      \/ /\ type = 69
         /\ UNCHANGED board
         /\ send_serial(<<DELIMITER>>)
      \/ /\ type = 70
         /\ initPwm(param(1, 1), param(2, 1), param(3, 1))
         /\ send_serial(<<DELIMITER>>)
      \/ /\ type = 71
         /\ pwmDuty(param(1, 1), param(2, 1), param(3, 3))
         /\ send_serial(<<DELIMITER>>)
      \/ /\ type \notin TEXT_TYPES
         /\ UNCHANGED board /\ UNCHANGED to_master

-----------------------------------------------------------------------------
(* loop(): one action per path through an iteration of its while, one for    *)
(* the idle accounting after it.                                             *)

store(data, idx, byte) == [data EXCEPT ![idx] = byte]
received  == store(serial_data, serial_data_idx, Head(to_slave))
after_unwrapped(idx) == idx + 1
after(idx) == IF idx + 1 = BUF THEN 0 ELSE idx + 1

\* Serial.available(), Serial.read(): take the next byte.
take_byte ==
  /\ to_slave # <<>>
  /\ to_slave' = Tail(to_slave)
  /\ serial_idle_count' = 0

to_rest_keeping_index ==
  /\ serial_state' = "TYPE"
  /\ UNCHANGED serial_data_idx

to_rest ==
  /\ serial_state' = "TYPE"
  /\ serial_data_idx' = 0

ReadHeaderOnly ==
  /\ take_byte
  /\ serial_state = "TYPE"
  /\ Head(to_slave) \in MsgTypes
  /\ msg_size(Head(to_slave)) = 1
  /\ serial_data' = received
  /\ expected_size' = 0
  /\ process_message(received)
  /\ serial_data_idx' = 0
  /\ UNCHANGED serial_state

ReadType ==
  /\ take_byte
  /\ serial_state = "TYPE"
  /\ Head(to_slave) \in MsgTypes
  /\ msg_size(Head(to_slave)) > 1
  /\ serial_data' = received
  /\ serial_data_idx' = after(serial_data_idx)
  /\ expected_size' = msg_size(Head(to_slave)) - 1
  /\ serial_state' = "BODY"
  /\ UNCHANGED board /\ UNCHANGED to_master

ReadText ==
  /\ take_byte
  /\ \/ serial_state = "TYPE" /\ Head(to_slave) \notin MsgTypes
     \/ serial_state = "TEXT" /\ Head(to_slave) # DELIMITER
  /\ serial_data' = received
  /\ serial_data_idx' = after(serial_data_idx)
  /\ serial_state' = "TEXT"
  /\ UNCHANGED board
  /\ UNCHANGED <<expected_size, to_master>>

ReadBody ==
  /\ take_byte
  /\ serial_state = "BODY"
  /\ expected_size # 1
  /\ expected_size' = (expected_size - 1) % 256
  /\ serial_data' = received
  /\ serial_data_idx' = after(serial_data_idx)
  /\ UNCHANGED board
  /\ UNCHANGED <<serial_state, to_master>>

ReadBodyEnd ==
  /\ take_byte
  /\ serial_state = "BODY"
  /\ expected_size = 1
  /\ expected_size' = 0
  /\ serial_data' = received
  /\ process_message(received)
  /\ to_rest

ReadTextEnd ==
  /\ take_byte
  /\ serial_state = "TEXT"
  /\ Head(to_slave) = DELIMITER
  /\ serial_data' = store(received, after(serial_data_idx), 0)
  /\ process_text_message(serial_data')
  /\ to_rest
  /\ UNCHANGED expected_size

ReadByte == ReadHeaderOnly \/ ReadType \/ ReadText \/ ReadBody \/ ReadBodyEnd \/ ReadTextEnd

\* A millisecond of passes that find nothing to read.
Idle ==
  /\ to_slave = <<>>
  /\ IF serial_idle_count + 1 > SLAVE_IDLE
       THEN serial_idle_count' = 0 /\ to_rest
       ELSE /\ serial_idle_count' = serial_idle_count + 1
            /\ UNCHANGED <<serial_state, serial_data_idx>>
  /\ UNCHANGED board
  /\ UNCHANGED <<to_slave, to_master, serial_data, expected_size>>

blank_data   == [i \in 0..BUF-1 |-> 0]
blank_timers == [t \in Timers |-> [prescale |-> 0, configured |-> FALSE]]
zero_duty    == [ch \in Channels |-> 0]
zero_pins    == [p \in Pins |-> 0]

\* Power-up: the core's init(), zeroed globals, setup().
PowerUp ==
  /\ to_slave = <<>> /\ to_master = <<>>
  /\ serial_data = blank_data /\ serial_data_idx = 0 /\ serial_state = "TYPE"
  /\ expected_size = 0 /\ serial_idle_count = 0
  /\ timers = blank_timers /\ wgm = core_wgm /\ clk = core_clk
  /\ com = {} /\ ocr = zero_duty /\ pin_mode = zero_pins /\ pin_level = zero_pins

\* The same after a reset or a brown-out while the rover runs.
setup ==
  /\ to_rest
  /\ serial_data' = blank_data /\ expected_size' = 0 /\ serial_idle_count' = 0
  /\ timers' = blank_timers /\ wgm' = core_wgm /\ clk' = core_clk
  /\ com' = {} /\ ocr' = zero_duty /\ pin_mode' = zero_pins /\ pin_level' = zero_pins
  /\ UNCHANGED <<to_slave, to_master>>

-----------------------------------------------------------------------------
AtRest == serial_state = "TYPE"

\* The parser's three fields agree at every byte boundary, also after a reset by
\* idle time: waiting for a type the index is back at 0, and inside a binary
\* message the bytes stored and the bytes awaited make up the size of its type.
Framing ==
  /\ AtRest => serial_data_idx = 0
  /\ serial_state = "BODY" =>
       /\ serial_data[0] \in MsgTypes
       /\ serial_data_idx >= 1 /\ expected_size >= 1
       /\ serial_data_idx + expected_size = msg_size(serial_data[0])

\* An output is connected to its pin only on a timer that initPwm has configured
\* since the last reset, so timers[] never claims less than the registers hold:
\* the first initPwm of a timer assigns TCCRnA and would disconnect the outputs.
OutputsConfigured == \A ch \in com : timers[ch[1]].configured
=============================================================================
