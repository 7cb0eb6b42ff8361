------------------------------ MODULE Messages ------------------------------
(***************************************************************************)
(* The binary protocol shared by the rover and its Arduino slave           *)
(* (rover/src/messages.hpp and rover_slave/src/messages.hpp, the same      *)
(* text): request types, request sizes and the bit fields packed into      *)
(* request bytes, and the decimal reader of the slave's text protocol.     *)
(***************************************************************************)
EXTENDS Integers

Byte == 0..255

\* enum E_TYPE_MSGB_*: the first byte of every binary request.
LOG_INFO      == 0
PINMODE       == 1
DIGITAL_WRITE == 2
DIGITAL_READ  == 3
ANALOG_READ   == 4
PWM_INIT      == 5
PWM_DUTY      == 6
MsgTypes      == LOG_INFO..PWM_DUTY

msg_size_of_two(type) == IF type = LOG_INFO THEN 1 ELSE 2

\* msg_size_by_type[type]: sizeof of the packed request, type byte included.
msg_size(type) == IF type = LOG_INFO THEN 1 ELSE IF type = PWM_DUTY THEN 3 ELSE 2

(***************************************************************************)
(* A bit field of a request byte: SHIFT_x is given by its unit 2^SHIFT_x   *)
(* and MASK_x, which covers contiguous bits from SHIFT_x up, by the number *)
(* of values that fit under it.                                            *)
(***************************************************************************)
PIN       == [unit |-> 1,  range |-> 64]
MODE      == [unit |-> 64, range |-> 4]
VALUE     == [unit |-> 64, range |-> 4]
PRESCALER == [unit |-> 8,  range |-> 8]
TIMER     == [unit |-> 2,  range |-> 4]
CHANNEL   == [unit |-> 1,  range |-> 2]

\* get_param: (field & mask) >> shift.
get_param(field, f) == (field \div f.unit) % f.range

set_param_unshifted(value, field, f) == field - get_param(field, f) * f.unit + value

\* set_param: clear the field's bits, then or in value << shift.  Callers pass
\* values that fit the field, so the or of disjoint bits is a sum.
set_param(value, field, f) == field - get_param(field, f) * f.unit + value * f.unit

\* The request bytes built by ArduinoSlave and taken apart by the slave.
pinmode_byte(pin, mode)   == set_param(mode, set_param(pin, 0, PIN), MODE)
duty_byte(timer, channel) == set_param(channel, set_param(timer, 0, TIMER), CHANNEL)
init_byte(timer, channel, prescale) ==
  set_param(prescale, duty_byte(timer, channel), PRESCALER)

(***************************************************************************)
(* get_str_param_n<uint8_t>(cdata, size): the loop adds a digit and then   *)
(* scales the whole accumulator by 10^(size-i-1), in eight bits.           *)
(* text[pos] is cdata[0].  pow(10, n) is taken as exact, and an            *)
(* out-of-range double becomes a uint8_t by the truncation avr-gcc does.   *)
(***************************************************************************)
get_str_param_n(text, pos, size) ==
  LET digit(i) == text[pos + i] - 48
      rval[i \in 0..size] ==
        IF i = 0 THEN 0
        ELSE ((rval[i - 1] + digit(i - 1)) % 256) * 10^(size - i) % 256
  IN  rval[size]
=============================================================================
