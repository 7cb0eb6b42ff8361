---------------------------- MODULE MCSerialLink ----------------------------
(***************************************************************************)
(* SerialLink on a small set of calls.  Duty 67 is pin 3 with level or     *)
(* mode 1 when a damaged request makes an argument of it, 6 is a request   *)
(* type, 59 the text delimiter, 0 the motors' stop.                        *)
(***************************************************************************)
EXTENDS SerialLink

\* Two outputs: HBRIDGE_A, whose request tail is an initPwm, and HBRIDGE_D, whose
\* request tail is a digitalWrite.
MotorCalls == {<<2, 1, 67>>, <<1, 0, 67>>}

\* One call of each kind.
OnePinMode == {<<3, 1>>}
OneInitPwm == {<<2, 1, 1>>}
OnePwmDuty == {<<0, 1, 6>>}
=============================================================================
