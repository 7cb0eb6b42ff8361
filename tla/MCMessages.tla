----------------------------- MODULE MCMessages -----------------------------
(***************************************************************************)
(* The decimal reader of Messages against what it is for: every number a   *)
(* text command can carry is written in decimal and read back.             *)
(***************************************************************************)
EXTENDS Messages

CONSTANT DIGITS   \* lengths of the decimal numbers tried

VARIABLE number

Numbers == UNION {[size : {n}, value : {v \in Byte : v < 10^n}] : n \in DIGITS}

MCInit == number \in Numbers
MCNext == number' \in Numbers
MCSpec == MCInit /\ [][MCNext]_number

\* The digits of a number, most significant first, after its command letter.
decimal(value, size) == [i \in 1..size |-> 48 + ((value \div 10^(size - i)) % 10)]

\* get_str_param_n reads back the decimal number written at its place.
DecimalSurvives ==
  get_str_param_n(decimal(number.value, number.size), 1, number.size) = number.value
=============================================================================
