---------------------------- MODULE DutyRegister ----------------------------
(***************************************************************************)
(* What main_app relies on ArduinoSlave::pwmDuty for: one duty register    *)
(* per output.  A call writes only what it was asked to and only before it *)
(* returns, and it has written it when it returns, unless its last attempt *)
(* was disturbed: then it may have written it or not, and does not say so. *)
(* It may write more than once (retries).  A board reset clears            *)
(* everything.                                                             *)
(***************************************************************************)
CONSTANTS Outputs, Duties

VARIABLES
  duty,     \* output -> duty
  pending,  \* the write asked for: a set of at most one
  trouble   \* whether the attempt that is, or was last, in progress was disturbed

Write == [channel : Outputs, duty : Duties]

Init ==
  /\ duty = [o \in Outputs |-> 0]
  /\ pending = {}
  /\ trouble = FALSE

Call ==
  /\ pending = {}
  /\ \E w \in pending' : w \in Write /\ pending' = {w}
  /\ UNCHANGED <<duty, trouble>>

\* A new attempt.
Attempt ==
  /\ trouble' = FALSE
  /\ UNCHANGED <<duty, pending>>

Apply ==
  /\ \E w \in pending : duty' = [duty EXCEPT ![w.channel] = w.duty]
  /\ UNCHANGED <<pending, trouble>>

Disturb ==
  /\ trouble' = TRUE
  /\ UNCHANGED <<duty, pending>>

Return ==
  /\ pending # {} /\ pending' = {}
  /\ trouble \/ \A w \in pending : duty[w.channel] = w.duty
  /\ UNCHANGED <<duty, trouble>>

PowerCycle ==
  /\ duty' = [o \in Outputs |-> 0]
  /\ trouble' = TRUE
  /\ UNCHANGED pending

Next == Call \/ Attempt \/ Apply \/ Disturb \/ Return \/ PowerCycle

Spec == Init /\ [][Next]_<<duty, pending, trouble>>
=============================================================================
