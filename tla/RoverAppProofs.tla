--------------------------- MODULE RoverAppProofs ---------------------------
(***************************************************************************)
(* Proofs about RoverApp, for every queue length, counter period, set of   *)
(* commands and number of failures.  MotorsFollow is not inductive: it     *)
(* speaks of the moments between handlers.  Driving says in the middle of  *)
(* a handler which calls are still to come and what the others have left   *)
(* in the duty registers, Counting ties the watchdog's counter to the      *)
(* ticks since the last position, LedInv follows an LED command from the   *)
(* store of led_pwm to its slave call.                                     *)
(***************************************************************************)
EXTENDS RoverApp, TLAPS

-----------------------------------------------------------------------------
(* The inductive invariant. *)

Letters == <<"A", "B", "C", "D">>

\* The constructor's calls write no duty.
Booting == mpc = "boot" => \A i \in 1..Len(todo) : todo[i].op # "pwmDuty"

\* In a handler that drives the motors the calls are made in the order of the
\* letters, each with the duty asked for, and those made have arrived.
Driving ==
  mpc \in {"js", "wdt"} =>
    LET made == 4 - Len(todo)
    IN  /\ made \in 0..4
        /\ \A i \in 1..Len(todo) :
             todo[i] = [op |-> "pwmDuty", out |-> Letters[made + i],
                        duty |-> asked[Letters[made + i]]]
        /\ ~motors_unsure => \A i \in 1..made : duty[Letters[i]] = asked[Letters[i]]

\* Outside the handlers that drive them the motors stand as asked for.
Standing ==
  mpc \notin {"js", "wdt"} =>
    /\ mpc # "boot" => todo = <<>>
    /\ ~motors_unsure => \A o \in Motors : duty[o] = asked[o]

\* Until CI_WDT ticks have been handled since the last position the watchdog's
\* counter is their number; it is due only where the motors are being stopped.
Counting ==
  /\ since_js < CI_WDT => cx["wdt"] = since_js
  /\ mpc # "wdt" => cx["wdt"] < CI_WDT
  /\ mpc = "wdt" => since_js = CI_WDT

\* What is reported belongs to the last position.
Reporting == left_pwm = pwm(last_js.left) /\ right_pwm = pwm(last_js.right)

\* Unless commands overlap, at most one LED command is being executed, and the
\* argument of its call is what led_pwm reports.
LedInv ==
  ~led_unsure =>
    /\ \A t, u \in Threads : led_busy(t) /\ led_busy(u) => t = u
    /\ \A t \in Threads : led_busy(t) /\ thread[t][1].type = "call" =>
         thread[t][1].duty = led_duty(led_pwm)
    /\ (\A t \in Threads : ~led_busy(t)) => duty["L"] = led_duty(led_pwm) % 256

MotorInv == Booting /\ Driving /\ Standing /\ Counting /\ Reporting
RoverInv == TypeOK /\ MotorInv /\ LedInv

-----------------------------------------------------------------------------
(* Operators. *)

LEMMA Constants ==
  /\ CX_RANGE \in Nat /\ CX_RANGE > 0 /\ 0 \in 0..CX_RANGE-1
  /\ CI_WDT \in Nat /\ CI_WDT > 0 /\ CI_WDT < CX_RANGE /\ CI_THR \in Nat
  /\ COMMANDS \in Nat /\ FAILURES \in Nat
<1>1. COMMANDS \in Nat /\ FAILURES \in Nat
  BY InputAssumption
<1> QED
  BY <1>1, PeriodAssumption

LEMMA CounterFacts ==
  ASSUME NEW n \in 0..CX_RANGE-1
  PROVE  /\ (n + 1) % CX_RANGE \in 0..CX_RANGE-1
         /\ n + 1 < CX_RANGE => (n + 1) % CX_RANGE = n + 1
BY Constants

LEMMA Ticked ==
  ASSUME cx \in [Counters -> 0..CX_RANGE-1], NEW c \in Counters
  PROVE  ticked(c) \in 0..CX_RANGE-1
BY CounterFacts DEF ticked

LEMMA PwmType ==
  ASSUME NEW y \in Int
  PROVE  pwm(y) \in Nat /\ pwm(y) % 256 \in Byte /\ (y = 0 => pwm(y) = 0)
<1>1. abs(y) \in Nat /\ (y = 0 => abs(y) = 0)
  BY DEF abs
<1>2. ASSUME NEW n \in Nat PROVE (n * 255) \div 500 \in Nat
  OBVIOUS
<1>3. ASSUME NEW n \in Nat PROVE n % 256 \in Byte
  BY DEF Byte
<1>4. (0 * 255) \div 500 = 0
  OBVIOUS
<1> QED
  BY <1>1, <1>2, <1>3, <1>4 DEF pwm, PWM_RANGE

LEMMA LedDutyType ==
  ASSUME NEW p \in Nat
  PROVE  led_duty(p) \in Nat
<1>1. UINT_RANGE \in Nat \ {0} /\ p * 255 \in Nat
  BY InputAssumption
<1>2. ASSUME NEW n \in Nat, NEW u \in Nat \ {0} PROVE n % u \in Nat
  OBVIOUS
<1>3. ASSUME NEW n \in Nat PROVE n \div 100 \in Nat
  OBVIOUS
<1> QED
  BY <1>1, <1>2, <1>3 DEF led_duty

LEMMA PwmDutyCall ==
  ASSUME NEW o \in Outputs, NEW d \in Nat
  PROVE  /\ pwmDuty(o, d) \in Calls /\ pwmDuty(o, d).op = "pwmDuty"
         /\ pwmDuty(o, d).out = o /\ pwmDuty(o, d).duty = d % 256
<1>1. d % 256 \in Byte
  BY DEF Byte
<1> QED
  BY <1>1 DEF pwmDuty, Calls

\* The four calls of a handler, in the order of the letters.
LEMMA DriveCalls ==
  ASSUME NEW l \in Int, NEW r \in Int
  PROVE  LET calls == drive_left(l) \o drive_right(r)
             p(y)  == pwm(y) % 256
         IN  /\ calls \in Seq(Calls) /\ Len(calls) = 4
             /\ calls[1] = [op |-> "pwmDuty", out |-> "A", duty |-> IF l > 0 THEN p(l) ELSE 0]
             /\ calls[2] = [op |-> "pwmDuty", out |-> "B", duty |-> IF l < 0 THEN p(l) ELSE 0]
             /\ calls[3] = [op |-> "pwmDuty", out |-> "C", duty |-> IF r < 0 THEN p(r) ELSE 0]
             /\ calls[4] = [op |-> "pwmDuty", out |-> "D", duty |-> IF r > 0 THEN p(r) ELSE 0]
<1> DEFINE p(y) == pwm(y) % 256
           a == [op |-> "pwmDuty", out |-> "A", duty |-> IF l > 0 THEN p(l) ELSE 0]
           b == [op |-> "pwmDuty", out |-> "B", duty |-> IF l < 0 THEN p(l) ELSE 0]
           c == [op |-> "pwmDuty", out |-> "C", duty |-> IF r < 0 THEN p(r) ELSE 0]
           d == [op |-> "pwmDuty", out |-> "D", duty |-> IF r > 0 THEN p(r) ELSE 0]
<1>1. /\ p(l) \in Byte /\ p(r) \in Byte /\ (l = 0 => p(l) = 0) /\ (r = 0 => p(r) = 0)
      /\ 0 \in Byte /\ 0 % 256 = 0
  BY PwmType DEF Byte
<1>2. drive_left(l) = <<a, b>> /\ drive_right(r) = <<c, d>>
  BY <1>1 DEF drive_left, drive_right, pwmDuty
<1>3. a \in Calls /\ b \in Calls /\ c \in Calls /\ d \in Calls
  BY <1>1 DEF Calls, Outputs, Motors
<1> HIDE DEF a, b, c, d
<1>4. /\ drive_left(l) \o drive_right(r) \in Seq(Calls) /\ Len(drive_left(l) \o drive_right(r)) = 4
      /\ (drive_left(l) \o drive_right(r))[1] = a /\ (drive_left(l) \o drive_right(r))[2] = b
      /\ (drive_left(l) \o drive_right(r))[3] = c /\ (drive_left(l) \o drive_right(r))[4] = d
  BY <1>2, <1>3
<1> QED
  BY <1>4 DEF a, b, c, d

LEMMA StopCalls ==
  /\ stop \in Seq(Calls) /\ Len(stop) = 4
  /\ \A i \in 1..4 : stop[i] = [op |-> "pwmDuty", out |-> Letters[i], duty |-> 0]
<1>1. 0 % 256 = 0 /\ 0 \in Byte
  BY DEF Byte
<1>2. \A o \in Outputs : pwmDuty(o, 0) = [op |-> "pwmDuty", out |-> o, duty |-> 0]
                         /\ pwmDuty(o, 0) \in Calls
  BY <1>1 DEF pwmDuty, Calls
<1>3. "A" \in Outputs /\ "B" \in Outputs /\ "C" \in Outputs /\ "D" \in Outputs
  BY DEF Outputs, Motors
<1> QED
  BY <1>2, <1>3 DEF stop, Letters

LEMMA BootCalls ==
  /\ boot_calls \in Seq(Calls)
  /\ \A i \in 1..Len(boot_calls) : boot_calls[i].op # "pwmDuty"
<1>1. 0 \in Byte
  BY DEF Byte
<1>2. \A o \in Outputs : /\ pinMode(o) \in Calls /\ pinMode(o).op # "pwmDuty"
                         /\ initPwm(o) \in Calls /\ initPwm(o).op # "pwmDuty"
  BY <1>1 DEF pinMode, initPwm, Calls
<1>3. "A" \in Outputs /\ "B" \in Outputs /\ "C" \in Outputs /\ "D" \in Outputs /\ "L" \in Outputs
  BY DEF Outputs, Motors
<1> QED
  BY <1>2, <1>3 DEF boot_calls

-----------------------------------------------------------------------------
(* Types. *)

ThreadType == thread \in [Threads -> Seq(Doing)] /\ \A t \in Threads : Len(thread[t]) <= 1

LEMMA CallType ==
  ASSUME duty \in [Outputs -> Byte], failures \in 0..FAILURES, NEW c \in Calls,
         answered(c) \/ given_up(c)
  PROVE  duty' \in [Outputs -> Byte] /\ failures' \in 0..FAILURES
<1>1. executes(c) => duty' \in [Outputs -> Byte]
  BY DEF executes, Calls
<1>2. duty' \in [Outputs -> Byte]
  BY <1>1 DEF answered, given_up
<1>3. failures' \in 0..FAILURES
  BY Constants DEF answered, given_up
<1> QED
  BY <1>2, <1>3

LEMMA CommandType ==
  ASSUME TypeOK, NEW t \in Threads, NEW doing \in Doing, Command(t, doing)
  PROVE  ThreadType' /\ commands' \in 0..COMMANDS
<1>1. ThreadType'
  <2>1. <<doing>> \in Seq(Doing) /\ Len(<<doing>>) = 1
    OBVIOUS
  <2> HIDE DEF Doing
  <2> QED
    BY <2>1 DEF TypeOK, Command, ThreadType
<1>2. commands' \in 0..COMMANDS
  BY Constants DEF TypeOK, Command
<1> QED
  BY <1>1, <1>2

LEMMA InitType == Init => TypeOK
<1> SUFFICES ASSUME Init PROVE TypeOK
  OBVIOUS
<1>1. /\ queue \in Seq(Messages) /\ Len(queue) <= QLEN
      /\ mpc \in {"boot", "recv", "js", "wdt", "thermal", "batt", "stats"}
  BY QueueAssumption DEF Init
<1>2. todo \in Seq(Calls)
  BY BootCalls DEF Init
<1>3. cx \in [Counters -> 0..CX_RANGE-1]
  BY Constants DEF Init
<1>4. thread \in [Threads -> Seq(Doing)] /\ (\A t \in Threads : Len(thread[t]) <= 1)
  BY DEF Init
<1>5. duty \in [Outputs -> Byte]
  BY DEF Init, Byte
<1>6. last_js \in JsMessages
  BY DEF Init, JS, JsMessages
<1>7. since_js \in 0..CI_WDT /\ thr_gap \in 0..CI_THR
  BY Constants DEF Init
<1>8. commands \in 0..COMMANDS /\ failures \in 0..FAILURES
  BY InputAssumption DEF Init
<1> QED
  BY <1>1, <1>2, <1>3, <1>4, <1>5, <1>6, <1>7, <1>8 DEF Init, TypeOK

LEMMA TypeStep == TypeOK /\ [Next]_vars => TypeOK'
<1> SUFFICES ASSUME TypeOK, [Next]_vars PROVE TypeOK'
  OBVIOUS
<1> USE DEF aside, main, history
<1>1. CASE TimerSleeps
  BY <1>1 DEF TimerSleeps, TypeOK
<1>2. CASE TimerSends
  <2>1. queue' \in Seq(Messages) /\ Len(queue') <= QLEN
    <3>1. TIMER \in Messages
      BY DEF Messages
    <3> QED
      BY <1>2, <3>1, QueueAssumption DEF TimerSends, has_room, TypeOK
  <2> QED
    BY <1>2, <2>1 DEF TimerSends, TypeOK
<1>3. CASE UdpJs
  <2>1. PICK l, r \in UdpFields : Command("udp", JS(l - 1500, r - 1500))
    BY <1>3 DEF UdpJs
  <2>2. JS(l - 1500, r - 1500) \in Doing
    BY InputAssumption DEF JS, JsMessages, Doing
  <2>3. ThreadType' /\ commands' \in 0..COMMANDS
    BY <2>1, <2>2, CommandType DEF Threads
  <2> QED
    BY <1>3, <2>1, <2>3 DEF UdpJs, Command, TypeOK, ThreadType
<1>4. CASE WsJs
  <2>1. PICK s \in WsSticks : Command("ws", JS(s[1] * 5, s[2] * 5))
    BY <1>4 DEF WsJs
  <2>2. JS(s[1] * 5, s[2] * 5) \in Doing
    <3>1. s \in Int \X Int
      BY InputAssumption
    <3>2. s[1] * 5 \in Int /\ s[2] * 5 \in Int
      BY <3>1
    <3> QED
      BY <3>2 DEF JS, JsMessages, Doing
  <2>3. ThreadType' /\ commands' \in 0..COMMANDS
    BY <2>1, <2>2, CommandType DEF Threads
  <2> QED
    BY <1>4, <2>1, <2>3 DEF WsJs, Command, TypeOK, ThreadType
<1>5. ASSUME NEW t \in Threads, SendJs(t) PROVE TypeOK'
  <2>1. thread[t][1] \in Messages
    <3>1. thread[t] \in Seq(Doing) /\ thread[t] # <<>> /\ thread[t][1].type = "JS"
      BY <1>5 DEF SendJs, TypeOK
    <3>2. thread[t][1] \in Doing
      BY <3>1
    <3> QED
      BY <3>1, <3>2 DEF Doing, Messages
  <2>2. queue' \in Seq(Messages) /\ Len(queue') <= QLEN
    BY <1>5, <2>1, QueueAssumption DEF SendJs, has_room, TypeOK
  <2>3. ThreadType'
    BY <1>5 DEF SendJs, TypeOK, ThreadType
  <2> QED
    BY <1>5, <2>2, <2>3 DEF SendJs, TypeOK, ThreadType
<1>6. ASSUME NEW t \in Threads, LedStore(t) PROVE TypeOK'
  <2>1. PICK p \in LedPercents :
          /\ Command(t, [type |-> "stored"])
          /\ led_pwm' = p
          /\ led_unsure' = (\E u \in Threads : led_busy(u))
          /\ UNCHANGED <<last_js, since_js, motors_unsure, thr_gap>>
    BY <1>6 DEF LedStore
  <2>2. [type |-> "stored"] \in Doing
    BY DEF Doing
  <2>3. ThreadType' /\ commands' \in 0..COMMANDS
    BY <2>1, <2>2, CommandType
  <2>4. led_unsure' \in BOOLEAN
    BY Zenon, <2>1
  <2>5. p \in Nat
    BY SMTT(30), InputAssumption
  <2> QED
    BY <2>1, <2>3, <2>4, <2>5 DEF Command, TypeOK, ThreadType
<1>7. ASSUME NEW t \in Threads, LedArgument(t) PROVE TypeOK'
  <2>1. [type |-> "call", duty |-> led_duty(led_pwm)] \in Doing
    BY LedDutyType DEF TypeOK, Doing
  <2>2. ThreadType'
    <3> DEFINE x == [type |-> "call", duty |-> led_duty(led_pwm)]
    <3>1. <<x>> \in Seq(Doing) /\ Len(<<x>>) = 1
      BY <2>1
    <3>2. thread' = [thread EXCEPT ![t] = <<x>>]
      BY <1>7 DEF LedArgument
    <3> HIDE DEF x
    <3> QED
      BY <3>1, <3>2 DEF TypeOK, ThreadType
  <2> QED
    BY <1>7, <2>2 DEF LedArgument, TypeOK, ThreadType
<1>8. ASSUME NEW t \in Threads, LedCall(t) PROVE TypeOK'
  <2> DEFINE c == pwmDuty("L", thread[t][1].duty)
  <2>1. c \in Calls
    <3>1. thread[t] \in Seq(Doing) /\ thread[t] # <<>> /\ thread[t][1].type = "call"
      BY <1>8 DEF LedCall, TypeOK
    <3>2. thread[t][1] \in Doing
      BY <3>1
    <3>3. thread[t][1].duty \in Nat
      BY <3>1, <3>2 DEF Doing, JsMessages
    <3> QED
      BY <3>3, PwmDutyCall DEF Outputs
  <2>2. \/ answered(c) /\ UNCHANGED led_unsure
        \/ given_up(c) /\ led_unsure' = TRUE
    BY <1>8 DEF LedCall
  <2> HIDE DEF c
  <2>3. duty' \in [Outputs -> Byte] /\ failures' \in 0..FAILURES
    BY <2>1, <2>2, CallType DEF TypeOK
  <2>4. led_unsure' \in BOOLEAN
    BY <2>2 DEF TypeOK
  <2>5. ThreadType'
    BY <1>8 DEF LedCall, TypeOK, ThreadType
  <2> QED
    BY <1>8, <2>3, <2>4, <2>5 DEF LedCall, TypeOK, ThreadType
<1>9. CASE MainCall
  <2>1. Head(todo) \in Calls /\ Tail(todo) \in Seq(Calls)
    BY <1>9 DEF MainCall, TypeOK
  <2>2. duty' \in [Outputs -> Byte] /\ failures' \in 0..FAILURES
    BY <1>9, <2>1, CallType DEF MainCall, TypeOK
  <2>3. motors_unsure' \in BOOLEAN
    BY <1>9 DEF MainCall, TypeOK
  <2> QED
    BY <1>9, <2>1, <2>2, <2>3 DEF MainCall, TypeOK
<1>10. CASE HandlerDone
  BY <1>10 DEF HandlerDone, TypeOK
<1>11. CASE handle_js
  <2>1. Head(queue) \in JsMessages /\ Tail(queue) \in Seq(Messages) /\ Len(Tail(queue)) <= QLEN
    <3>1. Head(queue) \in Messages /\ Head(queue).type = "JS"
      BY <1>11 DEF handle_js, TypeOK
    <3>2. Head(queue) \in JsMessages
      BY <3>1 DEF Messages, TIMER
    <3> QED
      BY <1>11, <3>2, QueueAssumption DEF handle_js, TypeOK
  <2>2. Head(queue).left \in Int /\ Head(queue).right \in Int
    BY <2>1 DEF JsMessages
  <2>3. left_pwm' \in Nat /\ right_pwm' \in Nat
    BY <1>11, <2>2, PwmType DEF handle_js, reported
  <2>4. todo' \in Seq(Calls)
    BY <1>11, <2>2, DriveCalls DEF handle_js
  <2>5. cx' \in [Counters -> 0..CX_RANGE-1]
    BY <1>11, Constants DEF handle_js, TypeOK
  <2>6. last_js' \in JsMessages
    BY <1>11, <2>1 DEF handle_js
  <2>7. since_js' \in 0..CI_WDT
    BY <1>11, Constants DEF handle_js
  <2> QED
    BY <1>11, <2>1, <2>3, <2>4, <2>5, <2>6, <2>7 DEF handle_js, TypeOK
<1>12. CASE handle_timer
  <2>1. Tail(queue) \in Seq(Messages) /\ Len(Tail(queue)) <= QLEN
    BY <1>12, QueueAssumption DEF handle_timer, TypeOK
  <2>2. cx' \in [Counters -> 0..CX_RANGE-1]
    BY <1>12, Ticked DEF handle_timer, TypeOK, Counters
  <2>3. todo' \in Seq(Calls)
    BY <1>12, StopCalls DEF handle_timer, TypeOK
  <2>4. mpc' \in {"wdt", "thermal"}
    BY <1>12 DEF handle_timer
  <2>5. since_js' \in 0..CI_WDT
    BY <1>12, Constants DEF handle_timer, TypeOK
  <2>6. motors_unsure' \in BOOLEAN
    BY <1>12 DEF handle_timer, TypeOK
  <2> QED
    BY <1>12, <2>1, <2>2, <2>3, <2>4, <2>5, <2>6 DEF handle_timer, TypeOK
<1>13. CASE WdtReset
  <2>1. cx' \in [Counters -> 0..CX_RANGE-1]
    BY <1>13, Constants DEF WdtReset, TypeOK
  <2> QED
    BY <1>13, <2>1 DEF WdtReset, TypeOK
<1>14. CASE Thermal
  <2>1. cx' \in [Counters -> 0..CX_RANGE-1]
    <3>1. /\ ticked("thr") \in 0..CX_RANGE-1 /\ ticked("fan") \in 0..CX_RANGE-1
          /\ ticked("batt") \in 0..CX_RANGE-1 /\ 0 \in 0..CX_RANGE-1
      BY Ticked, Constants DEF TypeOK, Counters
    <3> QED
      BY <1>14, <3>1 DEF Thermal, TypeOK
  <2>2. thr_gap' \in 0..CI_THR
    BY <1>14, Constants DEF Thermal, TypeOK
  <2>3. mpc' \in {"batt", "stats"}
    BY <1>14 DEF Thermal
  <2> QED
    BY <1>14, <2>1, <2>2, <2>3 DEF Thermal, TypeOK
<1>15. CASE Battery
  <2>1. cx' \in [Counters -> 0..CX_RANGE-1] /\ failures' \in 0..FAILURES
    BY <1>15, Constants DEF Battery, TypeOK
  <2> QED
    BY <1>15, <2>1 DEF Battery, TypeOK
<1>16. CASE Stats
  <2>1. cx' \in [Counters -> 0..CX_RANGE-1]
    <3>1. /\ ticked("slave_trx") \in 0..CX_RANGE-1 /\ ticked("wlan") \in 0..CX_RANGE-1
          /\ 0 \in 0..CX_RANGE-1
      BY Ticked, Constants DEF TypeOK, Counters
    <3> QED
      BY <1>16, <3>1 DEF Stats, TypeOK
  <2> QED
    BY <1>16, <2>1 DEF Stats, TypeOK
<1>17. CASE SlaveResets
  <2>1. duty' \in [Outputs -> Byte] /\ failures' \in 0..FAILURES
    <3>1. 0 \in Byte
      BY DEF Byte
    <3> QED
      BY <1>17, <3>1, Constants DEF SlaveResets, TypeOK
  <2> QED
    BY <1>17, <2>1 DEF SlaveResets, TypeOK
<1>18. CASE Restart
  <2>1. /\ queue' \in Seq(Messages) /\ Len(queue') <= QLEN
    BY <1>18, QueueAssumption DEF Restart
  <2>2. todo' \in Seq(Calls)
    BY <1>18, BootCalls DEF Restart
  <2>3. cx' \in [Counters -> 0..CX_RANGE-1]
    BY <1>18, Constants DEF Restart
  <2>4. ThreadType'
    BY <1>18 DEF Restart, ThreadType
  <2>5. duty' \in [Outputs -> Byte]
    <3>1. 0 \in Byte
      BY DEF Byte
    <3> QED
      BY <1>18, <3>1 DEF Restart, TypeOK
  <2>6. last_js' \in JsMessages
    BY <1>18 DEF Restart, JS, JsMessages
  <2>7. since_js' \in 0..CI_WDT /\ thr_gap' \in 0..CI_THR /\ failures' \in 0..FAILURES
    BY <1>18, Constants DEF Restart, TypeOK
  <2> QED
    BY <1>18, <2>1, <2>2, <2>3, <2>4, <2>5, <2>6, <2>7 DEF Restart, TypeOK, ThreadType
<1>19. CASE UNCHANGED vars
  BY <1>19 DEF vars, TypeOK
<1> QED
  BY <1>1, <1>2, <1>3, <1>4, <1>5, <1>6, <1>7, <1>8, <1>9, <1>10, <1>11, <1>12, <1>13,
     <1>14, <1>15, <1>16, <1>17, <1>18, <1>19 DEF Next, Timer, Main, ThreadStep

-----------------------------------------------------------------------------
(* The motors. *)

\* What the mapping table asks for, letter by letter.
LEMMA AskedLetters ==
  ASSUME TypeOK
  PROVE  /\ Motors = {Letters[i] : i \in 1..4}
         /\ \A o \in Motors : asked[o] \in Byte
         /\ since_js >= CI_WDT => \A o \in Motors : asked[o] = 0
         /\ since_js < CI_WDT =>
              /\ asked["A"] = IF last_js.left > 0 THEN pwm(last_js.left) % 256 ELSE 0
              /\ asked["B"] = IF last_js.left < 0 THEN pwm(last_js.left) % 256 ELSE 0
              /\ asked["C"] = IF last_js.right < 0 THEN pwm(last_js.right) % 256 ELSE 0
              /\ asked["D"] = IF last_js.right > 0 THEN pwm(last_js.right) % 256 ELSE 0
<1>1. last_js.left \in Int /\ last_js.right \in Int /\ since_js \in Int /\ CI_WDT \in Int
  BY Constants DEF TypeOK, JsMessages
<1>2. pwm(last_js.left) % 256 \in Byte /\ pwm(last_js.right) % 256 \in Byte /\ 0 \in Byte
  BY <1>1, PwmType DEF Byte
<1>3. Motors = {Letters[i] : i \in 1..4}
  <2>1. Letters[1] = "A" /\ Letters[2] = "B" /\ Letters[3] = "C" /\ Letters[4] = "D"
    BY DEF Letters
  <2>2. 1..4 = {1, 2, 3, 4}
    OBVIOUS
  <2> QED
    BY <2>1, <2>2 DEF Motors
<1> QED
  BY <1>1, <1>2, <1>3 DEF asked, Motors

LEMMA AskedKept ==
  ASSUME UNCHANGED <<last_js, since_js>>
  PROVE  asked' = asked
BY DEF asked

\* A step that leaves the main thread and the motors alone.
LEMMA MotorAside ==
  ASSUME MotorInv, UNCHANGED main, UNCHANGED <<last_js, since_js>>,
         motors_unsure' \/ ( /\ motors_unsure' = motors_unsure
                            /\ \A o \in Motors : duty'[o] = duty[o])
  PROVE  MotorInv'
<1>1. asked' = asked
  BY AskedKept
<1>2. UNCHANGED <<mpc, todo, cx, left_pwm, right_pwm, last_js, since_js>>
  BY DEF main
<1>3. Booting' /\ Counting' /\ Reporting'
  BY <1>2 DEF MotorInv, Booting, Counting, Reporting
<1>4. \A i \in 1..4 : Letters[i] \in Motors
  BY DEF Letters, Motors
<1>5. Driving'
  BY <1>1, <1>2, <1>4 DEF MotorInv, Driving
<1>6. Standing'
  BY <1>1, <1>2 DEF MotorInv, Standing
<1> QED
  BY <1>3, <1>5, <1>6 DEF MotorInv

LEMMA MotorInit == Init => MotorInv
<1> SUFFICES ASSUME Init PROVE MotorInv
  OBVIOUS
<1>1. TypeOK
  BY InitType
<1>2. pwm(0) = 0 /\ pwm(0) % 256 = 0
  BY PwmType
<1>3. last_js.left = 0 /\ last_js.right = 0 /\ since_js = 0
  BY DEF Init, JS
<1>4. \A o \in Motors : asked[o] = 0
  BY <1>1, <1>2, <1>3, AskedLetters, Constants DEF Motors
<1>5. Standing /\ Driving
  BY <1>4 DEF Init, Standing, Driving, Outputs
<1>6. Booting
  BY BootCalls DEF Init, Booting
<1>7. Counting /\ Reporting
  BY <1>2, <1>3, Constants DEF Init, Counting, Reporting, Counters
<1> QED
  BY <1>5, <1>6, <1>7 DEF MotorInv

LEMMA MotorMainCall ==
  ASSUME TypeOK, MotorInv, MainCall
  PROVE  MotorInv'
<1>1. /\ todo \in Seq(Calls) /\ todo # <<>> /\ todo' = Tail(todo)
      /\ UNCHANGED <<mpc, cx, left_pwm, right_pwm, last_js, since_js>>
  BY DEF MainCall, TypeOK
<1>2. /\ Len(todo') = Len(todo) - 1 /\ Len(todo) \in Nat \ {0}
      /\ \A i \in 1..Len(todo') : todo'[i] = todo[i + 1]
      /\ Head(todo) = todo[1]
  BY <1>1
<1>3. asked' = asked
  BY <1>1, AskedKept
<1>4. Counting' /\ Reporting'
  BY <1>1 DEF MotorInv, Counting, Reporting
<1>5. Booting'
  BY <1>1, <1>2 DEF MotorInv, Booting
<1>6. ~motors_unsure' => ~motors_unsure /\ executes(todo[1])
  BY <1>2 DEF MainCall, answered
<1>7. mpc \in {"boot", "js", "wdt"}
  BY <1>1 DEF MotorInv, Standing
<1>8. Standing'
  <2>1. mpc = "boot" => todo[1].op # "pwmDuty"
    BY <1>2 DEF MotorInv, Booting
  <2>2. mpc = "boot" /\ ~motors_unsure' => duty' = duty
    BY <1>6, <2>1 DEF executes
  <2> QED
    BY <1>1, <1>3, <1>6, <1>7, <2>2 DEF MotorInv, Standing
<1>9. Driving'
  <2> SUFFICES ASSUME mpc \in {"js", "wdt"} PROVE Driving'
    BY <1>1 DEF Driving
  <2> DEFINE made == 4 - Len(todo)
  <2>1. /\ made \in 0..4
        /\ \A i \in 1..Len(todo) :
             todo[i] = [op |-> "pwmDuty", out |-> Letters[made + i],
                        duty |-> asked[Letters[made + i]]]
        /\ ~motors_unsure => \A i \in 1..made : duty[Letters[i]] = asked[Letters[i]]
    BY DEF MotorInv, Driving
  <2>2. made + 1 \in 1..4 /\ 4 - Len(todo') = made + 1 /\ made \in 0..3
    <3>1. 4 - Len(todo) \in 0..4 /\ Len(todo) \in Nat \ {0} /\ Len(todo') = Len(todo) - 1
      BY <1>2, <2>1
    <3>2. \A n \in Nat \ {0} : 4 - n \in 0..4 =>
            (4 - n) + 1 \in 1..4 /\ 4 - (n - 1) = (4 - n) + 1 /\ 4 - n \in 0..3
      OBVIOUS
    <3> QED
      BY <3>1, <3>2
  <2>3. todo[1] = [op |-> "pwmDuty", out |-> Letters[made + 1], duty |-> asked[Letters[made + 1]]]
    BY <1>2, <2>1
  <2>4. \A i \in 1..Len(todo') :
          todo'[i] = [op |-> "pwmDuty", out |-> Letters[made + 1 + i],
                      duty |-> asked[Letters[made + 1 + i]]]
    <3> TAKE i \in 1..Len(todo')
    <3>1. i + 1 \in 1..Len(todo) /\ made + (i + 1) = made + 1 + i /\ todo'[i] = todo[i + 1]
      BY <1>2, <2>2
    <3> QED
      BY <2>1, <3>1
  <2>5. ASSUME ~motors_unsure' PROVE \A i \in 1..made+1 : duty'[Letters[i]] = asked[Letters[i]]
    <3>1. duty' = [duty EXCEPT ![Letters[made + 1]] = asked[Letters[made + 1]]]
      BY <1>6, <2>3, <2>5 DEF executes
    <3>2. \A i \in 1..4 : Letters[i] \in Outputs
      BY DEF Letters, Outputs, Motors
    <3>3. duty \in [Outputs -> Byte]
      BY DEF TypeOK
    <3>4. \A i \in 1..made : duty[Letters[i]] = asked[Letters[i]]
      BY <1>6, <2>1, <2>5
    <3> HIDE DEF made
    <3>5. duty'[Letters[made + 1]] = asked[Letters[made + 1]]
      BY <2>2, <3>1, <3>2, <3>3
    <3>6. \A o \in Outputs : o # Letters[made + 1] => duty'[o] = duty[o]
      BY <3>1, <3>3
    <3>7. ASSUME NEW i \in 1..made+1 PROVE duty'[Letters[i]] = asked[Letters[i]]
      <4>1. i = made + 1 \/ i \in 1..made
        BY <2>2
      <4>2. CASE i \in 1..made /\ Letters[i] # Letters[made + 1]
        <5>1. Letters[i] \in Outputs
          BY <2>2, <3>2, <4>2
        <5> QED
          BY <3>4, <3>6, <4>2, <5>1
      <4> QED
        BY <3>5, <4>1, <4>2
    <3> QED
      BY <3>7
  <2> HIDE DEF made
  <2> QED
    BY <1>1, <1>3, <2>2, <2>4, <2>5 DEF Driving
<1> QED
  BY <1>4, <1>5, <1>8, <1>9 DEF MotorInv

LEMMA MotorHandleJs ==
  ASSUME TypeOK, TypeOK', MotorInv, handle_js
  PROVE  MotorInv'
<1> DEFINE js == Head(queue)
           l  == last_js'.left
           r  == last_js'.right
<1>1. /\ last_js' = js /\ since_js' = 0 /\ mpc' = "js" /\ ~motors_unsure'
      /\ cx' = [cx EXCEPT !["wdt"] = 0]
      /\ todo' = drive_left(l) \o drive_right(r)
      /\ left_pwm' = pwm(l) /\ right_pwm' = pwm(r)
  BY DEF handle_js, reported
<1>2. l \in Int /\ r \in Int
  BY DEF TypeOK, JsMessages
<1>3. Counting' /\ Reporting' /\ Booting' /\ Standing'
  BY <1>1, Constants DEF Counting, Reporting, Booting, Standing, TypeOK, Counters
<1>4. /\ asked'["A"] = IF l > 0 THEN pwm(l) % 256 ELSE 0
      /\ asked'["B"] = IF l < 0 THEN pwm(l) % 256 ELSE 0
      /\ asked'["C"] = IF r < 0 THEN pwm(r) % 256 ELSE 0
      /\ asked'["D"] = IF r > 0 THEN pwm(r) % 256 ELSE 0
  BY <1>1, Constants DEF asked, Motors
<1>5. /\ Letters[1] = "A" /\ Letters[2] = "B" /\ Letters[3] = "C" /\ Letters[4] = "D"
  BY DEF Letters
<1>6. /\ Len(todo') = 4
      /\ todo'[1] = [op |-> "pwmDuty", out |-> Letters[1], duty |-> asked'[Letters[1]]]
      /\ todo'[2] = [op |-> "pwmDuty", out |-> Letters[2], duty |-> asked'[Letters[2]]]
      /\ todo'[3] = [op |-> "pwmDuty", out |-> Letters[3], duty |-> asked'[Letters[3]]]
      /\ todo'[4] = [op |-> "pwmDuty", out |-> Letters[4], duty |-> asked'[Letters[4]]]
  <2> HIDE DEF l, r
  <2>1. LET calls == drive_left(l) \o drive_right(r)
            p(y)  == pwm(y) % 256
        IN  /\ Len(calls) = 4
            /\ calls[1] = [op |-> "pwmDuty", out |-> "A", duty |-> IF l > 0 THEN p(l) ELSE 0]
            /\ calls[2] = [op |-> "pwmDuty", out |-> "B", duty |-> IF l < 0 THEN p(l) ELSE 0]
            /\ calls[3] = [op |-> "pwmDuty", out |-> "C", duty |-> IF r < 0 THEN p(r) ELSE 0]
            /\ calls[4] = [op |-> "pwmDuty", out |-> "D", duty |-> IF r > 0 THEN p(r) ELSE 0]
    BY <1>2, DriveCalls
  <2> QED
    BY <1>1, <1>4, <1>5, <2>1
<1>7. \A i \in 1..4 : todo'[i] = [op |-> "pwmDuty", out |-> Letters[i], duty |-> asked'[Letters[i]]]
  <2> TAKE i \in 1..4
  <2>1. i = 1 \/ i = 2 \/ i = 3 \/ i = 4
    OBVIOUS
  <2> QED
    BY <1>6, <2>1
<1>8. Driving'
  <2>1. 4 - Len(todo') = 0 /\ 1..0 = {}
    BY <1>6
  <2> QED
    BY <1>6, <1>7, <2>1 DEF Driving
<1> QED
  BY <1>3, <1>8 DEF MotorInv

LEMMA MotorHandleTimer ==
  ASSUME TypeOK, TypeOK', MotorInv, handle_timer
  PROVE  MotorInv'
<1>1. /\ mpc = "recv" /\ todo = <<>>
      /\ since_js \in 0..CI_WDT /\ cx["wdt"] \in 0..CX_RANGE-1 /\ cx["wdt"] < CI_WDT
      /\ since_js < CI_WDT => cx["wdt"] = since_js
  BY DEF handle_timer, MotorInv, Standing, Counting, TypeOK, Counters
<1>2. ticked("wdt") = cx["wdt"] + 1
  BY <1>1, Constants, CounterFacts DEF ticked
<1>3. /\ cx'["wdt"] = cx["wdt"] + 1
      /\ since_js' = IF since_js < CI_WDT THEN since_js + 1 ELSE since_js
      /\ UNCHANGED <<left_pwm, right_pwm, last_js, duty>>
  BY <1>2 DEF handle_timer, TypeOK, Counters
<1>4. Reporting'
  BY <1>3 DEF MotorInv, Reporting
<1>5. CASE wdt_due
  <2>1. mpc' = "wdt" /\ todo' = stop /\ ~motors_unsure'
    BY <1>5 DEF handle_timer
  <2>2. since_js' = CI_WDT
    BY <1>1, <1>2, <1>3, <1>5, Constants DEF wdt_due
  <2>3. Counting' /\ Booting' /\ Standing'
    BY <2>1, <2>2, Constants DEF Counting, Booting, Standing
  <2>4. \A i \in 1..4 : Letters[i] \in Motors
    BY DEF Letters, Motors
  <2>5. \A o \in Motors : asked'[o] = 0
    BY <2>2, Constants DEF asked
  <2>6. Driving'
    <3>1. Len(todo') = 4 /\ 4 - Len(todo') = 0 /\ 1..0 = {}
      BY <2>1, StopCalls
    <3>2. \A i \in 1..4 : todo'[i] = [op |-> "pwmDuty", out |-> Letters[i], duty |-> asked'[Letters[i]]]
      BY <2>1, <2>4, <2>5, StopCalls
    <3> QED
      BY <3>1, <3>2 DEF Driving
  <2> QED
    BY <1>4, <2>3, <2>6 DEF MotorInv
<1>6. CASE ~wdt_due
  <2>1. mpc' = "thermal" /\ UNCHANGED <<todo, motors_unsure>>
    BY <1>6 DEF handle_timer
  <2>2. cx["wdt"] + 1 < CI_WDT
    BY <1>1, <1>2, <1>6, Constants DEF wdt_due
  <2>3. since_js' < CI_WDT <=> since_js < CI_WDT
    BY <1>1, <1>3, <2>2, Constants
  <2>4. Counting'
    BY <1>1, <1>3, <2>1, <2>2, <2>3, Constants DEF Counting
  <2>5. \A o \in Motors : asked'[o] = asked[o]
    <3>1. (since_js' >= CI_WDT) = (since_js >= CI_WDT)
      BY <1>1, <1>3, <2>2, Constants
    <3>2. CASE since_js >= CI_WDT
      BY <3>1, <3>2 DEF asked
    <3>3. CASE ~(since_js >= CI_WDT)
      <4>1. ASSUME NEW o \in Motors PROVE asked'[o] = asked[o]
        BY <1>3, <3>1, <3>3 DEF asked, Motors
      <4> QED
        BY <4>1
    <3> QED
      BY <3>2, <3>3
  <2>6. Standing' /\ Booting' /\ Driving'
    BY <1>1, <1>3, <2>1, <2>5 DEF MotorInv, Standing, Booting, Driving
  <2> QED
    BY <1>4, <2>4, <2>6 DEF MotorInv
<1> QED
  BY <1>5, <1>6

\* A handler ends, or handle_timer goes on to its counters.
LEMMA MotorHandlerEnds ==
  ASSUME TypeOK, MotorInv,
         todo = <<>>, UNCHANGED <<todo, duty, left_pwm, right_pwm>>,
         UNCHANGED <<last_js, since_js, motors_unsure>>,
         mpc' \in {"recv", "thermal", "batt", "stats"},
         cx' \in [Counters -> 0..CX_RANGE-1],
         \/ mpc # "wdt" /\ cx'["wdt"] = cx["wdt"]
         \/ mpc = "wdt" /\ cx'["wdt"] = 0
  PROVE  MotorInv'
<1>1. asked' = asked
  BY AskedKept
<1>2. Booting' /\ Driving' /\ Reporting'
  BY DEF MotorInv, Booting, Driving, Reporting
<1>3. Counting'
  BY Constants DEF MotorInv, Counting
<1>4. ASSUME mpc \in {"js", "wdt"}, ~motors_unsure PROVE \A o \in Motors : duty[o] = asked[o]
  <2>1. 4 - Len(todo) = 4
    OBVIOUS
  <2>2. \A i \in 1..4 : duty[Letters[i]] = asked[Letters[i]]
    BY <1>4, <2>1 DEF MotorInv, Driving
  <2> QED
    BY <2>2, AskedLetters
<1>5. Standing'
  BY <1>1, <1>4 DEF MotorInv, Standing
<1> QED
  BY <1>2, <1>3, <1>5 DEF MotorInv

LEMMA MotorRestart ==
  ASSUME TypeOK, MotorInv, Restart
  PROVE  MotorInv'
<1>1. pwm(0) = 0
  BY PwmType
<1>2. Booting' /\ Driving' /\ Standing'
  BY BootCalls DEF Restart, Booting, Driving, Standing
<1>3. Counting' /\ Reporting'
  BY <1>1, Constants DEF Restart, Counting, Reporting, Counters, JS
<1> QED
  BY <1>2, <1>3 DEF MotorInv

LEMMA MotorStep == TypeOK /\ TypeOK' /\ MotorInv /\ [Next]_vars => MotorInv'
<1> SUFFICES ASSUME TypeOK, TypeOK', MotorInv, [Next]_vars PROVE MotorInv'
  OBVIOUS
<1>1. CASE TimerSleeps \/ TimerSends \/ \E t \in Threads : SendJs(t) \/ LedArgument(t)
  <2>1. UNCHANGED main /\ UNCHANGED duty /\ UNCHANGED history
    BY Zenon, <1>1 DEF TimerSleeps, TimerSends, SendJs, LedArgument
  <2> QED
    BY <2>1, MotorAside DEF history
<1>2. CASE UdpJs \/ WsJs
  <2>1. UNCHANGED main /\ UNCHANGED duty /\ UNCHANGED history
    BY <1>2 DEF UdpJs, WsJs, Command
  <2> QED
    BY <2>1, MotorAside DEF history
<1>3. CASE \E t \in Threads : LedStore(t)
  <2>1. UNCHANGED main /\ UNCHANGED duty /\ UNCHANGED <<last_js, since_js, motors_unsure, thr_gap>>
    BY Zenon, <1>3 DEF LedStore, Command
  <2> QED
    BY <2>1, MotorAside
<1>4. ASSUME NEW t \in Threads, LedCall(t) PROVE MotorInv'
  <2>1. UNCHANGED main /\ UNCHANGED <<last_js, since_js, motors_unsure>>
    BY <1>4 DEF LedCall
  <2> DEFINE c == pwmDuty("L", thread[t][1].duty)
  <2>2. executes(c) \/ UNCHANGED duty
    BY <1>4 DEF LedCall, answered, given_up
  <2>3. c.out = "L"
    BY DEF pwmDuty
  <2>4. "L" \notin Motors
    BY DEF Motors
  <2> HIDE DEF c
  <2>5. \A o \in Motors : duty'[o] = duty[o]
    BY <2>2, <2>3, <2>4 DEF executes, TypeOK, Outputs
  <2> QED
    BY <2>1, <2>5, MotorAside
<1>5. CASE MainCall
  BY <1>5, MotorMainCall
<1>6. CASE HandlerDone
  <2>1. mpc # "wdt" /\ todo = <<>> /\ mpc' = "recv"
        /\ UNCHANGED <<todo, cx, duty, left_pwm, right_pwm, last_js, since_js, motors_unsure>>
    BY <1>6 DEF HandlerDone, history
  <2> QED
    BY <2>1, MotorHandlerEnds DEF TypeOK
<1>7. CASE handle_js
  BY <1>7, MotorHandleJs
<1>8. CASE handle_timer
  BY <1>8, MotorHandleTimer
<1>9. CASE WdtReset
  <2>1. mpc = "wdt" /\ todo = <<>> /\ mpc' = "thermal" /\ cx'["wdt"] = 0
        /\ UNCHANGED <<todo, duty, left_pwm, right_pwm, last_js, since_js, motors_unsure>>
    BY <1>9 DEF WdtReset, history, TypeOK, Counters
  <2> QED
    BY <2>1, MotorHandlerEnds DEF TypeOK
<1>10. CASE Thermal \/ Battery \/ Stats
  <2>1. /\ mpc \in {"thermal", "batt", "stats"} /\ mpc' \in {"recv", "batt", "stats"}
        /\ UNCHANGED <<todo, duty, left_pwm, right_pwm, last_js, since_js, motors_unsure>>
    BY <1>10 DEF Thermal, Battery, Stats, history
  <2>2. cx'["wdt"] = cx["wdt"]
    BY <1>10 DEF Thermal, Battery, Stats, TypeOK, Counters
  <2>3. todo = <<>>
    BY <2>1 DEF MotorInv, Standing
  <2> QED
    BY <2>1, <2>2, <2>3, MotorHandlerEnds DEF TypeOK
<1>11. CASE SlaveResets
  <2>1. UNCHANGED main /\ UNCHANGED <<last_js, since_js>> /\ motors_unsure' = TRUE
    BY <1>11 DEF SlaveResets
  <2> QED
    BY <2>1, MotorAside
<1>12. CASE Restart
  BY <1>12, MotorRestart
<1>13. CASE UNCHANGED vars
  <2>1. UNCHANGED main /\ UNCHANGED duty /\ UNCHANGED history
    BY Zenon, <1>13 DEF vars
  <2> QED
    BY <2>1, MotorAside DEF history
<1> QED
  BY <1>1, <1>2, <1>3, <1>4, <1>5, <1>6, <1>7, <1>8, <1>9, <1>10, <1>11, <1>12, <1>13
     DEF Next, Timer, Main, ThreadStep

-----------------------------------------------------------------------------
(* The LED. *)

LEMMA LedInit == Init => LedInv
<1> SUFFICES ASSUME Init PROVE LedInv
  OBVIOUS
<1>1. \A t \in Threads : ~led_busy(t)
  BY DEF Init, led_busy
<1>2. led_duty(0) % 256 = 0
  <2>1. UINT_RANGE \in Nat \ {0}
    BY InputAssumption
  <2>2. (0 * 255) % UINT_RANGE = 0 /\ (0 \div 100) % 256 = 0
    BY <2>1
  <2> QED
    BY <2>2 DEF led_duty
<1>3. duty["L"] = 0 /\ led_pwm = 0
  BY DEF Init, Outputs
<1> QED
  BY <1>1, <1>2, <1>3 DEF LedInv

\* A step that neither touches an LED command nor the LED.
LEMMA LedAside ==
  ASSUME TypeOK, LedInv, UNCHANGED <<led_pwm, led_unsure>>, duty'["L"] = duty["L"],
         \A t \in Threads : \/ thread'[t] = thread[t]
                            \/ ~led_busy(t) /\ ~led_busy(t)'
  PROVE  LedInv'
<1>1. \A t \in Threads : led_busy(t)' <=> led_busy(t)
  BY DEF led_busy
<1>2. \A t \in Threads : led_busy(t)' => thread'[t] = thread[t]
  BY DEF led_busy
<1> QED
  BY ZenonT(30), <1>1, <1>2 DEF LedInv

LEMMA LedStoreStep ==
  ASSUME TypeOK, LedInv, NEW t \in Threads, LedStore(t)
  PROVE  LedInv'
<1>1. /\ thread' = [thread EXCEPT ![t] = <<[type |-> "stored"]>>]
      /\ led_unsure' = (\E u \in Threads : led_busy(u))
  BY Zenon DEF LedStore, Command
<1> SUFFICES ASSUME ~led_unsure' PROVE LedInv'
  BY DEF LedInv
<1>2. \A u \in Threads : ~led_busy(u)
  BY Zenon, <1>1
<1>3. /\ thread'[t] = <<[type |-> "stored"]>>
      /\ \A u \in Threads : u # t => thread'[u] = thread[u]
  BY <1>1 DEF TypeOK
<1>4. led_busy(t)' /\ thread'[t][1].type = "stored"
  BY <1>3 DEF led_busy
<1>5. \A u \in Threads : led_busy(u)' => u = t
  BY <1>2, <1>3 DEF led_busy
<1> QED
  BY <1>4, <1>5 DEF LedInv

LEMMA LedArgumentStep ==
  ASSUME TypeOK, LedInv, NEW t \in Threads, LedArgument(t)
  PROVE  LedInv'
<1> DEFINE x == [type |-> "call", duty |-> led_duty(led_pwm)]
<1>1. /\ thread[t] # <<>> /\ thread[t][1].type = "stored"
      /\ thread' = [thread EXCEPT ![t] = <<x>>]
      /\ UNCHANGED <<led_pwm, led_unsure, duty>>
  BY DEF LedArgument, history
<1>2. x.type = "call" /\ x.duty = led_duty(led_pwm)
  OBVIOUS
<1> HIDE DEF x
<1>3. /\ thread'[t] = <<x>> /\ \A u \in Threads : u # t => thread'[u] = thread[u]
  BY <1>1 DEF TypeOK
<1>4. led_busy(t) /\ led_busy(t)' /\ thread'[t][1].duty = led_duty(led_pwm)
  BY <1>1, <1>2, <1>3 DEF led_busy
<1>5. \A u \in Threads : led_busy(u)' <=> led_busy(u)
  BY <1>3, <1>4 DEF led_busy
<1>6. \A u \in Threads : led_busy(u)' => u = t \/ thread'[u] = thread[u]
  BY <1>3
<1> QED
  BY <1>1, <1>4, <1>5, <1>6 DEF LedInv

LEMMA LedCallStep ==
  ASSUME TypeOK, LedInv, NEW t \in Threads, LedCall(t)
  PROVE  LedInv'
<1> DEFINE d == thread[t][1].duty
           c == pwmDuty("L", d)
<1>1. /\ thread[t] # <<>> /\ thread[t][1].type = "call"
      /\ thread' = [thread EXCEPT ![t] = <<>>] /\ led_pwm' = led_pwm
      /\ (answered(c) /\ UNCHANGED led_unsure) \/ led_unsure' = TRUE
  BY DEF LedCall
<1> SUFFICES ASSUME ~led_unsure' PROVE LedInv'
  BY DEF LedInv
<1>2. answered(c) /\ ~led_unsure
  BY <1>1
<1>3. led_busy(t)
  BY <1>1 DEF led_busy
<1>4. d = led_duty(led_pwm) /\ \A u \in Threads : led_busy(u) => u = t
  BY <1>1, <1>2, <1>3 DEF LedInv
<1>5. thread'[t] = <<>> /\ \A u \in Threads : u # t => thread'[u] = thread[u]
  BY <1>1 DEF TypeOK
<1>6. \A u \in Threads : ~led_busy(u)'
  BY <1>4, <1>5 DEF led_busy
<1>7. duty'["L"] = led_duty(led_pwm') % 256
  <2>1. c.op = "pwmDuty" /\ c.out = "L" /\ c.duty = led_duty(led_pwm) % 256
    BY <1>4 DEF pwmDuty
  <2> HIDE DEF c
  <2> QED
    BY <1>1, <1>2, <2>1 DEF answered, executes, TypeOK, Outputs
<1> QED
  BY <1>6, <1>7 DEF LedInv

LEMMA LedStep == TypeOK /\ TypeOK' /\ MotorInv /\ LedInv /\ [Next]_vars => LedInv'
<1> SUFFICES ASSUME TypeOK, TypeOK', MotorInv, LedInv, [Next]_vars PROVE LedInv'
  OBVIOUS
<1>a. ASSUME UNCHANGED <<led_pwm, thread, led_unsure>>, duty'["L"] = duty["L"] PROVE LedInv'
  BY <1>a, LedAside
<1>1. CASE TimerSleeps \/ TimerSends
  <2>1. UNCHANGED <<led_pwm, thread, led_unsure, duty>>
    BY <1>1 DEF TimerSleeps, TimerSends, history
  <2> QED
    BY <1>a, <2>1
<1>2. CASE HandlerDone \/ handle_js \/ handle_timer \/ WdtReset \/ Thermal \/ Battery \/ Stats
  <2>1. UNCHANGED aside /\ UNCHANGED duty /\ UNCHANGED led_unsure
    BY <1>2 DEF HandlerDone, handle_js, handle_timer, WdtReset, Thermal, Battery, Stats, history
  <2> QED
    BY <1>a, <2>1 DEF aside
<1>3. ASSUME NEW t \in Threads, NEW doing, doing.type = "JS", Command(t, doing),
             UNCHANGED <<led_pwm, led_unsure>>
      PROVE  LedInv'
  <2>1. /\ thread[t] = <<>> /\ thread' = [thread EXCEPT ![t] = <<doing>>] /\ duty' = duty
    BY <1>3 DEF Command
  <2>2. thread'[t] = <<doing>> /\ \A u \in Threads : u # t => thread'[u] = thread[u]
    BY <2>1 DEF TypeOK
  <2>3. ~led_busy(t) /\ ~led_busy(t)'
    BY <1>3, <2>1, <2>2 DEF led_busy
  <2> QED
    BY <1>3, <2>1, <2>2, <2>3, LedAside
<1>4. CASE UdpJs
  <2>1. PICK l, r \in UdpFields : Command("udp", JS(l - 1500, r - 1500))
    BY <1>4 DEF UdpJs
  <2>2. JS(l - 1500, r - 1500).type = "JS" /\ "udp" \in Threads
    BY DEF JS, Threads
  <2>3. UNCHANGED <<led_pwm, led_unsure>>
    BY <1>4 DEF UdpJs, history
  <2> QED
    BY <1>3, <2>1, <2>2, <2>3
<1>5. CASE WsJs
  <2>1. PICK s \in WsSticks : Command("ws", JS(s[1] * 5, s[2] * 5))
    BY <1>5 DEF WsJs
  <2>2. JS(s[1] * 5, s[2] * 5).type = "JS" /\ "ws" \in Threads
    BY DEF JS, Threads
  <2>3. UNCHANGED <<led_pwm, led_unsure>>
    BY <1>5 DEF WsJs, history
  <2> QED
    BY <1>3, <2>1, <2>2, <2>3
<1>6. ASSUME NEW t \in Threads, SendJs(t) PROVE LedInv'
  <2>1. /\ thread[t][1].type = "JS" /\ thread' = [thread EXCEPT ![t] = <<>>]
        /\ UNCHANGED <<led_pwm, led_unsure, duty>>
    BY <1>6 DEF SendJs, history
  <2>2. thread'[t] = <<>> /\ \A u \in Threads : u # t => thread'[u] = thread[u]
    BY <2>1 DEF TypeOK
  <2>3. ~led_busy(t) /\ ~led_busy(t)'
    BY <2>1, <2>2 DEF led_busy
  <2> QED
    BY <2>1, <2>2, <2>3, LedAside
<1>7. ASSUME NEW t \in Threads, LedStore(t) \/ LedArgument(t) \/ LedCall(t) PROVE LedInv'
  BY <1>7, LedStoreStep, LedArgumentStep, LedCallStep
<1>8. CASE MainCall
  <2>1. UNCHANGED <<led_pwm, thread, led_unsure>> /\ (executes(Head(todo)) \/ duty' = duty)
    BY <1>8 DEF MainCall, aside, answered, given_up
  <2>2. Len(todo) \in Nat \ {0} /\ Head(todo) = todo[1]
    BY <1>8 DEF MainCall, TypeOK
  <2>3. todo[1].op = "pwmDuty" => todo[1].out \in Motors
    <3>1. mpc \in {"boot", "js", "wdt"}
      BY <1>8 DEF MainCall, MotorInv, Standing
    <3>2. CASE mpc = "boot"
      BY <2>2, <3>2 DEF MotorInv, Booting
    <3>3. CASE mpc \in {"js", "wdt"}
      <4>1. /\ 4 - Len(todo) \in 0..4
            /\ \A i \in 1..Len(todo) :
                 todo[i] = [op |-> "pwmDuty", out |-> Letters[4 - Len(todo) + i],
                            duty |-> asked[Letters[4 - Len(todo) + i]]]
        BY <3>3 DEF MotorInv, Driving
      <4>2. todo[1].out = Letters[4 - Len(todo) + 1]
        <5>1. 1 \in 1..Len(todo)
          BY <2>2
        <5>2. todo[1] = [op |-> "pwmDuty", out |-> Letters[4 - Len(todo) + 1],
                         duty |-> asked[Letters[4 - Len(todo) + 1]]]
          BY <4>1, <5>1
        <5> QED
          BY <5>2
      <4>3. \A n \in Nat \ {0} : 4 - n \in 0..4 => 4 - n + 1 \in 1..4
        OBVIOUS
      <4>4. \A i \in 1..4 : Letters[i] \in Motors
        BY DEF Letters, Motors
      <4>5. 4 - Len(todo) + 1 \in 1..4
        BY <2>2, <4>1, <4>3
      <4> QED
        BY <4>2, <4>4, <4>5
    <3> QED
      BY <3>1, <3>2, <3>3
  <2>4. duty'["L"] = duty["L"]
    BY <2>1, <2>2, <2>3 DEF executes, TypeOK, Motors, Outputs
  <2> QED
    BY <1>a, <2>1, <2>4
<1>9. CASE SlaveResets \/ Restart
  BY <1>9 DEF SlaveResets, Restart, LedInv
<1>10. CASE UNCHANGED vars
  BY <1>a, <1>10 DEF vars, history
<1> QED
  BY <1>1, <1>2, <1>4, <1>5, <1>6, <1>7, <1>8, <1>9, <1>10 DEF Next, Timer, Main, ThreadStep

-----------------------------------------------------------------------------
(* Theorems. *)

\* The parts of the invariant hold together, whatever the threads, the slave and
\* restarts do.
THEOREM RoverInvariant == Spec => []RoverInv
<1>1. Init => RoverInv
  BY InitType, MotorInit, LedInit DEF RoverInv
<1>2. RoverInv /\ [Next]_vars => RoverInv'
  BY TypeStep, MotorStep, LedStep DEF RoverInv
<1> QED
  BY <1>1, <1>2, PTL DEF Spec

\* main_app's state stays within its types: the queue never holds more than the
\* socketpair does, the duties sent fit uint8_t and the counters wrap.
THEOREM RoverTypeCorrect == Spec => []TypeOK
BY RoverInvariant, PTL DEF RoverInv

\* Between handlers the motors stand as the last position handled and the table in
\* handle_js ask for, or stopped by the watchdog, unless a call failed or the slave
\* was reset.
THEOREM MotorsAlwaysFollow == Spec => []MotorsFollow
<1>1. RoverInv => MotorsFollow
  BY DEF RoverInv, MotorInv, Standing, MotorsFollow
<1> QED
  BY <1>1, RoverInvariant, PTL

\* What the calls made so far have left on each side.
LEMMA SidesStand ==
  ASSUME RoverInv, ~motors_unsure
  PROVE  /\ told(2) => duty["A"] = asked["A"] /\ duty["B"] = asked["B"]
         /\ told(0) => duty["C"] = asked["C"] /\ duty["D"] = asked["D"]
<1>1. CASE mpc \notin {"js", "wdt"}
  <2>1. \A o \in Motors : duty[o] = asked[o]
    BY <1>1 DEF RoverInv, MotorInv, Standing
  <2> QED
    BY <2>1 DEF Motors
<1>2. CASE mpc \in {"js", "wdt"}
  <2>1. /\ 4 - Len(todo) \in 0..4 /\ Len(todo) \in Nat
        /\ \A i \in 1..(4 - Len(todo)) : duty[Letters[i]] = asked[Letters[i]]
    BY <1>2 DEF RoverInv, TypeOK, MotorInv, Driving
  <2>2. /\ told(2) => 1 \in 1..(4 - Len(todo)) /\ 2 \in 1..(4 - Len(todo))
        /\ told(0) => 3 \in 1..(4 - Len(todo)) /\ 4 \in 1..(4 - Len(todo))
    BY <1>2, <2>1 DEF told
  <2>3. Letters[1] = "A" /\ Letters[2] = "B" /\ Letters[3] = "C" /\ Letters[4] = "D"
    BY DEF Letters
  <2> QED
    BY <2>1, <2>2, <2>3
<1> QED
  BY <1>1, <1>2

\* Once the calls of a side have been made, the duty reported for it and fed to the
\* thermal model is the one its bridge runs at, or the bridge stands; a given-up
\* call, a slave reset or a restart separates them only until the next position or
\* the watchdog has driven the side.
THEOREM PowerReported == Spec => []DutiesReported
<1>1. RoverInv => DutiesReported
  <2> SUFFICES ASSUME RoverInv, ~motors_unsure
               PROVE  /\ told(2) => duty["A"] + duty["B"] \in {0, left_pwm % 256}
                      /\ told(0) => duty["C"] + duty["D"] \in {0, right_pwm % 256}
    BY DEF DutiesReported
  <2>1. TypeOK
    BY DEF RoverInv
  <2>2. left_pwm = pwm(last_js.left) /\ right_pwm = pwm(last_js.right)
    BY DEF RoverInv, MotorInv, Reporting
  <2>3. /\ told(2) => duty["A"] = asked["A"] /\ duty["B"] = asked["B"]
        /\ told(0) => duty["C"] = asked["C"] /\ duty["D"] = asked["D"]
    BY SidesStand
  <2>4. last_js.left \in Int /\ last_js.right \in Int /\ since_js \in Int
    BY <2>1 DEF TypeOK, JsMessages
  <2>5. pwm(last_js.left) % 256 \in Int /\ pwm(last_js.right) % 256 \in Int
    BY <2>4, PwmType DEF Byte
  <2>6. /\ asked["A"] + asked["B"] \in {0, left_pwm % 256}
        /\ asked["C"] + asked["D"] \in {0, right_pwm % 256}
    <3>1. CASE since_js >= CI_WDT
      <4>1. asked["A"] = 0 /\ asked["B"] = 0 /\ asked["C"] = 0 /\ asked["D"] = 0
        BY <2>1, <3>1, AskedLetters DEF Motors
      <4> QED
        BY <4>1
    <3>2. CASE since_js < CI_WDT
      <4>1. /\ asked["A"] = IF last_js.left > 0 THEN pwm(last_js.left) % 256 ELSE 0
            /\ asked["B"] = IF last_js.left < 0 THEN pwm(last_js.left) % 256 ELSE 0
            /\ asked["C"] = IF last_js.right < 0 THEN pwm(last_js.right) % 256 ELSE 0
            /\ asked["D"] = IF last_js.right > 0 THEN pwm(last_js.right) % 256 ELSE 0
        BY <2>1, <3>2, AskedLetters
      <4> QED
        BY <2>2, <2>4, <2>5, <4>1
    <3> QED
      BY <2>4, <3>1, <3>2, Constants
  <2> HIDE DEF told
  <2> QED
    BY <2>3, <2>6
<1> QED
  BY <1>1, RoverInvariant, PTL

\* When no LED command is being executed the LED stands at the duty that led_pwm
\* reports, unless since the last command that ran alone one overlapped, a call
\* failed or the slave was reset.
THEOREM LedAlwaysReported == Spec => []LedReported
<1>1. RoverInv => LedReported
  BY DEF RoverInv, LedInv, LedReported
<1> QED
  BY <1>1, RoverInvariant, PTL
=============================================================================
