------------------------------ MODULE RoverApp ------------------------------
(***************************************************************************)
(* The rover's control program (rover/src/app.cpp, class main_app): the    *)
(* udp, ws and timer threads feed one bounded queue, the main thread takes *)
(* joystick positions and timer ticks from it and drives the two H-bridges *)
(* through ArduinoSlave, with a watchdog that stops them.  LED commands    *)
(* are executed by the udp and ws threads themselves.                      *)
(*                                                                         *)
(* A call of ArduinoSlave is one step, its mutex makes calls exclusive: it *)
(* is answered, or the driver gives up silently and the slave may or may   *)
(* not have executed it (SerialLink, DutyRegister).  The telemetry that    *)
(* nothing but the stats reply reads is left out, with its file formats.   *)
(***************************************************************************)
EXTENDS Integers, Sequences

CONSTANTS
  QLEN,         \* datagrams the socketpair holds before send() blocks
  CI_WDT, CI_THR, CI_FAN, CI_BATT, CI_SLAVE_TRX, CI_WLAN,   \* TIMER_CI_*
  CX_RANGE,     \* values of an unsigned timer_cx_* (2^32)
  UINT_RANGE,   \* values of the unsigned led_pwm is multiplied in (2^32)
  UdpFields,    \* four-character stick fields, of which handle_udp checks no digit
                \* but a datagram's first
  WsSticks,     \* <<left, right>> of the "js" commands, in percent; handle_ws checks
                \* nothing, and a missing one reads as any
  LedPercents,  \* arguments of "led"; a missing one reads as any
  COMMANDS,     \* bound on the operator's commands
  FAILURES      \* bound on slave calls given up, slave resets and restarts of the program

ASSUME QueueAssumption  == QLEN \in Nat \ {0}
ASSUME PeriodAssumption ==
  /\ CX_RANGE \in Nat
  /\ \A ci \in {CI_WDT, CI_THR, CI_FAN, CI_BATT, CI_SLAVE_TRX, CI_WLAN} :
       ci \in Nat \ {0} /\ ci < CX_RANGE
ASSUME InputAssumption  ==
  /\ UdpFields \subseteq Int
  /\ WsSticks \subseteq Int \X Int
  /\ UINT_RANGE \in Nat \ {0} /\ LedPercents \subseteq 0..UINT_RANGE-1
  /\ COMMANDS \in Nat /\ FAILURES \in Nat

Byte      == 0..255
PWM_RANGE == 255

\* The outputs, by the letters of the table at the top of app.cpp.
Motors   == {"A", "B", "C", "D"}
Outputs  == Motors \union {"L"}
Counters == {"wdt", "thr", "fan", "batt", "slave_trx", "wlan"}
Threads  == {"udp", "ws"}

VARIABLES
  queue,        \* the queue_socks pair: ticks and joystick positions, oldest first
  mpc,          \* where the main thread is
  todo,         \* the slave calls left in the handler it runs
  cx,           \* timer_cx_*
  left_pwm, right_pwm, led_pwm,
  thread,       \* what the udp and the ws thread are doing
  tick,         \* the timer thread has a tick to send
  duty,         \* the slave's duty registers
  commands, failures

main == <<mpc, todo, cx, left_pwm, right_pwm>>

(***************************************************************************)
(* History, for the properties: the position handled last and the ticks    *)
(* handled since, whether a motor call failed (or the slave was reset)     *)
(* since the last set of four was begun, the same for the LED since the    *)
(* last command that no other was under way with, and the ticks since the  *)
(* thermal model last advanced.                                            *)
(***************************************************************************)
VARIABLES last_js, since_js, motors_unsure, led_unsure, thr_gap
history == <<last_js, since_js, motors_unsure, led_unsure, thr_gap>>

vars == <<queue, main, led_pwm, thread, tick, duty, commands, failures, history>>

-----------------------------------------------------------------------------
(* Slave calls. *)

pinMode(o)     == [op |-> "pinMode", out |-> o, duty |-> 0]
initPwm(o)     == [op |-> "initPwm", out |-> o, duty |-> 0]
pwmDuty(o, d)  == [op |-> "pwmDuty", out |-> o, duty |-> d % 256]   \* uint8_t duty
Calls == [op : {"pinMode", "initPwm", "pwmDuty"}, out : Outputs, duty : Byte]

\* The slave executes the call c.
executes(c) == duty' = IF c.op = "pwmDuty" THEN [duty EXCEPT ![c.out] = c.duty] ELSE duty

\* The call is answered, or not known to have done what it asked: given up after its
\* retries, executed or not, or answered in an attempt that lost a byte, when the
\* slave may have taken the rest for another command.  main_app cannot tell, its
\* calls return nothing.
answered(c) == executes(c) /\ UNCHANGED failures
given_up(c) ==
  /\ failures < FAILURES
  /\ failures' = failures + 1
  /\ executes(c) \/ UNCHANGED duty

-----------------------------------------------------------------------------
(* Joystick positions. *)

JS(left, right) == [type |-> "JS", left |-> left, right |-> right]
TIMER == [type |-> "TIMER"]

abs(y) == IF y < 0 THEN -y ELSE y

\* abs(y / 500) * PWM_RANGE * thr_limit, truncated; thr_limit stays 1.
pwm(y) == (abs(y) * PWM_RANGE) \div 500

left_reversed(l) == IF l > 0 THEN <<pwmDuty("A", 0), pwmDuty("B", pwm(l))>>
                    ELSE <<pwmDuty("A", pwm(l)), pwmDuty("B", 0)>>
drive_left(l)  == IF l > 0 THEN <<pwmDuty("A", pwm(l)), pwmDuty("B", 0)>>
                  ELSE <<pwmDuty("A", 0), pwmDuty("B", pwm(l))>>
drive_right(r) == IF r > 0 THEN <<pwmDuty("C", 0), pwmDuty("D", pwm(r))>>
                  ELSE <<pwmDuty("C", pwm(r)), pwmDuty("D", 0)>>
stop == <<pwmDuty("A", 0), pwmDuty("B", 0), pwmDuty("C", 0), pwmDuty("D", 0)>>

-----------------------------------------------------------------------------
\* The constructor's calls, made after the threads have been started.
boot_calls ==
  <<pinMode("A"), pinMode("B"), pinMode("C"), pinMode("D"), pinMode("L"),
    initPwm("A"), initPwm("B"), initPwm("C"), initPwm("D"), initPwm("L")>>

Init ==
  /\ queue = <<>> /\ mpc = "boot" /\ todo = boot_calls
  /\ cx = [c \in Counters |-> 0]
  /\ left_pwm = 0 /\ right_pwm = 0 /\ led_pwm = 0
  /\ thread = [t \in Threads |-> <<>>] /\ tick = FALSE
  /\ duty = [o \in Outputs |-> 0]
  /\ commands = 0 /\ failures = 0
  /\ last_js = JS(0, 0) /\ since_js = 0
  /\ motors_unsure = FALSE /\ led_unsure = FALSE /\ thr_gap = 0

-----------------------------------------------------------------------------
(* The threads.  thread[t] is <<>> while t waits for a command, the          *)
(* position it is sending to the queue, or how far an LED command has got.   *)

has_room == Len(queue) < QLEN

\* run_timer: sleep, then send the tick, which blocks while the queue is full.
TimerSleeps ==
  /\ ~tick /\ tick' = TRUE
  /\ UNCHANGED <<queue, led_pwm, thread, commands, failures>>
  /\ UNCHANGED main /\ UNCHANGED duty /\ UNCHANGED history

TimerSends ==
  /\ tick /\ has_room
  /\ queue' = Append(queue, TIMER)
  /\ tick' = FALSE
  /\ UNCHANGED <<led_pwm, thread, commands, failures>>
  /\ UNCHANGED main /\ UNCHANGED duty /\ UNCHANGED history

Command(t, doing) ==
  /\ thread[t] = <<>> /\ commands < COMMANDS
  /\ commands' = commands + 1
  /\ thread' = [thread EXCEPT ![t] = <<doing>>]
  /\ UNCHANGED <<queue, tick, failures>>
  /\ UNCHANGED main /\ UNCHANGED duty

\* handle_udp: the fields are read at fixed offsets of a buffer that keeps older
\* datagrams, so a short datagram reads as any position.
UdpJs ==
  /\ \E l, r \in UdpFields : Command("udp", JS(l - 1500, r - 1500))
  /\ UNCHANGED led_pwm /\ UNCHANGED history

\* handle_ws, "js"
WsJs ==
  /\ \E s \in WsSticks : Command("ws", JS(s[1] * 5, s[2] * 5))
  /\ UNCHANGED led_pwm /\ UNCHANGED history

SendJs(t) ==
  /\ thread[t] # <<>> /\ thread[t][1].type = "JS" /\ has_room
  /\ queue' = Append(queue, thread[t][1])
  /\ thread' = [thread EXCEPT ![t] = <<>>]
  /\ UNCHANGED <<led_pwm, tick, commands, failures>>
  /\ UNCHANGED main /\ UNCHANGED duty /\ UNCHANGED history

\* "led" in handle_cmd and handle_ws: store led_pwm, then read it back for the
\* call's argument, then make the call once the driver's mutex is free.
led_busy(t) == thread[t] # <<>> /\ thread[t][1].type \in {"stored", "call"}

LedStore(t) ==
  \E p \in LedPercents :
    /\ Command(t, [type |-> "stored"])
    /\ led_pwm' = p
    /\ led_unsure' = (\E u \in Threads : led_busy(u))
    /\ UNCHANGED <<last_js, since_js, motors_unsure, thr_gap>>

\* led_pwm*255/100 in unsigned arithmetic.
led_duty(percent) == ((percent * 255) % UINT_RANGE) \div 100

led_argument_unscaled(t) ==
  /\ thread[t] # <<>> /\ thread[t][1].type = "stored"
  /\ thread' = [thread EXCEPT ![t] = <<[type |-> "call", duty |-> led_pwm]>>]
  /\ UNCHANGED <<queue, led_pwm, tick, commands, failures>>
  /\ UNCHANGED main /\ UNCHANGED duty /\ UNCHANGED history

LedArgument(t) ==
  /\ thread[t] # <<>> /\ thread[t][1].type = "stored"
  /\ thread' = [thread EXCEPT ![t] = <<[type |-> "call", duty |-> led_duty(led_pwm)]>>]
  /\ UNCHANGED <<queue, led_pwm, tick, commands, failures>>
  /\ UNCHANGED main /\ UNCHANGED duty /\ UNCHANGED history

LedCall(t) ==
  /\ thread[t] # <<>> /\ thread[t][1].type = "call"
  /\ LET c == pwmDuty("L", thread[t][1].duty)
     IN  \/ answered(c) /\ UNCHANGED led_unsure
         \/ given_up(c) /\ led_unsure' = TRUE
  /\ thread' = [thread EXCEPT ![t] = <<>>]
  /\ UNCHANGED <<queue, led_pwm, tick, commands, last_js, since_js, motors_unsure, thr_gap>>
  /\ UNCHANGED main

-----------------------------------------------------------------------------
(* The main thread. *)

aside == <<led_pwm, thread, tick, commands>>

\* The next slave call of the constructor or of the handler that runs.
MainCall ==
  /\ todo # <<>>
  /\ \/ answered(Head(todo)) /\ UNCHANGED motors_unsure
     \/ given_up(Head(todo)) /\ motors_unsure' = TRUE
  /\ todo' = Tail(todo)
  /\ UNCHANGED aside
  /\ UNCHANGED <<queue, mpc, cx, left_pwm, right_pwm, last_js, since_js, led_unsure, thr_gap>>

\* The constructor returns, or a joystick handler does.
HandlerDone ==
  /\ mpc \in {"boot", "js"} /\ todo = <<>>
  /\ mpc' = "recv"
  /\ UNCHANGED aside /\ UNCHANGED duty /\ UNCHANGED history
  /\ UNCHANGED <<queue, todo, cx, left_pwm, right_pwm, failures>>

ticked_unwrapped(c) == cx[c] + 1
ticked(c) == (cx[c] + 1) % CX_RANGE

reported_swapped(js) == <<pwm(js.right), pwm(js.left)>>
reported(js) == <<pwm(js.left), pwm(js.right)>>

handle_js ==
  /\ mpc = "recv" /\ queue # <<>> /\ Head(queue).type = "JS"
  /\ LET js == Head(queue)
     IN  /\ left_pwm' = reported(js)[1] /\ right_pwm' = reported(js)[2]
         /\ todo' = drive_left(js.left) \o drive_right(js.right)
         /\ last_js' = js
  /\ queue' = Tail(queue)
  /\ cx' = [cx EXCEPT !["wdt"] = 0]
  /\ mpc' = "js"
  /\ since_js' = 0 /\ motors_unsure' = FALSE
  /\ UNCHANGED aside /\ UNCHANGED duty
  /\ UNCHANGED <<failures, led_unsure, thr_gap>>

wdt_unchecked == FALSE
wdt_due == CI_WDT <= ticked("wdt")

\* handle_timer takes four steps: the watchdog, its reset once the motors have
\* been told to stop, the counters up to the battery's, and the rest.
handle_timer ==
  /\ mpc = "recv" /\ queue # <<>> /\ Head(queue).type = "TIMER"
  /\ queue' = Tail(queue)
  /\ cx' = [cx EXCEPT !["wdt"] = ticked("wdt")]
  /\ IF wdt_due THEN mpc' = "wdt" /\ todo' = stop ELSE mpc' = "thermal" /\ UNCHANGED todo
  /\ since_js' = IF since_js < CI_WDT THEN since_js + 1 ELSE since_js
  /\ motors_unsure' = IF wdt_due THEN FALSE ELSE motors_unsure
  /\ UNCHANGED aside /\ UNCHANGED duty
  /\ UNCHANGED <<left_pwm, right_pwm, failures, last_js, led_unsure, thr_gap>>

WdtReset ==
  /\ mpc = "wdt" /\ todo = <<>>
  /\ cx' = [cx EXCEPT !["wdt"] = 0]
  /\ mpc' = "thermal"
  /\ UNCHANGED aside /\ UNCHANGED duty /\ UNCHANGED history
  /\ UNCHANGED <<queue, todo, left_pwm, right_pwm, failures>>

\* timer_cx_thr is not reset when the thermal model advances; timer_cx_fan is.
thermal_due == CI_THR <= ticked("thr")

Thermal ==
  /\ mpc = "thermal"
  /\ cx' = [cx EXCEPT !["thr"] = ticked("thr"),
                      !["fan"] = IF CI_FAN <= ticked("fan") THEN 0 ELSE ticked("fan"),
                      !["batt"] = ticked("batt")]
  /\ mpc' = IF CI_BATT <= ticked("batt") THEN "batt" ELSE "stats"
  /\ thr_gap' = IF thermal_due THEN 0 ELSE IF thr_gap < CI_THR THEN thr_gap + 1 ELSE thr_gap
  /\ UNCHANGED aside /\ UNCHANGED duty
  /\ UNCHANGED <<queue, todo, left_pwm, right_pwm, failures, last_js, since_js,
                 motors_unsure, led_unsure>>

\* analogRead(PIN_BATT): after a failure the next tick reads again.
Battery ==
  /\ mpc = "batt"
  /\ \/ cx' = [cx EXCEPT !["batt"] = 0] /\ UNCHANGED failures
     \/ failures < FAILURES /\ failures' = failures + 1 /\ UNCHANGED cx
  /\ mpc' = "stats"
  /\ UNCHANGED aside /\ UNCHANGED duty /\ UNCHANGED history
  /\ UNCHANGED <<queue, todo, left_pwm, right_pwm>>

Stats ==
  /\ mpc = "stats"
  /\ cx' = [cx EXCEPT
       !["slave_trx"] = IF CI_SLAVE_TRX <= ticked("slave_trx") THEN 0 ELSE ticked("slave_trx"),
       !["wlan"] = IF CI_WLAN <= ticked("wlan") THEN 0 ELSE ticked("wlan")]
  /\ mpc' = "recv"
  /\ UNCHANGED aside /\ UNCHANGED duty /\ UNCHANGED history
  /\ UNCHANGED <<queue, todo, left_pwm, right_pwm, failures>>

\* The slave resets: its duties are gone and nobody tells main_app.
SlaveResets ==
  /\ failures < FAILURES
  /\ failures' = failures + 1
  /\ duty' = [o \in Outputs |-> 0]
  /\ motors_unsure' = TRUE /\ led_unsure' = TRUE
  /\ UNCHANGED aside /\ UNCHANGED main
  /\ UNCHANGED <<queue, last_js, since_js, thr_gap>>

\* The process dies and is started again: everything it held is gone.  The slave
\* keeps its duties, or is reset by the opening of the tty; the constructor does
\* not stop the motors.
Restart ==
  /\ failures < FAILURES
  /\ failures' = failures + 1
  /\ queue' = <<>> /\ mpc' = "boot" /\ todo' = boot_calls
  /\ cx' = [c \in Counters |-> 0]
  /\ left_pwm' = 0 /\ right_pwm' = 0 /\ led_pwm' = 0
  /\ thread' = [t \in Threads |-> <<>>] /\ tick' = FALSE
  /\ duty' \in {duty, [o \in Outputs |-> 0]}
  /\ last_js' = JS(0, 0) /\ since_js' = 0
  /\ motors_unsure' = TRUE /\ led_unsure' = TRUE /\ thr_gap' = 0
  /\ UNCHANGED commands

-----------------------------------------------------------------------------
Timer == TimerSleeps \/ TimerSends
Main  == \/ MainCall \/ HandlerDone \/ handle_js \/ handle_timer
         \/ WdtReset \/ Thermal \/ Battery \/ Stats
ThreadStep(t) == SendJs(t) \/ LedArgument(t) \/ LedCall(t)

Next ==
  \/ Timer \/ Main \/ UdpJs \/ WsJs \/ SlaveResets \/ Restart
  \/ \E t \in Threads : ThreadStep(t) \/ LedStore(t)

Spec == Init /\ [][Next]_vars

\* The operating system keeps scheduling the main and the timer thread, a slave
\* call returns (SerialLink) and the timer's sleep ends.
FairSpec == Spec /\ WF_vars(Main) /\ WF_vars(Timer)

-----------------------------------------------------------------------------
JsMessages == [type : {"JS"}, left : Int, right : Int]
Messages   == JsMessages \union {TIMER}
Doing      == JsMessages \union [type : {"stored"}] \union [type : {"call"}, duty : Nat]

TypeOK ==
  /\ queue \in Seq(Messages) /\ Len(queue) <= QLEN
  /\ mpc \in {"boot", "recv", "js", "wdt", "thermal", "batt", "stats"}
  /\ todo \in Seq(Calls)
  /\ cx \in [Counters -> 0..CX_RANGE-1]
  /\ left_pwm \in Nat /\ right_pwm \in Nat /\ led_pwm \in Nat
  /\ thread \in [Threads -> Seq(Doing)] /\ (\A t \in Threads : Len(thread[t]) <= 1)
  /\ tick \in BOOLEAN
  /\ duty \in [Outputs -> Byte]
  /\ commands \in 0..COMMANDS /\ failures \in 0..FAILURES
  /\ last_js \in JsMessages /\ since_js \in 0..CI_WDT /\ thr_gap \in 0..CI_THR
  /\ motors_unsure \in BOOLEAN /\ led_unsure \in BOOLEAN

stopped == \A o \in Motors : duty[o] = 0

\* The mapping table in handle_js: AB = 10 forward and 01 backward on the left,
\* CD = 01 forward and 10 backward on the right, 00 stop.
asked ==
  LET p(y) == pwm(y) % 256
      l == last_js.left
      r == last_js.right
  IN  IF since_js >= CI_WDT THEN [o \in Motors |-> 0]
      ELSE [o \in Motors |-> CASE o = "A" -> IF l > 0 THEN p(l) ELSE 0
                               [] o = "B" -> IF l < 0 THEN p(l) ELSE 0
                               [] o = "C" -> IF r < 0 THEN p(r) ELSE 0
                               [] o = "D" -> IF r > 0 THEN p(r) ELSE 0]

\* Between handlers the bridges stand as the last position handled and the mapping
\* table ask for, or at zero once CI_WDT ticks have been handled since, unless one
\* of the last four motor calls failed or the slave was reset.  LED commands of
\* other threads never disturb this.
MotorsFollow ==
  mpc = "recv" /\ ~motors_unsure => \A o \in Motors : duty[o] = asked[o]

\* The duties reported to the clients and fed to the thermal model are those the
\* bridges run at, or the bridge stands: for each side from the moment its calls
\* have been made, in a handler that still drives the other side too, until the next
\* position, and again after a given-up call, a slave reset or a restart once the
\* next position or the watchdog has driven the side.  In between they may be apart
\* either way: handle_js stores left_pwm before it makes the side's calls, a call
\* that failed leaves the old duty running, and a restarted program reports zero
\* over a bridge that runs.  After the watchdog has stopped the motors the report
\* keeps the last position.
told(calls_left) == mpc \in {"js", "wdt"} => Len(todo) <= calls_left
DutiesReported ==
  ~motors_unsure =>
    /\ told(2) => duty["A"] + duty["B"] \in {0, left_pwm % 256}
    /\ told(0) => duty["C"] + duty["D"] \in {0, right_pwm % 256}

\* When no LED command is being executed the LED has the duty led_pwm reports.  The
\* store to led_pwm and the slave call are not one atomic step, so commands of the
\* two threads that overlap may leave the two apart, as a failed call or a slave
\* reset does; the next command that runs alone puts them together again.
LedReported ==
  ~led_unsure /\ (\A t \in Threads : ~led_busy(t)) => duty["L"] = led_duty(led_pwm) % 256

\* When the operator falls silent the motors end up stopped, although calls may
\* fail and the program may have been restarted with the motors running: the
\* watchdog fires again every CI_WDT ticks, with or without a position before.
EventuallyStopped == <>[]stopped

\* app.hpp: the thermal model advances every CI_THR ticks, the time its dt covers.
ThermalPeriod == [][mpc = "thermal" /\ thermal_due => thr_gap + 1 = CI_THR]_vars
=============================================================================
