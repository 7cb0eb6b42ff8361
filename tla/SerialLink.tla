----------------------------- MODULE SerialLink -----------------------------
(***************************************************************************)
(* The rover's serial driver (rover/src/arduino.cpp, class ArduinoSlave)   *)
(* talking to the slave firmware over a line that loses bytes, stalls and  *)
(* sits behind a board that may reset.  The driver's mutex makes its calls *)
(* sequential, so one call at a time is modelled; any call may come next.  *)
(*                                                                         *)
(* Time: a Tick is one millisecond.  The slave takes a byte written to it  *)
(* before the millisecond ends (0.52 ms at 19200 baud).  Its answer may    *)
(* stay under way longer, in an interrupted loop() or in the rover's       *)
(* drivers, up to LATENCY milliseconds of an attempt.  A byte counts as    *)
(* written when the line takes it.                                         *)
(***************************************************************************)
EXTENDS SlaveFirmware

CONSTANTS
  RECV_IDLE,     \* recv's limit on idle_counter (50)
  LATENCY,       \* milliseconds of an attempt the answer may be under way
  MAX_RETRY,     \* max_retry (5)
  PinModeCalls,  \* <<pin, mode>> of the pinMode calls made
  InitPwmCalls,  \* <<timer, channel, prescale>> of the initPwm calls made
  PwmDutyCalls,  \* <<timer, channel, duty>> of the pwmDuty calls made
  AnalogPins,    \* pins read with analogRead
  STATS_CAP      \* bound on transaction_sent between two get_transaction_stats

\* recv waits longer than the slave needs to forget half a request: 52 ms to 2.
ASSUME RecvAssumption  == RECV_IDLE \in Nat /\ SLAVE_IDLE < RECV_IDLE
\* An answer is never older than an attempt: it is there before recv's last look
\* at its counter, and may be there too late for its last look at the tty.
ASSUME LatencyAssumption == LATENCY \in Nat /\ LATENCY <= RECV_IDLE + 1
ASSUME RetryAssumption == MAX_RETRY \in Nat \ {0}
ASSUME StatsAssumption == STATS_CAP \in Nat

\* Arguments fit their fields, and output 0 of timer 2 is not driven: main_app's
\* outputs are A..D and L of the table in app.cpp.  On that output a pwmDuty
\* request without its first byte reads as an analogRead, whose answer is longer
\* than the driver waits for.
ASSUME CallsAssumption ==
  /\ PinModeCalls \subseteq (0..63) \X (0..3)
  /\ InitPwmCalls \subseteq Timers \X (0..1) \X (0..7)
  /\ PwmDutyCalls \subseteq Timers \X (0..1) \X Byte
  /\ \A c \in PwmDutyCalls : ~(c[1] = 2 /\ c[2] = 0)
  /\ AnalogPins \subseteq Byte

VARIABLES
  kbuf,          \* received bytes in the rover's tty
  dpc,           \* where the driver is
  msg,           \* the request buffer; pinMode, initPwm and pwmDuty also receive into it
  sent,          \* bytes of the request written
  want,          \* sizeof(rsp)
  rsp,           \* response bytes received
  attempt,       \* i of the retry loop
  idle_counter, slept,
  transaction_sent, transaction_received,
  rval           \* what the last analogRead returned

driver == <<kbuf, dpc, msg, sent, want, rsp, attempt, idle_counter, slept,
            transaction_sent, transaction_received, rval>>

(***************************************************************************)
(* History of the call in progress, for the properties: its request as     *)
(* built, whether the slave executed exactly that request, whether this    *)
(* attempt was disturbed (a byte lost either way, the slave's parser reset *)
(* by a pause, the board reset), the milliseconds its answer was under     *)
(* way, and the ADC samples taken in it.                                   *)
(***************************************************************************)
VARIABLES request, executed, disturbed, late, sampled
history == <<request, executed, disturbed, late, sampled>>

vars == <<slave_vars, driver, history>>

Word == 0..65535     \* uint16_t
ADC_FAIL == 65535   \* (uint16_t)-1

Init ==
  /\ PowerUp
  /\ kbuf = <<>> /\ dpc = "idle" /\ msg = <<>> /\ sent = 0 /\ want = 0 /\ rsp = <<>>
  /\ attempt = 0 /\ idle_counter = 0 /\ slept = FALSE
  /\ transaction_sent = 0 /\ transaction_received = 0 /\ rval = ADC_FAIL
  /\ request = <<>> /\ executed = FALSE /\ disturbed = FALSE /\ late = 0 /\ sampled = {}

-----------------------------------------------------------------------------
(* The calls: build the request, then enter the retry loop. *)

Begin(bytes, rsp_size) ==
  /\ dpc = "idle"
  /\ transaction_sent + MAX_RETRY <= STATS_CAP
  /\ dpc' = "try"
  /\ msg' = bytes /\ want' = rsp_size /\ attempt' = 0
  /\ request' = bytes /\ executed' = FALSE
  /\ UNCHANGED slave_vars
  /\ UNCHANGED <<kbuf, sent, rsp, idle_counter, slept, transaction_sent,
                 transaction_received, rval, disturbed, late, sampled>>

BeginPinMode ==
  \E c \in PinModeCalls : Begin(<<PINMODE, pinmode_byte(c[1], c[2])>>, 1)

BeginInitPwm ==
  \E c \in InitPwmCalls : Begin(<<PWM_INIT, init_byte(c[1], c[2], c[3])>>, 1)

BeginPwmDuty ==
  \E c \in PwmDutyCalls : Begin(<<PWM_DUTY, duty_byte(c[1], c[2]), c[3]>>, 1)

BeginAnalogRead ==
  \E pin \in AnalogPins : Begin(<<ANALOG_READ, pin>>, 2)

\* The response an attempt starts with: rsp{}, nothing received.
stale_rsp == rsp
new_rsp == <<>>

\* send(): count, flush what the tty has received, start writing.  The output
\* side of the flush finds nothing unsent.
Send ==
  /\ dpc = "try" /\ attempt < MAX_RETRY
  /\ dpc' = "send"
  /\ transaction_sent' = transaction_sent + 1
  /\ kbuf' = <<>> /\ sent' = 0 /\ rsp' = new_rsp
  /\ disturbed' = FALSE /\ late' = 0 /\ sampled' = {}
  /\ UNCHANGED slave_vars
  /\ UNCHANGED <<msg, want, attempt, idle_counter, slept, transaction_received, rval,
                 request, executed>>

\* serialPutchar; after the last byte recv() starts.
SendByte ==
  /\ dpc = "send"
  /\ sent' = sent + 1
  /\ to_slave' = Append(to_slave, msg[sent + 1])
  /\ IF sent + 1 = Len(msg)
       THEN dpc' = "recv" /\ idle_counter' = 0
       ELSE UNCHANGED <<dpc, idle_counter>>
  /\ UNCHANGED parser /\ UNCHANGED board /\ UNCHANGED history
  /\ UNCHANGED <<to_master, kbuf, msg, want, rsp, attempt, slept, transaction_sent,
                 transaction_received, rval>>

\* The retry loop runs out: the void calls return, analogRead returns -1.
GiveUp ==
  /\ dpc = "try" /\ attempt = MAX_RETRY
  /\ dpc' = "idle"
  /\ rval' = IF want = 2 THEN ADC_FAIL ELSE rval
  /\ UNCHANGED slave_vars /\ UNCHANGED history
  /\ UNCHANGED <<kbuf, msg, sent, want, rsp, attempt, idle_counter, slept, transaction_sent,
                 transaction_received>>

\* recv's destination: only analogRead passes &rsp, the others pass &msg.
msg_overwritten == [msg EXCEPT ![Len(rsp) + 1] = Head(kbuf)]
msg_after_getchar == IF want = 2 THEN msg ELSE [msg EXCEPT ![Len(rsp) + 1] = Head(kbuf)]

\* serialGetchar.  The last byte wanted ends the call.
RecvByte ==
  /\ dpc = "recv" /\ kbuf # <<>>
  /\ kbuf' = Tail(kbuf)
  /\ rsp' = Append(rsp, Head(kbuf))
  /\ msg' = msg_after_getchar
  /\ IF Len(rsp) + 1 = want
       THEN /\ dpc' = "idle"
            /\ transaction_received' = transaction_received + 1
            /\ rval' = IF want = 2 THEN rsp[1] + 256 * Head(kbuf) ELSE rval
       ELSE UNCHANGED <<dpc, transaction_received, rval>>
  /\ UNCHANGED slave_vars /\ UNCHANGED history
  /\ UNCHANGED <<sent, want, attempt, idle_counter, slept, transaction_sent>>

\* sleep_for(1 ms) once the tty is empty.
RecvSleep ==
  /\ dpc = "recv" /\ kbuf = <<>>
  /\ dpc' = "sleep" /\ slept' = FALSE
  /\ UNCHANGED slave_vars /\ UNCHANGED history
  /\ UNCHANGED <<kbuf, msg, sent, want, rsp, attempt, idle_counter, transaction_sent,
                 transaction_received, rval>>

idle_limit_zero == idle_counter >= 0
idle_limit_plus_one == idle_counter > RECV_IDLE + 1
idle_limit_reached == idle_counter > RECV_IDLE

idle_not_counted == idle_counter
idle_counted == idle_counter + 1

\* After the sleep the limit is tested before the tty is looked at again.
RecvWake ==
  /\ dpc = "sleep" /\ slept
  /\ IF idle_limit_reached
       THEN dpc' = "try" /\ attempt' = attempt + 1 /\ UNCHANGED idle_counter
       ELSE dpc' = "recv" /\ idle_counter' = idle_counted /\ UNCHANGED attempt
  /\ UNCHANGED slave_vars /\ UNCHANGED history
  /\ UNCHANGED <<kbuf, msg, sent, want, rsp, slept, transaction_sent, transaction_received,
                 rval>>

stats_half_reset ==
  /\ dpc = "idle" /\ transaction_sent > 0
  /\ transaction_sent' = 0
  /\ UNCHANGED slave_vars /\ UNCHANGED history
  /\ UNCHANGED <<kbuf, dpc, msg, sent, want, rsp, attempt, idle_counter, slept, rval,
                 transaction_received>>

get_transaction_stats ==
  /\ dpc = "idle" /\ transaction_sent > 0
  /\ transaction_sent' = 0 /\ transaction_received' = 0
  /\ UNCHANGED slave_vars /\ UNCHANGED history
  /\ UNCHANGED <<kbuf, dpc, msg, sent, want, rsp, attempt, idle_counter, slept, rval>>

-----------------------------------------------------------------------------
(* The slave, the line and the clock. *)

\* The message the slave hands to process_message in this step is the request.
executes_request ==
  /\ serial_data_idx + 1 = Len(request)
  /\ \A i \in 1..Len(request) : received[i - 1] = request[i]

samples_now ==
  {v \in Samples : received[0] = ANALOG_READ
                     /\ to_master' = to_master \o <<v % 256, v \div 256>>}

SlaveRuns == ReadHeaderOnly \/ ReadBodyEnd

SlaveReads ==
  /\ \/ /\ SlaveRuns
        /\ executed' = (executed \/ executes_request)
        /\ sampled' = sampled \union samples_now
     \/ /\ ReadType \/ ReadText \/ ReadBody \/ ReadTextEnd
        /\ UNCHANGED <<executed, sampled>>
  /\ UNCHANGED driver
  /\ UNCHANGED <<request, disturbed, late>>

Deliver ==
  /\ to_master # <<>>
  /\ kbuf' = Append(kbuf, Head(to_master))
  /\ to_master' = Tail(to_master)
  /\ UNCHANGED parser /\ UNCHANGED board /\ UNCHANGED history
  /\ UNCHANGED <<to_slave, dpc, msg, sent, want, rsp, attempt, idle_counter, slept,
                 transaction_sent, transaction_received, rval>>

\* A millisecond passes, with the answer still on its way or with nothing on the
\* line.
Tick ==
  /\ to_master = <<>> \/ late < LATENCY
  /\ late' = IF to_master = <<>> THEN late ELSE late + 1
  /\ Idle
  /\ slept' = TRUE
  /\ disturbed' = (disturbed \/ (~AtRest /\ AtRest'))
  /\ UNCHANGED <<kbuf, dpc, msg, sent, want, rsp, attempt, idle_counter,
                 transaction_sent, transaction_received, rval, request, executed, sampled>>

LoseRequestByte ==
  /\ to_slave # <<>>
  /\ to_slave' = Tail(to_slave)
  /\ disturbed' = TRUE
  /\ UNCHANGED parser /\ UNCHANGED board /\ UNCHANGED driver
  /\ UNCHANGED <<to_master, request, executed, late, sampled>>

LoseResponseByte ==
  /\ to_master # <<>>
  /\ to_master' = Tail(to_master)
  /\ disturbed' = TRUE
  /\ UNCHANGED parser /\ UNCHANGED board /\ UNCHANGED driver
  /\ UNCHANGED <<to_slave, request, executed, late, sampled>>

SlaveRestart ==
  /\ setup
  /\ disturbed' = TRUE
  /\ UNCHANGED driver
  /\ UNCHANGED <<request, executed, late, sampled>>

Driver == \/ BeginPinMode \/ BeginInitPwm \/ BeginPwmDuty \/ BeginAnalogRead
          \/ Send \/ SendByte \/ GiveUp \/ RecvByte \/ RecvSleep \/ RecvWake
          \/ get_transaction_stats
Line   == Deliver \/ Tick \/ LoseRequestByte \/ LoseResponseByte \/ SlaveRestart

Next == Driver \/ SlaveReads \/ Line

Spec == Init /\ [][Next]_vars

\* The driver thread and the slave's loop() keep running, the UARTs keep shifting
\* and time passes.  Nothing makes main_app start a call.
Running == Send \/ SendByte \/ GiveUp \/ RecvByte \/ RecvSleep \/ RecvWake
FairSpec ==
  /\ Spec
  /\ WF_vars(Running) /\ WF_vars(SlaveReads) /\ WF_vars(Deliver) /\ WF_vars(Tick)

-----------------------------------------------------------------------------
DriverTypeOK ==
  /\ kbuf \in Seq(Byte)
  /\ dpc \in {"idle", "try", "send", "recv", "sleep"}
  /\ msg \in Seq(Byte)
  /\ sent \in 0..3
  /\ want \in 0..2
  /\ rsp \in Seq(Byte)
  /\ attempt \in 0..MAX_RETRY
  /\ idle_counter \in 0..RECV_IDLE+1
  /\ transaction_sent \in Nat
  /\ transaction_received \in Nat
  /\ rval \in Word
  /\ request \in Seq(Byte)
  /\ late \in 0..LATENCY
  /\ sampled \subseteq Samples

FlagsTypeOK ==
  /\ slept \in BOOLEAN
  /\ executed \in BOOLEAN
  /\ disturbed \in BOOLEAN

TypeOK == FirmwareTypeOK /\ DriverTypeOK /\ FlagsTypeOK

\* Resynchronisation: whatever was lost, cut off or reset in the attempt before,
\* every attempt starts with the slave waiting for a type and an empty line.
AttemptStartsClean ==
  dpc \in {"idle", "try"} => AtRest /\ to_slave = <<>> /\ to_master = <<>>

\* A retry sends the request that was asked for, although the void calls receive
\* the response into the request buffer.
RetrySendsRequest == dpc \in {"try", "send"} => msg = request

\* recv gives up only on an attempt in which something really went wrong, or whose
\* answer came in during its last sleep: an answer under way for up to RECV_IDLE
\* milliseconds is taken, however the milliseconds fall between its looks at the
\* tty.
TimeoutMeansDisturbed ==
  dpc = "try" /\ attempt > 0 => disturbed \/ late > RECV_IDLE

\* The two counters handed to the telemetry never show more answers than requests,
\* although one call may send several times and the counters are reset between
\* calls.
StatsOrdered == transaction_received <= transaction_sent

\* analogRead returns -1 or a value the ADC delivered in the attempt that
\* answered: bytes of two responses are never joined.
ReadIntegrity ==
  [][dpc # "idle" /\ dpc' = "idle" /\ want = 2 =>
       rval' = ADC_FAIL \/ rval' \in sampled]_vars

\* The board shows what the call in progress was asked for, argument by argument.
done ==
  /\ \A c \in PwmDutyCalls :
       request = <<PWM_DUTY, duty_byte(c[1], c[2]), c[3]>> => ocr[<<c[1], c[2]>>] = c[3]
  /\ \A c \in InitPwmCalls :
       request = <<PWM_INIT, init_byte(c[1], c[2], c[3])>> =>
         <<c[1], c[2]>> \in com /\ timers[c[1]] = [prescale |-> c[3], configured |-> TRUE]
  /\ \A c \in PinModeCalls :
       request = <<PINMODE, pinmode_byte(c[1], c[2])>> /\ c[1] \in Pins => pin_mode[c[1]] = c[2]

\* An answer in an undisturbed attempt means that the call's arguments reached the
\* board: packed by the driver, framed and unpacked by the slave, executed, and
\* not undone by what an earlier attempt left behind.
AckMeansDone ==
  [][transaction_received' > transaction_received => done \/ disturbed]_vars

\* The slave's board changes only by executing the request of the call in
\* progress, as it was built, unless the attempt was disturbed.
NoSpuriousCommand ==
  [][board' # board => disturbed' \/ (dpc # "idle" /\ executes_request)]_vars

\* No traffic of the driver is executed as a text command, however damaged: when a
\* request's tail looks like text, no byte follows it before the parser forgets
\* it, so no delimiter ever completes the command.
NoTextCommand == serial_state = "TEXT" => to_slave = <<>> /\ dpc # "send"

\* The steps the driver has left in a call: of the attempts to come at most ATTEMPT
\* each, and of the one in progress its bytes to send and to receive and two for
\* each millisecond recv may still sleep.
ATTEMPT    == 2 * RECV_IDLE + 10
budget(a)  == (MAX_RETRY - a) * ATTEMPT
receiving  == (want - Len(rsp)) + 2 * ((RECV_IDLE + 2) - idle_counter)
steps_left ==
  CASE dpc = "idle"  -> 0
    [] dpc = "try"   -> budget(attempt) + 1
    [] dpc = "send"  -> budget(attempt) - sent
    [] dpc = "recv"  -> budget(attempt + 1) + receiving + 1
    [] dpc = "sleep" -> budget(attempt + 1) + receiving

\* A call is used up by every step the driver takes in it, and whatever the line and
\* the slave do meanwhile gives it none back: bytes that trickle in do not restart
\* recv's count.  It ends after 1 + MAX_RETRY * ATTEMPT steps at the latest.
CallProgress ==
  [][dpc # "idle" =>
       \/ steps_left' \in 0..steps_left-1
       \/ UNCHANGED <<dpc, sent, rsp, attempt, idle_counter>>]_vars

\* Every call returns.
CallReturns == dpc # "idle" ~> dpc = "idle"

-----------------------------------------------------------------------------
(***************************************************************************)
(* The inductive invariant.  handed is the number of request bytes that    *)
(* have left the line, read by the slave or lost; awaiting counts the      *)
(* response bytes on their way or received.                                *)
(***************************************************************************)
handed   == sent - Len(to_slave)
awaiting == Len(to_master) + Len(kbuf) + Len(rsp)
active   == dpc \in {"send", "recv", "sleep"}

\* Requests the driver builds, with the size of their response.
IsRequest(r, size) ==
  \/ /\ Len(r) = 2 /\ size = IF r[1] = ANALOG_READ THEN 2 ELSE 1
     /\ r[1] \in {PINMODE, PWM_INIT, ANALOG_READ}
  \/ /\ Len(r) = 3 /\ size = 1
     /\ r[1] = PWM_DUTY /\ r[2] \in (0..5) \ {4}

CallInv ==
  /\ dpc # "idle" => IsRequest(request, want) /\ msg = request
  /\ active => attempt < MAX_RETRY
  /\ dpc = "send" => sent < Len(request)
  /\ dpc \in {"recv", "sleep"} => sent = Len(request) /\ Len(rsp) < want

\* The line holds the next bytes of the request, in order.
LineInv ==
  active => /\ Len(to_slave) <= sent
            /\ \A j \in 1..Len(to_slave) : to_slave[j] = request[handed + j]

\* What the parser holds came from this attempt: its first byte is some byte of
\* the request, and if it missed none it holds a prefix.
ParserInv ==
  active => /\ serial_data_idx <= handed
            /\ serial_state = "BODY" => \E s \in 1..handed : serial_data[0] = request[s]
            /\ serial_data_idx = handed =>
                 \A i \in 1..handed : serial_data[i - 1] = request[i]
            /\ serial_state = "TEXT" => to_slave = <<>> /\ sent = Len(request)

\* The slave answers only after it has taken the whole request, and no more than
\* the driver waits for.
ResponseInv ==
  active => /\ awaiting <= want
            /\ awaiting > 0 => AtRest /\ to_slave = <<>> /\ sent = Len(request)

\* While recv counts idle milliseconds so does the slave, and what is still on the
\* line has been there as long.
idle_so_far == idle_counter + (IF dpc = "sleep" /\ slept THEN 1 ELSE 0)
ClockInv ==
  dpc \in {"recv", "sleep"} /\ idle_so_far > 0 =>
    /\ to_slave = <<>>
    /\ to_master # <<>> => idle_so_far <= late
    /\ AtRest \/ serial_idle_count >= idle_so_far

LinkInv ==
  /\ Framing
  /\ AttemptStartsClean
  /\ CallInv /\ LineInv /\ ParserInv /\ ResponseInv /\ ClockInv

\* An undisturbed attempt runs as intended: the parser holds what was handed
\* over, and once that is the whole request it is executed and answered in full.
UndisturbedInv ==
  active /\ ~disturbed =>
    /\ handed < Len(request) => serial_data_idx = handed
    /\ handed = Len(request) => AtRest /\ executed /\ awaiting = want
    /\ dpc = "sleep" => idle_counter <= late

\* A complete analogRead response is one sample of this attempt.
SampleInv ==
  active /\ want = 2 /\ awaiting = 2 =>
    \E v \in sampled : rsp \o kbuf \o to_master = <<v % 256, v \div 256>>

-----------------------------------------------------------------------------
(***************************************************************************)
(* Seen through the duty registers alone, driver, line and slave are a     *)
(* register whose writes take effect inside the call that asks for them.   *)
(***************************************************************************)
asked_duties == {c \in PwmDutyCalls : request = <<PWM_DUTY, duty_byte(c[1], c[2]), c[3]>>}

duty_request ==
  IF dpc = "idle" THEN {}
  ELSE {[channel |-> <<c[1], c[2]>>, duty |-> c[3]] : c \in asked_duties}

Abstract == INSTANCE DutyRegister WITH
  Outputs <- Channels, Duties <- Byte, duty <- ocr, pending <- duty_request,
  trouble <- disturbed

\* Despite losses, pauses, resets and retries no step writes a duty other than
\* the one the pwmDuty call in progress asked for, nor any outside such a call, and
\* a call whose last attempt was undisturbed has written it when it returns.
DutyRegisterSpec == Abstract!Spec
=============================================================================
