-------------------------- MODULE SerialLinkProofs --------------------------
(***************************************************************************)
(* Proofs about SerialLink.  IndInv, types and the parts of LinkInv, is    *)
(* inductive: one lemma per action.  From it follow type correctness,      *)
(* resynchronisation, faithful retries, the absence of text commands, the  *)
(* order of the counters and the refinement of DutyRegister.  The second   *)
(* part is about the calls: what an attempt that nothing disturbed         *)
(* achieves, that an answer to analogRead is one sample, and that a call   *)
(* comes to its end.                                                       *)
(***************************************************************************)
EXTENDS SerialLink, SlaveFirmwareProofs, SequenceTheorems

-----------------------------------------------------------------------------
(* The inductive invariant holds initially and every step preserves it.      *)

IndInv == TypeOK /\ LinkInv

\* Bytes of the requests the driver builds.
LEMMA RequestBytes ==
  /\ \A p \in 0..63, m \in 0..3 : pinmode_byte(p, m) \in Byte
  /\ \A t \in Timers, c \in 0..1, p \in 0..7 : init_byte(t, c, p) \in Byte
  /\ \A t \in Timers, c \in 0..1 :
       /\ duty_byte(t, c) \in 0..5
       /\ duty_byte(t, c) = 4 => t = 2 /\ c = 0
BY DEF pinmode_byte, init_byte, duty_byte, set_param, get_param, Byte, Timers,
       PIN, MODE, TIMER, CHANNEL, PRESCALER

LEMMA SlaveUnchanged == FirmwareTypeOK /\ UNCHANGED slave_vars => FirmwareTypeOK'
BY Zenon DEF FirmwareTypeOK, ParserTypeOK, BoardTypeOK, slave_vars, parser, board

LEMMA BoardUnchanged == BoardTypeOK /\ UNCHANGED board => BoardTypeOK'
BY Zenon DEF BoardTypeOK, board

LEMMA ParserUnchanged == ParserTypeOK /\ UNCHANGED parser => ParserTypeOK'
BY Zenon DEF ParserTypeOK, parser

LEMMA FailIsWord == ADC_FAIL \in Word
BY DEF ADC_FAIL, Word

\* Two bytes make a uint16_t.
LEMMA WordBytes == ASSUME NEW lo \in Byte, NEW hi \in Byte PROVE lo + 256 * hi \in Word
<1> DEFINE top == 65535
<1>1. lo \in Nat /\ lo <= 255 /\ hi \in Nat /\ hi <= 255
  BY DEF Byte
<1>2. lo + 256 * hi \in Nat /\ lo + 256 * hi <= top
  BY <1>1
<1>3. Word = 0..top /\ top \in Nat
  BY DEF Word
<1> HIDE DEF top
<1> QED
  BY <1>2, <1>3

LEMMA InitInv == Init => IndInv
<1> SUFFICES ASSUME Init PROVE IndInv
  OBVIOUS
<1>1. ParserTypeOK
  BY BufAssumption, IdleAssumption DEF Init, PowerUp, ParserTypeOK, blank_data, Byte
<1>2. BoardTypeOK
  BY DEF Init, PowerUp, BoardTypeOK, blank_timers, core_wgm, core_clk, zero_duty, zero_pins,
     Timers, Byte
<1>3. DriverTypeOK
  BY FailIsWord, RetryAssumption, RecvAssumption, LatencyAssumption, IdleAssumption
  DEF Init, DriverTypeOK
<1>4. FlagsTypeOK
  BY DEF Init, FlagsTypeOK
<1>5. TypeOK
  BY <1>1, <1>2, <1>3, <1>4 DEF Init, PowerUp, TypeOK, FirmwareTypeOK
<1>6. LinkInv
  BY DEF Init, PowerUp, LinkInv, Framing, AttemptStartsClean, AtRest, CallInv, LineInv,
     ParserInv, ResponseInv, ClockInv, active
<1> QED
  BY <1>5, <1>6 DEF IndInv

\* A new call: nothing is in flight yet.
LEMMA BeginInv ==
  ASSUME IndInv, NEW bytes \in Seq(Byte), NEW size \in 1..2, IsRequest(bytes, size),
         Begin(bytes, size)
  PROVE  IndInv'
<1>1. FirmwareTypeOK'
  BY Zenon, SlaveUnchanged DEF IndInv, TypeOK, Begin
<1>2. DriverTypeOK'
  BY RetryAssumption DEF IndInv, TypeOK, Begin, DriverTypeOK, slave_vars, parser, board
<1>3. FlagsTypeOK'
  BY Zenon DEF IndInv, TypeOK, Begin, FlagsTypeOK
<1>4. /\ UNCHANGED <<to_slave, to_master, serial_data, serial_data_idx, serial_state, expected_size>>
      /\ dpc = "idle" /\ dpc' = "try" /\ msg' = request' /\ request' = bytes /\ want' = size
  BY DEF Begin, slave_vars, parser
<1>5. Framing' /\ AttemptStartsClean'
  BY <1>4 DEF IndInv, LinkInv, Framing, AttemptStartsClean, AtRest
<1>6. CallInv'
  BY <1>4 DEF CallInv, IsRequest, active
<1>7. (LineInv /\ ParserInv /\ ResponseInv /\ ClockInv)'
  BY <1>4 DEF LineInv, ParserInv, ResponseInv, ClockInv, active
<1> QED
  BY <1>1, <1>2, <1>3, <1>5, <1>6, <1>7 DEF IndInv, TypeOK, LinkInv

LEMMA CallsInv ==
  ASSUME IndInv, BeginPinMode \/ BeginInitPwm \/ BeginPwmDuty \/ BeginAnalogRead
  PROVE  IndInv'
<1>0. 1 \in 1..2 /\ 2 \in 1..2
  OBVIOUS
<1>1. CASE BeginPinMode
  <2>1. PICK c \in PinModeCalls : Begin(<<PINMODE, pinmode_byte(c[1], c[2])>>, 1)
    BY <1>1 DEF BeginPinMode
  <2> DEFINE r == <<PINMODE, pinmode_byte(c[1], c[2])>>
  <2>2. pinmode_byte(c[1], c[2]) \in Byte
    BY CallsAssumption, RequestBytes
  <2>3. r \in Seq(Byte) /\ IsRequest(r, 1)
    BY <2>2 DEF IsRequest, Byte, PINMODE, PWM_INIT, PWM_DUTY, ANALOG_READ
  <2> QED
    BY <1>0, <2>1, <2>3, BeginInv
<1>2. CASE BeginInitPwm
  <2>1. PICK c \in InitPwmCalls : Begin(<<PWM_INIT, init_byte(c[1], c[2], c[3])>>, 1)
    BY <1>2 DEF BeginInitPwm
  <2> DEFINE r == <<PWM_INIT, init_byte(c[1], c[2], c[3])>>
  <2>2. init_byte(c[1], c[2], c[3]) \in Byte
    BY CallsAssumption, RequestBytes
  <2>3. r \in Seq(Byte) /\ IsRequest(r, 1)
    BY <2>2 DEF IsRequest, Byte, PINMODE, PWM_INIT, PWM_DUTY, ANALOG_READ
  <2> QED
    BY <1>0, <2>1, <2>3, BeginInv
<1>3. CASE BeginPwmDuty
  <2>1. PICK c \in PwmDutyCalls : Begin(<<PWM_DUTY, duty_byte(c[1], c[2]), c[3]>>, 1)
    BY <1>3 DEF BeginPwmDuty
  <2> DEFINE r == <<PWM_DUTY, duty_byte(c[1], c[2]), c[3]>>
  <2>2. duty_byte(c[1], c[2]) \in (0..5) \ {4} /\ c[3] \in Byte
    BY CallsAssumption, RequestBytes
  <2>3. r \in Seq(Byte) /\ IsRequest(r, 1)
    BY <2>2 DEF IsRequest, Byte, PINMODE, PWM_INIT, PWM_DUTY, ANALOG_READ
  <2> QED
    BY <1>0, <2>1, <2>3, BeginInv
<1>4. CASE BeginAnalogRead
  <2>1. PICK pin \in AnalogPins : Begin(<<ANALOG_READ, pin>>, 2)
    BY <1>4 DEF BeginAnalogRead
  <2> DEFINE r == <<ANALOG_READ, pin>>
  <2>2. r \in Seq(Byte) /\ IsRequest(r, 2)
    BY CallsAssumption DEF IsRequest, Byte, PINMODE, PWM_INIT, PWM_DUTY, ANALOG_READ
  <2> QED
    BY <1>0, <2>1, <2>2, BeginInv
<1> QED
  BY <1>1, <1>2, <1>3, <1>4

\* What the invariant says of a request: two or three bytes, at most two awaited.
LEMMA RequestShape ==
  ASSUME IndInv, dpc # "idle"
  PROVE  /\ IsRequest(request, want) /\ msg = request /\ request \in Seq(Byte)
         /\ want \in 1..2 /\ Len(request) \in 2..3
BY DEF IndInv, TypeOK, DriverTypeOK, LinkInv, CallInv, IsRequest

\* An attempt starts on a clean line.
LEMMA SendInv == ASSUME IndInv, Send PROVE IndInv'
<1>1. FirmwareTypeOK'
  BY Zenon, SlaveUnchanged DEF IndInv, TypeOK, Send
<1>2. DriverTypeOK'
  BY LatencyAssumption DEF IndInv, TypeOK, Send, new_rsp, DriverTypeOK, slave_vars, parser, board
<1>3. FlagsTypeOK'
  BY Zenon DEF IndInv, TypeOK, Send, FlagsTypeOK
<1>4. /\ UNCHANGED <<to_slave, to_master, serial_data, serial_data_idx, serial_state, expected_size>>
      /\ UNCHANGED <<msg, request, want>>
      /\ dpc = "try" /\ dpc' = "send" /\ kbuf' = <<>> /\ rsp' = <<>> /\ sent' = 0
      /\ attempt' = attempt /\ attempt < MAX_RETRY
  BY DEF Send, new_rsp, slave_vars, parser
<1>5. to_slave = <<>> /\ to_master = <<>> /\ AtRest /\ serial_data_idx = 0
  BY <1>4 DEF IndInv, LinkInv, AttemptStartsClean, Framing
<1>6. Framing' /\ AttemptStartsClean'
  BY <1>4 DEF IndInv, LinkInv, Framing, AttemptStartsClean, AtRest
<1>7. CallInv'
  BY <1>4, RequestShape DEF CallInv
<1>8. (LineInv /\ ParserInv /\ ResponseInv /\ ClockInv)'
  BY <1>4, <1>5, RequestShape DEF LineInv, ParserInv, ResponseInv, ClockInv, active, handed,
     awaiting, AtRest
<1> QED
  BY <1>1, <1>2, <1>3, <1>6, <1>7, <1>8 DEF IndInv, TypeOK, LinkInv

LEMMA SendByteInv == ASSUME IndInv, SendByte PROVE IndInv'
<1>0. /\ dpc = "send" /\ sent \in Nat /\ sent < Len(request)
      /\ to_slave \in Seq(Byte) /\ to_master \in Seq(Byte) /\ kbuf \in Seq(Byte) /\ rsp \in Seq(Byte)
      /\ IsRequest(request, want) /\ msg = request /\ request \in Seq(Byte)
      /\ want \in 1..2 /\ Len(request) \in 2..3
  BY RequestShape DEF SendByte, IndInv, TypeOK, DriverTypeOK, FirmwareTypeOK, LinkInv, CallInv
<1>1. /\ sent' = sent + 1 /\ to_slave' = Append(to_slave, request[sent + 1])
      /\ UNCHANGED <<to_master, serial_data, serial_data_idx, serial_state, expected_size,
                     kbuf, msg, want, rsp, request>>
      /\ dpc' = (IF sent + 1 = Len(request) THEN "recv" ELSE "send")
      /\ idle_counter' = (IF sent + 1 = Len(request) THEN 0 ELSE idle_counter)
      /\ UNCHANGED <<attempt, transaction_sent, transaction_received, rval, late, sampled>>
  <2>1. UNCHANGED <<request, late, sampled>>
    BY Zenon DEF SendByte, history
  <2> QED
    BY <1>0, <2>1 DEF SendByte, parser
<1>2. FirmwareTypeOK'
  <2>1. request[sent + 1] \in Byte
    BY <1>0
  <2>2. to_slave' \in Seq(Byte) /\ to_master' \in Seq(Byte)
    BY <1>0, <1>1, <2>1
  <2>3. ParserTypeOK' /\ BoardTypeOK'
    BY Zenon, ParserUnchanged, BoardUnchanged DEF SendByte, IndInv, TypeOK, FirmwareTypeOK
  <2> QED
    BY <2>2, <2>3 DEF FirmwareTypeOK
<1>3. DriverTypeOK'
  <2>1. dpc' \in {"recv", "send"} /\ sent' \in 0..3
    <3>1. dpc' = "recv" \/ dpc' = "send"
      BY <1>1
    <3>2. \A n \in 2..3, k \in Nat : k < n => k + 1 \in 0..3
      OBVIOUS
    <3>3. sent + 1 \in 0..3
      BY Zenon, <1>0, <3>2
    <3> QED
      BY <1>1, <3>1, <3>3
  <2>2. idle_counter' \in 0..RECV_IDLE+1
    BY <1>1, RecvAssumption, IdleAssumption DEF IndInv, TypeOK, DriverTypeOK
  <2> QED
    BY <1>1, <2>1, <2>2 DEF IndInv, TypeOK, DriverTypeOK
<1>4. FlagsTypeOK'
  BY Zenon DEF IndInv, TypeOK, SendByte, FlagsTypeOK, history
<1>5. handed' = handed
  BY <1>0, <1>1 DEF handed
<1>6. to_master = <<>> /\ kbuf = <<>> /\ rsp = <<>> /\ awaiting' = 0
  <2>1. awaiting <= 0
    BY <1>0 DEF IndInv, LinkInv, ResponseInv, active, awaiting
  <2> QED
    BY <1>0, <1>1, <2>1 DEF awaiting
<1>7. Framing' /\ AttemptStartsClean'
  BY <1>1 DEF IndInv, LinkInv, Framing, AttemptStartsClean, AtRest
<1>8. CallInv'
  BY <1>0, <1>1, <1>6 DEF IndInv, LinkInv, CallInv, active
<1>9. LineInv'
  <2>1. /\ Len(to_slave) <= sent
        /\ \A j \in 1..Len(to_slave) : to_slave[j] = request[handed + j]
    BY <1>0 DEF IndInv, LinkInv, LineInv, active
  <2>2. Len(to_slave') = Len(to_slave) + 1
    BY <1>0, <1>1
  <2>3. ASSUME NEW j \in 1..Len(to_slave') PROVE to_slave'[j] = request[handed + j]
    <3>1. CASE j \in 1..Len(to_slave)
      BY <1>0, <1>1, <2>1, <3>1
    <3>2. CASE j = Len(to_slave) + 1
      BY <1>0, <1>1, <3>2 DEF handed
    <3> QED
      BY <1>0, <2>2, <3>1, <3>2
  <2> QED
    <3>1. \A j \in 1..Len(to_slave') : to_slave'[j] = request'[handed' + j]
      BY Zenon, <1>1, <1>5, <2>3
    <3>2. Len(to_slave') <= sent'
      BY <1>0, <1>1, <2>1, <2>2
    <3> QED
      BY Zenon, <3>1, <3>2 DEF LineInv
<1>10. ParserInv'
  BY <1>0, <1>1, <1>5 DEF IndInv, LinkInv, ParserInv, active
<1>11. ResponseInv' /\ ClockInv'
  BY <1>0, <1>1, <1>6 DEF ResponseInv, ClockInv, idle_so_far
<1> QED
  BY <1>2, <1>3, <1>4, <1>7, <1>8, <1>9, <1>10, <1>11 DEF IndInv, TypeOK, LinkInv

LEMMA GiveUpInv == ASSUME IndInv, GiveUp PROVE IndInv'
<1>1. FirmwareTypeOK'
  BY Zenon, SlaveUnchanged DEF IndInv, TypeOK, GiveUp
<1>2. UNCHANGED <<request, late, sampled, executed, disturbed, slept>>
  BY Zenon DEF GiveUp, history
<1>3. FlagsTypeOK'
  BY Zenon, <1>2 DEF IndInv, TypeOK, FlagsTypeOK
<1>4. UNCHANGED <<request, late, sampled>>
  BY Zenon, <1>2
<1>5. DriverTypeOK'
  BY <1>4, FailIsWord DEF IndInv, TypeOK, GiveUp, DriverTypeOK
<1>6. /\ UNCHANGED <<to_slave, to_master, serial_data, serial_data_idx, serial_state, expected_size>>
      /\ dpc = "try" /\ dpc' = "idle"
  BY DEF GiveUp, slave_vars, parser
<1>7. (Framing /\ AttemptStartsClean)'
  BY <1>6 DEF IndInv, LinkInv, Framing, AttemptStartsClean, AtRest
<1>8. (CallInv /\ LineInv /\ ParserInv /\ ResponseInv /\ ClockInv)'
  BY <1>6 DEF CallInv, LineInv, ParserInv, ResponseInv, ClockInv, active
<1> QED
  BY <1>1, <1>3, <1>5, <1>7, <1>8 DEF IndInv, TypeOK, LinkInv

LEMMA StatsInv == ASSUME IndInv, get_transaction_stats PROVE IndInv'
<1>1. FirmwareTypeOK'
  BY Zenon, SlaveUnchanged DEF IndInv, TypeOK, get_transaction_stats
<1>2. UNCHANGED <<request, late, sampled, executed, disturbed, slept>>
  BY Zenon DEF get_transaction_stats, history
<1>3. FlagsTypeOK'
  BY Zenon, <1>2 DEF IndInv, TypeOK, FlagsTypeOK
<1>4. UNCHANGED <<request, late, sampled>>
  BY Zenon, <1>2
<1>5. DriverTypeOK'
  BY <1>4 DEF IndInv, TypeOK, get_transaction_stats, DriverTypeOK
<1>6. /\ UNCHANGED <<to_slave, to_master, serial_data, serial_data_idx, serial_state, expected_size>>
      /\ dpc = "idle" /\ dpc' = "idle"
  BY DEF get_transaction_stats, slave_vars, parser
<1>7. (Framing /\ AttemptStartsClean)'
  BY <1>6 DEF IndInv, LinkInv, Framing, AttemptStartsClean, AtRest
<1>8. (CallInv /\ LineInv /\ ParserInv /\ ResponseInv /\ ClockInv)'
  BY <1>6 DEF CallInv, LineInv, ParserInv, ResponseInv, ClockInv, active
<1> QED
  BY <1>1, <1>3, <1>5, <1>7, <1>8 DEF IndInv, TypeOK, LinkInv

LEMMA RecvSleepInv == ASSUME IndInv, RecvSleep PROVE IndInv'
<1>1. FirmwareTypeOK'
  BY Zenon, SlaveUnchanged DEF IndInv, TypeOK, RecvSleep
<1>2. UNCHANGED <<request, late, sampled, executed, disturbed>> /\ slept' = FALSE
  BY Zenon DEF RecvSleep, history
<1>3. FlagsTypeOK'
  BY Zenon, <1>2 DEF IndInv, TypeOK, FlagsTypeOK
<1>4. UNCHANGED <<request, late, sampled>>
  BY Zenon, <1>2
<1>5. DriverTypeOK'
  BY <1>4 DEF IndInv, TypeOK, RecvSleep, DriverTypeOK
<1>6. /\ UNCHANGED <<to_slave, to_master, serial_data, serial_data_idx, serial_state, expected_size,
                     serial_idle_count, kbuf, rsp, msg, want, sent, idle_counter, attempt>>
      /\ dpc = "recv" /\ dpc' = "sleep" /\ ~slept'
  BY DEF RecvSleep, slave_vars, parser
<1>7. (Framing /\ AttemptStartsClean)'
  BY <1>6 DEF IndInv, LinkInv, Framing, AttemptStartsClean, AtRest
<1>8. (CallInv /\ LineInv /\ ParserInv /\ ResponseInv)'
  BY <1>4, <1>6 DEF IndInv, LinkInv, CallInv, LineInv, ParserInv, ResponseInv, active, handed,
     awaiting, AtRest
<1>9. ClockInv'
  BY <1>4, <1>6 DEF IndInv, LinkInv, ClockInv, idle_so_far, AtRest
<1> QED
  BY <1>1, <1>3, <1>5, <1>7, <1>8, <1>9 DEF IndInv, TypeOK, LinkInv

\* Giving up, the slave's parser has had time to forget what it held.
LEMMA RecvWakeInv == ASSUME IndInv, RecvWake PROVE IndInv'
<1>1. FirmwareTypeOK'
  BY Zenon, SlaveUnchanged DEF IndInv, TypeOK, RecvWake
<1>2. UNCHANGED <<request, late, sampled, executed, disturbed, slept>>
  BY Zenon DEF RecvWake, history
<1>3. FlagsTypeOK'
  BY Zenon, <1>2 DEF IndInv, TypeOK, FlagsTypeOK
<1>4. UNCHANGED <<request, late, sampled>>
  BY Zenon, <1>2
<1>5. /\ UNCHANGED <<to_slave, to_master, serial_data, serial_data_idx, serial_state, expected_size,
                     serial_idle_count, kbuf, rsp, msg, want, sent>>
      /\ dpc = "sleep" /\ slept
  BY DEF RecvWake, slave_vars, parser
<1>6. /\ idle_counter \in 0..RECV_IDLE+1 /\ attempt \in 0..MAX_RETRY
      /\ serial_idle_count \in 0..SLAVE_IDLE /\ RECV_IDLE \in Nat /\ SLAVE_IDLE \in Nat
      /\ SLAVE_IDLE < RECV_IDLE
      /\ late \in 0..LATENCY /\ LATENCY \in Nat /\ LATENCY <= RECV_IDLE + 1
  BY RecvAssumption, LatencyAssumption, IdleAssumption DEF IndInv, TypeOK, DriverTypeOK, FirmwareTypeOK, ParserTypeOK
<1>7. idle_so_far = idle_counter + 1
  BY <1>5 DEF idle_so_far
<1>8. /\ to_slave = <<>> /\ (to_master # <<>> => idle_counter + 1 <= late)
      /\ AtRest \/ serial_idle_count >= idle_counter + 1
  BY <1>5, <1>6, <1>7 DEF IndInv, LinkInv, ClockInv
<1>9. CASE idle_limit_reached
  <2>1. dpc' = "try" /\ attempt' = attempt + 1 /\ idle_counter' = idle_counter
    BY <1>9 DEF RecvWake
  <2>2. idle_counter > RECV_IDLE
    BY <1>9 DEF idle_limit_reached
  <2>3. AtRest /\ to_master = <<>>
    BY <1>6, <1>8, <2>2
  <2>4. DriverTypeOK'
    <3>1. attempt + 1 \in 0..MAX_RETRY
      BY <1>5, <1>6, RetryAssumption DEF IndInv, LinkInv, CallInv, active
    <3> QED
      BY <1>4, <1>5, <2>1, <3>1 DEF IndInv, TypeOK, RecvWake, DriverTypeOK
  <2>5. (Framing /\ AttemptStartsClean)'
    BY <1>5, <1>8, <2>1, <2>3 DEF IndInv, LinkInv, Framing, AttemptStartsClean, AtRest
  <2>6. (CallInv /\ LineInv /\ ParserInv /\ ResponseInv /\ ClockInv)'
    BY <1>4, <1>5, <2>1 DEF IndInv, LinkInv, CallInv, LineInv, ParserInv, ResponseInv, ClockInv,
       active
  <2> QED
    BY <1>1, <1>3, <2>4, <2>5, <2>6 DEF IndInv, TypeOK, LinkInv
<1>10. CASE ~idle_limit_reached
  <2>1. dpc' = "recv" /\ idle_counter' = idle_counter + 1 /\ attempt' = attempt
    BY <1>10 DEF RecvWake, idle_counted
  <2>2. ~(idle_counter > RECV_IDLE)
    BY <1>10 DEF idle_limit_reached
  <2>3. DriverTypeOK'
    <3>1. idle_counter + 1 \in 0..RECV_IDLE+1
      BY <1>6, <2>2
    <3> QED
      BY <1>4, <1>5, <2>1, <3>1 DEF IndInv, TypeOK, RecvWake, DriverTypeOK
  <2>4. (Framing /\ AttemptStartsClean)'
    BY <1>5, <2>1 DEF IndInv, LinkInv, Framing, AttemptStartsClean, AtRest
  <2>5. (CallInv /\ LineInv /\ ParserInv /\ ResponseInv)'
    BY <1>4, <1>5, <2>1 DEF IndInv, LinkInv, CallInv, LineInv, ParserInv, ResponseInv, active,
       handed, awaiting, AtRest
  <2>6. ClockInv'
    BY <1>4, <1>5, <1>8, <2>1 DEF ClockInv, idle_so_far, AtRest
  <2> QED
    BY <1>1, <1>3, <2>3, <2>4, <2>5, <2>6 DEF IndInv, TypeOK, LinkInv
<1> QED
  BY <1>9, <1>10


\* The response ends the call only when nothing else is under way.
LEMMA RecvByteInv == ASSUME IndInv, RecvByte PROVE IndInv'
<1>1. FirmwareTypeOK'
  BY Zenon, SlaveUnchanged DEF IndInv, TypeOK, RecvByte
<1>2. UNCHANGED <<request, late, sampled, executed, disturbed, slept>>
  BY Zenon DEF RecvByte, history
<1>3. FlagsTypeOK'
  BY Zenon, <1>2 DEF IndInv, TypeOK, FlagsTypeOK
<1>4. UNCHANGED <<request, late, sampled>>
  BY Zenon, <1>2
<1>5. /\ UNCHANGED <<to_slave, to_master, serial_data, serial_data_idx, serial_state, expected_size,
                     serial_idle_count, want, sent, idle_counter, attempt, transaction_sent>>
      /\ dpc = "recv" /\ kbuf # <<>> /\ kbuf' = Tail(kbuf) /\ rsp' = Append(rsp, Head(kbuf))
      /\ msg' = msg_after_getchar
  BY DEF RecvByte, slave_vars, parser
<1>6. /\ kbuf \in Seq(Byte) /\ rsp \in Seq(Byte) /\ to_master \in Seq(Byte) /\ to_slave \in Seq(Byte)
      /\ Head(kbuf) \in Byte /\ Len(kbuf) >= 1
      /\ Len(kbuf') = Len(kbuf) - 1 /\ Len(rsp') = Len(rsp) + 1
      /\ kbuf' \in Seq(Byte) /\ rsp' \in Seq(Byte)
  BY <1>5 DEF IndInv, TypeOK, DriverTypeOK, FirmwareTypeOK
<1>7. /\ msg = request /\ want \in 1..2 /\ Len(rsp) < want /\ sent = Len(request)
      /\ request \in Seq(Byte) /\ Len(request) \in 2..3 /\ IsRequest(request, want)
  BY <1>5, RequestShape DEF IndInv, LinkInv, CallInv
<1>8. awaiting' = awaiting /\ awaiting > 0 /\ awaiting <= want
  BY <1>5, <1>6 DEF IndInv, LinkInv, ResponseInv, active, awaiting
<1>9. AtRest /\ to_slave = <<>>
  BY <1>5, <1>8 DEF IndInv, LinkInv, ResponseInv, active
<1>10. Framing'
  BY <1>5 DEF IndInv, LinkInv, Framing, AtRest
<1>11. CASE Len(rsp) + 1 = want
  <2>1. /\ dpc' = "idle" /\ transaction_received' = transaction_received + 1
        /\ rval' = IF want = 2 THEN rsp[1] + 256 * Head(kbuf) ELSE rval
    BY <1>11 DEF RecvByte
  <2>2. to_master = <<>>
    BY <1>6, <1>7, <1>8, <1>11 DEF awaiting
  <2>3. AttemptStartsClean'
    BY <1>5, <1>9, <2>2 DEF AttemptStartsClean, AtRest
  <2>4. msg' \in Seq(Byte)
    BY <1>5, <1>6, <1>7 DEF msg_after_getchar
  <2>5. rval' \in Word
    <3>1. CASE want = 2
      <4>1. rsp[1] \in Byte
        BY <1>6, <1>11, <3>1
      <4> QED
        BY <1>6, <2>1, <3>1, <4>1, WordBytes
    <3>2. CASE want # 2
      BY <2>1, <3>2 DEF IndInv, TypeOK, DriverTypeOK
    <3> QED
      BY <3>1, <3>2
  <2>6. DriverTypeOK'
    BY <1>4, <1>5, <1>6, <2>1, <2>4, <2>5 DEF IndInv, TypeOK, DriverTypeOK
  <2>7. (CallInv /\ LineInv /\ ParserInv /\ ResponseInv /\ ClockInv)'
    BY <2>1 DEF CallInv, LineInv, ParserInv, ResponseInv, ClockInv, active
  <2> QED
    BY <1>1, <1>3, <1>10, <2>3, <2>6, <2>7 DEF IndInv, TypeOK, LinkInv
<1>12. CASE Len(rsp) + 1 # want
  <2>1. UNCHANGED <<dpc, transaction_received, rval>>
    BY <1>12 DEF RecvByte
  <2>2. want = 2
    BY <1>6, <1>7, <1>12
  <2>3. msg' = msg
    BY <1>5, <2>2 DEF msg_after_getchar
  <2>4. DriverTypeOK'
    BY <1>4, <1>5, <1>6, <2>1, <2>3 DEF IndInv, TypeOK, DriverTypeOK
  <2>5. AttemptStartsClean'
    BY <1>5, <2>1 DEF AttemptStartsClean
  <2>6. CallInv'
    BY <1>4, <1>5, <1>6, <1>7, <1>12, <2>1, <2>3 DEF IndInv, LinkInv, CallInv, active
  <2>7. (LineInv /\ ParserInv)'
    BY <1>4, <1>5, <2>1 DEF IndInv, LinkInv, LineInv, ParserInv, active, handed
  <2>8. ResponseInv'
    BY <1>4, <1>5, <1>7, <1>8, <1>9, <2>1 DEF ResponseInv, AtRest
  <2>9. ClockInv'
    BY <1>2, <1>4, <1>5, <2>1 DEF IndInv, LinkInv, ClockInv, idle_so_far, AtRest
  <2> QED
    BY <1>1, <1>3, <1>10, <2>4, <2>5, <2>6, <2>7, <2>8, <2>9 DEF IndInv, TypeOK, LinkInv
<1> QED
  BY <1>11, <1>12

LEMMA DeliverInv == ASSUME IndInv, Deliver PROVE IndInv'
<1>1. UNCHANGED <<request, late, sampled, executed, disturbed, slept>>
  BY Zenon DEF Deliver, history
<1>2. FlagsTypeOK'
  BY Zenon, <1>1 DEF IndInv, TypeOK, FlagsTypeOK
<1>3. UNCHANGED <<request, late, sampled>>
  BY Zenon, <1>1
<1>4. /\ to_master # <<>> /\ kbuf' = Append(kbuf, Head(to_master)) /\ to_master' = Tail(to_master)
      /\ UNCHANGED <<to_slave, serial_data, serial_data_idx, serial_state, expected_size,
                     serial_idle_count, dpc, msg, sent, want, rsp, attempt, idle_counter,
                     transaction_sent, transaction_received, rval>>
  BY DEF Deliver, parser
<1>5. /\ kbuf \in Seq(Byte) /\ rsp \in Seq(Byte) /\ to_master \in Seq(Byte) /\ to_slave \in Seq(Byte)
      /\ kbuf' \in Seq(Byte) /\ to_master' \in Seq(Byte)
      /\ Len(kbuf') = Len(kbuf) + 1 /\ Len(to_master') = Len(to_master) - 1
  BY <1>4 DEF IndInv, TypeOK, DriverTypeOK, FirmwareTypeOK
<1>6. FirmwareTypeOK'
  <2>1. ParserTypeOK' /\ BoardTypeOK'
    BY Zenon, ParserUnchanged, BoardUnchanged DEF Deliver, IndInv, TypeOK, FirmwareTypeOK
  <2> QED
    BY <1>4, <1>5, <2>1 DEF FirmwareTypeOK
<1>7. DriverTypeOK'
  BY <1>3, <1>4, <1>5 DEF IndInv, TypeOK, DriverTypeOK
<1>8. awaiting' = awaiting
  BY <1>4, <1>5 DEF awaiting
<1>9. (Framing /\ AttemptStartsClean)'
  BY <1>4, <1>5 DEF IndInv, LinkInv, Framing, AttemptStartsClean, AtRest
<1>10. (CallInv /\ LineInv /\ ParserInv)'
  BY <1>3, <1>4 DEF IndInv, LinkInv, CallInv, LineInv, ParserInv, active, handed
<1>11. ResponseInv'
  BY <1>3, <1>4, <1>8 DEF IndInv, LinkInv, ResponseInv, active, AtRest
<1>12. ClockInv'
  BY <1>1, <1>3, <1>4, <1>5 DEF IndInv, LinkInv, ClockInv, idle_so_far, AtRest
<1> QED
  BY <1>2, <1>6, <1>7, <1>9, <1>10, <1>11, <1>12 DEF IndInv, TypeOK, LinkInv

LEMMA LoseResponseByteInv == ASSUME IndInv, LoseResponseByte PROVE IndInv'
<1>1. UNCHANGED <<request, late, sampled, executed, slept>> /\ disturbed' = TRUE
  BY Zenon DEF LoseResponseByte, driver
<1>2. FlagsTypeOK'
  BY Zenon, <1>1 DEF IndInv, TypeOK, FlagsTypeOK
<1>3. UNCHANGED <<request, late, sampled>>
  BY Zenon, <1>1
<1>4. /\ to_master # <<>> /\ to_master' = Tail(to_master)
      /\ UNCHANGED <<to_slave, serial_data, serial_data_idx, serial_state, expected_size,
                     serial_idle_count>>
  BY DEF LoseResponseByte, parser
<1>5. UNCHANGED <<kbuf, dpc, msg, sent, want, rsp, attempt, idle_counter,
                  transaction_sent, transaction_received, rval>>
  BY Zenon DEF LoseResponseByte, driver
<1>6. /\ kbuf \in Seq(Byte) /\ rsp \in Seq(Byte) /\ to_master \in Seq(Byte) /\ to_slave \in Seq(Byte)
      /\ to_master' \in Seq(Byte) /\ Len(to_master') = Len(to_master) - 1
  BY <1>4 DEF IndInv, TypeOK, DriverTypeOK, FirmwareTypeOK
<1>7. FirmwareTypeOK'
  <2>1. ParserTypeOK' /\ BoardTypeOK'
    BY Zenon, ParserUnchanged, BoardUnchanged DEF LoseResponseByte, IndInv, TypeOK, FirmwareTypeOK
  <2> QED
    BY <1>4, <1>6, <2>1 DEF FirmwareTypeOK
<1>8. DriverTypeOK'
  BY <1>3, <1>5, <1>6 DEF IndInv, TypeOK, DriverTypeOK
<1>9. awaiting' = awaiting - 1 /\ awaiting \in Nat
  BY <1>4, <1>5, <1>6 DEF awaiting
<1>10. (Framing /\ AttemptStartsClean)'
  BY <1>4, <1>5, <1>6 DEF IndInv, LinkInv, Framing, AttemptStartsClean, AtRest
<1>11. (CallInv /\ LineInv /\ ParserInv)'
  BY <1>3, <1>4, <1>5 DEF IndInv, LinkInv, CallInv, LineInv, ParserInv, active, handed
<1>12. ResponseInv'
  <2>1. dpc # "idle" => want \in 1..2
    BY RequestShape
  <2> QED
    BY <1>3, <1>4, <1>5, <1>9, <2>1 DEF IndInv, LinkInv, ResponseInv, active, AtRest
<1>13. ClockInv'
  BY <1>1, <1>3, <1>4, <1>5, <1>6 DEF IndInv, LinkInv, ClockInv, idle_so_far, AtRest
<1> QED
  BY <1>2, <1>7, <1>8, <1>10, <1>11, <1>12, <1>13 DEF IndInv, TypeOK, LinkInv

(* Steps that take a byte off the line to the slave. *)

\* A byte on that line is the next byte of the request of an attempt in progress;
\* no answer is under way and no idle time has been counted.
LEMMA TakeContext ==
  ASSUME IndInv, to_slave # <<>>
  PROVE  /\ active /\ dpc # "idle"
         /\ to_slave \in Seq(Byte) /\ Len(to_slave) >= 1 /\ sent \in 0..3
         /\ handed \in Nat /\ handed < Len(request) /\ handed < sent /\ sent <= Len(request)
         /\ Head(to_slave) \in Byte /\ Head(to_slave) = request[handed + 1]
         /\ to_master = <<>> /\ kbuf = <<>> /\ rsp = <<>>
         /\ serial_state # "TEXT" /\ serial_data_idx <= handed
         /\ handed + 1 = Len(request) => sent = Len(request)
<1>1. active /\ dpc # "idle"
  BY DEF IndInv, TypeOK, DriverTypeOK, LinkInv, AttemptStartsClean, active
<1>2. /\ to_slave \in Seq(Byte) /\ Len(to_slave) >= 1 /\ sent \in 0..3
      /\ to_master \in Seq(Byte) /\ kbuf \in Seq(Byte) /\ rsp \in Seq(Byte)
      /\ Head(to_slave) \in Byte /\ Head(to_slave) = to_slave[1]
  BY DEF IndInv, TypeOK, DriverTypeOK, FirmwareTypeOK
<1>3. Len(to_slave) <= sent /\ to_slave[1] = request[handed + 1]
  BY <1>1, <1>2 DEF IndInv, LinkInv, LineInv
<1>4. (dpc = "send" /\ sent < Len(request)) \/ sent = Len(request)
  BY <1>1 DEF IndInv, LinkInv, CallInv, active
<1>5. Len(request) \in 2..3
  BY <1>1, RequestShape
<1>6. handed \in Nat /\ handed < sent
  BY <1>2, <1>3 DEF handed
<1>7. to_master = <<>> /\ kbuf = <<>> /\ rsp = <<>>
  <2>1. awaiting <= 0
    BY <1>1, <1>2 DEF IndInv, LinkInv, ResponseInv, awaiting
  <2> QED
    BY <1>2, <2>1 DEF awaiting
<1>8. serial_state # "TEXT" /\ serial_data_idx <= handed
  BY <1>1 DEF IndInv, LinkInv, ParserInv
<1> QED
  BY <1>1, <1>2, <1>3, <1>4, <1>5, <1>6, <1>7, <1>8

\* Taking it leaves the driver's part of the invariant true.
LEMMA TakeByte ==
  ASSUME IndInv, to_slave # <<>>, to_slave' = Tail(to_slave), UNCHANGED driver, UNCHANGED request
  PROVE  /\ handed' = handed + 1 /\ to_slave' \in Seq(Byte)
         /\ UNCHANGED <<kbuf, dpc, msg, sent, want, rsp, attempt, idle_counter, transaction_sent,
                        transaction_received, rval>>
         /\ active' /\ AttemptStartsClean' /\ CallInv' /\ LineInv' /\ ClockInv'
         /\ handed + 1 = Len(request) => to_slave' = <<>>
<1>1. UNCHANGED <<kbuf, dpc, msg, sent, want, rsp, attempt, idle_counter, transaction_sent,
                  transaction_received, rval>> /\ UNCHANGED slept
  BY Zenon DEF driver
<1>2. /\ to_slave' \in Seq(Byte) /\ Len(to_slave') = Len(to_slave) - 1
      /\ \A j \in 1..Len(to_slave') : to_slave'[j] = to_slave[j + 1]
  BY TakeContext
<1>3. handed' = handed + 1 /\ active' /\ active
  BY <1>1, <1>2, TakeContext DEF handed, active
<1>4. AttemptStartsClean' /\ CallInv'
  BY <1>1, <1>3 DEF IndInv, LinkInv, AttemptStartsClean, CallInv, active
<1>5. LineInv'
  <2>1. /\ Len(to_slave) <= sent
        /\ \A j \in 1..Len(to_slave) : to_slave[j] = request[handed + j]
    BY <1>3 DEF IndInv, LinkInv, LineInv
  <2>2. ASSUME NEW j \in 1..Len(to_slave') PROVE to_slave'[j] = request'[handed' + j]
    <3>1. to_slave'[j] = request[handed + (j + 1)]
      BY <1>2, <2>1, TakeContext
    <3>2. handed + (j + 1) = handed' + j
      BY <1>2, <1>3, TakeContext
    <3> QED
      BY <3>1, <3>2
  <2>3. Len(to_slave') <= sent'
    BY <1>1, <1>2, <2>1, TakeContext
  <2> QED
    BY Zenon, <2>2, <2>3 DEF LineInv
<1>6. ClockInv'
  <2>1. dpc \in {"recv", "sleep"} => ~(idle_so_far > 0)
    BY DEF IndInv, LinkInv, ClockInv
  <2>2. idle_so_far' = idle_so_far /\ dpc' = dpc
    BY Zenon, <1>1 DEF idle_so_far
  <2> QED
    BY <2>1, <2>2 DEF ClockInv
<1>7. handed + 1 = Len(request) => to_slave' = <<>>
  BY <1>2, TakeContext DEF handed
<1> QED
  BY <1>1, <1>2, <1>3, <1>4, <1>5, <1>6, <1>7

LEMMA LoseRequestByteInv == ASSUME IndInv, LoseRequestByte PROVE IndInv'
<1>1. UNCHANGED <<request, late, sampled, executed, slept>> /\ disturbed' = TRUE
  BY Zenon DEF LoseRequestByte, driver
<1>2. FlagsTypeOK'
  BY Zenon, <1>1 DEF IndInv, TypeOK, FlagsTypeOK
<1>3. UNCHANGED <<request, late, sampled>> /\ UNCHANGED request
  BY Zenon, <1>1
<1>4. /\ to_slave # <<>> /\ to_slave' = Tail(to_slave) /\ to_master' = to_master
      /\ UNCHANGED driver
      /\ UNCHANGED <<serial_data, serial_data_idx, serial_state, expected_size>>
  BY DEF LoseRequestByte, parser
<1>5. /\ handed' = handed + 1 /\ to_slave' \in Seq(Byte)
      /\ UNCHANGED <<kbuf, dpc, msg, sent, want, rsp, attempt, idle_counter, transaction_sent,
                     transaction_received, rval>>
      /\ active' /\ AttemptStartsClean' /\ CallInv' /\ LineInv' /\ ClockInv'
  BY <1>3, <1>4, TakeByte
<1>6. FirmwareTypeOK'
  <2>1. ParserTypeOK' /\ BoardTypeOK'
    BY Zenon, ParserUnchanged, BoardUnchanged DEF LoseRequestByte, IndInv, TypeOK, FirmwareTypeOK
  <2> QED
    BY <1>4, <1>5, <2>1 DEF IndInv, TypeOK, FirmwareTypeOK
<1>7. DriverTypeOK'
  BY <1>3, <1>5 DEF IndInv, TypeOK, DriverTypeOK
<1>8. Framing'
  BY <1>4 DEF IndInv, LinkInv, Framing, AtRest
<1>9. ParserInv'
  BY SMTT(30), <1>3, <1>4, <1>5, TakeContext DEF IndInv, TypeOK, FirmwareTypeOK, ParserTypeOK, LinkInv, ParserInv
<1>10. ResponseInv'
  BY <1>4, <1>5, TakeContext, RequestShape DEF ResponseInv, awaiting
<1> QED
  BY <1>2, <1>5, <1>6, <1>7, <1>8, <1>9, <1>10 DEF IndInv, TypeOK, LinkInv

\* A millisecond of silence: the slave's count keeps up with recv's, or its
\* parser is back at rest.
LEMMA TickInv == ASSUME IndInv, Tick PROVE IndInv'
<1>1. UNCHANGED <<request, sampled, executed>> /\ slept' = TRUE
      /\ disturbed' = (disturbed \/ (~AtRest /\ AtRest'))
  BY Zenon DEF Tick
<1>2. FlagsTypeOK'
  BY Zenon, <1>1 DEF IndInv, TypeOK, FlagsTypeOK
<1>3. UNCHANGED <<request, sampled>>
  BY Zenon, <1>1
<1>4. /\ to_slave = <<>>
      /\ to_master = <<>> \/ late < LATENCY
      /\ late' = IF to_master = <<>> THEN late ELSE late + 1
      /\ UNCHANGED <<to_slave, to_master, serial_data, expected_size, kbuf, dpc, msg, sent, want,
                     rsp, attempt, idle_counter, transaction_sent, transaction_received, rval>>
  BY DEF Tick, Idle
<1>5. /\ serial_idle_count \in 0..SLAVE_IDLE /\ idle_counter \in 0..RECV_IDLE+1
      /\ SLAVE_IDLE \in Nat /\ RECV_IDLE \in Nat /\ sent \in Nat /\ serial_data_idx \in 0..BUF-1
      /\ BUF \in Nat /\ BUF >= 6 /\ late \in 0..LATENCY /\ LATENCY \in Nat
  BY RecvAssumption, LatencyAssumption, IdleAssumption, BufAssumption
     DEF IndInv, TypeOK, DriverTypeOK, FirmwareTypeOK, ParserTypeOK
<1>6. \/ /\ serial_idle_count + 1 > SLAVE_IDLE /\ serial_idle_count' = 0
         /\ serial_state' = "TYPE" /\ serial_data_idx' = 0
      \/ /\ ~(serial_idle_count + 1 > SLAVE_IDLE) /\ serial_idle_count' = serial_idle_count + 1
         /\ UNCHANGED <<serial_state, serial_data_idx>>
  BY DEF Tick, Idle, to_rest
<1>7. ParserTypeOK'
  BY <1>4, <1>5, <1>6 DEF IndInv, TypeOK, FirmwareTypeOK, ParserTypeOK
<1>8. FirmwareTypeOK'
  <2>1. UNCHANGED board
    BY DEF Tick, Idle
  <2>2. BoardTypeOK'
    BY Zenon, <2>1, BoardUnchanged DEF IndInv, TypeOK, FirmwareTypeOK
  <2> QED
    BY <1>4, <1>7, <2>2 DEF IndInv, TypeOK, FirmwareTypeOK
<1>9. DriverTypeOK'
  <2>1. late' \in 0..LATENCY
    BY <1>4, <1>5
  <2> QED
    BY <1>3, <1>4, <2>1 DEF IndInv, TypeOK, DriverTypeOK
<1>10. (Framing /\ AttemptStartsClean)'
  BY <1>4, <1>6 DEF IndInv, LinkInv, Framing, AttemptStartsClean, AtRest
<1>11. (CallInv /\ LineInv)'
  BY <1>3, <1>4 DEF IndInv, LinkInv, CallInv, LineInv, active, handed
<1>12. handed \in Nat /\ handed' = handed
  BY <1>4, <1>5 DEF handed
<1>13. ParserInv'
  BY <1>3, <1>4, <1>6, <1>12 DEF IndInv, LinkInv, ParserInv, active
<1>14. ResponseInv'
  BY <1>3, <1>4, <1>6 DEF IndInv, LinkInv, ResponseInv, active, awaiting, AtRest
<1>15. ClockInv'
  <2>1. idle_so_far' <= idle_counter + 1
    BY <1>4, <1>5 DEF idle_so_far
  <2>2. dpc \in {"recv", "sleep"} /\ idle_counter > 0 => AtRest \/ serial_idle_count >= idle_counter
    <3>1. idle_so_far \in {idle_counter, idle_counter + 1}
      BY <1>5 DEF idle_so_far
    <3> QED
      BY <1>5, <3>1 DEF IndInv, LinkInv, ClockInv
  <2>3. idle_so_far' \in Int
    BY <1>4, <1>5 DEF idle_so_far
  <2>4. dpc \in {"recv", "sleep"} => AtRest' \/ serial_idle_count' >= idle_so_far'
    BY <1>5, <1>6, <2>1, <2>2, <2>3 DEF AtRest
  <2>5. dpc \in {"recv", "sleep"} /\ to_master # <<>> => idle_so_far' <= late'
    <3>1. idle_so_far \in {idle_counter, idle_counter + 1}
      BY <1>5 DEF idle_so_far
    <3>2. dpc \in {"recv", "sleep"} /\ to_master # <<>> => idle_counter <= late
      BY <1>5, <3>1 DEF IndInv, LinkInv, ClockInv
    <3> QED
      BY <1>4, <1>5, <2>1, <2>3, <3>2
  <2> QED
    BY <1>4, <2>4, <2>5 DEF ClockInv
<1> QED
  BY <1>2, <1>8, <1>9, <1>10, <1>11, <1>13, <1>14, <1>15 DEF IndInv, TypeOK, LinkInv

\* A reset of the board forgets half a request, which no answer follows.
LEMMA SlaveRestartInv == ASSUME IndInv, SlaveRestart PROVE IndInv'
<1>1. UNCHANGED <<request, late, sampled, executed, slept>> /\ disturbed' = TRUE
  BY Zenon DEF SlaveRestart, driver
<1>2. FlagsTypeOK'
  BY Zenon, <1>1 DEF IndInv, TypeOK, FlagsTypeOK
<1>3. UNCHANGED <<request, late, sampled>>
  BY Zenon, <1>1
<1>4. UNCHANGED <<kbuf, dpc, msg, sent, want, rsp, attempt, idle_counter,
                  transaction_sent, transaction_received, rval>>
  BY Zenon DEF SlaveRestart, driver
<1>5. /\ UNCHANGED <<to_slave, to_master>> /\ serial_state' = "TYPE" /\ serial_data_idx' = 0
      /\ serial_data' = blank_data /\ expected_size' = 0 /\ serial_idle_count' = 0
  BY DEF SlaveRestart, setup, to_rest
<1>6. ParserTypeOK'
  BY <1>5, BufAssumption, IdleAssumption DEF ParserTypeOK, blank_data, Byte
<1>7. BoardTypeOK'
  BY DEF SlaveRestart, setup, BoardTypeOK, blank_timers, core_wgm, core_clk, zero_duty, zero_pins,
     Timers, Byte
<1>8. FirmwareTypeOK'
  BY <1>5, <1>6, <1>7 DEF IndInv, TypeOK, FirmwareTypeOK
<1>9. DriverTypeOK'
  BY <1>3, <1>4 DEF IndInv, TypeOK, DriverTypeOK
<1>10. (Framing /\ AttemptStartsClean)'
  BY <1>4, <1>5 DEF IndInv, LinkInv, Framing, AttemptStartsClean, AtRest
<1>11. (CallInv /\ LineInv)'
  BY <1>3, <1>4, <1>5 DEF IndInv, LinkInv, CallInv, LineInv, active, handed
<1>12. ParserInv'
  <2>1. active => handed \in Nat /\ handed' = handed
    BY <1>4, <1>5 DEF IndInv, TypeOK, FirmwareTypeOK, DriverTypeOK, LinkInv, LineInv, handed
  <2> QED
    BY <1>4, <1>5, <2>1 DEF ParserInv, active
<1>13. ResponseInv'
  BY <1>3, <1>4, <1>5 DEF IndInv, LinkInv, ResponseInv, active, awaiting, AtRest
<1>14. ClockInv'
  BY <1>1, <1>3, <1>4, <1>5 DEF IndInv, LinkInv, ClockInv, idle_so_far, AtRest
<1> QED
  BY <1>2, <1>8, <1>9, <1>10, <1>11, <1>12, <1>13, <1>14 DEF IndInv, TypeOK, LinkInv

\* What every path through the slave's read loop does.
LEMMA SlaveReadsContext ==
  ASSUME IndInv, SlaveReads
  PROVE  /\ to_slave # <<>> /\ to_slave' = Tail(to_slave) /\ serial_idle_count' = 0
         /\ UNCHANGED driver /\ UNCHANGED request /\ UNCHANGED late
         /\ ReadHeaderOnly \/ ReadType \/ ReadText \/ ReadBody \/ ReadBodyEnd
         /\ sampled' \subseteq Samples /\ FlagsTypeOK'
<1>1. UNCHANGED driver /\ UNCHANGED <<request, disturbed, late>>
  BY Zenon DEF SlaveReads
<1>2. ReadHeaderOnly \/ ReadBodyEnd \/ ReadType \/ ReadText \/ ReadBody \/ ReadTextEnd
  BY Zenon DEF SlaveReads, SlaveRuns
<1>3. take_byte
  BY Zenon, <1>2 DEF ReadHeaderOnly, ReadBodyEnd, ReadType, ReadText, ReadBody, ReadTextEnd
<1>4. to_slave # <<>> /\ to_slave' = Tail(to_slave) /\ serial_idle_count' = 0
  BY Zenon, <1>3 DEF take_byte
<1>5. ~ReadTextEnd
  BY <1>4, TakeContext DEF ReadTextEnd
<1>6. sampled' = sampled \/ sampled' = sampled \union samples_now
  BY Zenon DEF SlaveReads
<1>7. sampled' \subseteq Samples
  BY <1>6 DEF IndInv, TypeOK, DriverTypeOK, samples_now
<1>8. UNCHANGED slept /\ UNCHANGED disturbed
  BY Zenon, <1>1 DEF driver
<1>9. executed' = executed \/ executed' = (executed \/ executes_request)
  BY Zenon DEF SlaveReads
<1>10. FlagsTypeOK'
  BY Zenon, <1>8, <1>9 DEF IndInv, TypeOK, FlagsTypeOK
<1> QED
  BY Zenon, <1>1, <1>2, <1>4, <1>5, <1>7, <1>10

\* The slave stores the byte it takes.
LEMMA Received ==
  ASSUME IndInv, to_slave # <<>>
  PROVE  /\ received \in [0..BUF-1 -> Byte]
         /\ received[serial_data_idx] = request[handed + 1]
         /\ \A i \in 0..BUF-1 : i # serial_data_idx => received[i] = serial_data[i]
         /\ serial_data_idx \in 0..2 /\ after(serial_data_idx) = serial_data_idx + 1
         /\ handed \in 0..2 /\ handed + 1 <= Len(request) /\ BUF >= 6 /\ BUF \in Nat
<1>1. /\ serial_data \in [0..BUF-1 -> Byte] /\ serial_data_idx \in 0..BUF-1
      /\ BUF \in Nat /\ BUF >= 6
  BY BufAssumption DEF IndInv, TypeOK, FirmwareTypeOK, ParserTypeOK
<1>2. /\ Head(to_slave) \in Byte /\ Head(to_slave) = request[handed + 1]
      /\ handed \in Nat /\ handed < Len(request) /\ serial_data_idx <= handed
      /\ Len(request) \in 2..3
  BY TakeContext, RequestShape
<1>3. received = [serial_data EXCEPT ![serial_data_idx] = Head(to_slave)]
  BY DEF received, store
<1> QED
  BY SMTT(30), <1>1, <1>2, <1>3 DEF after

\* In an attempt that missed no byte the parser's array grows with the request.
LEMMA Prefix ==
  ASSUME IndInv, to_slave # <<>>, serial_data_idx = handed
  PROVE  \A i \in 1..handed + 1 : received[i - 1] = request[i]
<1>1. \A i \in 1..handed : serial_data[i - 1] = request[i]
  BY TakeContext DEF IndInv, LinkInv, ParserInv
<1>2. ASSUME NEW i \in 1..handed + 1 PROVE received[i - 1] = request[i]
  <2>1. CASE i = handed + 1
    BY <2>1, Received
  <2>2. CASE i # handed + 1
    <3>1. i \in 1..handed /\ i - 1 \in 0..BUF-1 /\ i - 1 # serial_data_idx
      BY <2>2, Received
    <3> QED
      BY <1>1, <3>1, Received
  <2> QED
    BY <2>1, <2>2
<1> QED
  BY <1>2

\* The slave's part of the invariant.
SlaveInv == ParserTypeOK /\ BoardTypeOK /\ to_master \in Seq(Byte) /\ Framing /\ ParserInv /\ ResponseInv

LEMMA ReadHeaderOnlyInv == ASSUME IndInv, SlaveReads, ReadHeaderOnly PROVE SlaveInv'
<1>1. to_slave # <<>> /\ serial_idle_count' = 0
  BY SlaveReadsContext
<1>2. /\ serial_state = "TYPE" /\ serial_state' = "TYPE" /\ serial_data' = received
      /\ Head(to_slave) \in MsgTypes /\ msg_size(Head(to_slave)) = 1
      /\ expected_size' = 0 /\ serial_data_idx' = 0 /\ process_message(received)
  BY DEF ReadHeaderOnly
<1>3. received[0] = LOG_INFO /\ serial_data_idx = 0
  BY <1>1, <1>2, Received, TakeContext
     DEF IndInv, LinkInv, Framing, AtRest, msg_size, MsgTypes, LOG_INFO, PWM_DUTY
<1>4. BoardTypeOK' /\ to_master' \in Seq(Byte) /\ Len(to_master') = Len(to_master)
  <2>1. BoardTypeOK /\ to_master \in Seq(Byte) /\ Len(to_master) \in Nat
    BY DEF IndInv, TypeOK, FirmwareTypeOK
  <2> QED
    BY <1>1, <1>2, <1>3, <2>1, Received, ProcessMessage
<1>5. to_master = <<>> /\ kbuf = <<>> /\ rsp = <<>> /\ dpc # "idle" /\ handed \in Nat
  BY <1>1, TakeContext
<1>6. /\ kbuf' = kbuf /\ rsp' = rsp /\ want' = want /\ handed' = handed + 1
  BY SlaveReadsContext, TakeByte
<1>7. ParserTypeOK'
  BY <1>1, <1>2, Received, BufAssumption, IdleAssumption DEF ParserTypeOK, Byte
<1>8. Framing' /\ ParserInv'
  BY <1>2, <1>5, <1>6 DEF Framing, ParserInv, AtRest
<1>9. ResponseInv'
  BY <1>4, <1>5, <1>6, RequestShape DEF ResponseInv, awaiting
<1> QED
  BY <1>4, <1>7, <1>8, <1>9 DEF SlaveInv

\* Reading without answering leaves board and answer line alone.
LEMMA QuietInv ==
  ASSUME IndInv, SlaveReads, UNCHANGED board, UNCHANGED to_master
  PROVE  BoardTypeOK' /\ to_master' \in Seq(Byte) /\ ResponseInv'
<1>1. to_slave # <<>>
  BY SlaveReadsContext
<1>2. BoardTypeOK'
  BY Zenon, BoardUnchanged DEF IndInv, TypeOK, FirmwareTypeOK
<1>3. to_master = <<>> /\ kbuf = <<>> /\ rsp = <<>> /\ dpc # "idle"
  BY <1>1, TakeContext
<1>4. kbuf' = kbuf /\ rsp' = rsp /\ want' = want
  BY SlaveReadsContext, TakeByte
<1> QED
  BY <1>2, <1>3, <1>4, RequestShape DEF ResponseInv, awaiting

LEMMA ReadTypeInv == ASSUME IndInv, SlaveReads, ReadType PROVE SlaveInv'
<1>1. to_slave # <<>> /\ serial_idle_count' = 0
  BY SlaveReadsContext
<1>2. /\ serial_state = "TYPE" /\ serial_state' = "BODY" /\ serial_data' = received
      /\ Head(to_slave) \in MsgTypes /\ msg_size(Head(to_slave)) > 1
      /\ expected_size' = msg_size(Head(to_slave)) - 1
      /\ serial_data_idx' = after(serial_data_idx)
      /\ UNCHANGED board /\ UNCHANGED to_master
  BY DEF ReadType
<1>3. BoardTypeOK' /\ to_master' \in Seq(Byte) /\ ResponseInv'
  BY <1>2, QuietInv
<1>4. serial_data_idx = 0 /\ serial_data_idx' = 1 /\ received[0] = Head(to_slave)
      /\ received[0] = request[handed + 1] /\ handed \in 0..2
  BY <1>1, <1>2, Received, TakeContext DEF IndInv, LinkInv, Framing, AtRest
<1>5. request' = request /\ handed' = handed + 1
  BY SlaveReadsContext, TakeByte
<1>6. expected_size' \in 1..2 /\ expected_size' \in Byte
  BY <1>2 DEF msg_size, Byte
<1>7. ParserTypeOK'
  BY <1>1, <1>2, <1>4, <1>6, Received, BufAssumption, IdleAssumption DEF ParserTypeOK
<1>8. Framing'
  BY <1>2, <1>4, <1>6 DEF Framing, AtRest
<1>9. ParserInv'
  <2>1. serial_data_idx' = handed' => \A i \in 1..handed' : serial_data'[i - 1] = request'[i]
    BY <1>1, <1>2, <1>4, <1>5, Prefix
  <2>2. handed' \in 1..handed' /\ serial_data'[0] = request'[handed']
    BY <1>2, <1>4, <1>5
  <2> QED
    BY <1>2, <1>4, <1>5, <2>1, <2>2 DEF ParserInv
<1> QED
  BY <1>3, <1>7, <1>8, <1>9 DEF SlaveInv

\* Any byte of a request but its last reads as a type, and as that of a long
\* answer only if the driver waits for one.
LEMMA RequestHeads ==
  ASSUME IndInv, dpc # "idle", NEW s \in 1..Len(request)-1
  PROVE  /\ request[s] \in MsgTypes
         /\ request[s] = ANALOG_READ => want = 2
         /\ Len(request) = 3 /\ s = 1 => msg_size(request[s]) = 3
<1>1. IsRequest(request, want) /\ Len(request) \in 2..3
  BY RequestShape
<1>2. CASE Len(request) = 2
  <2>1. s = 1
    BY <1>2
  <2> QED
    BY <1>1, <1>2, <2>1 DEF IsRequest, MsgTypes, LOG_INFO, PINMODE, PWM_INIT, ANALOG_READ, PWM_DUTY
<1>3. CASE Len(request) = 3
  <2>1. s = 1 \/ s = 2
    BY <1>3
  <2>2. request[1] = 6 /\ request[2] \in 0..5 /\ request[2] # 4
    BY <1>1, <1>3 DEF IsRequest, PWM_DUTY
  <2> QED
    BY <2>1, <2>2 DEF MsgTypes, LOG_INFO, ANALOG_READ, PWM_DUTY, msg_size
<1> QED
  BY <1>1, <1>2, <1>3

\* A byte that is no type is the last of the request, so no text command forms.
LEMMA ReadTextInv == ASSUME IndInv, SlaveReads, ReadText PROVE SlaveInv'
<1>1. to_slave # <<>> /\ serial_idle_count' = 0
  BY SlaveReadsContext
<1>2. /\ serial_state = "TYPE" /\ serial_state' = "TEXT" /\ serial_data' = received
      /\ Head(to_slave) \notin MsgTypes
      /\ serial_data_idx' = after(serial_data_idx) /\ expected_size' = expected_size
      /\ UNCHANGED board /\ UNCHANGED to_master
  BY <1>1, TakeContext DEF ReadText
<1>3. BoardTypeOK' /\ to_master' \in Seq(Byte) /\ ResponseInv'
  BY <1>2, QuietInv
<1>4. /\ serial_data_idx = 0 /\ serial_data_idx' = 1 /\ Head(to_slave) = request[handed + 1]
      /\ handed \in 0..2
  BY <1>1, <1>2, Received, TakeContext DEF IndInv, LinkInv, Framing, AtRest
<1>5. request' = request /\ handed' = handed + 1 /\ sent' = sent
  BY SlaveReadsContext, TakeByte
<1>6. /\ handed + 1 = Len(request) /\ Len(request) \in 2..3
  <2>1. dpc # "idle" /\ Len(request) \in 2..3 /\ handed < Len(request) /\ handed \in Nat
    BY <1>1, TakeContext, RequestShape
  <2>2. handed + 1 \in 1..Len(request)-1 => request[handed + 1] \in MsgTypes
    BY <2>1, RequestHeads
  <2> QED
    BY <1>2, <1>4, <2>1, <2>2
<1>7. to_slave' = <<>> /\ sent = Len(request)
  BY <1>1, <1>6, SlaveReadsContext, TakeByte, TakeContext
<1>8. ParserTypeOK'
  BY <1>1, <1>2, <1>4, Received, BufAssumption, IdleAssumption
     DEF IndInv, TypeOK, FirmwareTypeOK, ParserTypeOK
<1>9. Framing'
  BY <1>2 DEF Framing, AtRest
<1>10. ParserInv'
  BY <1>2, <1>4, <1>5, <1>6, <1>7 DEF ParserInv
<1> QED
  BY <1>3, <1>8, <1>9, <1>10 DEF SlaveInv

\* What the parser holds inside a binary message.
LEMMA Body ==
  ASSUME IndInv, to_slave # <<>>, serial_state = "BODY"
  PROVE  /\ serial_data_idx \in 1..2 /\ expected_size \in 1..2
         /\ serial_data_idx + expected_size = msg_size(serial_data[0])
         /\ serial_data[0] \in MsgTypes /\ serial_data[0] # LOG_INFO
         /\ received[0] = serial_data[0]
         /\ \E s \in 1..handed : serial_data[0] = request[s]
<1>1. /\ serial_data[0] \in MsgTypes /\ serial_data_idx >= 1 /\ expected_size >= 1
      /\ serial_data_idx + expected_size = msg_size(serial_data[0])
  BY DEF IndInv, LinkInv, Framing
<1>2. expected_size \in Nat /\ serial_data_idx \in 0..2
  BY Received DEF IndInv, TypeOK, FirmwareTypeOK, ParserTypeOK, Byte
<1>3. \E s \in 1..handed : serial_data[0] = request[s]
  BY TakeContext DEF IndInv, LinkInv, ParserInv
<1>4. received[0] = serial_data[0]
  BY <1>1, <1>2, Received
<1> QED
  BY <1>1, <1>2, <1>3, <1>4 DEF msg_size

LEMMA ReadBodyInv == ASSUME IndInv, SlaveReads, ReadBody PROVE SlaveInv'
<1>1. to_slave # <<>> /\ serial_idle_count' = 0
  BY SlaveReadsContext
<1>2. /\ serial_state = "BODY" /\ serial_state' = "BODY" /\ serial_data' = received
      /\ expected_size # 1 /\ expected_size' = (expected_size - 1) % 256
      /\ serial_data_idx' = after(serial_data_idx)
      /\ UNCHANGED board /\ UNCHANGED to_master
  BY DEF ReadBody
<1>3. BoardTypeOK' /\ to_master' \in Seq(Byte) /\ ResponseInv'
  BY <1>2, QuietInv
<1>4. /\ serial_data_idx = 1 /\ expected_size = 2 /\ msg_size(serial_data[0]) = 3
      /\ serial_data[0] \in MsgTypes /\ received[0] = serial_data[0]
  BY <1>1, <1>2, Body DEF msg_size
<1>5. request' = request /\ handed' = handed + 1
  BY SlaveReadsContext, TakeByte
<1>6. serial_data_idx' = 2 /\ expected_size' = 1 /\ handed \in 1..2
  BY <1>1, <1>2, <1>4, Received, TakeContext
<1>7. ParserTypeOK'
  BY <1>1, <1>2, <1>6, Received, BufAssumption, IdleAssumption DEF ParserTypeOK, Byte
<1>8. Framing'
  BY <1>2, <1>4, <1>6 DEF Framing, AtRest
<1>9. ParserInv'
  <2>1. serial_data_idx' = handed' => \A i \in 1..handed' : serial_data'[i - 1] = request'[i]
    BY <1>1, <1>2, <1>4, <1>5, <1>6, Prefix
  <2>2. \E s \in 1..handed' : serial_data'[0] = request'[s]
    BY <1>1, <1>2, <1>4, <1>5, <1>6, Body
  <2> QED
    BY <1>2, <1>5, <1>6, <2>1, <2>2 DEF ParserInv
<1> QED
  BY <1>3, <1>7, <1>8, <1>9 DEF SlaveInv

\* The slave answers a whole request only, and no longer than the driver expects,
\* also when what it executes is the tail of a request that lost its head.
LEMMA ReadBodyEndInv == ASSUME IndInv, SlaveReads, ReadBodyEnd PROVE SlaveInv'
<1>1. to_slave # <<>> /\ serial_idle_count' = 0
  BY SlaveReadsContext
<1>2. /\ serial_state = "BODY" /\ serial_state' = "TYPE" /\ serial_data' = received
      /\ expected_size = 1 /\ expected_size' = 0 /\ serial_data_idx' = 0
      /\ process_message(received)
  BY DEF ReadBodyEnd, to_rest
<1>3. /\ serial_data_idx + 1 = msg_size(received[0]) /\ received[0] = serial_data[0]
      /\ received[0] # LOG_INFO /\ serial_data_idx \in 1..2
  BY <1>1, <1>2, Body
<1>4. PICK s \in 1..handed : received[0] = request[s]
  BY <1>1, <1>2, <1>3, Body
<1>5. /\ handed \in 0..2 /\ serial_data_idx <= handed /\ handed + 1 <= Len(request)
      /\ Len(request) \in 2..3 /\ dpc # "idle"
  BY <1>1, Received, TakeContext, RequestShape
<1>5a. s \in 1..Len(request)-1
  BY <1>5
<1>6. handed + 1 = Len(request)
  <2>1. Len(request) = 3 /\ s = 1 => msg_size(request[s]) = 3
    BY <1>5, <1>5a, RequestHeads
  <2>2. Len(request) = 3 /\ s = 1 => serial_data_idx = 2
    BY <1>3, <1>4, <2>1
  <2>3. handed = 1 => s = 1
    OBVIOUS
  <2>4. serial_data_idx \in 1..2
    BY <1>3
  <2>5. CASE handed = 1
    BY <1>5, <2>2, <2>3, <2>4, <2>5
  <2>6. CASE handed = 2
    BY <1>5, <2>6
  <2> QED
    BY <1>5, <2>4, <2>5, <2>6
<1>7. received[0] = ANALOG_READ => want = 2
  BY <1>4, <1>5, <1>5a, RequestHeads
<1>8. /\ BoardTypeOK' /\ to_master' \in Seq(Byte)
      /\ Len(to_master') = Len(to_master) + (IF received[0] = ANALOG_READ THEN 2 ELSE 1)
  <2>1. BoardTypeOK /\ to_master \in Seq(Byte) /\ received \in [0..BUF-1 -> Byte]
    BY <1>1, Received DEF IndInv, TypeOK, FirmwareTypeOK
  <2> QED
    BY <1>2, <1>3, <2>1, ProcessMessage
<1>9. to_master = <<>> /\ kbuf = <<>> /\ rsp = <<>> /\ dpc # "idle" /\ want \in 1..2
      /\ sent = Len(request)
  BY <1>1, <1>6, TakeContext, RequestShape
<1>10. /\ kbuf' = kbuf /\ rsp' = rsp /\ want' = want /\ handed' = handed + 1
       /\ request' = request /\ sent' = sent /\ to_slave' = <<>>
  BY <1>6, SlaveReadsContext, TakeByte
<1>11. ParserTypeOK'
  BY <1>1, <1>2, Received, BufAssumption, IdleAssumption DEF ParserTypeOK, Byte
<1>12. Framing' /\ ParserInv'
  BY <1>2, <1>5, <1>10 DEF Framing, ParserInv, AtRest
<1>13. ResponseInv'
  <2>1. awaiting' \in 1..2 /\ awaiting' <= want
    BY <1>7, <1>8, <1>9, <1>10 DEF awaiting
  <2> QED
    BY <1>2, <1>9, <1>10, <2>1 DEF ResponseInv, AtRest
<1> QED
  BY <1>8, <1>11, <1>12, <1>13 DEF SlaveInv

LEMMA SlaveReadsInv == ASSUME IndInv, SlaveReads PROVE IndInv'
<1>1. /\ to_slave # <<>> /\ to_slave' = Tail(to_slave) /\ UNCHANGED driver /\ UNCHANGED request
      /\ UNCHANGED late /\ sampled' \subseteq Samples /\ FlagsTypeOK'
  BY SlaveReadsContext
<1>2. SlaveInv'
  BY SlaveReadsContext, ReadHeaderOnlyInv, ReadTypeInv, ReadTextInv, ReadBodyInv, ReadBodyEndInv
<1>3. /\ to_slave' \in Seq(Byte)
      /\ UNCHANGED <<kbuf, dpc, msg, sent, want, rsp, attempt, idle_counter, transaction_sent,
                     transaction_received, rval>>
      /\ AttemptStartsClean' /\ CallInv' /\ LineInv' /\ ClockInv'
  BY <1>1, TakeByte
<1>4. DriverTypeOK'
  BY <1>1, <1>3 DEF IndInv, TypeOK, DriverTypeOK
<1>5. FirmwareTypeOK'
  BY <1>2, <1>3 DEF SlaveInv, FirmwareTypeOK
<1> QED
  BY <1>1, <1>2, <1>3, <1>4, <1>5 DEF IndInv, TypeOK, LinkInv, SlaveInv

LEMMA StutterInv == ASSUME IndInv, UNCHANGED vars PROVE IndInv'
<1>1. UNCHANGED slave_vars /\ UNCHANGED driver /\ UNCHANGED history
  BY Zenon DEF vars
<1>2. UNCHANGED <<kbuf, dpc, msg, sent, want, rsp, attempt, idle_counter, slept,
                  transaction_sent, transaction_received, rval>>
  BY Zenon, <1>1 DEF driver
<1>3. UNCHANGED <<request, executed, disturbed, late, sampled>>
  BY Zenon, <1>1 DEF history
<1>4. UNCHANGED <<to_slave, to_master, serial_data, serial_data_idx, serial_state,
                  expected_size, serial_idle_count>>
  BY Zenon, <1>1 DEF slave_vars, parser
<1>5. FirmwareTypeOK'
  BY Zenon, <1>1, SlaveUnchanged DEF IndInv, TypeOK
<1>6. DriverTypeOK' /\ FlagsTypeOK'
  BY Zenon, <1>2, <1>3 DEF IndInv, TypeOK, DriverTypeOK, FlagsTypeOK
<1>7. active' = active /\ handed' = handed /\ awaiting' = awaiting /\ idle_so_far' = idle_so_far
      /\ AtRest' = AtRest
  BY Zenon, <1>2, <1>4 DEF active, handed, awaiting, idle_so_far, AtRest
<1>8. (Framing /\ AttemptStartsClean /\ CallInv /\ LineInv)'
  BY Zenon, <1>2, <1>3, <1>4, <1>7
     DEF IndInv, LinkInv, Framing, AttemptStartsClean, CallInv, LineInv
<1>9. (ParserInv /\ ResponseInv /\ ClockInv)'
  BY Zenon, <1>2, <1>3, <1>4, <1>7 DEF IndInv, LinkInv, ParserInv, ResponseInv, ClockInv
<1> QED
  BY <1>5, <1>6, <1>8, <1>9 DEF IndInv, TypeOK, LinkInv

LEMMA StepInv == IndInv /\ [Next]_vars => IndInv'
<1> SUFFICES ASSUME IndInv, [Next]_vars PROVE IndInv'
  OBVIOUS
<1>1. CASE Driver
  BY <1>1, CallsInv, SendInv, SendByteInv, GiveUpInv, RecvByteInv, RecvSleepInv, RecvWakeInv,
     StatsInv DEF Driver
<1>2. CASE Line
  BY <1>2, DeliverInv, TickInv, LoseRequestByteInv, LoseResponseByteInv, SlaveRestartInv DEF Line
<1> QED
  BY <1>1, <1>2, SlaveReadsInv, StutterInv DEF Next

-----------------------------------------------------------------------------
(* Theorems of the specification, for every buffer length, pair of idle      *)
(* limits, number of retries and set of calls.                               *)

\* The inductive invariant holds throughout.
THEOREM LinkInvariant == Spec => []IndInv
BY InitInv, StepInv, PTL DEF Spec

\* Driver, line and slave stay within their types: no index of the slave's
\* serial_data leaves the array, recv's idle_counter and the retry count stay
\* within their limits.
THEOREM TypeCorrect == Spec => []TypeOK
<1>1. IndInv => TypeOK
  BY DEF IndInv
<1> QED
  BY <1>1, LinkInvariant, PTL

\* Resynchronisation: every attempt finds the slave's parser at rest and the line
\* empty, whatever was lost, late or reset before.
THEOREM ResynchronisesAlways == Spec => []AttemptStartsClean
<1>1. IndInv => AttemptStartsClean
  BY DEF IndInv, LinkInv
<1> QED
  BY <1>1, LinkInvariant, PTL

\* A retry sends the request that was asked for.
THEOREM RetriesFaithful == Spec => []RetrySendsRequest
<1>1. IndInv => RetrySendsRequest
  BY DEF IndInv, LinkInv, CallInv, RetrySendsRequest
<1> QED
  BY <1>1, LinkInvariant, PTL

\* No traffic of the driver is executed as a text command.
THEOREM NeverText == Spec => []NoTextCommand
<1>1. IndInv => NoTextCommand
  <2> SUFFICES ASSUME IndInv, serial_state = "TEXT" PROVE to_slave = <<>> /\ dpc # "send"
    BY DEF NoTextCommand
  <2>1. CASE active
    BY <2>1 DEF IndInv, LinkInv, ParserInv, CallInv
  <2>2. CASE ~active
    BY <2>2 DEF IndInv, TypeOK, DriverTypeOK, LinkInv, AttemptStartsClean, active
  <2> QED
    BY <2>1, <2>2
<1> QED
  BY <1>1, LinkInvariant, PTL

-----------------------------------------------------------------------------
(* The transaction counters. *)

\* An attempt in progress has been counted as sent and not yet as received.
CountInv == StatsOrdered /\ (active => transaction_received < transaction_sent)

LEMMA CountStep == ASSUME IndInv, CountInv, [Next]_vars PROVE CountInv'
<1>0. /\ transaction_sent \in Nat /\ transaction_received \in Nat
      /\ transaction_received <= transaction_sent
      /\ active => transaction_received < transaction_sent
  BY DEF IndInv, TypeOK, DriverTypeOK, CountInv, StatsOrdered
<1>1. CASE UNCHANGED <<transaction_sent, transaction_received>> /\ (active' => active)
  BY <1>0, <1>1 DEF CountInv, StatsOrdered
<1>2. CASE BeginPinMode \/ BeginInitPwm \/ BeginPwmDuty \/ BeginAnalogRead
  <2>1. UNCHANGED <<transaction_sent, transaction_received>> /\ dpc' = "try"
    BY Zenon, <1>2 DEF BeginPinMode, BeginInitPwm, BeginPwmDuty, BeginAnalogRead, Begin
  <2> QED
    BY <1>1, <2>1 DEF active
<1>3. CASE Send
  <2>1. transaction_sent' = transaction_sent + 1 /\ transaction_received' = transaction_received
    BY <1>3 DEF Send
  <2> QED
    BY <1>0, <2>1 DEF CountInv, StatsOrdered
<1>4. CASE RecvByte
  <2>1. /\ dpc = "recv" /\ transaction_sent' = transaction_sent
        /\ \/ dpc' = "idle" /\ transaction_received' = transaction_received + 1
           \/ UNCHANGED <<dpc, transaction_received>>
    BY <1>4 DEF RecvByte
  <2> QED
    BY <1>0, <2>1 DEF CountInv, StatsOrdered, active
<1>5. CASE get_transaction_stats
  <2>1. transaction_sent' = 0 /\ transaction_received' = 0 /\ dpc' = "idle"
    BY <1>5 DEF get_transaction_stats
  <2> QED
    BY <2>1 DEF CountInv, StatsOrdered, active
<1>6. CASE SendByte \/ GiveUp \/ RecvSleep \/ RecvWake
  <2>1. UNCHANGED <<transaction_sent, transaction_received>>
    BY Zenon, <1>6 DEF SendByte, GiveUp, RecvSleep, RecvWake
  <2>2. active' => active
    BY <1>6 DEF SendByte, GiveUp, RecvSleep, RecvWake, active
  <2> QED
    BY <1>1, <2>1, <2>2
<1>7. CASE Deliver \/ Tick
  <2>1. UNCHANGED <<transaction_sent, transaction_received>> /\ dpc' = dpc
    BY Zenon, <1>7 DEF Deliver, Tick
  <2> QED
    BY <1>1, <2>1 DEF active
<1>8. CASE SlaveReads \/ LoseRequestByte \/ LoseResponseByte \/ SlaveRestart \/ UNCHANGED vars
  <2>1. UNCHANGED driver
    BY Zenon, <1>8 DEF SlaveReads, LoseRequestByte, LoseResponseByte, SlaveRestart, vars
  <2>2. UNCHANGED <<transaction_sent, transaction_received>> /\ dpc' = dpc
    BY Zenon, <2>1 DEF driver
  <2> QED
    BY <1>1, <2>2 DEF active
<1> QED
  BY <1>2, <1>3, <1>4, <1>5, <1>6, <1>7, <1>8 DEF Next, Driver, Line

\* The telemetry never shows more answers than requests.
THEOREM StatsNeverExceed == Spec => []StatsOrdered
<1>1. Init => CountInv
  BY DEF Init, CountInv, StatsOrdered, active
<1>2. IndInv /\ CountInv /\ [Next]_vars => CountInv'
  BY CountStep
<1>3. CountInv => StatsOrdered
  BY DEF CountInv
<1> QED
  BY <1>1, <1>2, <1>3, LinkInvariant, PTL DEF Spec

-----------------------------------------------------------------------------
(* The duty registers seen by main_app: what a call asks for and what is     *)
(* written.                                                                  *)

\* Packing and unpacking agree: the slave reads from a request byte the arguments
\* that the driver was called with, for all arguments that fit their fields.
THEOREM FieldsRoundTrip ==
  /\ \A pin \in 0..63, mode \in 0..3 :
       /\ get_param(pinmode_byte(pin, mode), PIN) = pin
       /\ get_param(pinmode_byte(pin, mode), MODE) = mode
  /\ \A t \in 0..3, c \in 0..1 :
       /\ get_param(duty_byte(t, c), TIMER) = t
       /\ get_param(duty_byte(t, c), CHANNEL) = c
  /\ \A t \in 0..3, c \in 0..1, p \in 0..7 :
       /\ get_param(init_byte(t, c, p), TIMER) = t
       /\ get_param(init_byte(t, c, p), CHANNEL) = c
       /\ get_param(init_byte(t, c, p), PRESCALER) = p
<1>1. \A pin \in 0..63, mode \in 0..3 : pinmode_byte(pin, mode) = pin + 64 * mode
  BY DEF pinmode_byte, set_param, get_param, PIN, MODE
<1>2. \A t \in 0..3, c \in 0..1 : duty_byte(t, c) = 2 * t + c
  BY DEF duty_byte, set_param, get_param, TIMER, CHANNEL
<1>3. \A t \in 0..3, c \in 0..1, p \in 0..7 : init_byte(t, c, p) = 8 * p + 2 * t + c
  BY <1>2 DEF init_byte, set_param, get_param, PRESCALER
<1>4. \A pin \in 0..63, mode \in 0..3 :
       (pin + 64 * mode) % 64 = pin /\ ((pin + 64 * mode) \div 64) % 4 = mode
  OBVIOUS
<1>5. \A t \in 0..3, c \in 0..1 : ((2 * t + c) \div 2) % 4 = t /\ (2 * t + c) % 2 = c
  OBVIOUS
<1>6. \A t \in 0..3, c \in 0..1, p \in 0..7 :
       /\ ((8 * p + 2 * t + c) \div 2) % 4 = t /\ (8 * p + 2 * t + c) % 2 = c
       /\ ((8 * p + 2 * t + c) \div 8) % 8 = p
  OBVIOUS
<1> QED
  BY <1>1, <1>2, <1>3, <1>4, <1>5, <1>6
  DEF get_param, PIN, MODE, TIMER, CHANNEL, PRESCALER

\* A pwmDuty request in progress was built from the arguments of some call.
AskedInv ==
  dpc # "idle" /\ request[1] = PWM_DUTY =>
    \E c \in PwmDutyCalls : request = <<PWM_DUTY, duty_byte(c[1], c[2]), c[3]>>

LEMMA AskedStep == ASSUME IndInv, AskedInv, [Next]_vars PROVE AskedInv'
<1>1. CASE request' = request /\ (dpc' # "idle" => dpc # "idle")
  BY <1>1 DEF AskedInv
<1>2. CASE BeginPinMode \/ BeginInitPwm \/ BeginAnalogRead
  <2>1. request'[1] \in {PINMODE, PWM_INIT, ANALOG_READ}
    <3>1. CASE BeginPinMode
      BY <3>1 DEF BeginPinMode, Begin
    <3>2. CASE BeginInitPwm
      BY <3>2 DEF BeginInitPwm, Begin
    <3>3. CASE BeginAnalogRead
      BY <3>3 DEF BeginAnalogRead, Begin
    <3> QED
      BY <1>2, <3>1, <3>2, <3>3
  <2> QED
    BY <2>1 DEF AskedInv, PINMODE, PWM_INIT, ANALOG_READ, PWM_DUTY
<1>3. CASE BeginPwmDuty
  <2>1. PICK c \in PwmDutyCalls : Begin(<<PWM_DUTY, duty_byte(c[1], c[2]), c[3]>>, 1)
    BY <1>3 DEF BeginPwmDuty
  <2> QED
    BY <2>1 DEF Begin, AskedInv
<1>4. CASE Send \/ SendByte \/ GiveUp \/ RecvByte \/ RecvSleep \/ RecvWake \/ get_transaction_stats
  <2>1. request' = request
    BY Zenon, <1>4 DEF Send, SendByte, GiveUp, RecvByte, RecvSleep, RecvWake,
                       get_transaction_stats, history
  <2>2. dpc' # "idle" => dpc # "idle"
    BY <1>4 DEF Send, SendByte, GiveUp, RecvByte, RecvSleep, RecvWake, get_transaction_stats
  <2> QED
    BY <1>1, <2>1, <2>2
<1>5. CASE SlaveReads \/ Line \/ UNCHANGED vars
  <2>1. UNCHANGED <<dpc, request>>
    <3>1. CASE SlaveReads
      BY <3>1, SlaveReadsContext, TakeByte
    <3>2. CASE Deliver \/ Tick \/ LoseRequestByte \/ LoseResponseByte \/ SlaveRestart
      BY Zenon, <3>2 DEF Deliver, Tick, LoseRequestByte, LoseResponseByte, SlaveRestart,
                         history, driver
    <3>3. CASE UNCHANGED vars
      <4>1. UNCHANGED driver /\ UNCHANGED history
        BY Zenon, <3>3 DEF vars
      <4> QED
        BY Zenon, <4>1 DEF driver, history
    <3> QED
      BY <1>5, <3>1, <3>2, <3>3 DEF Line
  <2> QED
    BY <1>1, <2>1
<1> QED
  BY <1>2, <1>3, <1>4, <1>5 DEF Next, Driver

\* The write asked for, as the slave unpacks it.
decoded_request ==
  IF dpc # "idle" /\ request[1] = PWM_DUTY
    THEN {[channel |-> <<get_param(request[2], TIMER), get_param(request[2], CHANNEL)>>,
           duty |-> request[3]]}
    ELSE {}

LEMMA Decoded == IndInv /\ AskedInv => duty_request = decoded_request
<1> SUFFICES ASSUME IndInv, AskedInv PROVE duty_request = decoded_request
  OBVIOUS
<1>1. CASE dpc = "idle"
  BY <1>1 DEF duty_request, decoded_request
<1>2. CASE dpc # "idle" /\ request[1] # PWM_DUTY
  BY <1>2 DEF duty_request, decoded_request, asked_duties
<1>3. CASE dpc # "idle" /\ request[1] = PWM_DUTY
  <2> DEFINE write(c) == [channel |-> <<c[1], c[2]>>, duty |-> c[3]]
             w == [channel |-> <<get_param(request[2], TIMER), get_param(request[2], CHANNEL)>>,
                   duty |-> request[3]]
  <2>1. \A c \in asked_duties : write(c) = w
    <3> SUFFICES ASSUME NEW c \in asked_duties PROVE write(c) = w
      OBVIOUS
    <3>1. c \in PwmDutyCalls /\ request = <<PWM_DUTY, duty_byte(c[1], c[2]), c[3]>>
      BY DEF asked_duties
    <3>2. c[1] \in 0..3 /\ c[2] \in 0..1
      BY <3>1, CallsAssumption DEF Timers
    <3>3. request[2] = duty_byte(c[1], c[2]) /\ request[3] = c[3]
      BY <3>1
    <3>4. get_param(request[2], TIMER) = c[1] /\ get_param(request[2], CHANNEL) = c[2]
      BY <3>2, <3>3, FieldsRoundTrip
    <3> QED
      BY <3>3, <3>4
  <2>2. asked_duties # {}
    BY <1>3 DEF AskedInv, asked_duties
  <2>3. duty_request = {write(c) : c \in asked_duties}
    BY <1>3 DEF duty_request
  <2>4. decoded_request = {w}
    BY <1>3 DEF decoded_request
  <2> HIDE DEF write, w
  <2> QED
    BY <2>1, <2>2, <2>3, <2>4
<1> QED
  BY <1>1, <1>2, <1>3

\* A write asked for names an output and a duty.
LEMMA PendingWrite ==
  IndInv /\ AskedInv => duty_request = {} \/ \E w \in Abstract!Write : duty_request = {w}
<1> SUFFICES ASSUME IndInv, AskedInv
             PROVE  duty_request = {} \/ \E w \in Abstract!Write : duty_request = {w}
  OBVIOUS
<1>1. CASE dpc # "idle" /\ request[1] = PWM_DUTY
  <2>1. request[2] \in 0..5 /\ request[3] \in Byte
    <3>1. IsRequest(request, want) /\ request \in Seq(Byte)
      BY <1>1, RequestShape
    <3>2. Len(request) = 3 /\ request[2] \in (0..5) \ {4}
      BY <1>1, <3>1 DEF IsRequest, PINMODE, PWM_INIT, ANALOG_READ, PWM_DUTY
    <3>3. request[2] \in 0..5
      BY <3>2
    <3>4. \A i \in 1..Len(request) : request[i] \in Byte
      BY <3>1
    <3>5. 3 \in 1..Len(request)
      BY <3>2
    <3> QED
      BY <3>3, <3>4, <3>5
  <2>2. get_param(request[2], TIMER) \in Timers /\ get_param(request[2], CHANNEL) \in 0..1
    BY <2>1 DEF get_param, TIMER, CHANNEL, Timers
  <2> DEFINE w == [channel |-> <<get_param(request[2], TIMER), get_param(request[2], CHANNEL)>>,
                   duty |-> request[3]]
  <2>3. w \in Abstract!Write
    BY <2>1, <2>2 DEF Abstract!Write, Channels
  <2>4. duty_request = {w}
    BY <1>1, Decoded DEF decoded_request
  <2> QED
    BY <2>3, <2>4
<1>2. CASE ~(dpc # "idle" /\ request[1] = PWM_DUTY)
  BY <1>2, Decoded DEF decoded_request
<1> QED
  BY <1>1, <1>2

\* A pwmDuty reaches the registers only from a request taken as it was sent: three
\* bytes in the parser are all the bytes handed over.
LEMMA DutyWritten ==
  ASSUME IndInv, AskedInv, SlaveReads, ocr' # ocr
  PROVE  Abstract!Apply
<1>1. to_slave # <<>> /\ UNCHANGED driver /\ UNCHANGED request
  BY SlaveReadsContext
<1>2. /\ BoardTypeOK /\ to_master \in Seq(Byte) /\ received \in [0..BUF-1 -> Byte]
  BY <1>1, Received DEF IndInv, TypeOK, FirmwareTypeOK
<1>3. ~ReadType /\ ~ReadText /\ ~ReadBody
  BY DEF ReadType, ReadText, ReadBody, board
<1>4. ~ReadHeaderOnly
  <2> SUFFICES ASSUME ReadHeaderOnly PROVE FALSE
    OBVIOUS
  <2>1. process_message(received) /\ serial_state = "TYPE" /\ msg_size(Head(to_slave)) = 1
    BY DEF ReadHeaderOnly
  <2>2. received[0] # PWM_DUTY
    <3>1. serial_data_idx = 0
      BY <2>1 DEF IndInv, LinkInv, Framing, AtRest
    <3>2. received[0] = Head(to_slave)
      BY <1>1, <3>1, Received, TakeContext
    <3> QED
      BY <2>1, <3>2 DEF msg_size, LOG_INFO, PWM_DUTY
  <2> QED
    BY <1>2, <2>1, <2>2, ProcessMessage
<1>5. ReadBodyEnd
  BY <1>3, <1>4, SlaveReadsContext
<1>6. serial_state = "BODY" /\ expected_size = 1 /\ process_message(received)
  BY <1>5 DEF ReadBodyEnd
<1>7. /\ received[0] = PWM_DUTY
      /\ pwmDuty(get_param(received[1], TIMER), get_param(received[1], CHANNEL), received[2])
  BY <1>2, <1>6, ProcessMessage
<1>8. serial_data_idx = 2
  BY <1>1, <1>6, <1>7, Body DEF msg_size, LOG_INFO, PWM_DUTY
<1>9. handed = 2
  BY <1>1, <1>8, Received, TakeContext
<1>10. \A i \in 1..3 : received[i - 1] = request[i]
  BY <1>1, <1>8, <1>9, Prefix
<1>11. received[0] = request[1] /\ received[1] = request[2] /\ received[2] = request[3]
  BY <1>10
<1>12. dpc # "idle" /\ dpc' = dpc /\ request' = request
  BY <1>1, TakeContext, TakeByte, SlaveReadsContext
<1> DEFINE t == get_param(request[2], TIMER)
           c == get_param(request[2], CHANNEL)
           w == [channel |-> <<t, c>>, duty |-> request[3]]
<1>13. duty_request = {w} /\ duty_request' = duty_request
  <2>1. duty_request = {w}
    BY <1>7, <1>11, <1>12, Decoded DEF decoded_request
  <2>2. duty_request' = duty_request
    BY <1>12 DEF duty_request, asked_duties
  <2> QED
    BY <2>1, <2>2
<1>14. c \in 0..1
  <2>1. request[2] \in Byte
    BY <1>2, <1>11, BufAssumption
  <2> QED
    BY <2>1, FieldRanges
<1>15. ocr' = [ocr EXCEPT ![<<t, out(c)>>] = request[3]] /\ out(c) = c
  BY <1>7, <1>11, <1>14 DEF pwmDuty, out
<1>16. w.channel = <<t, out(c)>> /\ w.duty = request[3]
  BY <1>15
<1>17. disturbed' = disturbed
  BY Zenon DEF SlaveReads
<1> QED
  BY <1>13, <1>15, <1>16, <1>17 DEF Abstract!Apply

-----------------------------------------------------------------------------
(* What an attempt that nothing disturbed achieves.                          *)

\* When an undisturbed attempt has handed over the whole request, the board shows
\* what was asked for, also after recv has given up on a late answer.
DoneInv ==
  /\ active /\ ~disturbed /\ handed = Len(request) => done
  /\ dpc = "try" /\ attempt > 0 /\ ~disturbed => done

CallsGoWell == UndisturbedInv /\ DoneInv /\ TimeoutMeansDisturbed

\* What the invariant of the link says of an attempt in progress.
LEMMA Attempt ==
  ASSUME IndInv, active
  PROVE  /\ to_slave \in Seq(Byte) /\ to_master \in Seq(Byte) /\ kbuf \in Seq(Byte) /\ rsp \in Seq(Byte)
         /\ dpc # "idle" /\ Len(request) \in 2..3 /\ want \in 1..2
         /\ sent \in 0..3 /\ sent <= Len(request) /\ handed \in Nat /\ handed <= sent
         /\ handed = Len(request) <=> to_slave = <<>> /\ sent = Len(request)
<1>1. dpc # "idle"
  BY DEF active
<1>2. /\ to_slave \in Seq(Byte) /\ to_master \in Seq(Byte) /\ kbuf \in Seq(Byte) /\ rsp \in Seq(Byte)
      /\ sent \in 0..3
  BY DEF IndInv, TypeOK, FirmwareTypeOK, DriverTypeOK
<1>3. Len(request) \in 2..3 /\ want \in 1..2
  BY <1>1, RequestShape
<1>4. sent <= Len(request)
  BY <1>2, <1>3 DEF IndInv, LinkInv, CallInv, active
<1>5. Len(to_slave) <= sent /\ Len(to_slave) \in Nat /\ (to_slave = <<>> <=> Len(to_slave) = 0)
  BY <1>2 DEF IndInv, LinkInv, LineInv
<1> QED
  BY <1>1, <1>2, <1>3, <1>4, <1>5 DEF handed

\* Steps that neither read a byte nor touch the board or the parser.
LEMMA AttemptGoesOn ==
  ASSUME UndisturbedInv, DoneInv, active' => active, disturbed' = disturbed, UNCHANGED board,
         request' = request, executed' = executed, want' = want, handed' = handed,
         awaiting' = awaiting, serial_state' = serial_state, serial_data_idx' = serial_data_idx,
         dpc' = "try" => dpc = "try" /\ attempt' = attempt,
         active /\ ~disturbed /\ dpc' = "sleep" => idle_counter' <= late'
  PROVE  UndisturbedInv' /\ DoneInv'
<1>1. UndisturbedInv'
  BY DEF UndisturbedInv, AtRest
<1>2. done' <=> done
  <2>1. UNCHANGED <<ocr, com, timers, pin_mode>>
    BY Zenon DEF board
  <2> QED
    BY Zenon, <2>1 DEF done
<1> QED
  BY <1>1, <1>2 DEF DoneInv

LEMMA NotInAttempt ==
  ASSUME dpc' = "idle" \/ (dpc' = "try" /\ attempt' = 0)
  PROVE  UndisturbedInv' /\ DoneInv'
BY DEF UndisturbedInv, DoneInv, active

LEMMA Disturbance ==
  ASSUME disturbed'
  PROVE  UndisturbedInv' /\ DoneInv' /\ TimeoutMeansDisturbed'
BY DEF UndisturbedInv, DoneInv, TimeoutMeansDisturbed

-----------------------------------------------------------------------------
(* The driver's steps. *)

LEMMA CallGoesWell ==
  ASSUME BeginPinMode \/ BeginInitPwm \/ BeginPwmDuty \/ BeginAnalogRead
  PROVE  CallsGoWell'
<1>1. dpc' = "try" /\ attempt' = 0
  BY Zenon DEF BeginPinMode, BeginInitPwm, BeginPwmDuty, BeginAnalogRead, Begin
<1> QED
  BY <1>1, NotInAttempt DEF CallsGoWell, TimeoutMeansDisturbed

LEMMA SendGoesWell ==
  ASSUME IndInv, Send
  PROVE  CallsGoWell'
<1>1. /\ dpc = "try" /\ dpc' = "send" /\ sent' = 0 /\ to_slave' = to_slave /\ request' = request
      /\ serial_data_idx' = serial_data_idx
  BY DEF Send, slave_vars, parser
<1>2. to_slave = <<>> /\ serial_data_idx = 0
  BY <1>1 DEF IndInv, LinkInv, AttemptStartsClean, Framing
<1>3. handed' = 0
  <2>1. to_slave' = <<>> /\ Len(to_slave') = 0
    BY <1>1, <1>2
  <2>2. handed' = sent' - Len(to_slave')
    BY Zenon DEF handed
  <2>3. 0 - 0 = 0
    OBVIOUS
  <2> QED
    BY Zenon, <1>1, <2>1, <2>2, <2>3
<1>4. Len(request) \in 2..3
  BY <1>1, RequestShape
<1> QED
  BY <1>1, <1>2, <1>3, <1>4 DEF CallsGoWell, UndisturbedInv, DoneInv, TimeoutMeansDisturbed

LEMMA SendByteGoesWell ==
  ASSUME IndInv, CallsGoWell, SendByte
  PROVE  CallsGoWell'
<1>1. /\ dpc = "send" /\ dpc' \in {"send", "recv"} /\ sent' = sent + 1
      /\ to_slave' = Append(to_slave, msg[sent + 1])
      /\ UNCHANGED <<to_master, kbuf, want, rsp>> /\ UNCHANGED parser /\ UNCHANGED board
  BY DEF SendByte
<1>2. UNCHANGED <<request, executed, disturbed, late>>
  BY Zenon DEF SendByte, history
<1>3. UNCHANGED <<serial_state, serial_data_idx>>
  BY Zenon, <1>1 DEF parser
<1>4. active
  BY <1>1 DEF active
<1>5. handed' = handed
  <2>1. to_slave \in Seq(Byte) /\ sent \in 0..3 /\ msg \in Seq(Byte) /\ sent < Len(msg)
    BY <1>1, <1>4, Attempt, RequestShape DEF IndInv, LinkInv, CallInv
  <2>2. msg[sent + 1] \in Byte
    BY <2>1
  <2>3. Len(to_slave') = Len(to_slave) + 1 /\ Len(to_slave) \in Nat
    BY <1>1, <2>1, <2>2, AppendProperties
  <2> QED
    BY <1>1, <2>1, <2>3 DEF handed
<1>6. awaiting' = awaiting
  BY <1>1 DEF awaiting
<1>7. UndisturbedInv' /\ DoneInv'
  BY <1>1, <1>2, <1>3, <1>4, <1>5, <1>6, AttemptGoesOn DEF CallsGoWell
<1> QED
  BY <1>1, <1>7 DEF CallsGoWell, TimeoutMeansDisturbed

LEMMA ReturnGoesWell ==
  ASSUME GiveUp \/ get_transaction_stats
  PROVE  CallsGoWell'
<1>1. dpc' = "idle"
  BY DEF GiveUp, get_transaction_stats
<1> QED
  BY <1>1, NotInAttempt DEF CallsGoWell, TimeoutMeansDisturbed

LEMMA RecvByteGoesWell ==
  ASSUME IndInv, CallsGoWell, RecvByte
  PROVE  CallsGoWell'
<1>1. /\ dpc = "recv" /\ dpc' \in {"idle", "recv"} /\ kbuf # <<>> /\ kbuf' = Tail(kbuf)
      /\ rsp' = Append(rsp, Head(kbuf)) /\ UNCHANGED <<want, sent>> /\ UNCHANGED slave_vars
  BY DEF RecvByte
<1>2. UNCHANGED <<request, executed, disturbed, late>>
  BY Zenon DEF RecvByte, history
<1>3. UNCHANGED <<to_slave, to_master, serial_state, serial_data_idx>> /\ UNCHANGED board
  BY Zenon, <1>1 DEF slave_vars, parser
<1>4. active
  BY <1>1 DEF active
<1>5. handed' = handed
  BY <1>1, <1>3 DEF handed
<1>6. awaiting' = awaiting
  BY <1>1, <1>3, <1>4, Attempt DEF awaiting
<1>7. UndisturbedInv' /\ DoneInv'
  BY <1>1, <1>2, <1>3, <1>4, <1>5, <1>6, AttemptGoesOn DEF CallsGoWell
<1> QED
  BY <1>1, <1>7 DEF CallsGoWell, TimeoutMeansDisturbed

\* recv finds the tty empty only while the answer is on its way.
LEMMA RecvSleepGoesWell ==
  ASSUME IndInv, CallsGoWell, RecvSleep
  PROVE  CallsGoWell'
<1>1. /\ dpc = "recv" /\ dpc' = "sleep" /\ kbuf = <<>> /\ UNCHANGED slave_vars
      /\ UNCHANGED <<kbuf, sent, want, rsp, idle_counter>>
  BY DEF RecvSleep
<1>2. UNCHANGED <<request, executed, disturbed, late>>
  BY Zenon DEF RecvSleep, history
<1>3. UNCHANGED <<to_slave, to_master, serial_state, serial_data_idx>> /\ UNCHANGED board
  BY Zenon, <1>1 DEF slave_vars, parser
<1>4. active
  BY <1>1 DEF active
<1>5. handed' = handed /\ awaiting' = awaiting
  BY <1>1, <1>3 DEF handed, awaiting
<1>6. ASSUME ~disturbed PROVE idle_counter <= late
  <2>0. idle_counter \in Nat /\ late \in Nat
    BY RecvAssumption, LatencyAssumption DEF IndInv, TypeOK, DriverTypeOK
  <2>1. CASE idle_counter = 0
    BY <2>0, <2>1
  <2>2. CASE idle_counter # 0
    <3>1. idle_so_far = idle_counter /\ idle_so_far > 0
      BY <1>1, <2>0, <2>2 DEF idle_so_far
    <3>2. to_slave = <<>> /\ (to_master # <<>> => idle_counter <= late)
      BY <1>1, <3>1 DEF IndInv, LinkInv, ClockInv
    <3>3. sent = Len(request) /\ Len(rsp) < want
      BY <1>1 DEF IndInv, LinkInv, CallInv
    <3>4. handed = Len(request)
      BY <1>4, <3>2, <3>3, Attempt
    <3>5. awaiting = want
      BY <1>4, <1>6, <3>4 DEF CallsGoWell, UndisturbedInv
    <3>6. to_master # <<>>
      BY <1>1, <1>4, <3>3, <3>5, Attempt DEF awaiting
    <3> QED
      BY <3>2, <3>6
  <2> QED
    BY <2>1, <2>2
<1>7. UndisturbedInv' /\ DoneInv'
  BY <1>1, <1>2, <1>3, <1>4, <1>5, <1>6, AttemptGoesOn DEF CallsGoWell
<1> QED
  BY <1>1, <1>7 DEF CallsGoWell, TimeoutMeansDisturbed

\* recv's limit is reached only after as many pauses with the answer on its way, and
\* then the request has been executed.
LEMMA RecvWakeGoesWell ==
  ASSUME IndInv, CallsGoWell, RecvWake
  PROVE  CallsGoWell'
<1>1. /\ dpc = "sleep" /\ slept /\ dpc' \in {"try", "recv"} /\ UNCHANGED slave_vars
      /\ UNCHANGED <<kbuf, sent, want, rsp>> /\ (dpc' = "try" => idle_counter > RECV_IDLE)
  BY DEF RecvWake, idle_limit_reached
<1>2. UNCHANGED <<request, executed, disturbed, late>>
  BY Zenon DEF RecvWake, history
<1>3. UNCHANGED <<to_slave, to_master, serial_state, serial_data_idx>> /\ UNCHANGED board
  BY Zenon, <1>1 DEF slave_vars, parser
<1>4. active
  BY <1>1 DEF active
<1>5. handed' = handed /\ awaiting' = awaiting
  BY <1>1, <1>3 DEF handed, awaiting
<1>6. CASE dpc' = "recv"
  <2>1. UndisturbedInv' /\ DoneInv'
    BY <1>1, <1>2, <1>3, <1>4, <1>5, <1>6, AttemptGoesOn DEF CallsGoWell
  <2> QED
    BY <1>6, <2>1 DEF CallsGoWell, TimeoutMeansDisturbed
<1>7. CASE dpc' = "try"
  <2>1. disturbed \/ late > RECV_IDLE
    <3>1. ~disturbed => idle_counter <= late
      BY <1>1, <1>4 DEF CallsGoWell, UndisturbedInv
    <3>2. idle_counter \in Nat /\ late \in Nat /\ RECV_IDLE \in Nat
      BY RecvAssumption, LatencyAssumption DEF IndInv, TypeOK, DriverTypeOK
    <3> QED
      BY <1>1, <1>7, <3>1, <3>2
  <2>2. handed = Len(request)
    <3>1. idle_so_far > 0
      BY <1>1, RecvAssumption DEF IndInv, TypeOK, DriverTypeOK, idle_so_far
    <3>2. to_slave = <<>> /\ sent = Len(request)
      BY <1>1, <3>1 DEF IndInv, LinkInv, ClockInv, CallInv
    <3> QED
      BY <1>4, <3>2, Attempt
  <2>3. disturbed \/ done'
    <3>1. UNCHANGED <<ocr, com, timers, pin_mode>>
      BY Zenon, <1>3 DEF board
    <3>2. done' <=> done
      BY Zenon, <1>2, <3>1 DEF done
    <3> QED
      BY <1>4, <2>2, <3>2 DEF CallsGoWell, DoneInv
  <2> QED
    BY <1>2, <1>7, <2>1, <2>3
       DEF CallsGoWell, UndisturbedInv, DoneInv, TimeoutMeansDisturbed, active
<1> QED
  BY <1>1, <1>6, <1>7

-----------------------------------------------------------------------------
(* The slave's steps. *)

\* A byte the slave takes in an undisturbed attempt is the next of the request, and
\* the parser holds all the bytes before it.
LEMMA InStep ==
  ASSUME IndInv, CallsGoWell, SlaveReads, ~disturbed
  PROVE  /\ to_slave # <<>> /\ active /\ dpc # "idle"
         /\ serial_data_idx = handed /\ handed \in 0..2 /\ handed < Len(request)
         /\ Len(request) \in 2..3 /\ handed' = handed + 1 /\ request' = request
         /\ \A i \in 1..handed + 1 : received[i - 1] = request[i]
<1>1. /\ to_slave # <<>> /\ to_slave' = Tail(to_slave) /\ UNCHANGED driver /\ request' = request
  BY SlaveReadsContext
<1>2. active /\ dpc # "idle" /\ handed < Len(request)
  BY <1>1, TakeContext
<1>3. serial_data_idx = handed
  BY <1>2 DEF CallsGoWell, UndisturbedInv
<1>4. handed' = handed + 1
  BY <1>1, TakeByte
<1>5. handed \in 0..2 /\ Len(request) \in 2..3
  BY <1>1, <1>2, Received, RequestShape
<1>6. \A i \in 1..handed + 1 : received[i - 1] = request[i]
  BY <1>1, <1>3, Prefix
<1> QED
  BY <1>1, <1>2, <1>3, <1>4, <1>5, <1>6

\* The size the slave's table gives for a request's type is the size sent.
LEMMA SizeSent ==
  ASSUME IndInv, dpc # "idle"
  PROVE  request[1] \in MsgTypes /\ msg_size(request[1]) = Len(request)
<1>1. IsRequest(request, want)
  BY RequestShape
<1> QED
  BY <1>1 DEF IsRequest, MsgTypes, msg_size, LOG_INFO, PINMODE, PWM_INIT, ANALOG_READ, PWM_DUTY

\* What the slave executes in an undisturbed attempt is the request, whole.
LEMMA RunsRequest ==
  ASSUME IndInv, CallsGoWell, SlaveReads, ~disturbed, SlaveRuns
  PROVE  /\ ReadBodyEnd /\ handed + 1 = Len(request) /\ executes_request
         /\ process_message(received) /\ serial_state' = "TYPE"
<1>1. /\ to_slave # <<>> /\ active /\ dpc # "idle"
      /\ serial_data_idx = handed /\ handed \in 0..2 /\ handed < Len(request)
      /\ Len(request) \in 2..3
      /\ \A i \in 1..handed + 1 : received[i - 1] = request[i]
  BY InStep
<1>2. request[1] \in MsgTypes /\ msg_size(request[1]) = Len(request)
  BY <1>1, SizeSent
<1>3. received[0] = request[1]
  <2>1. 1 \in 1..handed + 1
    BY <1>1
  <2>2. received[1 - 1] = request[1]
    BY <1>1, <2>1
  <2> QED
    BY <2>2
<1>4. ~ReadHeaderOnly
  <2> SUFFICES ASSUME ReadHeaderOnly PROVE FALSE
    OBVIOUS
  <2>1. serial_state = "TYPE" /\ msg_size(Head(to_slave)) = 1
    BY DEF ReadHeaderOnly
  <2>2. handed = 0
    BY <1>1, <2>1 DEF IndInv, LinkInv, Framing, AtRest
  <2>3. Head(to_slave) = request[1]
    BY <1>1, <2>2, TakeContext
  <2> QED
    BY SMTT(30), <1>1, <1>2, <2>1, <2>3
<1>5. ReadBodyEnd
  BY <1>4 DEF SlaveRuns
<1>6. serial_state = "BODY" /\ expected_size = 1 /\ process_message(received) /\ serial_state' = "TYPE"
  BY <1>5 DEF ReadBodyEnd, to_rest
<1>7. serial_data_idx + 1 = msg_size(received[0])
  BY <1>1, <1>6, Body
<1>8. handed + 1 = Len(request)
  BY <1>1, <1>2, <1>3, <1>7
<1>9. executes_request
  BY <1>1, <1>8 DEF executes_request
<1> QED
  BY <1>5, <1>6, <1>8, <1>9

\* Any other byte is stored, and is not the last.
LEMMA ReadsOn ==
  ASSUME IndInv, CallsGoWell, SlaveReads, ~disturbed, ~SlaveRuns
  PROVE  handed + 1 < Len(request) /\ serial_data_idx' = handed + 1
<1>1. /\ to_slave # <<>> /\ active /\ dpc # "idle"
      /\ serial_data_idx = handed /\ handed \in 0..2 /\ handed < Len(request)
      /\ Len(request) \in 2..3
      /\ \A i \in 1..handed + 1 : received[i - 1] = request[i]
  BY InStep
<1>2. request[1] \in MsgTypes /\ msg_size(request[1]) = Len(request)
  BY <1>1, SizeSent
<1>3. ReadType \/ ReadText \/ ReadBody
  BY SlaveReadsContext DEF SlaveRuns
<1>4. after(serial_data_idx) = handed + 1
  BY <1>1, Received
<1>5. ASSUME serial_state = "TYPE" PROVE handed = 0 /\ Head(to_slave) = request[1]
  <2>1. handed = 0
    BY <1>1, <1>5 DEF IndInv, LinkInv, Framing, AtRest
  <2> QED
    BY <1>1, <2>1, TakeContext
<1>6. CASE ReadType
  <2>1. serial_state = "TYPE" /\ serial_data_idx' = after(serial_data_idx)
    BY <1>6 DEF ReadType
  <2> QED
    BY <1>1, <1>4, <1>5, <2>1
<1>7. CASE ReadText
  <2>1. serial_state = "TYPE" /\ Head(to_slave) \notin MsgTypes
    BY <1>1, <1>7, TakeContext DEF ReadText
  <2> QED
    BY <1>2, <1>5, <2>1
<1>8. CASE ReadBody
  <2>1. serial_state = "BODY" /\ expected_size # 1 /\ serial_data_idx' = after(serial_data_idx)
    BY <1>8 DEF ReadBody
  <2>2. /\ serial_data_idx \in 1..2 /\ expected_size \in 1..2 /\ received[0] = serial_data[0]
        /\ serial_data_idx + expected_size = msg_size(serial_data[0])
    BY <1>1, <2>1, Body
  <2>3. received[1 - 1] = request[1]
    BY <1>1
  <2>4. serial_data_idx + expected_size = Len(request)
    BY <1>2, <2>2, <2>3
  <2> QED
    BY <1>1, <1>4, <2>1, <2>2, <2>4
<1> QED
  BY <1>3, <1>6, <1>7, <1>8

\* Executing the request of a call makes the board show its arguments.
LEMMA ExecutedMeansDone ==
  ASSUME IndInv, CallsGoWell, SlaveReads, ~disturbed, SlaveRuns
  PROVE  done'
<1>1. /\ handed + 1 = Len(request) /\ process_message(received)
  BY RunsRequest
<1>2. /\ request' = request /\ Len(request) \in 2..3 /\ to_slave # <<>>
      /\ \A i \in 1..Len(request) : received[i - 1] = request[i]
  BY <1>1, InStep
<1>3. received[0] = request[1] /\ received[1] = request[2]
  <2>1. received[1 - 1] = request[1] /\ received[2 - 1] = request[2]
    BY <1>2
  <2> QED
    BY <2>1
<1>4. BoardTypeOK /\ to_master \in Seq(Byte)
  BY DEF IndInv, TypeOK, FirmwareTypeOK
<1>5. ASSUME NEW c \in PwmDutyCalls, request = <<PWM_DUTY, duty_byte(c[1], c[2]), c[3]>>
      PROVE  ocr'[<<c[1], c[2]>>] = c[3]
  <2>1. c[1] \in 0..3 /\ c[1] \in Timers /\ c[2] \in 0..1
    BY CallsAssumption DEF Timers
  <2>2. Len(request) = 3 /\ request[1] = PWM_DUTY /\ request[2] = duty_byte(c[1], c[2]) /\ request[3] = c[3]
    BY <1>5
  <2>3. received[3 - 1] = request[3]
    BY <1>2, <2>2
  <2>4. received[2] = c[3]
    BY <2>2, <2>3
  <2>5. get_param(request[2], TIMER) = c[1] /\ get_param(request[2], CHANNEL) = c[2]
    BY <2>1, <2>2, FieldsRoundTrip
  <2>6. pwmDuty(c[1], c[2], c[3])
    <3>1. pwmDuty(get_param(received[1], TIMER), get_param(received[1], CHANNEL), received[2])
      BY <1>1, <1>2, <1>3, <1>4, <2>2, ProcessMessage, Received
    <3> QED
      BY <1>3, <2>4, <2>5, <3>1
  <2>7. out(c[2]) = c[2] /\ <<c[1], c[2]>> \in Channels
    BY <2>1 DEF out, Channels
  <2>8. ocr \in [Channels -> Byte]
    BY <1>4 DEF BoardTypeOK
  <2> QED
    BY <2>6, <2>7, <2>8 DEF pwmDuty
<1>6. ASSUME NEW c \in InitPwmCalls, request = <<PWM_INIT, init_byte(c[1], c[2], c[3])>>
      PROVE  <<c[1], c[2]>> \in com' /\ timers'[c[1]] = [prescale |-> c[3], configured |-> TRUE]
  <2>1. c[1] \in 0..3 /\ c[1] \in Timers /\ c[2] \in 0..1 /\ c[3] \in 0..7
    BY CallsAssumption DEF Timers
  <2>2. request[1] = PWM_INIT /\ request[2] = init_byte(c[1], c[2], c[3])
    BY <1>6
  <2>3. /\ get_param(request[2], TIMER) = c[1] /\ get_param(request[2], CHANNEL) = c[2]
        /\ get_param(request[2], PRESCALER) = c[3]
    BY <2>1, <2>2, FieldsRoundTrip
  <2>4. initPwm(c[1], c[2], c[3])
    <3>1. initPwm(get_param(received[1], TIMER), get_param(received[1], CHANNEL),
                  get_param(received[1], PRESCALER))
      BY <1>1, <1>3, <2>2 DEF process_message, LOG_INFO, PINMODE, DIGITAL_WRITE,
         DIGITAL_READ, ANALOG_READ, PWM_INIT, PWM_DUTY
    <3> QED
      BY <1>3, <2>3, <3>1
  <2>5. out(c[2]) = c[2]
    BY <2>1 DEF out
  <2>6. timers' = [timers EXCEPT ![c[1]] = config(c[3])] /\ <<c[1], out(c[2])>> \in com'
    BY <2>1, <2>4 DEF initPwm
  <2>7. timers'[c[1]] = config(c[3])
    BY <1>4, <2>1, <2>6 DEF BoardTypeOK
  <2> QED
    BY <2>5, <2>6, <2>7 DEF config
<1>7. ASSUME NEW c \in PinModeCalls, request = <<PINMODE, pinmode_byte(c[1], c[2])>>, c[1] \in Pins
      PROVE  pin_mode'[c[1]] = c[2]
  <2>1. c[1] \in 0..63 /\ c[2] \in 0..3
    BY CallsAssumption
  <2>2. request[1] = PINMODE /\ request[2] = pinmode_byte(c[1], c[2])
    BY <1>7
  <2>3. get_param(request[2], PIN) = c[1] /\ get_param(request[2], MODE) = c[2]
    BY <2>1, <2>2, FieldsRoundTrip
  <2>4. pinMode(c[1], c[2])
    <3>1. pinMode(get_param(received[1], PIN), get_param(received[1], MODE))
      BY <1>1, <1>3, <2>2 DEF process_message, LOG_INFO, PINMODE, DIGITAL_WRITE,
         DIGITAL_READ, ANALOG_READ, PWM_INIT, PWM_DUTY
    <3> QED
      BY <1>3, <2>3, <3>1
  <2>5. pin_mode \in [Pins -> Byte]
    BY <1>4 DEF BoardTypeOK
  <2> QED
    BY <1>7, <2>4, <2>5 DEF pinMode
<1> QED
  BY <1>2, <1>5, <1>6, <1>7 DEF done

LEMMA SlaveReadsGoesWell ==
  ASSUME IndInv, CallsGoWell, SlaveReads
  PROVE  CallsGoWell'
<1>1. UNCHANGED disturbed
  BY Zenon DEF SlaveReads
<1>2. CASE disturbed
  BY <1>1, <1>2, Disturbance DEF CallsGoWell
<1>3. CASE ~disturbed
  <2>1. /\ to_slave # <<>> /\ active /\ dpc # "idle" /\ handed \in 0..2 /\ Len(request) \in 2..3
        /\ handed' = handed + 1 /\ request' = request
    BY <1>3, InStep
  <2>2. UNCHANGED <<kbuf, dpc, want, rsp, attempt, idle_counter>>
    BY SlaveReadsContext, TakeByte
  <2>3. late' = late /\ (dpc = "sleep" => idle_counter <= late)
    BY <1>3, <2>1, SlaveReadsContext DEF CallsGoWell, UndisturbedInv
  <2>4. TimeoutMeansDisturbed'
    BY <2>1, <2>2 DEF TimeoutMeansDisturbed, active
  <2>5. CASE SlaveRuns
    <3>1. /\ handed + 1 = Len(request) /\ executes_request /\ process_message(received)
          /\ serial_state' = "TYPE"
      BY <1>3, <2>5, RunsRequest
    <3>2. executed'
      <4>1. executed' = (executed \/ executes_request) \/ (ReadType \/ ReadText \/ ReadBody \/ ReadTextEnd)
        BY Zenon DEF SlaveReads
      <4>2. ReadBodyEnd
        BY <1>3, <2>5, RunsRequest
      <4>3. ~(ReadType \/ ReadText \/ ReadBody \/ ReadTextEnd)
        BY <4>2 DEF ReadBodyEnd, ReadType, ReadText, ReadBody, ReadTextEnd
      <4> QED
        BY Zenon, <3>1, <4>1, <4>3
    <3>3. awaiting' = want
      <4>1. received[1 - 1] = request[1]
        BY <1>3, <2>1, InStep
      <4>2. received[0] = request[1]
        BY <4>1
      <4>3. /\ to_master \in Seq(Byte) /\ to_master = <<>> /\ kbuf = <<>> /\ rsp = <<>>
            /\ BoardTypeOK /\ received \in [0..BUF-1 -> Byte]
        BY <2>1, TakeContext, Received DEF IndInv, TypeOK, FirmwareTypeOK
      <4>4. IsRequest(request, want)
        BY <2>1, RequestShape
      <4>5. request[1] # LOG_INFO /\ (request[1] = ANALOG_READ => want = 2) /\ (request[1] # ANALOG_READ => want = 1)
        BY <4>4 DEF IsRequest, LOG_INFO, PINMODE, PWM_INIT, ANALOG_READ, PWM_DUTY
      <4>6. Len(to_master') = Len(to_master) +
              (IF received[0] = LOG_INFO THEN 0 ELSE IF received[0] = ANALOG_READ THEN 2 ELSE 1)
        BY <3>1, <4>3, ProcessMessage
      <4>7. Len(to_master') = want
        BY <4>2, <4>3, <4>5, <4>6
      <4> QED
        BY <2>1, <2>2, <4>3, <4>7, RequestShape DEF awaiting
    <3>4. done'
      BY <1>3, <2>5, ExecutedMeansDone
    <3> QED
      BY <2>1, <2>2, <2>3, <2>4, <3>1, <3>2, <3>3, <3>4
      DEF CallsGoWell, UndisturbedInv, DoneInv, AtRest, active
  <2>6. CASE ~SlaveRuns
    <3>1. handed + 1 < Len(request) /\ serial_data_idx' = handed + 1
      BY <1>3, <2>6, ReadsOn
    <3> QED
      BY <2>1, <2>2, <2>3, <2>4, <3>1 DEF CallsGoWell, UndisturbedInv, DoneInv, active
  <2> QED
    BY <2>5, <2>6
<1> QED
  BY <1>2, <1>3

-----------------------------------------------------------------------------
(* The line and the clock. *)

LEMMA DeliverGoesWell ==
  ASSUME IndInv, CallsGoWell, Deliver
  PROVE  CallsGoWell'
<1>1. /\ to_master # <<>> /\ kbuf' = Append(kbuf, Head(to_master)) /\ to_master' = Tail(to_master)
      /\ UNCHANGED <<to_slave, dpc, sent, want, rsp, attempt, idle_counter>>
      /\ UNCHANGED parser /\ UNCHANGED board
  BY DEF Deliver
<1>2. UNCHANGED <<request, executed, disturbed, late>>
  BY Zenon DEF Deliver, history
<1>3. UNCHANGED <<serial_state, serial_data_idx>>
  BY Zenon, <1>1 DEF parser
<1>4. active' = active /\ handed' = handed
  BY <1>1 DEF active, handed
<1>5. awaiting' = awaiting
  <2>1. to_master \in Seq(Byte) /\ kbuf \in Seq(Byte) /\ rsp \in Seq(Byte)
    BY DEF IndInv, TypeOK, FirmwareTypeOK, DriverTypeOK
  <2> QED
    BY <1>1, <2>1 DEF awaiting
<1>6. active /\ ~disturbed /\ dpc' = "sleep" => idle_counter' <= late'
  BY <1>1, <1>2 DEF CallsGoWell, UndisturbedInv
<1>7. UndisturbedInv' /\ DoneInv'
  BY <1>1, <1>2, <1>3, <1>4, <1>5, <1>6, AttemptGoesOn DEF CallsGoWell
<1> QED
  BY <1>1, <1>2, <1>7 DEF CallsGoWell, TimeoutMeansDisturbed

\* A pause that makes the parser forget something disturbs the attempt; one that
\* does not leaves the parser as it was.
LEMMA TickGoesWell ==
  ASSUME IndInv, CallsGoWell, Tick
  PROVE  CallsGoWell'
<1>1. disturbed' = (disturbed \/ (~AtRest /\ AtRest'))
  BY Zenon DEF Tick
<1>2. CASE disturbed'
  BY <1>2, Disturbance DEF CallsGoWell
<1>3. CASE ~disturbed'
  <2>1. disturbed' = disturbed /\ ~disturbed /\ (AtRest' => AtRest)
    BY Zenon, <1>1, <1>3 DEF IndInv, TypeOK, FlagsTypeOK
  <2>2. /\ UNCHANGED <<to_slave, to_master, kbuf, dpc, sent, want, rsp, attempt, idle_counter>>
        /\ UNCHANGED board
        /\ (serial_state' = "TYPE" /\ serial_data_idx' = 0) \/ UNCHANGED <<serial_state, serial_data_idx>>
    BY DEF Tick, Idle, to_rest
  <2>3. UNCHANGED <<request, executed>> /\ late' \in Nat /\ late \in Nat /\ late' >= late
        /\ idle_counter \in Nat
    <3>1. UNCHANGED <<request, executed>>
      BY Zenon DEF Tick
    <3>2. late \in Nat /\ idle_counter \in Nat
      BY RecvAssumption, LatencyAssumption DEF IndInv, TypeOK, DriverTypeOK
    <3>3. late' = IF to_master = <<>> THEN late ELSE late + 1
      BY DEF Tick
    <3> QED
      BY <3>1, <3>2, <3>3
  <2>4. UNCHANGED <<serial_state, serial_data_idx>>
    BY <2>1, <2>2 DEF IndInv, LinkInv, Framing, AtRest
  <2>5. active' = active /\ handed' = handed /\ awaiting' = awaiting
    BY <2>2 DEF active, handed, awaiting
  <2>6. active /\ ~disturbed /\ dpc' = "sleep" => idle_counter' <= late'
    BY <2>2, <2>3 DEF CallsGoWell, UndisturbedInv
  <2>7. UndisturbedInv' /\ DoneInv'
    BY <2>1, <2>2, <2>3, <2>4, <2>5, <2>6, AttemptGoesOn DEF CallsGoWell
  <2> QED
    BY <2>1, <2>2, <2>3, <2>7, RecvAssumption DEF CallsGoWell, TimeoutMeansDisturbed
<1> QED
  BY <1>2, <1>3

LEMMA StutterGoesWell ==
  ASSUME CallsGoWell, UNCHANGED vars
  PROVE  CallsGoWell'
<1>1. UNCHANGED slave_vars /\ UNCHANGED driver /\ UNCHANGED history
  BY Zenon DEF vars
<1>2. UNCHANGED <<kbuf, dpc, sent, want, rsp, attempt, idle_counter>>
  BY Zenon, <1>1 DEF driver
<1>3. UNCHANGED <<request, executed, disturbed, late>>
  BY Zenon, <1>1 DEF history
<1>4. UNCHANGED <<to_slave, to_master, serial_data_idx, serial_state>> /\ UNCHANGED board
  BY Zenon, <1>1 DEF slave_vars, parser
<1>5. active' = active /\ handed' = handed /\ awaiting' = awaiting
  BY Zenon, <1>2, <1>4 DEF active, handed, awaiting
<1>6. active /\ ~disturbed /\ dpc' = "sleep" => idle_counter' <= late'
  BY <1>2, <1>3 DEF CallsGoWell, UndisturbedInv
<1>7. UndisturbedInv' /\ DoneInv'
  BY <1>2, <1>3, <1>4, <1>5, <1>6, AttemptGoesOn DEF CallsGoWell
<1> QED
  BY <1>2, <1>3, <1>7 DEF CallsGoWell, TimeoutMeansDisturbed

LEMMA StepGoesWell ==
  ASSUME IndInv, CallsGoWell, [Next]_vars
  PROVE  CallsGoWell'
<1>1. CASE Driver
  BY <1>1, CallGoesWell, SendGoesWell, SendByteGoesWell, ReturnGoesWell, RecvByteGoesWell,
     RecvSleepGoesWell, RecvWakeGoesWell DEF Driver
<1>2. CASE LoseRequestByte \/ LoseResponseByte \/ SlaveRestart
  <2>1. disturbed' = TRUE
    BY Zenon, <1>2 DEF LoseRequestByte, LoseResponseByte, SlaveRestart
  <2> QED
    BY <2>1, Disturbance DEF CallsGoWell
<1> QED
  BY <1>1, <1>2, SlaveReadsGoesWell, DeliverGoesWell, TickGoesWell, StutterGoesWell DEF Next, Line

-----------------------------------------------------------------------------
(* Theorems. *)

\* An undisturbed attempt runs as intended at every moment of it, and the board
\* shows what was asked for once the request is handed over.
THEOREM UndisturbedAttempts == Spec => []CallsGoWell
<1>1. Init => CallsGoWell
  BY DEF Init, CallsGoWell, UndisturbedInv, DoneInv, TimeoutMeansDisturbed, active
<1>2. IndInv /\ CallsGoWell /\ [Next]_vars => CallsGoWell'
  BY StepGoesWell
<1> QED
  BY <1>1, <1>2, LinkInvariant, PTL DEF Spec

\* The slave's parser and the driver's count of bytes agree throughout an attempt
\* that nothing disturbed.
THEOREM UndisturbedInStep == Spec => []UndisturbedInv
<1>1. CallsGoWell => UndisturbedInv
  BY DEF CallsGoWell
<1> QED
  BY <1>1, UndisturbedAttempts, PTL

\* recv gives up only on an attempt in which something really went wrong, or whose
\* answer was under way for more than RECV_IDLE milliseconds: neither an answer that
\* takes its time nor the driver's pauses alone end an attempt.
THEOREM TimeoutsJustified == Spec => []TimeoutMeansDisturbed
<1>1. CallsGoWell => TimeoutMeansDisturbed
  BY DEF CallsGoWell
<1> QED
  BY <1>1, UndisturbedAttempts, PTL

\* A byte of an answer in an undisturbed attempt finds the whole request executed.
LEMMA AnsweredMeansDone == ASSUME IndInv, CallsGoWell, RecvByte, ~disturbed PROVE done
<1>1. active /\ dpc = "recv" /\ kbuf # <<>>
  BY DEF RecvByte, active
<1>2. to_slave = <<>> /\ sent = Len(request)
  <2>1. awaiting > 0
    BY <1>1, Attempt DEF awaiting
  <2> QED
    BY <1>1, <2>1 DEF IndInv, LinkInv, ResponseInv
<1>3. handed = Len(request)
  BY <1>1, <1>2, Attempt
<1> QED
  BY <1>1, <1>3 DEF CallsGoWell, DoneInv

\* An answer in an undisturbed attempt means that the call's arguments reached the
\* board.
THEOREM AcksJustified == Spec => AckMeansDone
<1>1. ASSUME IndInv, CallsGoWell, [Next]_vars, transaction_received' > transaction_received, ~disturbed
      PROVE  done
  <2>0. transaction_received \in Nat
    BY <1>1 DEF IndInv, TypeOK, DriverTypeOK
  <2>1. RecvByte
    <3>1. CASE Driver
      <4>1. CASE RecvByte
        BY <4>1
      <4>2. CASE ~RecvByte
        <5>1. transaction_received' \in {0, transaction_received}
          BY <3>1, <4>2, Zenon DEF Driver, BeginPinMode, BeginInitPwm, BeginPwmDuty, BeginAnalogRead,
             Begin, Send, SendByte, GiveUp, RecvSleep, RecvWake, get_transaction_stats
        <5> QED
          BY <1>1, <2>0, <5>1
      <4> QED
        BY <4>1, <4>2
    <3>2. CASE Deliver \/ Tick
      <4>1. transaction_received' = transaction_received
        BY <3>2, Zenon DEF Deliver, Tick
      <4> QED
        BY <1>1, <2>0, <4>1
    <3>3. CASE SlaveReads \/ LoseRequestByte \/ LoseResponseByte \/ SlaveRestart \/ UNCHANGED vars
      <4>1. UNCHANGED driver
        BY Zenon, <3>3 DEF SlaveReads, LoseRequestByte, LoseResponseByte, SlaveRestart, vars
      <4>2. transaction_received' = transaction_received
        BY Zenon, <4>1 DEF driver
      <4> QED
        BY <1>1, <2>0, <4>2
    <3> QED
      BY <1>1, <3>1, <3>2, <3>3 DEF Next, Line
  <2> QED
    BY <1>1, <2>1, AnsweredMeansDone
<1>2. IndInv /\ CallsGoWell /\ [Next]_vars =>
        [transaction_received' > transaction_received => done \/ disturbed]_vars
  BY <1>1
<1> QED
  BY <1>2, LinkInvariant, UndisturbedAttempts, PTL DEF Spec, AckMeansDone

\* The slave's board changes only by executing the request of the call in
\* progress, as it was built, unless the attempt was disturbed.
THEOREM CommandsJustified == Spec => NoSpuriousCommand
<1>1. ASSUME IndInv, CallsGoWell, [Next]_vars, board' # board, ~disturbed'
      PROVE  dpc # "idle" /\ executes_request
  <2>1. SlaveReads
    <3>1. CASE Driver
      <4>1. UNCHANGED slave_vars \/ UNCHANGED board
        BY <3>1, Zenon DEF Driver, BeginPinMode, BeginInitPwm, BeginPwmDuty, BeginAnalogRead,
           Begin, Send, SendByte, GiveUp, RecvByte, RecvSleep, RecvWake, get_transaction_stats
      <4> QED
        BY <1>1, <4>1, Zenon DEF slave_vars
    <3>2. CASE Deliver \/ Tick \/ LoseRequestByte \/ LoseResponseByte
      <4>1. UNCHANGED board
        BY <3>2, Zenon DEF Deliver, Tick, Idle, LoseRequestByte, LoseResponseByte
      <4> QED
        BY <1>1, <4>1, Zenon
    <3>3. CASE SlaveRestart
      BY <1>1, <3>3, Zenon DEF SlaveRestart
    <3>4. CASE UNCHANGED vars
      BY <1>1, <3>4, Zenon DEF vars, slave_vars
    <3> QED
      BY <1>1, <3>1, <3>2, <3>3, <3>4 DEF Next, Line
  <2>2. ~disturbed
    BY <1>1, <2>1, Zenon DEF SlaveReads
  <2>3. SlaveRuns
    <3>1. ~ReadType /\ ~ReadText /\ ~ReadBody
      BY <1>1, Zenon DEF ReadType, ReadText, ReadBody
    <3> QED
      BY <1>1, <2>1, <3>1, SlaveReadsContext DEF SlaveRuns
  <2> QED
    BY <1>1, <2>1, <2>2, <2>3, InStep, RunsRequest
<1>2. IndInv /\ CallsGoWell /\ [Next]_vars =>
        [board' # board => disturbed' \/ (dpc # "idle" /\ executes_request)]_vars
  BY <1>1
<1> QED
  BY <1>2, LinkInvariant, UndisturbedAttempts, PTL DEF Spec, NoSpuriousCommand

-----------------------------------------------------------------------------
(* Refinement: the duty registers seen by main_app.                          *)

\* A call that returns has written its duty, unless its last attempt was disturbed.
LEMMA DutyReturned ==
  ASSUME IndInv, CallsGoWell, GiveUp \/ RecvByte, dpc' = "idle"
  PROVE  disturbed \/ \A w \in duty_request : ocr[w.channel] = w.duty
<1>1. ASSUME GiveUp, ~disturbed PROVE done
  <2>1. dpc = "try" /\ attempt > 0
    BY <1>1, RetryAssumption DEF GiveUp
  <2> QED
    BY <1>1, <2>1 DEF CallsGoWell, DoneInv
<1>2. ASSUME RecvByte, ~disturbed PROVE done
  BY <1>2, AnsweredMeansDone
<1>3. CASE ~disturbed
  <2>1. done /\ dpc # "idle"
    BY <1>1, <1>2, <1>3 DEF GiveUp, RecvByte
  <2>2. SUFFICES ASSUME NEW w \in duty_request PROVE ocr[w.channel] = w.duty
    OBVIOUS
  <2>3. PICK c \in asked_duties : w = [channel |-> <<c[1], c[2]>>, duty |-> c[3]]
    BY <2>1, <2>2 DEF duty_request
  <2>4. ocr[<<c[1], c[2]>>] = c[3]
    BY <2>1, <2>3 DEF done, asked_duties
  <2> QED
    BY <2>3, <2>4
<1> QED
  BY <1>3

LEMMA DutyStep ==
  ASSUME IndInv, IndInv', AskedInv, AskedInv', CallsGoWell, [Next]_vars
  PROVE  [Abstract!Next]_<<ocr, duty_request, disturbed>>
<1>1. ASSUME UNCHANGED <<dpc, request>> PROVE duty_request' = duty_request
  BY <1>1 DEF duty_request, asked_duties
<1>2. CASE BeginPinMode \/ BeginInitPwm \/ BeginPwmDuty \/ BeginAnalogRead
  <2>1. dpc = "idle" /\ UNCHANGED slave_vars /\ disturbed' = disturbed
    BY Zenon, <1>2 DEF BeginPinMode, BeginInitPwm, BeginPwmDuty, BeginAnalogRead, Begin
  <2>2. duty_request = {} /\ ocr' = ocr
    BY <2>1 DEF duty_request, asked_duties, slave_vars, board
  <2>3. (duty_request = {} \/ \E w \in Abstract!Write : duty_request = {w})'
    BY PendingWrite, PTL
  <2>4. CASE duty_request' = {}
    BY <2>1, <2>2, <2>4
  <2>5. CASE \E w \in Abstract!Write : duty_request' = {w}
    BY <2>1, <2>2, <2>5 DEF Abstract!Next, Abstract!Call
  <2> QED
    BY <2>3, <2>4, <2>5
<1>3. CASE Send
  <2>1. /\ UNCHANGED slave_vars /\ dpc = "try" /\ dpc' = "send" /\ request' = request
        /\ disturbed' = FALSE
    BY <1>3 DEF Send
  <2>2. duty_request' = duty_request /\ ocr' = ocr
    BY <2>1 DEF duty_request, asked_duties, slave_vars, board
  <2> QED
    BY <2>1, <2>2 DEF Abstract!Next, Abstract!Attempt
<1>4. CASE SendByte
  <2>1. /\ UNCHANGED board /\ dpc = "send" /\ dpc' # "idle" /\ request' = request
        /\ disturbed' = disturbed
    BY <1>4 DEF SendByte, history
  <2> QED
    BY <2>1 DEF duty_request, asked_duties, board
<1>5. CASE GiveUp \/ RecvByte
  <2>1. /\ UNCHANGED slave_vars /\ request' = request /\ dpc # "idle" /\ dpc' \in {"idle", dpc}
        /\ disturbed' = disturbed
    BY <1>5 DEF GiveUp, RecvByte, history
  <2>2. ocr' = ocr
    BY <2>1 DEF slave_vars, board
  <2>3. CASE dpc' = "idle" /\ duty_request # {}
    <3>1. duty_request' = {}
      BY <2>3 DEF duty_request
    <3>2. disturbed \/ \A w \in duty_request : ocr[w.channel] = w.duty
      BY <1>5, <2>3, DutyReturned
    <3> QED
      BY <2>1, <2>2, <2>3, <3>1, <3>2 DEF Abstract!Next, Abstract!Return
  <2>4. CASE dpc' # "idle" \/ duty_request = {}
    <3>1. duty_request' = duty_request
      BY <2>1, <2>4 DEF duty_request, asked_duties
    <3> QED
      BY <2>1, <2>2, <3>1
  <2> QED
    BY <2>3, <2>4
<1>6. CASE RecvSleep \/ RecvWake
  <2>1. /\ UNCHANGED slave_vars /\ request' = request /\ dpc # "idle" /\ dpc' # "idle"
        /\ disturbed' = disturbed
    BY <1>6 DEF RecvSleep, RecvWake, history
  <2> QED
    BY <2>1 DEF duty_request, asked_duties, slave_vars, board
<1>7. CASE get_transaction_stats
  <2>1. UNCHANGED slave_vars /\ UNCHANGED <<dpc, request, disturbed>>
    BY <1>7 DEF get_transaction_stats, history
  <2> QED
    BY <1>1, <2>1 DEF slave_vars, board
<1>8. CASE Deliver \/ Tick \/ LoseRequestByte \/ LoseResponseByte
  <2>1. UNCHANGED board
    BY Zenon, <1>8 DEF Deliver, Tick, Idle, LoseRequestByte, LoseResponseByte
  <2>2. UNCHANGED <<dpc, request>>
    BY Zenon, <1>8 DEF Deliver, Tick, LoseRequestByte, LoseResponseByte, history, driver
  <2>3. disturbed' = disturbed \/ disturbed' = TRUE
    <3>1. disturbed \in BOOLEAN /\ disturbed' \in BOOLEAN
      BY Zenon DEF IndInv, TypeOK, FlagsTypeOK
    <3>2. disturbed => disturbed'
      BY Zenon, <1>8 DEF Deliver, Tick, LoseRequestByte, LoseResponseByte, history
    <3> QED
      BY <3>1, <3>2, Zenon
  <2>4. duty_request' = duty_request /\ ocr' = ocr
    BY <1>1, <2>1, <2>2 DEF board
  <2> QED
    BY <2>3, <2>4 DEF Abstract!Next, Abstract!Disturb
<1>9. CASE SlaveRestart
  <2>1. ocr' = zero_duty /\ disturbed' = TRUE
    BY <1>9 DEF SlaveRestart, setup
  <2>2. UNCHANGED <<dpc, request>>
    BY Zenon, <1>9 DEF SlaveRestart, driver
  <2> QED
    BY <1>1, <2>1, <2>2 DEF zero_duty, Abstract!Next, Abstract!PowerCycle
<1>10. CASE SlaveReads
  <2>1. UNCHANGED <<dpc, request>>
    BY <1>10, SlaveReadsContext, TakeByte
  <2>2. disturbed' = disturbed
    BY <1>10, Zenon DEF SlaveReads
  <2> QED
    BY <1>1, <1>10, <2>1, <2>2, DutyWritten DEF Abstract!Next
<1>11. CASE UNCHANGED vars
  <2>1. UNCHANGED slave_vars /\ UNCHANGED driver /\ UNCHANGED history
    BY Zenon, <1>11 DEF vars
  <2>2. ocr' = ocr /\ UNCHANGED <<dpc, request, disturbed>>
    BY Zenon, <2>1 DEF slave_vars, board, driver, history
  <2> QED
    BY <1>1, <2>2
<1> QED
  BY <1>2, <1>3, <1>4, <1>5, <1>6, <1>7, <1>8, <1>9, <1>10, <1>11 DEF Next, Driver, Line

\* Through the duty registers, driver, line and slave implement DutyRegister:
\* losses, pauses, resets and retries never write a duty nobody asked for, and a
\* call that returns from an undisturbed attempt has written its own.
THEOREM DutyRefinement == Spec => DutyRegisterSpec
<1>0. Init => AskedInv
  BY DEF Init, AskedInv
<1>1. Init => Abstract!Init
  BY DEF Init, PowerUp, zero_duty, duty_request, Abstract!Init
<1>2. IndInv /\ AskedInv /\ [Next]_vars => AskedInv'
  BY AskedStep
<1>3. IndInv /\ IndInv' /\ AskedInv /\ AskedInv' /\ CallsGoWell /\ [Next]_vars
        => [Abstract!Next]_<<ocr, duty_request, disturbed>>
  BY DutyStep
<1> QED
  BY <1>0, <1>1, <1>2, <1>3, LinkInvariant, UndisturbedAttempts, PTL
     DEF Spec, DutyRegisterSpec, Abstract!Spec

-----------------------------------------------------------------------------
(* analogRead: an answer is never put together from two samples. *)

\* The response bytes of the attempt, from the driver's buffer back to the slave.
answer == rsp \o kbuf \o to_master

LEMMA MoveToLeft ==
  ASSUME NEW s \in Seq(Byte), NEW t \in Seq(Byte), t # <<>>
  PROVE  Append(s, Head(t)) \o Tail(t) = s \o t
<1>1. Head(t) \in Byte /\ Tail(t) \in Seq(Byte) /\ <<Head(t)>> \in Seq(Byte)
  OBVIOUS
<1>2. Append(s, Head(t)) = s \o <<Head(t)>>
  BY <1>1, AppendIsConcat
<1>3. (s \o <<Head(t)>>) \o Tail(t) = s \o (<<Head(t)>> \o Tail(t))
  BY <1>1, ConcatAssociative
<1>4. <<Head(t)>> \o Tail(t) = t
  <2>1. <<Head(t)>> \o Tail(t) \in Seq(Byte) /\ Len(<<Head(t)>> \o Tail(t)) = Len(t)
    BY <1>1
  <2>2. \A i \in 1..Len(t) : (<<Head(t)>> \o Tail(t))[i] = t[i]
    BY <1>1
  <2> QED
    BY <2>1, <2>2, SeqEqual
<1> QED
  BY <1>2, <1>3, <1>4

LEMMA AnswerType ==
  ASSUME IndInv
  PROVE  /\ rsp \in Seq(Byte) /\ kbuf \in Seq(Byte) /\ to_master \in Seq(Byte)
         /\ answer \in Seq(Byte) /\ awaiting \in Nat
<1>1. rsp \in Seq(Byte) /\ kbuf \in Seq(Byte) /\ to_master \in Seq(Byte)
  BY DEF IndInv, TypeOK, FirmwareTypeOK, DriverTypeOK
<1> QED
  BY <1>1 DEF answer, awaiting

\* Steps that only move the answer along, or leave it alone.
LEMMA AnswerMoves ==
  ASSUME SampleInv, active' => active, want' = want, sampled' = sampled,
         awaiting' = awaiting, answer' = answer
  PROVE  SampleInv'
BY DEF SampleInv, answer

LEMMA AnswerShort ==
  ASSUME awaiting' # 2 \/ want' # 2 \/ ~active'
  PROVE  SampleInv'
BY DEF SampleInv

LEMMA SlaveSamples ==
  ASSUME IndInv, SlaveReads
  PROVE  SampleInv'
<1>1. to_slave # <<>> /\ UNCHANGED driver
  BY SlaveReadsContext
<1>2. to_master = <<>> /\ kbuf = <<>> /\ rsp = <<>> /\ serial_state # "TEXT"
  BY <1>1, TakeContext
<1>3. UNCHANGED <<kbuf, rsp>>
  BY Zenon, <1>1 DEF driver
<1>4. BoardTypeOK /\ to_master \in Seq(Byte) /\ received \in [0..BUF-1 -> Byte]
  BY <1>1, Received DEF IndInv, TypeOK, FirmwareTypeOK
<1>5. CASE ReadType \/ ReadText \/ ReadBody \/ ReadTextEnd
  <2>1. to_master' = to_master
    BY <1>2, <1>5 DEF ReadType, ReadText, ReadBody, ReadTextEnd
  <2>2. awaiting' = 0
    BY <1>2, <1>3, <2>1 DEF awaiting
  <2> QED
    BY <2>2, AnswerShort
<1>6. CASE SlaveRuns /\ sampled' = sampled \union samples_now
  <2>1. process_message(received)
    BY <1>6 DEF SlaveRuns, ReadHeaderOnly, ReadBodyEnd
  <2>2. CASE received[0] = ANALOG_READ
    <3>0. \E v \in Samples : send_serial(<<v % 256, v \div 256>>)
      BY <2>1, <2>2 DEF process_message, LOG_INFO, PINMODE, DIGITAL_WRITE, DIGITAL_READ,
         ANALOG_READ, PWM_INIT, PWM_DUTY
    <3>1. PICK v \in Samples : to_master' = to_master \o <<v % 256, v \div 256>>
      BY <3>0, Zenon DEF send_serial
    <3>2. v \in sampled'
      BY <1>6, <2>2, <3>1 DEF samples_now
    <3>3. v % 256 \in Byte /\ v \div 256 \in Byte
      BY SamplesAssumption DEF Byte
    <3>4. <<v % 256, v \div 256>> \in Seq(Byte)
      BY <3>3
    <3>5. rsp' \o kbuf' \o to_master' = <<v % 256, v \div 256>>
      BY <1>2, <1>3, <3>1, <3>4
    <3> QED
      BY <3>2, <3>5 DEF SampleInv
  <2>3. CASE received[0] # ANALOG_READ
    <3>1. to_master' \in Seq(Byte) /\ Len(to_master') = Len(to_master) +
            (IF received[0] = LOG_INFO THEN 0 ELSE IF received[0] = ANALOG_READ THEN 2 ELSE 1)
      BY <1>4, <2>1, ProcessMessage
    <3>2. Len(to_master') \in {0, 1}
      BY <1>2, <2>3, <3>1
    <3>3. awaiting' # 2
      BY <1>2, <1>3, <3>2 DEF awaiting
    <3> QED
      BY <3>3, AnswerShort
  <2> QED
    BY <2>2, <2>3
<1> QED
  BY <1>5, <1>6, Zenon DEF SlaveReads

LEMMA SampleStep ==
  ASSUME IndInv, SampleInv, [Next]_vars
  PROVE  SampleInv'
<1>1. CASE \/ BeginPinMode \/ BeginInitPwm \/ BeginPwmDuty \/ BeginAnalogRead
           \/ GiveUp \/ get_transaction_stats
  <2>1. dpc' \in {"idle", "try"}
    BY <1>1 DEF BeginPinMode, BeginInitPwm, BeginPwmDuty, BeginAnalogRead, Begin, GiveUp,
                get_transaction_stats
  <2> QED
    BY <2>1, AnswerShort DEF active
<1>2. CASE Send
  <2>1. kbuf' = <<>> /\ rsp' = <<>> /\ to_master' = to_master /\ dpc = "try"
    BY <1>2 DEF Send, new_rsp, slave_vars
  <2>2. to_master = <<>>
    BY <2>1 DEF IndInv, LinkInv, AttemptStartsClean
  <2>3. awaiting' = 0
    BY <2>1, <2>2 DEF awaiting
  <2> QED
    BY <2>3, AnswerShort
<1>3. CASE SendByte \/ RecvSleep \/ RecvWake
  <2>1. UNCHANGED <<kbuf, rsp, want>> /\ (active' => active)
    BY <1>3 DEF SendByte, RecvSleep, RecvWake, active
  <2>2. UNCHANGED to_master /\ UNCHANGED sampled
    BY Zenon, <1>3 DEF SendByte, RecvSleep, RecvWake, slave_vars, history
  <2>3. answer' = answer /\ awaiting' = awaiting
    BY Zenon, <2>1, <2>2 DEF answer, awaiting
  <2> QED
    BY <2>1, <2>2, <2>3, AnswerMoves
<1>4. CASE RecvByte
  <2>1. /\ kbuf # <<>> /\ kbuf' = Tail(kbuf) /\ rsp' = Append(rsp, Head(kbuf))
        /\ want' = want /\ (active' => active)
    BY <1>4 DEF RecvByte, active
  <2>2. UNCHANGED to_master /\ UNCHANGED sampled
    BY Zenon, <1>4 DEF RecvByte, slave_vars, history
  <2>3. rsp \in Seq(Byte) /\ kbuf \in Seq(Byte) /\ to_master \in Seq(Byte)
    BY AnswerType
  <2>4. rsp' \o kbuf' = rsp \o kbuf
    BY <2>1, <2>3, MoveToLeft
  <2>5. answer' = answer
    BY Zenon, <2>2, <2>4 DEF answer
  <2>6. awaiting' = awaiting
    BY <2>1, <2>2, <2>3 DEF awaiting
  <2> QED
    BY <2>1, <2>2, <2>5, <2>6, AnswerMoves
<1>5. CASE Deliver
  <2>1. /\ to_master # <<>> /\ kbuf' = Append(kbuf, Head(to_master)) /\ to_master' = Tail(to_master)
        /\ UNCHANGED <<rsp, want, dpc>>
    BY <1>5 DEF Deliver
  <2>2. UNCHANGED sampled
    BY Zenon, <1>5 DEF Deliver, history
  <2>3. rsp \in Seq(Byte) /\ kbuf \in Seq(Byte) /\ to_master \in Seq(Byte)
    BY AnswerType
  <2>4. Append(kbuf, Head(to_master)) \o Tail(to_master) = kbuf \o to_master
    BY <2>1, <2>3, MoveToLeft
  <2>5. /\ Append(kbuf, Head(to_master)) \in Seq(Byte) /\ Tail(to_master) \in Seq(Byte)
    BY <2>1, <2>3
  <2>6. (rsp \o Append(kbuf, Head(to_master))) \o Tail(to_master)
          = rsp \o (Append(kbuf, Head(to_master)) \o Tail(to_master))
    BY SMTT(30), <2>3, <2>5, ConcatAssociative
  <2>7. (rsp \o kbuf) \o to_master = rsp \o (kbuf \o to_master)
    BY <2>3, ConcatAssociative
  <2>8. answer' = answer
    BY Zenon, <2>1, <2>4, <2>6, <2>7 DEF answer
  <2>9. awaiting' = awaiting /\ (active' => active)
    BY <2>1, <2>3 DEF awaiting, active
  <2> QED
    BY <2>1, <2>2, <2>8, <2>9, AnswerMoves
<1>6. CASE LoseResponseByte
  <2>1. to_master # <<>> /\ to_master' = Tail(to_master) /\ UNCHANGED driver
    BY <1>6 DEF LoseResponseByte
  <2>2. UNCHANGED <<kbuf, rsp, want, dpc>>
    BY Zenon, <2>1 DEF driver
  <2>3. awaiting' = awaiting - 1 /\ awaiting \in Nat
    BY <2>1, <2>2, AnswerType DEF awaiting
  <2>4. active => awaiting <= want
    BY DEF IndInv, LinkInv, ResponseInv
  <2> QED
    BY <2>2, <2>3, <2>4, AnswerShort DEF active
<1>7. CASE Tick \/ LoseRequestByte \/ SlaveRestart \/ UNCHANGED vars
  <2>1. UNCHANGED <<kbuf, rsp, want, dpc, to_master, sampled>>
    <3>1. CASE Tick
      BY Zenon, <3>1 DEF Tick, Idle
    <3>2. CASE LoseRequestByte \/ SlaveRestart
      BY Zenon, <3>2 DEF LoseRequestByte, SlaveRestart, setup, driver
    <3>3. CASE UNCHANGED vars
      <4>1. UNCHANGED slave_vars /\ UNCHANGED driver /\ UNCHANGED history
        BY Zenon, <3>3 DEF vars
      <4> QED
        BY Zenon, <4>1 DEF slave_vars, driver, history
    <3> QED
      BY <1>7, <3>1, <3>2, <3>3
  <2>2. answer' = answer /\ awaiting' = awaiting /\ active' = active
    BY Zenon, <2>1 DEF answer, awaiting, active
  <2> QED
    BY <2>1, <2>2, AnswerMoves
<1> QED
  BY <1>1, <1>2, <1>3, <1>4, <1>5, <1>6, <1>7, SlaveSamples DEF Next, Driver, Line

\* Whenever both bytes of an analogRead response are on their way or received they
\* are those of one sample taken in this attempt.
THEOREM SamplesWhole == Spec => []SampleInv
<1>1. Init => SampleInv
  BY DEF Init, SampleInv, active
<1>2. IndInv /\ SampleInv /\ [Next]_vars => SampleInv'
  BY SampleStep
<1> QED
  BY <1>1, <1>2, LinkInvariant, PTL DEF Spec

\* analogRead returns -1 or a value the ADC delivered in the attempt that answered,
\* whatever was lost, reset or late before.
THEOREM ReadsJustified == Spec => ReadIntegrity
<1>1. ASSUME IndInv, SampleInv, [Next]_vars, dpc # "idle", dpc' = "idle", want = 2, rval' # ADC_FAIL
      PROVE  rval' \in sampled
  <2>1. RecvByte
    <3>1. CASE Driver
      <4>1. ~GiveUp
        BY <1>1 DEF GiveUp
      <4> QED
        BY <1>1, <3>1, <4>1 DEF Driver, BeginPinMode, BeginInitPwm, BeginPwmDuty, BeginAnalogRead,
           Begin, Send, SendByte, RecvByte, RecvSleep, RecvWake, get_transaction_stats
    <3>2. CASE SlaveReads \/ Line \/ UNCHANGED vars
      <4>1. dpc' = dpc
        <5>1. CASE Deliver \/ Tick
          BY Zenon, <5>1 DEF Deliver, Tick
        <5>2. CASE SlaveReads \/ LoseRequestByte \/ LoseResponseByte \/ SlaveRestart \/ UNCHANGED vars
          <6>1. UNCHANGED driver
            BY Zenon, <5>2 DEF SlaveReads, LoseRequestByte, LoseResponseByte, SlaveRestart, vars
          <6> QED
            BY Zenon, <6>1 DEF driver
        <5> QED
          BY <3>2, <5>1, <5>2 DEF Line
      <4> QED
        BY <1>1, <4>1
    <3> QED
      BY <1>1, <3>1, <3>2 DEF Next
  <2>2. /\ dpc = "recv" /\ kbuf # <<>> /\ Len(rsp) + 1 = 2 /\ rval' = rsp[1] + 256 * Head(kbuf)
    BY <1>1, <2>1 DEF RecvByte
  <2>3. rsp \in Seq(Byte) /\ kbuf \in Seq(Byte) /\ to_master \in Seq(Byte)
    BY <1>1, AnswerType
  <2>4. active /\ awaiting <= 2
    BY <1>1, <2>2 DEF IndInv, LinkInv, ResponseInv, active
  <2>5. Len(rsp) = 1 /\ Len(kbuf) = 1 /\ Len(to_master) = 0 /\ awaiting = 2
    <3>1. Len(kbuf) \in Nat \ {0} /\ Len(to_master) \in Nat /\ Len(rsp) \in Nat
      BY <2>2, <2>3
    <3>2. Len(to_master) + Len(kbuf) + Len(rsp) <= 2
      BY <2>4 DEF awaiting
    <3>3. \A m \in Nat, k \in Nat \ {0}, r \in Nat :
            r + 1 = 2 /\ m + k + r <= 2 => r = 1 /\ k = 1 /\ m = 0 /\ m + k + r = 2
      OBVIOUS
    <3>4. Len(rsp) + 1 = 2
      BY <2>2
    <3> QED
      BY <3>1, <3>2, <3>3, <3>4, Zenon DEF awaiting
  <2>6. PICK v \in sampled : rsp \o kbuf \o to_master = <<v % 256, v \div 256>>
    BY <1>1, <2>4, <2>5 DEF SampleInv
  <2>7. (rsp \o kbuf \o to_master)[1] = rsp[1] /\ (rsp \o kbuf \o to_master)[2] = Head(kbuf)
    <3>1. /\ rsp \o kbuf \in Seq(Byte) /\ Len(rsp \o kbuf) = 2
          /\ (rsp \o kbuf)[1] = rsp[1] /\ (rsp \o kbuf)[2] = kbuf[1] /\ kbuf[1] = Head(kbuf)
      <4>1. ASSUME NEW s \in Seq(Byte), NEW r \in Seq(Byte), Len(s) = 1, Len(r) = 1
            PROVE  /\ s \o r \in Seq(Byte) /\ Len(s \o r) = 2
                   /\ (s \o r)[1] = s[1] /\ (s \o r)[2] = r[1]
        <5>1. s \o r \in Seq(Byte) /\ Len(s \o r) = 2
          BY <4>1
        <5>2. (s \o r)[1] = s[1]
          BY <4>1, ConcatProperties
        <5>3. (s \o r)[2] = r[1]
          <6>1. (s \o r)[2] = IF 2 <= Len(s) THEN s[2] ELSE r[2 - Len(s)]
            <7>1. 2 \in 1..(Len(s) + Len(r))
              BY <4>1
            <7>2. \A i \in 1..(Len(s) + Len(r)) :
                    (s \o r)[i] = IF i <= Len(s) THEN s[i] ELSE r[i - Len(s)]
              BY ConcatProperties
            <7> QED
              BY <7>1, <7>2, Zenon
          <6>2. ~(2 <= Len(s)) /\ 2 - Len(s) = 1
            BY <4>1
          <6> QED
            BY <6>1, <6>2, Zenon
        <5> QED
          BY <5>1, <5>2, <5>3
      <4>2. \A r \in Seq(Byte) : Len(r) = 1 => r[1] = Head(r)
        OBVIOUS
      <4>3. Len(rsp) = 1 /\ Len(kbuf) = 1
        BY <2>5
      <4> QED
        BY <2>3, <4>1, <4>2, <4>3, Zenon
    <3>2. (rsp \o kbuf) \o to_master = rsp \o kbuf
      <4>1. to_master = <<>>
        BY <2>3, <2>5
      <4> QED
        BY <3>1, <4>1, ConcatEmptySeq
    <3> QED
      BY <3>1, <3>2
  <2>8. rsp[1] = v % 256 /\ Head(kbuf) = v \div 256
    BY <2>6, <2>7
  <2>9. v \in 0..1023
    BY <1>1, SamplesAssumption DEF IndInv, TypeOK, DriverTypeOK
  <2>10. (v % 256) + 256 * (v \div 256) = v
    BY <2>9
  <2> QED
    BY <2>2, <2>6, <2>8, <2>10
<1>2. IndInv /\ SampleInv /\ [Next]_vars =>
        [dpc # "idle" /\ dpc' = "idle" /\ want = 2 => rval' = ADC_FAIL \/ rval' \in sampled]_vars
  BY <1>1
<1> QED
  BY <1>2, LinkInvariant, SamplesWhole, PTL DEF Spec, ReadIntegrity

\* The inductive invariant of the link, part by part: framing, clean starts, the
\* call, the line, the parser, the response and the two clocks.
THEOREM LinkAlwaysInStep == Spec => []LinkInv
<1>1. IndInv => LinkInv
  BY DEF IndInv
<1> QED
  BY <1>1, LinkInvariant, PTL

-----------------------------------------------------------------------------
(* The outputs, under the driver.                                            *)

LEMMA DrivenFirmware ==
  ASSUME IndInv, OutputsConfigured, [Next]_vars
  PROVE  OutputsConfigured'
<1>1. FirmwareInv /\ BoardTypeOK
  BY DEF IndInv, TypeOK, LinkInv, FirmwareInv, FirmwareTypeOK
<1>2. CASE SlaveReads
  <2>1. ReadByte
    BY <1>2, Zenon DEF SlaveReads, SlaveRuns, ReadByte
  <2> QED
    BY <1>1, <2>1, FirmwareStep DEF FirmwareInv
<1>3. CASE Tick
  BY <1>1, <1>3, FirmwareStep DEF Tick, FirmwareInv
<1>4. CASE SlaveRestart
  BY <1>1, <1>4, FirmwareStep DEF SlaveRestart, FirmwareInv
<1>5. ASSUME UNCHANGED board
      PROVE  OutputsConfigured'
  BY <1>1, <1>5, BoardStays
<1>6. CASE BeginPinMode \/ BeginInitPwm \/ BeginPwmDuty \/ BeginAnalogRead
  <2>1. UNCHANGED slave_vars
    BY <1>6, Zenon DEF BeginPinMode, BeginInitPwm, BeginPwmDuty, BeginAnalogRead, Begin
  <2> QED
    BY <1>5, <2>1, Zenon DEF slave_vars
<1>7. CASE Send \/ GiveUp \/ RecvByte \/ RecvSleep \/ RecvWake \/ get_transaction_stats
  <2>1. UNCHANGED slave_vars
    BY <1>7, Zenon DEF Send, GiveUp, RecvByte, RecvSleep, RecvWake, get_transaction_stats
  <2> QED
    BY <1>5, <2>1, Zenon DEF slave_vars
<1>8. CASE SendByte \/ Deliver \/ LoseRequestByte \/ LoseResponseByte
  <2>1. UNCHANGED board
    BY <1>8, Zenon DEF SendByte, Deliver, LoseRequestByte, LoseResponseByte
  <2> QED
    BY <1>5, <2>1
<1>9. CASE UNCHANGED vars
  BY <1>5, <1>9, Zenon DEF vars, slave_vars
<1> QED
  BY <1>2, <1>3, <1>4, <1>6, <1>7, <1>8, <1>9, Zenon DEF Next, Driver, Line

\* Driven by ArduinoSlave too, with losses, retries and resets, an output of the
\* slave is connected only on a timer its timers[] has as configured.
THEOREM DrivenOutputsConfigured == Spec => []OutputsConfigured
<1>1. Init => OutputsConfigured
  BY PowerUpInv DEF Init, FirmwareInv
<1>2. IndInv /\ OutputsConfigured /\ [Next]_vars => OutputsConfigured'
  BY DrivenFirmware
<1> QED
  BY <1>1, <1>2, LinkInvariant, PTL DEF Spec

-----------------------------------------------------------------------------
(* Calls come to their end.                                                  *)

\* What the attempts to come are worth.
LEMMA Budget ==
  ASSUME NEW a \in 0..MAX_RETRY
  PROVE  /\ budget(a) \in Nat
         /\ a < MAX_RETRY => budget(a + 1) \in Nat /\ budget(a) = budget(a + 1) + ATTEMPT
<1>1. ATTEMPT \in Nat /\ MAX_RETRY - a \in Nat
  BY RetryAssumption, RecvAssumption DEF ATTEMPT
<1>2. \A x \in Nat, y \in Nat : x * y \in Nat
  OBVIOUS
<1>3. \A x \in Int, y \in Nat : x * y = (x - 1) * y + y
  OBVIOUS
<1>4. MAX_RETRY - (a + 1) = (MAX_RETRY - a) - 1 /\ MAX_RETRY - a \in Int
  BY RetryAssumption
<1>5. a < MAX_RETRY => MAX_RETRY - (a + 1) \in Nat
  BY RetryAssumption
<1>6. budget(a) = (MAX_RETRY - a) * ATTEMPT /\ budget(a + 1) = (MAX_RETRY - (a + 1)) * ATTEMPT
  BY Zenon DEF budget
<1>7. budget(a) \in Nat
  BY <1>1, <1>2, <1>6, Zenon
<1>8. a < MAX_RETRY => budget(a + 1) \in Nat
  BY <1>1, <1>2, <1>5, <1>6, Zenon
<1>9. budget(a) = budget(a + 1) + ATTEMPT
  <2>1. (MAX_RETRY - a) * ATTEMPT = ((MAX_RETRY - a) - 1) * ATTEMPT + ATTEMPT
    BY <1>1, <1>3, <1>4, Zenon
  <2> QED
    BY <1>4, <1>6, <2>1, Zenon
<1> QED
  BY <1>7, <1>8, <1>9

LEMMA StepsLeft ==
  /\ dpc = "idle" => steps_left = 0
  /\ dpc = "try" => steps_left = budget(attempt) + 1
  /\ dpc = "send" => steps_left = budget(attempt) - sent
  /\ dpc = "recv" => steps_left = budget(attempt + 1) + receiving + 1
  /\ dpc = "sleep" => steps_left = budget(attempt + 1) + receiving
BY DEF steps_left

\* The same, in the next state.
LEMMA StepsLeftNext ==
  /\ dpc' = "idle" => steps_left' = 0
  /\ dpc' = "try" => steps_left' = budget(attempt') + 1
  /\ dpc' = "send" => steps_left' = budget(attempt') - sent'
  /\ dpc' = "recv" => steps_left' = budget(attempt' + 1) + receiving' + 1
  /\ dpc' = "sleep" => steps_left' = budget(attempt' + 1) + receiving'
BY DEF steps_left

\* The driver in a call: the ranges of what it counts.
LEMMA Counted ==
  ASSUME IndInv
  PROVE  /\ attempt \in 0..MAX_RETRY /\ sent \in 0..3 /\ want \in 0..2 /\ Len(rsp) \in Nat
         /\ idle_counter \in 0..RECV_IDLE+1 /\ RECV_IDLE \in Nat /\ ATTEMPT = 2 * RECV_IDLE + 10
         /\ dpc \in {"idle", "try", "send", "recv", "sleep"}
         /\ active => attempt < MAX_RETRY
         /\ dpc = "send" => sent < Len(msg) /\ Len(msg) \in 2..3
         /\ dpc \in {"recv", "sleep"} => Len(rsp) < want
<1>1. /\ attempt \in 0..MAX_RETRY /\ sent \in 0..3 /\ want \in 0..2 /\ Len(rsp) \in Nat
      /\ idle_counter \in 0..RECV_IDLE+1
      /\ dpc \in {"idle", "try", "send", "recv", "sleep"}
  BY DEF IndInv, TypeOK, DriverTypeOK
<1>2. dpc = "send" => sent < Len(msg) /\ Len(msg) \in 2..3
  BY DEF IndInv, LinkInv, CallInv, IsRequest
<1>3. /\ active => attempt < MAX_RETRY
      /\ dpc \in {"recv", "sleep"} => Len(rsp) < want
  BY DEF IndInv, LinkInv, CallInv
<1> QED
  BY <1>1, <1>2, <1>3, RecvAssumption DEF ATTEMPT

\* An attempt that begins has cost one step and has room for all of its own.
LEMMA SendProgress == ASSUME IndInv, Send PROVE steps_left' \in 0..steps_left-1
<1>1. dpc = "try" /\ dpc' = "send" /\ attempt' = attempt /\ sent' = 0
  BY DEF Send
<1>2. budget(attempt) \in Nat
  BY Counted, Budget
<1>3. steps_left = budget(attempt) + 1
  BY <1>1, StepsLeft, Zenon
<1>4. steps_left' = budget(attempt) - 0
  BY <1>1, StepsLeftNext, Zenon
<1> QED
  BY <1>2, <1>3, <1>4

LEMMA SendByteProgress == ASSUME IndInv, SendByte PROVE steps_left' \in 0..steps_left-1
<1>1. /\ dpc = "send" /\ attempt' = attempt /\ sent' = sent + 1 /\ want' = want /\ rsp' = rsp
      /\ \/ sent + 1 # Len(msg) /\ dpc' = "send"
         \/ sent + 1 = Len(msg) /\ dpc' = "recv" /\ idle_counter' = 0
  BY DEF SendByte
<1>2. budget(attempt) = budget(attempt + 1) + ATTEMPT /\ budget(attempt + 1) \in Nat
  BY <1>1, Counted, Budget DEF active
<1>3. steps_left = budget(attempt) - sent
  BY <1>1, StepsLeft, Zenon
<1>4. /\ sent \in 0..3 /\ sent < Len(msg) /\ Len(msg) \in 2..3
      /\ want \in 0..2 /\ RECV_IDLE \in Nat /\ ATTEMPT = 2 * RECV_IDLE + 10
  BY <1>1, Counted
<1>5. CASE dpc' = "send"
  <2>1. steps_left' = budget(attempt) - (sent + 1)
    BY <1>1, <1>5, StepsLeftNext, Zenon
  <2> QED
    BY <1>1, <1>2, <1>3, <1>4, <2>1
<1>6. CASE dpc' = "recv"
  <2>1. steps_left' = budget(attempt + 1) + receiving' + 1
    BY <1>1, <1>6, StepsLeftNext, Zenon
  <2>2. receiving' = (want - Len(rsp)) + 2 * ((RECV_IDLE + 2) - 0)
    BY <1>1, <1>6 DEF receiving
  <2>3. Len(rsp) \in Nat /\ Len(rsp) < want
    <3>1. IndInv'
      BY SendByteInv
    <3> QED
      BY <1>1, <1>6, <3>1 DEF IndInv, LinkInv, CallInv, TypeOK, DriverTypeOK
  <2>4. sent + 1 = Len(msg)
    BY <1>1, <1>4, <1>6
  <2>5. receiving' \in 2*RECV_IDLE+5..2*RECV_IDLE+6
    BY <1>4, <2>2, <2>3
  <2>6. sent \in 0..2
    <3>1. PICK m \in 2..3 : m = Len(msg)
      BY <1>4
    <3>2. sent \in 0..3 /\ sent + 1 = m
      BY <1>4, <2>4, <3>1
    <3> QED
      BY <3>2
  <2> HIDE DEF ATTEMPT, receiving
  <2> QED
    BY <1>2, <1>3, <1>4, <2>1, <2>5, <2>6, SMTT(40)
<1> QED
  BY <1>1, <1>5, <1>6

\* A byte that comes, a millisecond slept and a timeout each use some of the attempt.
LEMMA RecvProgress == ASSUME IndInv, RecvByte \/ RecvSleep \/ RecvWake PROVE steps_left' \in 0..steps_left-1
<1>1. dpc \in {"recv", "sleep"} /\ want' = want
  BY DEF RecvByte, RecvSleep, RecvWake
<1>2. attempt \in 0..MAX_RETRY /\ attempt < MAX_RETRY
  BY <1>1, Counted DEF active
<1>3. PICK b \in Nat : b = budget(attempt + 1)
  BY <1>2, Budget
<1>4. /\ Len(rsp) \in Nat /\ want \in 0..2 /\ Len(rsp) < want
      /\ idle_counter \in 0..RECV_IDLE+1 /\ RECV_IDLE \in Nat
  BY <1>1, Counted
<1>5. PICK r \in Nat : r = receiving /\ r >= 3
  BY <1>4 DEF receiving
<1>6. /\ dpc = "recv" => steps_left = b + r + 1
      /\ dpc = "sleep" => steps_left = b + r
  BY <1>3, <1>5, StepsLeft, Zenon
<1>7. ASSUME dpc' = "idle" PROVE steps_left' \in 0..steps_left-1
  <2>1. steps_left' = 0
    BY <1>7, StepsLeftNext, Zenon
  <2> QED
    BY <1>1, <1>5, <1>6, <2>1
<1>8. CASE RecvByte /\ dpc' # "idle"
  <2>1. dpc = "recv" /\ dpc' = "recv" /\ attempt' = attempt /\ idle_counter' = idle_counter
    BY <1>8 DEF RecvByte
  <2>2. Len(rsp') = Len(rsp) + 1
    BY <1>8 DEF RecvByte, IndInv, TypeOK, DriverTypeOK
  <2>3. receiving' = r - 1
    BY <1>1, <1>4, <1>5, <2>1, <2>2 DEF receiving
  <2>4. steps_left' = b + receiving' + 1
    BY <1>3, <2>1, StepsLeftNext, Zenon
  <2> QED
    BY <1>5, <1>6, <2>1, <2>3, <2>4
<1>9. CASE RecvSleep
  <2>1. dpc = "recv" /\ dpc' = "sleep" /\ attempt' = attempt /\ idle_counter' = idle_counter /\ rsp' = rsp
    BY <1>9 DEF RecvSleep
  <2>2. receiving' = r
    BY <1>1, <1>5, <2>1 DEF receiving
  <2>3. steps_left' = b + receiving'
    BY <1>3, <2>1, StepsLeftNext, Zenon
  <2> QED
    BY <1>5, <1>6, <2>1, <2>2, <2>3
<1>10. CASE RecvWake /\ ~idle_limit_reached
  <2>1. dpc = "sleep" /\ dpc' = "recv" /\ attempt' = attempt /\ idle_counter' = idle_counter + 1 /\ rsp' = rsp
    BY <1>10 DEF RecvWake, idle_counted
  <2>2. receiving' = r - 2
    BY <1>1, <1>4, <1>5, <2>1 DEF receiving
  <2>3. steps_left' = b + receiving' + 1
    BY <1>3, <2>1, StepsLeftNext, Zenon
  <2> QED
    BY <1>5, <1>6, <2>1, <2>2, <2>3
<1>11. CASE RecvWake /\ idle_limit_reached
  <2>1. dpc = "sleep" /\ dpc' = "try" /\ attempt' = attempt + 1
    BY <1>11 DEF RecvWake
  <2>2. steps_left' = b + 1
    BY <1>3, <2>1, StepsLeftNext, Zenon
  <2> QED
    BY <1>5, <1>6, <2>1, <2>2
<1> QED
  BY <1>7, <1>8, <1>9, <1>10, <1>11

\* Every step of the driver takes at least one off the steps its call has left, and
\* no other step gives any back, so that a call ends after 1 + MAX_RETRY * ATTEMPT
\* steps, whatever is lost and however often the slave is reset.
THEOREM CallsAdvance == Spec => CallProgress
<1> DEFINE waits == UNCHANGED <<dpc, sent, rsp, attempt, idle_counter>>
<1>1. ASSUME IndInv, [Next]_vars, dpc # "idle"
      PROVE  steps_left' \in 0..steps_left-1 \/ waits
  <2>1. CASE BeginPinMode \/ BeginInitPwm \/ BeginPwmDuty \/ BeginAnalogRead \/ get_transaction_stats
    BY <1>1, <2>1 DEF BeginPinMode, BeginInitPwm, BeginPwmDuty, BeginAnalogRead, Begin, get_transaction_stats
  <2>2. CASE Send
    BY <1>1, <2>2, SendProgress
  <2>3. CASE SendByte
    BY <1>1, <2>3, SendByteProgress
  <2>4. CASE GiveUp
    <3>1. dpc = "try" /\ dpc' = "idle" /\ attempt \in 0..MAX_RETRY
      BY <1>1, <2>4, Counted DEF GiveUp
    <3>2. steps_left' = 0 /\ steps_left = budget(attempt) + 1
      BY <3>1, StepsLeft, StepsLeftNext, Zenon
    <3> QED
      BY <3>1, <3>2, Budget
  <2>5. CASE RecvByte \/ RecvSleep \/ RecvWake
    BY <1>1, <2>5, RecvProgress
  <2>6. CASE SlaveReads \/ LoseRequestByte \/ LoseResponseByte \/ SlaveRestart
    BY <2>6, Zenon DEF SlaveReads, LoseRequestByte, LoseResponseByte, SlaveRestart, driver
  <2>7. CASE Deliver \/ Tick
    BY <2>7, Zenon DEF Deliver, Tick
  <2>8. CASE UNCHANGED vars
    BY <2>8, Zenon DEF vars, driver
  <2> QED
    BY <1>1, <2>1, <2>2, <2>3, <2>4, <2>5, <2>6, <2>7, <2>8, Zenon DEF Next, Driver, Line
<1>2. IndInv /\ [Next]_vars => [dpc # "idle" => steps_left' \in 0..steps_left-1 \/ waits]_vars
  BY <1>1
<1> QED
  BY <1>2, LinkInvariant, PTL DEF Spec, CallProgress
=============================================================================
