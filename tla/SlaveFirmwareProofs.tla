------------------------ MODULE SlaveFirmwareProofs ------------------------
(***************************************************************************)
(* Proofs about the slave's operations, whoever drives it: what every      *)
(* handler leaves on the board and on the line, and FirmwareInv, which     *)
(* every path through loop(), a pause and a reset preserve.  MCSlaveFirm-  *)
(* ware's console and SerialLink's driver are the two drivers.             *)
(***************************************************************************)
EXTENDS SlaveFirmware, TLAPS

\* The fields of a request byte, as get_param extracts them.
LEMMA FieldRanges ==
  ASSUME NEW b \in Byte
  PROVE  /\ get_param(b, PIN) \in 0..63 /\ get_param(b, MODE) \in 0..3
         /\ get_param(b, VALUE) \in 0..3 /\ get_param(b, PRESCALER) \in 0..7
         /\ get_param(b, TIMER) \in 0..3 /\ get_param(b, CHANNEL) \in 0..1
BY DEF Byte, get_param, PIN, MODE, VALUE, PRESCALER, TIMER, CHANNEL


-----------------------------------------------------------------------------
(* The board's operations.  Only pwmDuty writes duty registers.              *)

LEMMA BoardStays ==
  ASSUME BoardTypeOK, UNCHANGED board
  PROVE  BoardTypeOK' /\ ocr' = ocr /\ (OutputsConfigured => OutputsConfigured')
BY DEF board, BoardTypeOK, OutputsConfigured

LEMMA PinModeBoard ==
  ASSUME BoardTypeOK, NEW pin, NEW mode \in Byte, pinMode(pin, mode)
  PROVE  BoardTypeOK' /\ ocr' = ocr /\ (OutputsConfigured => OutputsConfigured')
BY DEF pinMode, BoardTypeOK, OutputsConfigured

LEMMA DigitalWriteBoard ==
  ASSUME BoardTypeOK, NEW pin, NEW value \in Byte, digitalWrite(pin, value)
  PROVE  BoardTypeOK' /\ ocr' = ocr /\ (OutputsConfigured => OutputsConfigured')
BY DEF digitalWrite, BoardTypeOK, OutputsConfigured

LEMMA DigitalReadBoard ==
  ASSUME BoardTypeOK, NEW pin, digitalRead(pin)
  PROVE  BoardTypeOK' /\ ocr' = ocr /\ (OutputsConfigured => OutputsConfigured')
BY DEF digitalRead, BoardTypeOK, OutputsConfigured

LEMMA PwmDutyBoard ==
  ASSUME BoardTypeOK, NEW timer, NEW channel, NEW duty \in Byte, pwmDuty(timer, channel, duty)
  PROVE  BoardTypeOK' /\ (OutputsConfigured => OutputsConfigured')
BY DEF pwmDuty, BoardTypeOK, OutputsConfigured

\* initPwm may disconnect outputs of a timer it finds unconfigured; the output it
\* connects belongs to a timer it marks configured.
LEMMA InitPwmBoard ==
  ASSUME BoardTypeOK, NEW timer, NEW channel, NEW prescale \in Byte,
         initPwm(timer, channel, prescale)
  PROVE  BoardTypeOK' /\ ocr' = ocr /\ (OutputsConfigured => OutputsConfigured')
<1>1. CASE timer \in Timers
  <2>1. config(prescale) \in [prescale : Byte, configured : BOOLEAN]
    BY DEF config
  <2>2. clock_after(timer, prescale) \in [Timers -> 0..7]
    <3>1. /\ prescale % 8 \in 0..7
          /\ (prescale % 8) % 2 = 0 => (prescale % 8) + 1 \in 0..7
      BY DEF Byte
    <3>2. clk \in [Timers -> 0..7]
      BY DEF BoardTypeOK
    <3> QED
      BY <3>1, <3>2 DEF clock_after
  <2>3. <<timer, out(channel)>> \in Channels
    BY <1>1 DEF Channels, out
  <2>4. /\ timers' = [timers EXCEPT ![timer] = config(prescale)]
        /\ clk' = clock_after(timer, prescale) /\ UNCHANGED <<ocr, pin_mode, pin_level>>
    BY <1>1 DEF initPwm
  <2>5. com' \subseteq Channels /\ com' \subseteq com \union {<<timer, out(channel)>>}
    BY <1>1, <2>3 DEF initPwm, BoardTypeOK
  <2>6. wgm' \in [Timers -> {"fast", "phase"}]
    BY <1>1 DEF initPwm, BoardTypeOK
  <2>7. BoardTypeOK'
    BY <2>1, <2>2, <2>4, <2>5, <2>6 DEF BoardTypeOK
  <2>8. ASSUME OutputsConfigured, NEW ch \in com' PROVE timers'[ch[1]].configured
    <3>1. timers \in [Timers -> [prescale : Byte, configured : BOOLEAN]] /\ ch[1] \in Timers
      BY <2>5 DEF BoardTypeOK, Channels
    <3>2. CASE ch[1] = timer
      BY <1>1, <2>4, <3>1, <3>2 DEF config
    <3>3. CASE ch[1] # timer
      <4>1. ch # <<timer, out(channel)>>
        BY <3>3
      <4>2. ch \in com
        BY <2>5, <4>1, Zenon
      <4>3. timers[ch[1]].configured
        BY <2>8, <4>2 DEF OutputsConfigured
      <4> QED
        BY <2>4, <3>1, <3>3, <4>3
    <3> QED
      BY <3>2, <3>3
  <2> QED
    BY <2>4, <2>7, <2>8 DEF OutputsConfigured
<1>2. CASE timer \notin Timers
  <2>1. UNCHANGED board
    BY <1>2 DEF initPwm
  <2> QED
    BY <2>1, BoardStays
<1> QED
  BY <1>1, <1>2

-----------------------------------------------------------------------------
(* The binary commands.                                                      *)

\* Responses have the size of their type and only pwmDuty writes duty registers.
LEMMA ProcessMessage ==
  ASSUME BoardTypeOK, to_master \in Seq(Byte),
         NEW data \in [0..BUF-1 -> Byte], process_message(data)
  PROVE  /\ BoardTypeOK' /\ to_master' \in Seq(Byte)
         /\ Len(to_master') = Len(to_master) +
              (IF data[0] = LOG_INFO THEN 0 ELSE IF data[0] = ANALOG_READ THEN 2 ELSE 1)
         /\ data[0] # PWM_DUTY => ocr' = ocr
         /\ data[0] = PWM_DUTY =>
              pwmDuty(get_param(data[1], TIMER), get_param(data[1], CHANNEL), data[2])
         /\ OutputsConfigured => OutputsConfigured'
<1>0. data[0] \in Byte /\ data[1] \in Byte /\ data[2] \in Byte
  BY BufAssumption
<1>a. ASSUME NEW x \in Byte, send_serial(<<x>>)
      PROVE  to_master' \in Seq(Byte) /\ Len(to_master') = Len(to_master) + 1
  BY <1>a DEF send_serial
<1>b. 0 \in Byte /\ 1 \in Byte
  BY DEF Byte
<1>c. /\ get_param(data[1], PIN) \in Byte /\ get_param(data[1], MODE) \in Byte
      /\ get_param(data[1], VALUE) \in Byte /\ get_param(data[1], PRESCALER) \in Byte
  <2>1. /\ get_param(data[1], PIN) \in 0..63 /\ get_param(data[1], MODE) \in 0..3
        /\ get_param(data[1], VALUE) \in 0..3 /\ get_param(data[1], PRESCALER) \in 0..7
    BY <1>0, FieldRanges
  <2> QED
    BY <2>1 DEF Byte
<1> DEFINE BoardFine == BoardTypeOK' /\ (OutputsConfigured => OutputsConfigured')
<1>1. CASE data[0] = LOG_INFO
  <2>1. UNCHANGED board /\ UNCHANGED to_master
    BY <1>1 DEF process_message, LOG_INFO, PINMODE, DIGITAL_WRITE,
       DIGITAL_READ, ANALOG_READ, PWM_INIT, PWM_DUTY
  <2>2. BoardFine /\ ocr' = ocr
    BY <2>1, BoardStays
  <2>3. Len(to_master') = Len(to_master) + 0
    BY <2>1
  <2> QED
    BY <1>1, <2>1, <2>2, <2>3 DEF LOG_INFO, ANALOG_READ, PWM_DUTY
<1>2. CASE data[0] = PINMODE
  <2>1. pinMode(get_param(data[1], PIN), get_param(data[1], MODE)) /\ send_serial(<<0>>)
    BY <1>2 DEF process_message, LOG_INFO, PINMODE, DIGITAL_WRITE,
       DIGITAL_READ, ANALOG_READ, PWM_INIT, PWM_DUTY
  <2>2. BoardFine /\ ocr' = ocr
    BY <1>c, <2>1, PinModeBoard
  <2>3. to_master' \in Seq(Byte) /\ Len(to_master') = Len(to_master) + 1
    BY <1>a, <1>b, <2>1
  <2> QED
    BY <1>2, <2>2, <2>3 DEF PINMODE, LOG_INFO, ANALOG_READ, PWM_DUTY
<1>3. CASE data[0] = DIGITAL_WRITE
  <2>1. digitalWrite(get_param(data[1], PIN), get_param(data[1], VALUE)) /\ send_serial(<<0>>)
    BY <1>3 DEF process_message, LOG_INFO, PINMODE, DIGITAL_WRITE,
       DIGITAL_READ, ANALOG_READ, PWM_INIT, PWM_DUTY
  <2>2. BoardFine /\ ocr' = ocr
    BY <1>c, <2>1, DigitalWriteBoard
  <2>3. to_master' \in Seq(Byte) /\ Len(to_master') = Len(to_master) + 1
    BY <1>a, <1>b, <2>1
  <2> QED
    BY <1>3, <2>2, <2>3 DEF DIGITAL_WRITE, LOG_INFO, ANALOG_READ, PWM_DUTY
<1>4. CASE data[0] = DIGITAL_READ
  <2>1. /\ digitalRead(data[1])
        /\ \E rval_ \in 0..1 : send_serial(<<rval_>>)
    BY <1>4 DEF process_message, LOG_INFO, PINMODE, DIGITAL_WRITE,
       DIGITAL_READ, ANALOG_READ, PWM_INIT, PWM_DUTY
  <2>2. BoardFine /\ ocr' = ocr
    BY <2>1, DigitalReadBoard
  <2>3. PICK r \in 0..1 : send_serial(<<r>>)
    BY <2>1
  <2>4. r \in Byte
    BY DEF Byte
  <2>5. to_master' \in Seq(Byte) /\ Len(to_master') = Len(to_master) + 1
    BY <1>a, <2>3, <2>4
  <2> QED
    BY <1>4, <2>2, <2>5 DEF DIGITAL_READ, LOG_INFO, ANALOG_READ, PWM_DUTY
<1>5. CASE data[0] = ANALOG_READ
  <2>1. /\ UNCHANGED board
        /\ \E v \in Samples : send_serial(<<v % 256, v \div 256>>)
    BY <1>5 DEF process_message, LOG_INFO, PINMODE, DIGITAL_WRITE,
       DIGITAL_READ, ANALOG_READ, PWM_INIT, PWM_DUTY
  <2>2. PICK v \in Samples : send_serial(<<v % 256, v \div 256>>)
    BY <2>1
  <2>3. v % 256 \in Byte /\ v \div 256 \in Byte
    BY SamplesAssumption DEF Byte
  <2>4. to_master' \in Seq(Byte) /\ Len(to_master') = Len(to_master) + 2
    BY <2>2, <2>3 DEF send_serial
  <2>5. BoardFine /\ ocr' = ocr
    BY <2>1, BoardStays
  <2> QED
    BY <1>5, <2>4, <2>5 DEF LOG_INFO, ANALOG_READ, PWM_DUTY
<1>6. CASE data[0] = PWM_INIT
  <2>1. /\ initPwm(get_param(data[1], TIMER), get_param(data[1], CHANNEL),
                   get_param(data[1], PRESCALER))
        /\ send_serial(<<0>>)
    BY <1>6 DEF process_message, LOG_INFO, PINMODE, DIGITAL_WRITE,
       DIGITAL_READ, ANALOG_READ, PWM_INIT, PWM_DUTY
  <2>2. BoardFine /\ ocr' = ocr
    BY <1>c, <2>1, InitPwmBoard
  <2>3. to_master' \in Seq(Byte) /\ Len(to_master') = Len(to_master) + 1
    BY <1>a, <1>b, <2>1
  <2> QED
    BY <1>6, <2>2, <2>3 DEF PWM_INIT, LOG_INFO, ANALOG_READ, PWM_DUTY
<1>7. CASE data[0] = PWM_DUTY
  <2>1. /\ pwmDuty(get_param(data[1], TIMER), get_param(data[1], CHANNEL), data[2])
        /\ send_serial(<<0>>)
    BY <1>7 DEF process_message, LOG_INFO, PINMODE, DIGITAL_WRITE,
       DIGITAL_READ, ANALOG_READ, PWM_INIT, PWM_DUTY
  <2>2. BoardFine
    BY <1>0, <2>1, PwmDutyBoard
  <2>3. to_master' \in Seq(Byte) /\ Len(to_master') = Len(to_master) + 1
    BY <1>a, <1>b, <2>1
  <2> QED
    BY <1>7, <2>1, <2>2, <2>3 DEF PWM_DUTY, LOG_INFO, ANALOG_READ
<1> QED
  BY <1>1, <1>2, <1>3, <1>4, <1>5, <1>6, <1>7 DEF process_message

-----------------------------------------------------------------------------
(* The text commands.                                                        *)

\* The accumulator of get_str_param_n after its first, second and third digit.
digit(text, pos, i) == text[pos + i] - 48
first(text, pos, size)  == ((0 + digit(text, pos, 0)) % 256) * 10^(size - 1) % 256
second(text, pos, size) ==
  ((first(text, pos, size) + digit(text, pos, 1)) % 256) * 10^(size - 2) % 256
third(text, pos, size)  ==
  ((second(text, pos, size) + digit(text, pos, 2)) % 256) * 10^(size - 3) % 256

\* The recursive function it is defined by exists, and its value is one of these.
LEMMA Digits ==
  ASSUME NEW text, NEW pos \in Nat, NEW size \in 1..3
  PROVE  get_str_param_n(text, pos, size) =
           IF size = 1 THEN first(text, pos, size)
           ELSE IF size = 2 THEN second(text, pos, size) ELSE third(text, pos, size)
<1> DEFINE d(i) == digit(text, pos, i)
           one   == first(text, pos, size)
           two   == second(text, pos, size)
           three == third(text, pos, size)
           rval[i \in 0..size] ==
             IF i = 0 THEN 0
             ELSE ((rval[i - 1] + d(i - 1)) % 256) * 10^(size - i) % 256
           value(i) == IF i = 0 THEN 0 ELSE IF i = 1 THEN one ELSE IF i = 2 THEN two ELSE three
           f == [i \in 0..size |-> value(i)]
<1>1. get_str_param_n(text, pos, size) = rval[size]
  BY DEF get_str_param_n, digit
<1>a. /\ one   = ((0 + d(0)) % 256) * 10^(size - 1) % 256
      /\ two   = ((one + d(1)) % 256) * 10^(size - 2) % 256
      /\ three = ((two + d(2)) % 256) * 10^(size - 3) % 256
  BY Zenon DEF first, second, third
<1> HIDE DEF d, one, two, three
<1>2. ASSUME NEW i \in 0..size
      PROVE  value(i) = IF i = 0 THEN 0
                        ELSE ((f[i - 1] + d(i - 1)) % 256) * 10^(size - i) % 256
  <2>1. CASE i = 0
    BY <2>1
  <2>2. CASE i = 1
    <3>1. f[i - 1] = 0 /\ i - 1 = 0
      BY <2>2
    <3> QED
      BY <1>a, <2>2, <3>1
  <2>3. CASE i = 2
    <3>1. f[i - 1] = one /\ i - 1 = 1
      BY <2>3
    <3> HIDE DEF f
    <3> QED
      BY <1>a, <2>3, <3>1
  <2>4. CASE i = 3
    <3>1. f[i - 1] = two /\ i - 1 = 2
      BY <2>4
    <3> HIDE DEF f
    <3> QED
      BY <1>a, <2>4, <3>1
  <2> QED
    BY <2>1, <2>2, <2>3, <2>4
<1> HIDE DEF value
<1>3. f = [i \in 0..size |-> IF i = 0 THEN 0
                             ELSE ((f[i - 1] + d(i - 1)) % 256) * 10^(size - i) % 256]
  BY <1>2, Zenon
<1>4. \E g : g = [i \in 0..size |-> IF i = 0 THEN 0
                             ELSE ((g[i - 1] + d(i - 1)) % 256) * 10^(size - i) % 256]
  BY <1>3, Zenon
<1>5. rval = [i \in 0..size |-> IF i = 0 THEN 0
                             ELSE ((rval[i - 1] + d(i - 1)) % 256) * 10^(size - i) % 256]
  BY <1>4, Zenon
<1> HIDE DEF rval
<1>6. /\ rval[0] = 0
      /\ \A i \in 1..size : rval[i] = ((rval[i - 1] + d(i - 1)) % 256) * 10^(size - i) % 256
  BY <1>5
<1>7. rval[1] = one
  <2>1. 1 - 1 = 0 /\ 1 \in 1..size
    OBVIOUS
  <2> QED
    BY <1>a, <1>6, <2>1
<1>8. size >= 2 => rval[2] = two
  <2>1. 2 - 1 = 1 /\ (size >= 2 => 2 \in 1..size)
    OBVIOUS
  <2> QED
    BY <1>a, <1>6, <1>7, <2>1
<1>9. size = 3 => rval[3] = three
  <2>1. 3 - 1 = 2 /\ (size = 3 => 3 \in 1..size /\ size >= 2)
    OBVIOUS
  <2> QED
    BY <1>a, <1>6, <1>8, <2>1
<1>10. rval[size] = IF size = 1 THEN one ELSE IF size = 2 THEN two ELSE three
  BY <1>7, <1>8, <1>9
<1> QED
  BY <1>1, <1>10, Zenon DEF one, two, three

\* Whatever bytes are received, a parameter fits the uint8_t it is read into.
LEMMA ParamIsByte ==
  ASSUME NEW text, NEW pos \in Nat, NEW size \in 1..3,
         \A i \in 0..size-1 : text[pos + i] \in Byte
  PROVE  get_str_param_n(text, pos, size) \in Byte
<1> DEFINE d(i) == digit(text, pos, i)
           one   == first(text, pos, size)
           two   == second(text, pos, size)
           three == third(text, pos, size)
<1>1. get_str_param_n(text, pos, size) =
        IF size = 1 THEN one ELSE IF size = 2 THEN two ELSE three
  BY Digits
<1>2. ASSUME NEW x \in Int, NEW k \in Nat PROVE (x % 256) * 10^k % 256 \in Byte
  <2>1. 10^k \in Int /\ x % 256 \in Int
    OBVIOUS
  <2>2. (x % 256) * 10^k \in Int
    BY <2>1
  <2>3. \A y \in Int : y % 256 \in Byte
    BY DEF Byte
  <2> QED
    BY <2>2, <2>3, Zenon
<1>3. d(0) \in Int /\ (size >= 2 => d(1) \in Int) /\ (size = 3 => d(2) \in Int)
  BY SMTT(30) DEF Byte, digit
<1>a. /\ one   = ((0 + d(0)) % 256) * 10^(size - 1) % 256
      /\ two   = ((one + d(1)) % 256) * 10^(size - 2) % 256
      /\ three = ((two + d(2)) % 256) * 10^(size - 3) % 256
  BY Zenon DEF first, second, third
<1> HIDE DEF d, one, two, three
<1>4. one \in Byte
  <2>1. 0 + d(0) \in Int /\ size - 1 \in Nat
    BY <1>3
  <2> QED
    BY <1>2, <1>a, <2>1
<1>5. size >= 2 => two \in Byte
  <2>1. size >= 2 => one + d(1) \in Int /\ size - 2 \in Nat
    BY <1>3, <1>4 DEF Byte
  <2> QED
    BY <1>2, <1>a, <2>1
<1>6. ASSUME size = 3 PROVE three \in Byte
  <2>1. two + d(2) \in Int /\ size - 3 \in Nat
    BY <1>3, <1>5, <1>6 DEF Byte
  <2>2. ((two + d(2)) % 256) * 10^(size - 3) % 256 \in Byte
    BY <1>2, <2>1, Zenon
  <2> QED
    BY <1>a, <2>2, Zenon
<1> QED
  BY <1>1, <1>4, <1>5, <1>6

\* The reader reads back decimals of one and two digits.  Those of three digits,
\* the duty of a text pwmDuty, it does not: the decimal3 run shows one.
THEOREM DecimalsRead ==
  ASSUME NEW text, NEW pos \in Nat, NEW tens \in 0..9, NEW units \in 0..9
  PROVE  /\ text[pos] = 48 + units => get_str_param_n(text, pos, 1) = units
         /\ text[pos] = 48 + tens /\ text[pos + 1] = 48 + units =>
              get_str_param_n(text, pos, 2) = 10 * tens + units
<1>1. ASSUME text[pos] = 48 + units PROVE get_str_param_n(text, pos, 1) = units
  <2>1. get_str_param_n(text, pos, 1) = first(text, pos, 1)
    BY Digits
  <2>2. get_str_param_n(text, pos, 1) = ((0 + (text[pos + 0] - 48)) % 256) * 10^(1 - 1) % 256
    BY <2>1, Zenon DEF first, digit
  <2>3. text[pos + 0] - 48 = units
    BY <1>1
  <2>4. 10^(1 - 1) = 1
    OBVIOUS
  <2> QED
    BY <2>2, <2>3, <2>4
<1>2. ASSUME text[pos] = 48 + tens, text[pos + 1] = 48 + units
      PROVE  get_str_param_n(text, pos, 2) = 10 * tens + units
  <2>1. get_str_param_n(text, pos, 2) = second(text, pos, 2)
    BY Digits
  <2>2. get_str_param_n(text, pos, 2) =
          ((((((0 + (text[pos + 0] - 48)) % 256) * 10^(2 - 1)) % 256)
             + (text[pos + 1] - 48)) % 256) * 10^(2 - 2) % 256
    BY <2>1, Zenon DEF first, second, digit
  <2>3. text[pos + 0] - 48 = tens /\ text[pos + 1] - 48 = units
    BY <1>2
  <2>4. 10^(2 - 1) = 10 /\ 10^(2 - 2) = 1
    OBVIOUS
  <2>5. get_str_param_n(text, pos, 2) =
          ((((((0 + tens) % 256) * 10) % 256) + units) % 256) * 1 % 256
    BY <2>2, <2>3, <2>4, ZenonT(30)
  <2>6. \A t \in 0..9, u \in 0..9 :
          ((((((0 + t) % 256) * 10) % 256) + u) % 256) * 1 % 256 = 10 * t + u
    OBVIOUS
  <2> QED
    BY <2>5, <2>6, ZenonT(30)
<1> QED
  BY <1>1, <1>2

\* A text command changes the board as its binary twin does, with arguments that
\* fit: its fields end before the shortest buffer does, whatever was received.
LEMMA ProcessText ==
  ASSUME BoardTypeOK, to_master \in Seq(Byte),
         NEW data \in [0..BUF-1 -> Byte], process_text_message(data)
  PROVE  BoardTypeOK' /\ to_master' \in Seq(Byte) /\ (OutputsConfigured => OutputsConfigured')
<1> DEFINE param(pos, size) == get_str_param_n(data, pos, size)
<1>1. \A i \in 0..5 : data[i] \in Byte
  BY BufAssumption
<1>2. /\ param(1, 1) \in Byte /\ param(2, 1) \in Byte /\ param(3, 1) \in Byte
      /\ param(1, 2) \in Byte /\ param(3, 2) \in Byte /\ param(3, 3) \in Byte
  <2>1. ASSUME NEW pos \in 1..3, NEW size \in 1..3 PROVE param(pos, size) \in Byte
    <3>1. \A i \in 0..size-1 : pos + i \in 0..5
      OBVIOUS
    <3>2. \A i \in 0..size-1 : data[pos + i] \in Byte
      BY <1>1, <3>1, Zenon
    <3>3. pos \in Nat
      OBVIOUS
    <3> QED
      BY <3>2, <3>3, ParamIsByte
  <2> HIDE DEF param
  <2> QED
    BY <2>1
<1>3. /\ \/ data[0] \in TEXT_TYPES /\ send_serial(<<DELIMITER>>)
         \/ data[0] \notin TEXT_TYPES /\ UNCHANGED to_master
      /\ \/ UNCHANGED board
         \/ pinMode(param(1, 2), param(3, 2))
         \/ digitalWrite(param(1, 2), param(3, 2))
         \/ digitalRead(param(1, 2))
         \/ initPwm(param(1, 1), param(2, 1), param(3, 1))
         \/ pwmDuty(param(1, 1), param(2, 1), param(3, 3))
  <2>1. data[0] \in 65..71 \/ data[0] \notin TEXT_TYPES
    BY DEF TEXT_TYPES
  <2> QED
    BY <2>1 DEF process_text_message, TEXT_TYPES
<1>4. to_master' \in Seq(Byte)
  <2>1. DELIMITER \in Byte
    BY DEF DELIMITER, Byte
  <2> QED
    BY <1>3, <2>1 DEF send_serial
<1> HIDE DEF param
<1>5. BoardTypeOK' /\ (OutputsConfigured => OutputsConfigured')
  BY <1>2, <1>3, BoardStays, PinModeBoard, DigitalWriteBoard, DigitalReadBoard, InitPwmBoard,
     PwmDutyBoard
<1> QED
  BY <1>4, <1>5

-----------------------------------------------------------------------------
(* loop().                                                                   *)

FirmwareInv == FirmwareTypeOK /\ Framing /\ OutputsConfigured

\* What a step that takes a byte finds and leaves.
LEMMA Taken ==
  ASSUME FirmwareInv, take_byte
  PROVE  /\ Head(to_slave) \in Byte /\ to_slave' \in Seq(Byte) /\ serial_idle_count' \in 0..SLAVE_IDLE
         /\ received \in [0..BUF-1 -> Byte] /\ received[serial_data_idx] = Head(to_slave)
         /\ \A i \in 0..BUF-1 : i # serial_data_idx => received[i] = serial_data[i]
         /\ serial_data_idx \in 0..BUF-1 /\ after(serial_data_idx) \in 0..BUF-1
         /\ serial_data_idx < 5 => after(serial_data_idx) = serial_data_idx + 1
<1>1. to_slave # <<>> /\ to_slave' = Tail(to_slave) /\ serial_idle_count' = 0
  BY DEF take_byte
<1>2. to_slave \in Seq(Byte) /\ ParserTypeOK
  BY DEF FirmwareInv, FirmwareTypeOK
<1>3. Head(to_slave) \in Byte /\ to_slave' \in Seq(Byte)
  BY <1>1, <1>2
<1>4. serial_idle_count' \in 0..SLAVE_IDLE
  BY <1>1, IdleAssumption
<1>5. serial_data \in [0..BUF-1 -> Byte] /\ serial_data_idx \in 0..BUF-1
  BY <1>2 DEF ParserTypeOK
<1>6. received = [serial_data EXCEPT ![serial_data_idx] = Head(to_slave)]
  BY DEF received, store
<1>7. /\ received \in [0..BUF-1 -> Byte] /\ received[serial_data_idx] = Head(to_slave)
      /\ \A i \in 0..BUF-1 : i # serial_data_idx => received[i] = serial_data[i]
  BY <1>3, <1>5, <1>6
<1>8. /\ after(serial_data_idx) \in 0..BUF-1
      /\ serial_data_idx < 5 => after(serial_data_idx) = serial_data_idx + 1
  BY <1>5, BufAssumption DEF after
<1> QED
  BY <1>3, <1>4, <1>5, <1>7, <1>8

\* What the parser holds inside a binary message.
LEMMA InBody ==
  ASSUME FirmwareInv, serial_state = "BODY"
  PROVE  /\ serial_data_idx \in 1..2 /\ expected_size \in 1..2
         /\ serial_data_idx + expected_size = msg_size(serial_data[0])
         /\ serial_data[0] \in MsgTypes
<1>1. /\ serial_data[0] \in MsgTypes /\ serial_data_idx >= 1 /\ expected_size >= 1
      /\ serial_data_idx + expected_size = msg_size(serial_data[0])
  BY DEF FirmwareInv, Framing
<1>2. expected_size \in Nat /\ serial_data_idx \in Nat
  BY BufAssumption DEF FirmwareInv, FirmwareTypeOK, ParserTypeOK, Byte
<1>3. msg_size(serial_data[0]) \in 1..3
  BY DEF msg_size
<1> QED
  BY <1>1, <1>2, <1>3

\* A step that leaves board and answer line alone has only the parser to keep.
LEMMA QuietStep ==
  ASSUME FirmwareInv, UNCHANGED board, UNCHANGED to_master,
         to_slave' \in Seq(Byte), ParserTypeOK', Framing'
  PROVE  FirmwareInv'
<1>1. BoardTypeOK /\ to_master \in Seq(Byte) /\ OutputsConfigured
  BY DEF FirmwareInv, FirmwareTypeOK
<1>2. BoardTypeOK' /\ OutputsConfigured'
  BY <1>1, BoardStays
<1> QED
  BY <1>1, <1>2 DEF FirmwareInv, FirmwareTypeOK

LEMMA ReadHeaderOnlyStep == ASSUME FirmwareInv, ReadHeaderOnly PROVE FirmwareInv'
<1>1. /\ take_byte /\ serial_state' = "TYPE" /\ serial_data' = received /\ expected_size' = 0
      /\ serial_data_idx' = 0 /\ process_message(received)
  BY DEF ReadHeaderOnly
<1>2. BoardTypeOK /\ to_master \in Seq(Byte) /\ OutputsConfigured
  BY DEF FirmwareInv, FirmwareTypeOK
<1>3. BoardTypeOK' /\ to_master' \in Seq(Byte) /\ OutputsConfigured'
  BY <1>1, <1>2, Taken, ProcessMessage
<1>4. ParserTypeOK' /\ to_slave' \in Seq(Byte)
  BY <1>1, Taken, BufAssumption DEF ParserTypeOK, Byte
<1>5. Framing'
  BY <1>1 DEF Framing, AtRest
<1> QED
  BY <1>3, <1>4, <1>5 DEF FirmwareInv, FirmwareTypeOK

LEMMA ReadTypeStep == ASSUME FirmwareInv, ReadType PROVE FirmwareInv'
<1>1. /\ take_byte /\ serial_state = "TYPE" /\ serial_state' = "BODY" /\ serial_data' = received
      /\ Head(to_slave) \in MsgTypes /\ msg_size(Head(to_slave)) > 1
      /\ serial_data_idx' = after(serial_data_idx)
      /\ expected_size' = msg_size(Head(to_slave)) - 1
      /\ UNCHANGED board /\ UNCHANGED to_master
  BY DEF ReadType
<1>2. serial_data_idx = 0
  BY <1>1 DEF FirmwareInv, Framing, AtRest
<1>3. serial_data_idx' = 1 /\ received[0] = Head(to_slave)
  BY <1>1, <1>2, Taken
<1>4. expected_size' \in 1..2 /\ expected_size' \in Byte
  BY <1>1 DEF msg_size, Byte
<1>5. ParserTypeOK' /\ to_slave' \in Seq(Byte)
  BY <1>1, <1>3, <1>4, Taken, BufAssumption DEF ParserTypeOK
<1>6. Framing'
  BY <1>1, <1>3, <1>4 DEF Framing, AtRest
<1> QED
  BY <1>1, <1>5, <1>6, QuietStep

LEMMA ReadTextStep == ASSUME FirmwareInv, ReadText PROVE FirmwareInv'
<1>1. /\ take_byte /\ serial_state' = "TEXT" /\ serial_data' = received
      /\ serial_data_idx' = after(serial_data_idx) /\ expected_size' = expected_size
      /\ UNCHANGED board /\ UNCHANGED to_master
  BY DEF ReadText
<1>2. ParserTypeOK' /\ to_slave' \in Seq(Byte)
  BY <1>1, Taken DEF FirmwareInv, FirmwareTypeOK, ParserTypeOK
<1>3. Framing'
  BY <1>1 DEF Framing, AtRest
<1> QED
  BY <1>1, <1>2, <1>3, QuietStep

LEMMA ReadBodyStep == ASSUME FirmwareInv, ReadBody PROVE FirmwareInv'
<1>1. /\ take_byte /\ serial_state = "BODY" /\ serial_state' = "BODY" /\ serial_data' = received
      /\ expected_size # 1 /\ expected_size' = (expected_size - 1) % 256
      /\ serial_data_idx' = after(serial_data_idx)
      /\ UNCHANGED board /\ UNCHANGED to_master
  BY DEF ReadBody
<1>2. /\ serial_data_idx = 1 /\ expected_size = 2 /\ msg_size(serial_data[0]) = 3
      /\ serial_data[0] \in MsgTypes
  BY <1>1, InBody DEF msg_size
<1>3. serial_data_idx' = 2 /\ expected_size' = 1
  BY <1>1, <1>2, Taken
<1>4. received[0] = serial_data[0]
  BY <1>1, <1>2, Taken, BufAssumption
<1>5. ParserTypeOK' /\ to_slave' \in Seq(Byte)
  BY <1>1, <1>3, Taken, BufAssumption DEF ParserTypeOK, Byte
<1>6. Framing'
  BY <1>1, <1>2, <1>3, <1>4 DEF Framing, AtRest
<1> QED
  BY <1>1, <1>5, <1>6, QuietStep

LEMMA ReadBodyEndStep == ASSUME FirmwareInv, ReadBodyEnd PROVE FirmwareInv'
<1>1. /\ take_byte /\ serial_state' = "TYPE" /\ serial_data' = received /\ expected_size' = 0
      /\ serial_data_idx' = 0 /\ process_message(received)
  BY DEF ReadBodyEnd, to_rest
<1>2. BoardTypeOK /\ to_master \in Seq(Byte) /\ OutputsConfigured
  BY DEF FirmwareInv, FirmwareTypeOK
<1>3. BoardTypeOK' /\ to_master' \in Seq(Byte) /\ OutputsConfigured'
  BY <1>1, <1>2, Taken, ProcessMessage
<1>4. ParserTypeOK' /\ to_slave' \in Seq(Byte)
  BY <1>1, Taken, BufAssumption DEF ParserTypeOK, Byte
<1>5. Framing'
  BY <1>1 DEF Framing, AtRest
<1> QED
  BY <1>3, <1>4, <1>5 DEF FirmwareInv, FirmwareTypeOK

LEMMA ReadTextEndStep == ASSUME FirmwareInv, ReadTextEnd PROVE FirmwareInv'
<1> DEFINE command == store(received, after(serial_data_idx), 0)
<1>1. /\ take_byte /\ serial_state' = "TYPE" /\ serial_data' = command
      /\ expected_size' = expected_size /\ serial_data_idx' = 0
      /\ process_text_message(serial_data')
  BY DEF ReadTextEnd, to_rest
<1>2. command \in [0..BUF-1 -> Byte]
  <2>1. 0 \in Byte
    BY DEF Byte
  <2> QED
    BY <1>1, <2>1, Taken DEF store
<1> HIDE DEF command
<1>3. process_text_message(command)
  BY <1>1, Zenon
<1>4. BoardTypeOK /\ to_master \in Seq(Byte) /\ OutputsConfigured
  BY DEF FirmwareInv, FirmwareTypeOK
<1>5. BoardTypeOK' /\ to_master' \in Seq(Byte) /\ OutputsConfigured'
  BY <1>2, <1>3, <1>4, ProcessText
<1>6. ParserTypeOK' /\ to_slave' \in Seq(Byte)
  BY <1>1, <1>2, Taken, BufAssumption DEF FirmwareInv, FirmwareTypeOK, ParserTypeOK
<1>7. Framing'
  BY <1>1 DEF Framing, AtRest
<1> QED
  BY <1>5, <1>6, <1>7 DEF FirmwareInv, FirmwareTypeOK

LEMMA IdleStep == ASSUME FirmwareInv, Idle PROVE FirmwareInv'
<1>1. /\ UNCHANGED <<to_slave, to_master, serial_data, expected_size>> /\ UNCHANGED board
      /\ \/ serial_idle_count' = 0 /\ serial_state' = "TYPE" /\ serial_data_idx' = 0
         \/ /\ serial_idle_count + 1 <= SLAVE_IDLE /\ serial_idle_count' = serial_idle_count + 1
            /\ serial_state' = serial_state /\ serial_data_idx' = serial_data_idx
  <2>1. serial_idle_count \in Nat /\ SLAVE_IDLE \in Nat
    BY IdleAssumption DEF FirmwareInv, FirmwareTypeOK, ParserTypeOK
  <2> QED
    BY <2>1 DEF Idle, to_rest
<1>2. to_slave' \in Seq(Byte)
  BY <1>1 DEF FirmwareInv, FirmwareTypeOK
<1>3. ParserTypeOK'
  BY <1>1, BufAssumption, IdleAssumption DEF FirmwareInv, FirmwareTypeOK, ParserTypeOK
<1>4. Framing'
  BY <1>1 DEF FirmwareInv, Framing, AtRest
<1> QED
  BY <1>1, <1>2, <1>3, <1>4, QuietStep

\* The state after a reset, apart from the bytes on the line.
LEMMA SetupStep == ASSUME FirmwareInv, setup PROVE FirmwareInv'
<1>1. 0 \in Byte /\ 0 \in 0..BUF-1 /\ 0 \in 0..SLAVE_IDLE
  BY BufAssumption, IdleAssumption DEF Byte
<1>2. ParserTypeOK'
  BY <1>1 DEF setup, to_rest, ParserTypeOK, blank_data
<1>3. BoardTypeOK'
  <2>1. core_wgm \in [Timers -> {"fast", "phase"}] /\ core_clk \in [Timers -> 0..7]
    BY DEF core_wgm, core_clk
  <2> QED
    BY <1>1, <2>1 DEF setup, BoardTypeOK, blank_timers, zero_duty, zero_pins
<1>4. to_slave' \in Seq(Byte) /\ to_master' \in Seq(Byte)
  BY DEF setup, FirmwareInv, FirmwareTypeOK
<1>5. Framing' /\ OutputsConfigured'
  BY DEF setup, to_rest, Framing, AtRest, OutputsConfigured
<1> QED
  BY <1>2, <1>3, <1>4, <1>5 DEF FirmwareInv, FirmwareTypeOK

\* The firmware's own steps, however it is driven.
LEMMA FirmwareStep == ASSUME FirmwareInv, ReadByte \/ Idle \/ setup PROVE FirmwareInv'
BY ReadHeaderOnlyStep, ReadTypeStep, ReadTextStep, ReadBodyStep, ReadBodyEndStep,
   ReadTextEndStep, IdleStep, SetupStep DEF ReadByte

LEMMA PowerUpInv == PowerUp => FirmwareInv
<1>1. 0 \in Byte /\ 0 \in 0..BUF-1 /\ 0 \in 0..SLAVE_IDLE
  BY BufAssumption, IdleAssumption DEF Byte
<1>2. core_wgm \in [Timers -> {"fast", "phase"}] /\ core_clk \in [Timers -> 0..7]
  BY DEF core_wgm, core_clk
<1> SUFFICES ASSUME PowerUp PROVE FirmwareInv
  OBVIOUS
<1>3. to_slave = <<>> /\ to_master = <<>>
  BY DEF PowerUp
<1>4. ParserTypeOK
  BY <1>1 DEF PowerUp, ParserTypeOK, blank_data
<1>5. BoardTypeOK
  BY <1>1, <1>2 DEF PowerUp, BoardTypeOK, blank_timers, zero_duty, zero_pins
<1>6. Framing /\ OutputsConfigured
  BY DEF PowerUp, Framing, AtRest, OutputsConfigured
<1> QED
  BY <1>3, <1>4, <1>5, <1>6 DEF FirmwareInv, FirmwareTypeOK
=============================================================================
