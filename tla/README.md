# Rover: TLA+ models and proofs

The rover is driven by a Raspberry Pi and an Arduino. The Pi's program takes
joystick positions over UDP and websockets and tells the Arduino, over a serial
line, which PWM duties to put on two H-bridges and a LED. This directory models
the path from the stick of the web page to the Arduino's registers, checks it with
TLC on small instances and proves its safety properties with TLAPS for every value
of the constants.

## 1. Inventory

| Part | Source | State | Operations | Talks to |
|---|---|---|---|---|
| Binary protocol | `rover/src/messages.*`, same text in `rover_slave/src/` | none | `set_param`, `get_param`, `msg_size_by_type`, `get_str_param_n` | used by both ends |
| Slave firmware | `rover_slave/src/main.cpp` | receive buffer, its index, parser state, expected size, idle count, `timers[]`, the AVR's timer registers and pins | `setup`, `loop`, `process_message`, `process_text_message`, `initPwm`, `pwmDuty` | serial line |
| Serial driver | `rover/src/arduino.*` (`ArduinoSlave`) | mutex, two counters, the call in progress | `pinMode`, `initPwm`, `pwmDuty`, `analogRead`, `get_transaction_stats` (all under the mutex), `send`, `recv` | slave, over the tty |
| Control program | `rover/src/app.*` (`main_app`) | a socketpair as queue, `timer_cx_*` counters, `left_pwm`, `right_pwm`, `led_pwm`, telemetry | threads `run_udp`, `run_ws`, `run_timer`, `run`; `handle_udp`, `handle_cmd`, `handle_ws`, `handle_js`, `handle_timer` | driver, websocket server |
| Moving average | `rover/src/filter.*` | two rings, index, size | `operator()`, `last`, `reset` | battery telemetry of `handle_timer` |
| Websocket server | `rover/src/ws_server*.cpp` (port 9002) | connection maps in both directions, the next id, a mutex, a socketpair | `run`, `on_open`, `on_close`, `on_message`, `send` | `run_ws`, web client |
| Broadcaster | `rover/src/ws_broadcaster.cpp` (port 9003) | the same maps, id and mutex | `run_ws`, `on_open`, `on_close`, `run_udp` | web client |
| Web client | `rover/html/index.html` | `js_left`, `js_right`, `zero_count`, `pwm_scale`, the connection | joystick callback, 100 ms interval (position), 250 ms interval (stats), LED buttons; connects once | websocket server |

What is hard here: the line loses bytes and the board may reset, while driver and
firmware resynchronise by nothing but silence (2 ms against 52 ms); calls are
retried from a buffer that also receives; calls fail silently; three threads feed
one bounded queue and two of them also call the driver; the watchdog counts ticks
it has handled; connections leave while messages of theirs are queued and while a
broadcast iterates over them, and a send to one that is leaving ends the process;
the page repeats some positions and sends others once; and eight-bit and unsigned
arithmetic wraps. `PROJECT.json` lists these hazards line by line.

What makes each part correct: a field or number written is read back (protocol);
the parser's fields agree at every byte (firmware); an answer, a returned value or
a register change belongs to the request of the call in progress, and every call
returns (driver); the motors follow the last position or stand still, and stop when
nobody drives, after a restart too (control); an average covers the latest window
(filter); a reply goes to the connection that asked and a broadcast to every
connection (websockets); a held stick drives without a break and a rover nobody
drives stops (web client with the watchdog).

## 2. Modules

| Module | Models | EXTENDS / used by |
|---|---|---|
| `Messages` | the protocol's constants and codecs, as operators | |
| `MCMessages` | every decimal number of a text command as a state | `Messages` |
| `SlaveFirmware` | the Arduino: parser, handlers, timers. No `Next` of its own | `Messages` |
| `MCSlaveFirmware` | the firmware under a serial console (the commands of `notes.md`, whole and cut short) | `SlaveFirmware` |
| `SerialLink` | the driver, the line, the clock and the firmware composed | `SlaveFirmware` |
| `DutyRegister` | abstract: what `main_app` relies on `pwmDuty` for | instantiated by `SerialLink` |
| `MCSerialLink` | sets of calls for TLC | `SerialLink` |
| `SlaveFirmwareProofs` | lemmas about the firmware's operators and steps, the decimal reader | `SlaveFirmware`, `TLAPS` |
| `ConsoleProofs` | theorems about the firmware under a console | `MCSlaveFirmware`, `SlaveFirmwareProofs` |
| `SerialLinkProofs` | the invariant of the link; what a call achieves: answers, commands, samples, its end; the refinement of `DutyRegister` | `SerialLink`, `SlaveFirmwareProofs` |
| `RoverApp` | `main_app`'s threads, queue, handlers and watchdog | |
| `MCRoverApp` | sets of commands for TLC | `RoverApp` |
| `RoverAppProofs` | theorems about `RoverApp` | `RoverApp`, `TLAPS` |
| `Watchdog` | `main_app`'s queue, main and timer thread against a clock; its runs use it directly | |
| `WatchdogProofs` | the watchdog's bound | `Watchdog`, `TLAPS` |
| `AveragingFilter` | the moving average; its runs use it directly | |
| `FilterProofs` | theorems about `AveragingFilter` | `AveragingFilter`, `TLAPS` |
| `WsServer` | `ws_server`, `ws_broadcaster` and the ws thread that answers; its run uses it directly | |
| `WsServerProofs` | theorems about `WsServer` | `WsServer`, `TLAPS` |
| `WebClient` | the page's sampling of the stick composed with the watchdog | |
| `MCWebClient` | stick positions for TLC | `WebClient` |
| `WebClientProofs` | theorems about `WebClient` | `WebClient`, `TLAPS` |

### SlaveFirmware

One action per path through an iteration of `loop()`'s `while` (`ReadHeaderOnly`,
`ReadType`, `ReadText`, `ReadBody`, `ReadBodyEnd`, `ReadTextEnd`), each with the
handler it calls as part of the step; `Idle` is a millisecond of passes that find
nothing (137 counts of `serial_idle_count`), `setup` a board reset. `BUF` stands
for the 256 bytes of `serial_data`; the `uint8_t` index wraps there. Registers are
kept by what they mean: `wgm` (mode), `clk` (clock bits), `com` (outputs connected
to pins), `ocr` (duties); a write to an output of a timer that does not exist
changes nothing. The effects of `pinMode`, `digitalWrite` and `digitalRead` are
those of the Arduino core, which is not part of the repository; what matters here
is that the latter two take a pin away from its timer. Text replies are reduced to
their final `;`.

### SerialLink

The driver's mutex makes its calls sequential, so one call is in progress at a
time and any call may follow. A call builds its request (`Begin*`), and goes round
the retry loop: `Send` (count, flush), `SendByte`, then `recv` as `RecvByte`,
`RecvSleep`, `RecvWake`, in the code's order: the idle limit is tested after the
sleep and before the tty is looked at. `GiveUp` is the end of the loop. As in the
code, only `analogRead` receives into its own `rsp`; the other calls receive into
`msg`. `LoseRequestByte`, `LoseResponseByte` and `SlaveRestart` may happen at any
time and any number of times. Five history variables record the request as built,
whether it was executed, whether the attempt was disturbed, for how many
milliseconds an answer has been under way in it and the ADC samples taken; no action
reads them but `Tick`, which the age of the answer bounds.

Time is a `Tick` of one millisecond for the driver's sleep and the slave's idle
count. A request byte takes half a millisecond at 19200 baud, and a tick waits until
the slave has taken it. An answer may be under way for up to `LATENCY` ticks of an
attempt, its bytes together (the USB bridge and the tty driver hold bytes back).
`LATENCY` may reach into the last of `recv`'s sleeps, so an answer may come between
its last look at the tty and its look at the limit: the attempt then fails although
nothing was lost, the answer is discarded by the next attempt's flush, and the
request is executed twice. An answer that came even later, after that flush, would
be read as the next attempt's; that is excluded (`LatencyAssumption`: an answer
takes less time than `recv` waits, a few milliseconds against 52 in practice). A
pause between two bytes of one request is possible (the driver may be descheduled)
and can reset the slave's parser. In the code `serialPutchar` hands a byte to the
tty and returns, so `recv` already sleeps while the request is still being sent, at
most two of its 52 milliseconds; the model counts a byte as written when the line
takes it. With limits of 2 and 52 ms this changes nothing, with limits two apart it
would.

Assumptions: `SLAVE_IDLE < RECV_IDLE` (2 and 50 in the code); arguments fit
their fields; output 0 of timer 2 is not driven with `pwmDuty`, as in `app.cpp`.
The last one is needed: `duty_byte(2, 0)` is 4, the type of an analogRead, whose
two-byte answer is one longer than the driver waits for.

### RoverApp

The queue holds ticks and positions; senders block when it is full. The main
thread's handlers are sequences of slave calls made one step at a time, so the udp
and ws threads' LED calls come in between. A slave call is answered, or given up
with its effect applied or not, which is what `SerialLink` and `DutyRegister` say
it can do. `handle_timer` takes a step for the watchdog, one per stop call, one
for the reset of its counter, one for the counters up to the battery's, one for
the battery read and one for the rest. `led` is three steps: store `led_pwm`, read
it back, call. Nothing bounds the numbers a command may carry, as nothing in the
code does: `handle_udp` looks only at a datagram's first character and takes what a
short datagram does not bring from the one before, `handle_ws` checks nothing. So
stick fields are any integers, and the LED's product wraps as the code's unsigned
does (`UINT_RANGE`). The products with `PWM_RANGE` are taken as exact before
truncation.

`Restart` is a crash of the program at any step, a send to a leaving websocket
connection for one (`WsServer`), and its restart: the queue, the counters and the
reported duties start afresh, while the slave keeps the duties it had or is reset
by the opening of its port. The constructor configures the outputs and does not
stop them; that the motors then stop is the watchdog's work.

What the stats reply and the thermal model take for the duties, `left_pwm` and
`right_pwm`, is not always what the bridges do. `handle_js` stores them before it
makes the calls, and the ws thread may read them in between; a call that was given
up leaves the old duty running; a restarted program reports zero over motors that
run. `DutiesReported` says where they do agree: for each side as soon as its calls
are made, while the other side's may still be to come, and after a failure, a reset
or a restart as soon as a position or the watchdog has driven the motors. After the
watchdog has stopped them the report keeps the last position; there the bridge
stands. `LedReported` is the same for the LED: overlapping commands may leave
`led_pwm` and the LED apart, and the next one that runs alone brings them together.

### Watchdog

How late the watchdog may be. It counts the ticks the main thread has handled, and
the timer thread makes no tick while it waits for room in the queue, so ticks and
time part whenever slave calls take longer than a tick. The module keeps from
`RoverApp` what takes time (the slave calls, `CALL` when answered and `GIVE_UP`
when not) and what decides when the watchdog fires, and adds a clock. Nothing is
bounded but the two clocks of the properties. LED calls of other threads, for which
the main thread would wait at the driver's mutex, are left out: they are commands
of the operator, and the properties are about what happens when there are none.

`TimeAssumption` has what the bound needs: the queue is shorter than the watchdog's
count, the battery is read less often than that, and a tick comes at least as often
as four calls take (`PERIOD <= 4 * CALL`). The last one came from the proof: with
slower ticks the sleeps between them, not the positions driven, take the time, and
TLC refutes the bound. In the code a tick is 1 ms and four calls are some 12 ms, the
watchdog counts 500 ticks and the battery 1000.

### AveragingFilter

Averages are kept as window sums, since the divisor is constant. `last_index`
keeps the unsigned modulo of the code; `wrap` is 2^32 modulo the size, which is all
of the conversion that matters. `reset` does not put `samples_idx` back: with a ring
too small for it the next reading is written beyond the end, which is undefined, so
the resets modelled leave it inside. `main_app` never resets its filters.

### WsServer

Both endpoints are alike: an event loop of websocketpp, whose handlers run one at
a time, and two maps under `server_mutex`, from ids to handles and from addresses
of connection objects to ids. A handle, a `weak_ptr`, is never reused; an address
is, once its object is gone. The differences are modelled as they are: the server's
`on_message` reads its map without the mutex and blocks in `::send` while the queue
to `run_ws` is full, and the whole event loop with it; the broadcaster's udp thread
holds the mutex for a whole broadcast. `Listen` may fail, as when the port is
taken, after which that endpoint's thread is gone and the rest goes on.

From websocketpp, whose headers are kept in `rover/dependencies_install`, come four
facts: a connection ceases to be open before its close handler is called ("leaving":
`connection::terminate` and `send_close_frame` set the state, `handle_terminate`
calls the handler once the socket is shut down); `connection::send` refuses any
state but open and otherwise only queues, so it never waits for the event loop; the
form of `endpoint::send` the code uses throws what was refused; and one thread in
`run` makes all handlers of an endpoint sequential.
Nothing on the ws and the udp thread catches this, so the process ends, with the
motors at their last duty. The model has that crash (`throws`); the properties say
exactly when it can happen.

### WebClient

A tick is a period of `main_app`'s timer; page and rover share the clock. The
joystick callback rotates the stick by 45 degrees, rounds, clamps and scales with
`pwm_scale` as it is at that moment. `Sample` is the 100 ms interval: the position
is sent if both sides are nonzero or if it is the first one that is not
(`zero_count`). `ws.send` throws while the socket is connecting, after `zero_count`
was counted, and discards once it is closed; the page never connects again. `net`
is the way from `ws.send` to `handle_js`: in order, at most `DELAY` ticks, cut off
by `Break`. A page that is loaded again starts with nothing of the old one on its
way, since loading takes longer than `DELAY`. Slave calls succeed here and the
timer is on time; `RoverApp` is the module for when they are not. A browser that
slows down the intervals of a hidden tab is outside the model.

## 3. Runs

| Run | Shows | Bounds |
|---|---|---|
| `decimal3` | violated: three-digit numbers are misread | all values below 256 |
| `console` | `Framing`, `OutputsConfigured`, types | three commands out of 24, a buffer of 8, so that one text command wraps it |
| `link_motors` | `AttemptStartsClean`, `TimeoutMeansDisturbed`, `StatsOrdered`, `NoTextCommand`, refinement of `DutyRegister` | two outputs with a duty that is itself a meaningful byte, two attempts a call, idle limits 1 and 2, answers up to 3 ticks late, three attempts between two resets of the counters |
| `link_mixed` | the inductive invariant, `ReadIntegrity`, `AckMeansDone`, `NoSpuriousCommand`, `RetrySendsRequest`, `CallProgress`, `CallReturns` | one call of each kind, two ADC values that share no byte, otherwise the same |
| `rover_app` | `MotorsFollow`, `DutiesReported`, `LedReported`, `EventuallyStopped`, types | queue of two, all periods two ticks, two commands, one failure or restart; `UINT_RANGE` 20000, so that one of the two LED percents wraps and one does not |
| `thermal_period` | violated: the thermal counter is never reset | no commands |
| `watchdog` | `WatchdogFires`, types | queue of two, watchdog 8 ticks, battery 10, a call takes 2 ms and a give-up 10 |
| `watchdog_interval` | violated: while battery reads fail the watchdog fires many times too late | the same |
| `filter` | `WindowAverage`, `LastAverages` | a ring of three, reset to two, three or four; five readings of three values |
| `filter_last` | violated: `last(0)` after the ring has wrapped | the same |
| `ws_server` | `TablesExact`, `RepliesBalance`, `BroadcastComplete`, `IterationSafe`, `DiesOnlyInCloseWindow`, `StatsAnswered`, `WindowCloses`, types | three connections at two addresses, a queue of one, two messages, one datagram |
| `web_client` | `SilentStops`, `HeldDrives`, `ReleaseObeyed`, types | two pages, two loads, interval 2, delay 1, watchdog 4, a stick at rest or in a gentle curve, two scales |

Why the bounds are enough. The link forgets everything between attempts
(`AttemptStartsClean`), so two attempts and two different calls show every way one
can disturb the next. What is a safety property is moreover proved without these
bounds, except where section 5 says so. The idle limits keep their order, which is all
the argument needs, and `LATENCY` is the longest they allow, so answers do come in
the last sleep. In `rover_app` two commands are the fewest that let an LED
command meet a position or another LED command, a queue of two is full while a
tick and a position are in it, and one failure is placed anywhere; the counters
wrap at four so that `timer_cx_thr` does wrap. In `ws_server` three connections at
two addresses make one address be reused while another connection is still there,
ids run up to the wrap of their counter (`OPENS <= ID_RANGE` keeps them from
repeating: 2^32 connections are out of reach), and with a queue of one the second
message finds it full; a broadcast of one datagram meets up to three connections.
In `web_client` one page's messages meet the other's, both positions of the stick
occur at both scales (the gentle curve at the low scale has a side at zero), and a
page loads while the other drives; the interval and the delay together stay below
the watchdog's period, as 100 ms and any ordinary delay do below 500 ms. The
numbers in `SilentStops` and `HeldDrives` are tight: one tick less and TLC refutes
them. `STATS_CAP`, `COMMANDS`, `FAILURES`, `LENGTH`, `OPENS`, `MESSAGES`,
`DATAGRAMS` and `LOADS` only bound counters that nothing else depends on.

`HEALTHY`, the bound of `WatchdogFires`, is proved for all constants of
`TimeAssumption`. It is exact for the run's constants and was found exact for every
other choice tried (queues of 1 to 5, watchdogs of 8 to 20 ticks, periods of 1 and
2, calls of 1 to 3). With a queue of 11 and calls of 3 ms
it is about 635 ms. `GIVE_UP` does not occur in it.

`decimal3` is about three digits; with `DIGITS = {1, 2}` the same module passes.

Fairness. `SerialLink`: the driver thread runs, the firmware's `loop` runs, the
UART delivers and time passes; losses and resets stay unconstrained, so
`CallReturns` holds under any number of them. No call is assumed to be started.
`RoverApp`: the main and the timer thread are scheduled, and a slave call returns,
which is `CallReturns`. The udp and ws threads get no fairness: nothing
`EventuallyStopped` needs depends on them, and a thread that is never scheduled
again is only more silent. The bound on failures is essential there: if all stop
calls fail for ever the motors keep their duty. `WsServer`: the event loop's
`::send` and the ws and udp threads go on when they can, and websocketpp calls the
close handler of every connection it has begun to shut down. Weak fairness is
enough although the broadcaster's mutex is taken and released again, because the
datagrams are bounded: `WindowCloses` and `StatsAnswered` say what holds once
traffic pauses. Neither messages, datagrams nor new connections are assumed.
`Watchdog` and `WebClient` have no liveness property: their promises have
deadlines, so they are invariants over counted ticks, and a step that is due goes
before the next tick.

## 4. Disagreements found

* `messages.hpp`, `get_str_param_n`: three digits are misread, so `G11255;` of
  `notes.md` does not set 255 (`decimal3`). Only the console uses text commands.
* `rover/src/app.cpp:315`: `timer_cx_thr` is never reset, so the thermal model
  runs ten times too fast (`thermal_period`).
* `rover/src/app.cpp:362`: a failed battery read is repeated on every tick, and the
  watchdog counts ticks. If the slave's answers do not arrive while its commands
  do, a tick takes some 260 ms, and the watchdog two minutes instead of the
  "1000us * 500" of `app.hpp:77` (`watchdog_interval`).
* `rover/src/filter.cpp:32`: the index is unsigned, the correction below it dead,
  and `last(0)` an old average when `samples_idx` is 0 (`filter_last`).

Two more were met in `initPwm` and are modelled as the code has them, without a run.
"FastPWM 0xFF" (`rover_slave/src/main.cpp:109`) stands beside a `TCCR1A` value that
selects phase-correct PWM unless `WGM12` is set in `TCCR1B`; the next line sets
`_BV(WGM10)` there, which is a clock bit, so outputs D and L are driven in another mode
than A, B and C. And timer 2's changed prescale is written to `TCCR0B` (line 149), which
`main_app` never asks for.

## 5. Proofs

Every safety invariant and action property of a passing run is a theorem. The
theorems hold for every value of the constants that meets the `ASSUME`s of the
module; each proof has the same shape: the initial state meets an inductive
invariant, every action keeps it, and it implies the properties.

| Module | Theorem | States |
|---|---|---|
| `SerialLinkProofs` | `LinkInvariant` | `IndInv`, that is `TypeOK` and `LinkInv`, always holds |
| | `TypeCorrect` | `TypeOK` |
| | `ResynchronisesAlways` | `AttemptStartsClean` |
| | `RetriesFaithful` | `RetrySendsRequest` |
| | `NeverText` | `NoTextCommand` |
| | `StatsNeverExceed` | `StatsOrdered` |
| | `FieldsRoundTrip` | for all arguments that fit, the slave unpacks from a request byte what the driver packed |
| | `DutyRefinement` | `SerialLink` implements `DutyRegister` |
| | `LinkAlwaysInStep` | `LinkInv` |
| | `UndisturbedAttempts` | `CallsGoWell`: an attempt that nothing disturbs does what was asked |
| | `UndisturbedInStep` | `UndisturbedInv` |
| | `TimeoutsJustified` | `TimeoutMeansDisturbed` |
| | `AcksJustified` | `AckMeansDone` |
| | `CommandsJustified` | `NoSpuriousCommand` |
| | `SamplesWhole` | `SampleInv` |
| | `ReadsJustified` | `ReadIntegrity` |
| | `DrivenOutputsConfigured` | `OutputsConfigured`, under the driver |
| | `CallsAdvance` | `CallProgress` |
| `SlaveFirmwareProofs` | `DecimalsRead` | decimals of one and two digits are read back |
| `ConsoleProofs` | `FirmwareInvariant` | `FirmwareInv`: types, framing and outputs together |
| | `FirmwareTypeCorrect` | `FirmwareTypeOK` |
| | `AlwaysFramed` | `Framing` |
| | `OutputsAlwaysConfigured` | `OutputsConfigured`, under a console |
| `RoverAppProofs` | `RoverInvariant` | `RoverInv` |
| | `RoverTypeCorrect` | `TypeOK` |
| | `MotorsAlwaysFollow` | `MotorsFollow` |
| | `PowerReported` | `DutiesReported` |
| | `LedAlwaysReported` | `LedReported` |
| `WatchdogProofs` | `WatchdogInvariant` | `WdtInv` |
| | `WatchdogTypeCorrect` | `TypeOK` |
| | `WatchdogAlwaysFires` | `WatchdogFires` |
| `FilterProofs` | `FilterInvariant` | `FilterInv`: the rings, slot by slot |
| | `AveragesCorrect` | `WindowAverage` |
| | `LastCorrect` | `LastAverages` |
| `WsServerProofs` | `WsInvariant` | `WsInv` |
| | `WsTypeCorrect` | `TypeOK` |
| | `TablesAlwaysExact` | `TablesExact` |
| | `RepliesAlwaysBalance` | `RepliesBalance` |
| | `BroadcastAlwaysComplete` | `BroadcastComplete` |
| | `IterationAlwaysSafe` | `IterationSafe` |
| | `DiesOnlyThen` | `DiesOnlyInCloseWindow` |
| `WebClientProofs` | `WebInvariant` | `WebInv` |
| | `WebTypeCorrect` | `TypeOK` |
| | `SilenceAlwaysStops` | `SilentStops` |
| | `HeldAlwaysDrives` | `HeldDrives` |
| | `ReleaseAlwaysObeyed` | `ReleaseObeyed` |

### The link

For every buffer length from six up, every pair of idle limits with the slave's
below the driver's, every retry count, every latency that meets `LatencyAssumption`
and every set of calls that meets `CallsAssumption`. `AttemptStartsClean` is not
inductive: that the slave is at rest when a timeout ends an attempt depends on how
long it has been idle, which depends on the line being empty since, and so on.
`LinkInv` adds what carries it: `ClockInv` (each idle millisecond the driver counts,
the slave counts too, so by the time `recv` passes its limit the slave has passed
its own, and no answer is under way any more: it would have been for longer than
`LATENCY`), `ResponseInv` (the slave answers only after taking the last request
byte, and never more bytes than the driver waits for, hence nothing is left over),
`ParserInv` (what the parser holds came from this attempt, and is a prefix of the
request if no byte was missed), `LineInv` (the line holds the next bytes in order)
and `CallInv` (the request is one of the driver's shapes and still in `msg`).
`ResponseInv` is where the shapes matter: of a damaged request the parser sees a
tail, and no tail of a driver request is a message with a longer answer. In the
refinement a register is written only with what was asked for because a `pwmDuty`
message needs three bytes, and three bytes of an attempt are the whole request; that
a call which returns from an undisturbed attempt has written it is the next
section's `CallsGoWell`. `DutyRegister` is given the write in terms of the arguments
`pwmDuty` was called with, so the packing is part of what is proved: `AskedInv` ties
the request to the arguments of a call and `Decoded`, from `FieldsRoundTrip`, says
that the slave unpacks those. `StatsNeverExceed` adds `CountInv`: an attempt in
progress is counted as sent and not as received.

### The calls

On top of `IndInv`, `UndisturbedInv` (an undisturbed attempt's parser holds what was
handed over, and after the last byte the request is executed and answered in full)
and `DoneInv` (from then on the board shows the arguments). Each is inductive only
with the other and with `TimeoutMeansDisturbed`; `DoneInv` also covers the attempt
that follows one whose answer came in the last sleep. `AckMeansDone` and
`NoSpuriousCommand` are read off the steps that count an answer or change the board.
`SampleInv` is kept because bytes move from the slave through line and tty to `rsp`
without changing their concatenation, and a lost byte takes the answer below two.

`CallProgress` is the safety half of `CallReturns`. `steps_left` counts the steps a
call can still take: `ATTEMPT` for each attempt to come (`budget`), and for the one in
progress its bytes and two for each millisecond `recv` may still sleep. Each step of
the driver lowers it, and it never goes below zero; no loss, reset or late byte raises
it. So a call takes at most `1 + MAX_RETRY * ATTEMPT` steps of the driver; that it takes
them is the fairness TLC checks `CallReturns` under.

### The firmware

`FirmwareInv` is inductive for the firmware's own steps whoever sends the bytes
(`FirmwareStep`), so it is proved once and used for the console and for the driver.
The console may send any sequences of bytes (`ConsoleAssumption`).

### Control program

`MotorsFollow` speaks of the moments between handlers. `Driving` says in the middle
of a handler which of the four calls are still to come and what the others have left
in the registers (`DutiesReported` in mid-handler rests on it), `Standing` what
holds between, `Counting` ties the watchdog's counter to the ticks since the last
position, and `Reporting` ties `left_pwm` and `right_pwm` to it. `LedInv` follows an
LED command from its store to its call: as long as commands do not overlap, the
argument is what `led_pwm` holds.

### Watchdog

The invariant `Deadline` bounds the time left before the watchdog fires: the work of
the handler that runs, four calls for each message up to the last queued position,
a battery read if one can become due before, and of the sleeps before the ticks
still missing what does not pass during that work (`remaining`). Every action keeps
or lowers that bound, every millisecond takes one off, and it never exceeds
`HEALTHY` (`NeverMore`), which covers the moments at which `quiet` restarts: a
position sent, a call given up, the end of the constructor. The arithmetic is in
lemmas about `remaining` alone, one for each kind of step.

### Filter

For every size, any readings and any resets the model has. `RingInv` says which
reading each slot holds, that each average held is the sum over its window, and that
the sum over the ring is the sum over the latest window. The last part makes it
inductive: the code sums the ring in the order of its slots, the window is in the
order of the readings, and a reading changes both sums by the same two terms, the
reading that comes (`TotalReplaced`) and the one it pushes out (`TotalShifted`). These
are facts about `total`, a recursive function, proved by induction over the number of
terms: the induction
theorems of the library take an operator the provers cannot instantiate, so
`SetInduction` states the principle for a set, from the well-foundedness of the
natural numbers, and each use is the set of the numbers for which the claim holds.

### Websocket server

For any number of connections, addresses, messages and datagrams and any queue. The
two maps are inverse because an address has one live connection (`Distinct`) and an
id is used once (`Numbered`, from `OPENS <= ID_RANGE`). `Sound` says where the id of
a message in flight leads: to its sender or to nobody, never to another connection;
it also names the connection whose send ends the process (`DiesOnlyThen`).
`RepliesBalance` is inductive with it; the requests in a queue are counted with the
cardinality lemmas of the library. `Forwarded` splits the connections during a
broadcast into those behind the cursor and those ahead of it.

### Web client

For any set of pages, positions and scales and all times with `INTERVAL + DELAY <
CI_WDT`. Each property bounds a time; its part of `WebInv` (`Silent`, `Held`,
`Released`) says at every moment how much of that time can be gone, from where the
positions are: still to be sampled, on their way, or handled `wdt` ticks ago.

### Only model-checked

* Liveness (`CallReturns`, `EventuallyStopped`, `StatsAnswered`, `WindowCloses`):
  reasoning about fairness and `ENABLED` is beyond the prover.
* The four properties that are violated, which are what they are: `decimal3`,
  `thermal_period`, `watchdog_interval`, `filter_last`.

## 6. Not modelled, and what is open

Not modelled: flipped bits on the line (the protocol has no checksum, so any byte
may then mean anything); the text of logs, replies and telemetry; the thermal, fan,
voltage and wlan arithmetic, none of which feeds back into the control; option
parsing, which runs once; a failing `recvfrom`; the page's display of stats, its
battery curve and its LED buttons (the command they send is `RoverApp`'s); the
scripts that serve and plot; third-party code.

Nearly all lines of the repository are third-party: about 700 000 lines of headers
under `rover/externals` (the C++ library, the kernel, Boost, pigpio), websocketpp
under `rover/dependencies_install` and `joystick.js`. They hold none of the rover's
logic; of websocketpp the map has the lines `WsServer` depends on. The rover's own program is
some 1500 lines in `rover/src`, 600 in `rover_slave/src` and the script of
`index.html`; the map covers about 1400 of them, the firmware, the driver and
`app.cpp` nearly whole. What is left there is listed above.

Open: the modules meet in what they assume of each other, and that is argued here and
not a theorem. `RoverApp` takes a slave call as one step that is answered and has its
effect, or is not and may have it; `DutyRefinement` says this of `SerialLink`, whose
call is several steps, with an undisturbed last attempt for "answered". `WebClient`
takes the watchdog to be on time, which is `WatchdogAlwaysFires` with `HEALTHY` for its
period.
