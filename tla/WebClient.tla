----------------------------- MODULE WebClient ------------------------------
(***************************************************************************)
(* The web page that drives the rover (rover/html/index.html) against the  *)
(* watchdog of main_app: a page samples its stick every 100 ms, repeats a  *)
(* position only while both sides are nonzero and otherwise sends it once; *)
(* main_app stops the motors after 500 ms without a position.              *)
(*                                                                         *)
(* Time: a Tick is one period of main_app's timer.  The way from ws.send   *)
(* to handle_js (network, ws_server, both queues) keeps the order and      *)
(* takes at most DELAY ticks unless the connection breaks; slave calls     *)
(* succeed (SerialLink and RoverApp say what happens when they do not).    *)
(***************************************************************************)
EXTENDS Integers, Sequences

CONSTANTS
  Clients,    \* browsers
  Positions,  \* <<x, y>> of the stick, each in -100..100
  Scales,     \* pwm_scale as the buttons leave it, in percent
  INTERVAL,   \* period of the page's sampling (100 ms)
  CI_WDT,     \* TIMER_CI_WDT (500 ms)
  DELAY,      \* bound on the way of a message
  LOADS       \* bound on page loads

ASSUME TimeAssumption ==
  /\ INTERVAL \in Nat \ {0} /\ DELAY \in Nat /\ CI_WDT \in Nat
  /\ INTERVAL + DELAY < CI_WDT
ASSUME StickAssumption ==
  /\ Positions \subseteq (-100..100) \X (-100..100)
  /\ Scales \subseteq 0..100 /\ LOADS \in Nat

VARIABLES
  ws,          \* the page's WebSocket, "none" before the page is loaded
  js,          \* <<js_left, js_right>>
  zero_count,
  due,         \* ticks until the page samples the stick
  net,         \* positions on their way, with their age
  motors,      \* the position the motors run at
  wdt,         \* timer_cx_wdt
  loads

(***************************************************************************)
(* History, for the properties, in ticks up to a cap.  idle: since a page  *)
(* was loaded or an engaged page had both sides nonzero; held: since the   *)
(* page's stick moved, its connection changed or another page sent;        *)
(* released: since the stick came to a position with a side at zero after  *)
(* a drive was the position sampled last (driven), None when something     *)
(* else happened since.                                                    *)
(***************************************************************************)
VARIABLES idle, held, driven, released
history == <<idle, held, driven, released>>

vars == <<ws, js, zero_count, due, net, motors, wdt, loads, history>>

IDLE_CAP     == INTERVAL + DELAY + CI_WDT
HELD_CAP     == INTERVAL + 2 * DELAY + 1
RELEASED_CAP == INTERVAL + DELAY + 1
None == -1
later(n, cap) == IF n = None \/ n = cap THEN n ELSE n + 1

Stop == <<0, 0>>
both_nonzero(p) == p[1] # 0 /\ p[2] # 0

Init ==
  /\ ws = [c \in Clients |-> "none"]
  /\ js = [c \in Clients |-> Stop] /\ zero_count = [c \in Clients |-> 0]
  /\ due = [c \in Clients |-> INTERVAL] /\ net = [c \in Clients |-> <<>>]
  /\ motors = Stop /\ wdt = 0 /\ loads = 0
  /\ idle = IDLE_CAP /\ held = [c \in Clients |-> 0]
  /\ driven = [c \in Clients |-> FALSE] /\ released = [c \in Clients |-> None]

-----------------------------------------------------------------------------
(* The joystick's callback: the stick's axes turned by 45 degrees, rounded,    *)
(* scaled back, clamped and scaled by pwm_scale.  cm45 is 7071 / 10000; \div   *)
(* rounds down, as Math.round does after adding a half.                        *)

turned(v) == (v * 7071 + 5000) \div 10000

side_unclamped(n, scale) == (2 * n * 100 * scale + 7071) \div (2 * 7071)
side(n, scale) ==
  IF n > 70 THEN scale
  ELSE IF n < -70 THEN -scale
  ELSE (2 * n * 100 * scale + 7071) \div (2 * 7071)

sides(x, y, scale) == <<side(turned(x + y), scale), side(turned(y - x), scale)>>

\* Each page has loaded its script and not its connection when the first interval
\* starts.  The load takes longer than what the old page had on its way.
Load(c) ==
  /\ loads < LOADS /\ loads' = loads + 1
  /\ net[c] = <<>>
  /\ ws' = [ws EXCEPT ![c] = "connecting"]
  /\ js' = [js EXCEPT ![c] = Stop] /\ zero_count' = [zero_count EXCEPT ![c] = 0]
  /\ due' = [due EXCEPT ![c] = INTERVAL]
  /\ idle' = 0 /\ held' = [held EXCEPT ![c] = 0]
  /\ driven' = [driven EXCEPT ![c] = FALSE] /\ released' = [released EXCEPT ![c] = None]
  /\ UNCHANGED <<net, motors, wdt>>

\* connect() is called once: a connection that fails or breaks is not made again.
Connect(c) ==
  /\ ws[c] = "connecting"
  /\ \E outcome \in {"open", "closed"} : ws' = [ws EXCEPT ![c] = outcome]
  /\ held' = [held EXCEPT ![c] = 0] /\ released' = [released EXCEPT ![c] = None]
  /\ UNCHANGED <<js, zero_count, due, net, motors, wdt, loads, idle, driven>>

\* What had not arrived is lost, the last messages first.
Break(c) ==
  /\ ws[c] = "open"
  /\ ws' = [ws EXCEPT ![c] = "closed"]
  /\ \E n \in 0..Len(net[c]) : net' = [net EXCEPT ![c] = SubSeq(@, 1, n)]
  /\ held' = [held EXCEPT ![c] = 0] /\ released' = [released EXCEPT ![c] = None]
  /\ UNCHANGED <<js, zero_count, due, motors, wdt, loads, idle, driven>>

engaged(c, p) == ws[c] \in {"connecting", "open"} /\ both_nonzero(p)
others_silent(c) == \A d \in Clients \ {c} : net[d] = <<>>

JoyStick(c) ==
  /\ ws[c] # "none"
  /\ \E xy \in Positions, scale \in Scales :
       LET p == sides(xy[1], xy[2], scale)
       IN  /\ js[c] # p
           /\ js' = [js EXCEPT ![c] = p]
           /\ idle' = IF engaged(c, p) THEN 0 ELSE idle
           /\ released' = [released EXCEPT ![c] =
                IF ~both_nonzero(p) /\ driven[c] /\ ws[c] = "open" /\ others_silent(c)
                  THEN 0 ELSE None]
  /\ held' = [held EXCEPT ![c] = 0]
  /\ UNCHANGED <<ws, zero_count, due, net, motors, wdt, loads, driven>>

zero_count_kept(c) ==
  IF both_nonzero(js[c]) THEN zero_count[c] ELSE 1
zero_count_after(c) ==
  IF both_nonzero(js[c]) THEN 0 ELSE 1

update(c) == both_nonzero(js[c]) \/ zero_count[c] = 0

\* The callback of the 100 ms interval.  ws.send throws while connecting, after
\* zero_count has been counted, and discards when closed.
Sample(c) ==
  /\ ws[c] # "none" /\ due[c] = 0
  /\ due' = [due EXCEPT ![c] = INTERVAL]
  /\ zero_count' = [zero_count EXCEPT ![c] = zero_count_after(c)]
  /\ driven' = [driven EXCEPT ![c] = both_nonzero(js[c])]
  /\ IF update(c) /\ ws[c] = "open"
       THEN /\ net' = [net EXCEPT ![c] = Append(@, [js |-> js[c], age |-> 0])]
            /\ held' = [d \in Clients |-> IF d = c THEN held[d] ELSE 0]
            /\ released' = [d \in Clients |-> IF d = c THEN released[d] ELSE None]
       ELSE UNCHANGED <<net, held, released>>
  /\ UNCHANGED <<ws, js, motors, wdt, loads, idle>>

-----------------------------------------------------------------------------
(* main_app. *)

handle_js(c) ==
  /\ net[c] # <<>>
  /\ motors' = Head(net[c]).js
  /\ wdt' = 0
  /\ net' = [net EXCEPT ![c] = Tail(@)]
  /\ UNCHANGED <<ws, js, zero_count, due, loads>> /\ UNCHANGED history

wdt_late == CI_WDT + 1 <= wdt + 1
wdt_early == INTERVAL <= wdt + 1
wdt_due == CI_WDT <= wdt + 1

aged(s) == [i \in DOMAIN s |-> [js |-> s[i].js, age |-> s[i].age + 1]]

\* handle_timer, the pages' clocks and the messages' ages.  Nothing that is due
\* waits for the next tick.
Tick ==
  /\ \A c \in Clients :
       /\ ws[c] # "none" => due[c] > 0
       /\ net[c] # <<>> => Head(net[c]).age < DELAY
  /\ IF wdt_due THEN motors' = Stop /\ wdt' = 0 ELSE wdt' = wdt + 1 /\ UNCHANGED motors
  /\ due' = [c \in Clients |-> IF ws[c] = "none" THEN due[c] ELSE due[c] - 1]
  /\ net' = [c \in Clients |-> aged(net[c])]
  /\ idle' = IF \E c \in Clients : engaged(c, js[c]) THEN 0 ELSE later(idle, IDLE_CAP)
  /\ held' = [c \in Clients |-> later(held[c], HELD_CAP)]
  /\ released' = [c \in Clients |-> later(released[c], RELEASED_CAP)]
  /\ UNCHANGED <<ws, js, zero_count, loads, driven>>

-----------------------------------------------------------------------------
Next ==
  \/ Tick
  \/ \E c \in Clients :
       Load(c) \/ Connect(c) \/ Break(c) \/ JoyStick(c) \/ Sample(c) \/ handle_js(c)

Spec == Init /\ [][Next]_vars

-----------------------------------------------------------------------------
Sticks == (-100..100) \X (-100..100)

TypeOK ==
  /\ ws \in [Clients -> {"none", "connecting", "open", "closed"}]
  /\ js \in [Clients -> Sticks]
  /\ zero_count \in [Clients -> 0..1]
  /\ due \in [Clients -> 0..INTERVAL]
  /\ net \in [Clients -> Seq([js : Sticks, age : 0..DELAY])]
  /\ motors \in Sticks
  /\ wdt \in 0..CI_WDT-1
  /\ loads \in 0..LOADS
  /\ idle \in 0..IDLE_CAP
  /\ held \in [Clients -> 0..HELD_CAP]
  /\ driven \in [Clients -> BOOLEAN]
  /\ released \in [Clients -> None..RELEASED_CAP]

\* Once no page has had both sides nonzero for long enough the motors stand still,
\* whatever the sticks do between positions with a side at zero, and although the
\* release may never have been sent: the connection broke, or the stick went
\* through such a position before.
SilentStops == idle >= INTERVAL + DELAY + CI_WDT => motors = Stop

\* A stick held with both sides nonzero drives the rover without a break: the
\* repeats outrun the watchdog, and a position of another page, such as the stop a
\* page sends when it is loaded, is overridden by the next repeat.
HeldDrives ==
  \A c \in Clients :
    ws[c] = "open" /\ both_nonzero(js[c]) /\ held[c] > INTERVAL + 2 * DELAY => motors = js[c]

\* A stick that leaves a drive for a position with a side at zero is obeyed within
\* one sampling and one delay, before the watchdog: zero_count is reset whenever
\* a drive is sampled, so this position is sent once.
ReleaseObeyed ==
  \A c \in Clients : released[c] > INTERVAL + DELAY => motors \in {js[c], Stop}
=============================================================================
