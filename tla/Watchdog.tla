------------------------------ MODULE Watchdog ------------------------------
(***************************************************************************)
(* How late main_app's watchdog is (rover/src/app.cpp).  The watchdog      *)
(* counts the ticks the main thread has handled, not time: while the       *)
(* thread waits for the slave, ticks fill the queue and then the timer     *)
(* thread waits in send(), and a tick that is not sent is not made up for. *)
(*                                                                         *)
(* This is RoverApp with a clock and without what the watchdog does not    *)
(* depend on: duties, the other counters, the LED.  Time is counted in ms; *)
(* a slave call takes CALL when answered and GIVE_UP when all its attempts *)
(* time out.  Everything else the threads do takes no time.                *)
(***************************************************************************)
EXTENDS Integers, Sequences, Functions

CONSTANTS
  QLEN,            \* datagrams the socketpair holds before send() blocks
  CI_WDT, CI_BATT, \* TIMER_CI_WDT (500), TIMER_CI_BATT (1000)
  PERIOD,          \* TIMER_PERIOD_US (1 ms)
  CALL,            \* an answered call (some 3 ms at 19200 baud)
  GIVE_UP          \* a call given up (five attempts of 52 ms)

\* The counter of the battery is the longest, and driving one position takes the
\* four calls of a handler: a tick at least comes meanwhile.
ASSUME TimeAssumption ==
  /\ QLEN \in Nat \ {0} /\ CI_WDT \in Nat \ {0} /\ CI_BATT \in Nat
  /\ PERIOD \in Nat \ {0} /\ CALL \in Nat \ {0} /\ GIVE_UP \in Nat
  /\ QLEN + 1 < CI_WDT /\ QLEN + CI_WDT <= CI_BATT
  /\ CALL < GIVE_UP /\ PERIOD <= 4 * CALL

VARIABLES
  queue,     \* the queue_socks pair
  sleep,     \* what is left of the timer thread's sleep; 0 when it sends
  mpc,       \* where the main thread is
  todo,      \* slave calls left in its handler
  busy,      \* what is left of the call it waits for
  cx_wdt, cx_batt

(***************************************************************************)
(* History, for the properties, times up to a cap and from the             *)
(* constructor's end.  quiet: since a position was sent and since the main *)
(* thread waited for a call that is given up (failing); silent: since a    *)
(* position was queued or handled; fired: the watchdog has fired since a   *)
(* position was last handled.                                              *)
(***************************************************************************)
VARIABLES silent, quiet, failing, fired
history == <<silent, quiet, failing, fired>>

main == <<mpc, todo, busy, cx_wdt, cx_batt>>
vars == <<queue, sleep, main, history>>

\* With a slave that answers: the positions queued, the one being handled and a
\* battery read, then the ticks that were not queued meanwhile.
HEALTHY == (4 * (QLEN + 1) + 1) * CALL + (CI_WDT - QLEN - 1) * PERIOD
CAP == 2 * HEALTHY + 1

\* The threads run; the constructor has ten slave calls to make.
Init ==
  /\ queue = <<>> /\ sleep = PERIOD
  /\ mpc = "boot" /\ todo = 10 /\ busy = 0
  /\ cx_wdt = 0 /\ cx_batt = 0
  /\ silent = 0 /\ quiet = 0 /\ failing = FALSE /\ fired = FALSE

-----------------------------------------------------------------------------
has_room == Len(queue) < QLEN

\* run_timer: the tick is sent, once there is room, and the next sleep begins.
TimerSends ==
  /\ sleep = 0 /\ has_room
  /\ queue' = Append(queue, "TIMER") /\ sleep' = PERIOD
  /\ UNCHANGED main /\ UNCHANGED history

\* handle_udp or handle_ws: a position, once there is room.
SendJs ==
  /\ has_room
  /\ queue' = Append(queue, "JS")
  /\ silent' = 0 /\ quiet' = 0
  /\ UNCHANGED <<sleep, failing, fired>> /\ UNCHANGED main

\* A slave call begins, and its outcome is settled.
answered == busy' = CALL /\ failing' = FALSE
given_up == busy' = GIVE_UP /\ failing' = TRUE

receives(type) == mpc = "recv" /\ busy = 0 /\ queue # <<>> /\ Head(queue) = type

\* handle_js: four pwmDuty calls follow.
handle_js ==
  /\ receives("JS") /\ queue' = Tail(queue)
  /\ cx_wdt' = 0 /\ mpc' = "js" /\ todo' = 4
  /\ fired' = FALSE
  /\ UNCHANGED <<sleep, busy, cx_batt, silent, quiet, failing>>

\* handle_timer, the watchdog: four stop calls follow when it is due.
wdt_due_late == CI_WDT < cx_wdt + 1
wdt_due == CI_WDT <= cx_wdt + 1

handle_timer ==
  /\ receives("TIMER") /\ queue' = Tail(queue)
  /\ cx_wdt' = cx_wdt + 1
  /\ IF wdt_due THEN mpc' = "wdt" /\ todo' = 4 /\ fired' = TRUE
                ELSE mpc' = "batt" /\ UNCHANGED <<todo, fired>>
  /\ UNCHANGED <<sleep, busy, cx_batt, silent, quiet, failing>>

MainCall ==
  /\ busy = 0 /\ todo > 0
  /\ answered \/ given_up
  /\ todo' = todo - 1
  /\ UNCHANGED <<queue, sleep, mpc, cx_wdt, cx_batt, silent, quiet, fired>>

\* The constructor or handle_js returns.
HandlerDone ==
  /\ mpc \in {"boot", "js"} /\ busy = 0 /\ todo = 0
  /\ mpc' = "recv"
  /\ UNCHANGED <<queue, sleep, todo, busy, cx_wdt, cx_batt>> /\ UNCHANGED history

wdt_not_reset ==
  /\ mpc = "wdt" /\ busy = 0 /\ todo = 0
  /\ mpc' = "batt"
  /\ UNCHANGED <<queue, sleep, todo, busy, cx_wdt, cx_batt>> /\ UNCHANGED history

\* handle_timer goes on after the stop calls.
WdtReset ==
  /\ mpc = "wdt" /\ busy = 0 /\ todo = 0
  /\ cx_wdt' = 0 /\ mpc' = "batt"
  /\ UNCHANGED <<queue, sleep, todo, busy, cx_batt>> /\ UNCHANGED history

\* handle_timer, the battery: the counter stays due after a failed read (from then
\* on its value makes no difference), so the next tick reads again.
Battery ==
  /\ mpc = "batt" /\ busy = 0
  /\ IF CI_BATT <= cx_batt + 1
       THEN \/ answered /\ cx_batt' = 0
            \/ given_up /\ cx_batt' = CI_BATT
       ELSE cx_batt' = cx_batt + 1 /\ UNCHANGED <<busy, failing>>
  /\ mpc' = "recv"
  /\ UNCHANGED <<queue, sleep, todo, cx_wdt, silent, quiet, fired>>

\* A millisecond passes.  The threads that can go on do so first.
less(n) == IF n > 0 THEN n - 1 ELSE 0
later(n) == IF n < CAP THEN n + 1 ELSE n

Elapse ==
  /\ busy > 0 \/ (mpc = "recv" /\ queue = <<>>)
  /\ sleep > 0 \/ ~has_room
  /\ busy' = less(busy) /\ sleep' = less(sleep)
  /\ silent' = IF mpc \in {"boot", "js"} \/ "JS" \in Range(queue) THEN 0 ELSE later(silent)
  /\ quiet' = IF mpc = "boot" \/ (failing /\ busy > 0) THEN 0 ELSE later(quiet)
  /\ UNCHANGED <<queue, mpc, todo, cx_wdt, cx_batt, failing, fired>>

Main == handle_js \/ handle_timer \/ MainCall \/ HandlerDone \/ WdtReset \/ Battery
Next == TimerSends \/ SendJs \/ Main \/ Elapse
Spec == Init /\ [][Next]_vars
-----------------------------------------------------------------------------
TypeOK ==
  /\ queue \in Seq({"JS", "TIMER"}) /\ Len(queue) <= QLEN
  /\ sleep \in 0..PERIOD
  /\ mpc \in {"boot", "recv", "js", "wdt", "batt"} /\ todo \in 0..10 /\ busy \in 0..GIVE_UP
  /\ cx_wdt \in 0..CI_WDT /\ cx_batt \in 0..CI_BATT
  /\ silent \in 0..CAP /\ quiet \in 0..CAP /\ failing \in BOOLEAN /\ fired \in BOOLEAN

\* The watchdog is bounded: once the program is up, nobody sends positions and the
\* slave answers, it fires within HEALTHY, whatever the queue held and however long
\* calls failed before.  The bound is exact: positions waiting in the queue are
\* still driven, and ticks that found the queue full are not counted.
WatchdogFires == quiet > HEALTHY => fired

\* The interval of the watchdog is TIMER_CI_WDT times 1000 us (app.hpp), taken
\* generously: it fires within twice HEALTHY of the last position's handling.
WatchdogInterval == silent > 2 * HEALTHY => fired
=============================================================================
