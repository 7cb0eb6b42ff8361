--------------------------- MODULE WatchdogProofs ---------------------------
(***************************************************************************)
(* The watchdog's bound, for every queue length, period, interval and call *)
(* time.  The proof bounds the time left before the watchdog fires by the  *)
(* work ahead of the main thread and the part of the timer's sleeps that   *)
(* does not pass during that work (remaining).  No step of either thread   *)
(* lets it grow and every millisecond takes one off, unless a position is  *)
(* sent or a call is given up: then quiet restarts and the bound is met    *)
(* anew, because remaining never exceeds HEALTHY.                          *)
(***************************************************************************)
EXTENDS Watchdog, TLAPS

least(a, b) == IF a <= b THEN a ELSE b
positive(n) == IF n > 0 THEN n ELSE 0

(***************************************************************************)
(* The time left before the watchdog fires, if nobody sends and the slave  *)
(* answers: work, of the handler that runs; 4 * CALL for each of the first *)
(* m messages queued, the m-th being the last position, whether they are   *)
(* positions or ticks; batt, for a battery read; and the sleeps before due *)
(* more ticks are sent.  Of these the timer spends some during the work:   *)
(* in the handler that runs as much as the room in the queue allows, and   *)
(* one in each handler to come.                                            *)
(***************************************************************************)
sleeping(work, slp, room, due, m) ==
  slp + (due - 1) * PERIOD - least(slp + room * PERIOD, work) - m * PERIOD

remaining(work, batt, slp, room, due, m) ==
  work + 4 * CALL * m + batt + positive(sleeping(work, slp, room, due, m))

LEMMA Constants ==
  /\ QLEN \in Nat /\ CI_WDT \in Nat /\ CI_BATT \in Nat
  /\ PERIOD \in Nat /\ CALL \in Nat /\ GIVE_UP \in Nat
  /\ QLEN >= 1 /\ PERIOD >= 1 /\ CALL >= 1
  /\ QLEN + 1 < CI_WDT /\ QLEN + CI_WDT <= CI_BATT /\ CALL < GIVE_UP /\ PERIOD <= 4 * CALL
BY TimeAssumption

LEMMA Products ==
  /\ \A a \in Int, b \in Int, c \in Nat : a <= b => a * c <= b * c
  /\ \A a \in Int, c \in Nat : a * c \in Int /\ (a - 1) * c = a * c - c /\ (a + 1) * c = a * c + c
  /\ \A a \in Int, b \in Int, c \in Nat : (a + b) * c = a * c + b * c /\ (a - b) * c = a * c - b * c
  /\ \A a \in Nat, c \in Nat : a * c \in Nat
OBVIOUS

LEMMA HealthyType == HEALTHY \in Nat /\ CAP \in Nat /\ HEALTHY < CAP
<1>1. /\ CALL \in Nat /\ PERIOD \in Nat
      /\ 4 * (QLEN + 1) + 1 \in Nat /\ CI_WDT - QLEN - 1 \in Nat
  BY Constants
<1>2. (4 * (QLEN + 1) + 1) * CALL \in Nat /\ (CI_WDT - QLEN - 1) * PERIOD \in Nat
  BY <1>1, Products
<1> HIDE DEF HEALTHY
<1>3. HEALTHY \in Nat
  BY <1>2 DEF HEALTHY
<1> QED
  BY <1>3 DEF CAP

LEMMA SleepingType ==
  ASSUME NEW w \in Nat, NEW s \in Nat, NEW r \in Nat, NEW d \in Int, NEW m \in Nat
  PROVE  /\ (d - 1) * PERIOD \in Int /\ r * PERIOD \in Nat /\ m * PERIOD \in Nat
         /\ 4 * CALL * m \in Nat /\ sleeping(w, s, r, d, m) \in Int
<1>1. (d - 1) * PERIOD \in Int /\ r * PERIOD \in Nat /\ m * PERIOD \in Nat /\ 4 * CALL * m \in Nat
  BY Constants, Products
<1>2. \A x \in Int, y \in Nat, z \in Nat : s + x - least(s + y, w) - z \in Int
  BY DEF least
<1> QED
  BY <1>1, <1>2 DEF sleeping

LEMMA RemainingType ==
  ASSUME NEW w \in Nat, NEW b \in Nat, NEW s \in Nat, NEW r \in Nat, NEW d \in Int, NEW m \in Nat
  PROVE  remaining(w, b, s, r, d, m) \in Nat
<1>1. sleeping(w, s, r, d, m) \in Int /\ 4 * CALL * m \in Nat
  BY SleepingType, ZenonT(30)
<1>2. \A x \in Int, y \in Nat : w + y + b + positive(x) \in Nat
  BY DEF positive
<1> QED
  BY <1>1, <1>2, Zenon DEF remaining

\* A millisecond of work.
LEMMA WorkPasses ==
  ASSUME NEW w \in Nat, NEW w1 \in Nat, NEW b \in Nat, NEW s \in Nat, NEW s1 \in Nat,
         NEW r \in Nat, NEW d \in Int, NEW m \in Nat,
         w1 = w - 1, (s > 0 /\ s1 = s - 1) \/ (s = 0 /\ s1 = 0 /\ r = 0)
  PROVE  remaining(w1, b, s1, r, d, m) + 1 <= remaining(w, b, s, r, d, m)
<1>1. /\ (d - 1) * PERIOD \in Int /\ r * PERIOD \in Nat /\ m * PERIOD \in Nat
      /\ r = 0 => r * PERIOD = 0
  BY Constants, Products
<1>2. \A x \in Int, y \in Nat, z \in Nat :
        (r = 0 => y = 0) =>
          s1 + x - least(s1 + y, w1) - z = s + x - least(s + y, w) - z
  BY DEF least
<1>3. sleeping(w1, s1, r, d, m) = sleeping(w, s, r, d, m)
  <2>1. s1 + (d - 1) * PERIOD - least(s1 + r * PERIOD, w1) - m * PERIOD
          = s + (d - 1) * PERIOD - least(s + r * PERIOD, w) - m * PERIOD
    <3>1. PICK x \in Int : x = (d - 1) * PERIOD
      BY <1>1
    <3>2. PICK y \in Nat : y = r * PERIOD
      BY <1>1
    <3>3. PICK z \in Nat : z = m * PERIOD
      BY <1>1
    <3>4. r = 0 => y = 0
      BY <1>1, <3>2, Zenon
    <3>5. s1 + x - least(s1 + y, w1) - z = s + x - least(s + y, w) - z
      BY <1>2, <3>4
    <3> QED
      BY <3>1, <3>2, <3>3, <3>5, Zenon
  <2> QED
    BY <2>1, Zenon DEF sleeping
<1>4. sleeping(w, s, r, d, m) \in Int /\ 4 * CALL * m \in Nat
  BY SleepingType
<1>5. \A x \in Int, y \in Nat : w1 + y + b + positive(x) + 1 <= w + y + b + positive(x)
  BY DEF positive
<1> QED
  BY <1>3, <1>4, <1>5, Zenon DEF remaining

\* A millisecond in recv(), the queue being empty.
LEMMA SleepPasses ==
  ASSUME NEW b \in Nat, NEW s \in Nat, NEW r \in Nat, NEW d \in Int, s > 0, d >= 1
  PROVE  remaining(0, b, s - 1, r, d, 0) + 1 = remaining(0, b, s, r, d, 0)
<1>1. (d - 1) * PERIOD \in Nat /\ r * PERIOD \in Nat /\ 0 * PERIOD = 0 /\ 4 * CALL * 0 = 0
  BY Constants, Products
<1>2. \A y \in Nat : least(s + y, 0) = 0 /\ least((s - 1) + y, 0) = 0
  BY DEF least
<1>3. /\ sleeping(0, s, r, d, 0) = s + (d - 1) * PERIOD
      /\ sleeping(0, s - 1, r, d, 0) = s - 1 + (d - 1) * PERIOD
  <2>1. \A x \in Nat, y \in Nat, z \in {0} :
          /\ s + x - least(s + y, 0) - z = s + x
          /\ (s - 1) + x - least((s - 1) + y, 0) - z = s - 1 + x
    BY <1>2
  <2>2. 0 * PERIOD \in {0}
    BY <1>1
  <2> QED
    BY <1>1, <2>1, <2>2, Zenon DEF sleeping
<1> QED
  BY <1>1, <1>3 DEF remaining, positive

\* The tick is sent and the next sleep begins.
LEMMA TickSent ==
  ASSUME NEW w \in Nat, NEW b \in Nat, NEW r \in Nat, NEW d \in Int, NEW m \in Nat, r >= 1
  PROVE  remaining(w, b, PERIOD, r - 1, d - 1, m) = remaining(w, b, 0, r, d, m)
<1>1. /\ (d - 1) * PERIOD \in Int /\ ((d - 1) - 1) * PERIOD = (d - 1) * PERIOD - PERIOD
      /\ (r - 1) * PERIOD = r * PERIOD - PERIOD /\ r * PERIOD \in Nat /\ m * PERIOD \in Nat
      /\ PERIOD \in Nat
  BY Constants, Products
<1>2. \A x \in Int, y \in Nat, z \in Nat, p \in Nat :
        p + (x - p) - least(p + (y - p), w) - z = 0 + x - least(0 + y, w) - z
  BY DEF least
<1>3. sleeping(w, PERIOD, r - 1, d - 1, m) = sleeping(w, 0, r, d, m)
  BY <1>1, <1>2 DEF sleeping
<1> QED
  BY <1>3 DEF remaining

\* A message of the first m is taken from the queue and four calls follow: a
\* position is driven, or the watchdog fires before the queued positions.
LEMMA HandlerStarts ==
  ASSUME NEW b \in Nat, NEW b1 \in Nat, NEW s \in Nat, NEW r \in Nat, NEW d \in Int, NEW m \in Nat,
         m >= 1, b1 <= b
  PROVE  remaining(4 * CALL, b1, s, r + 1, d, m - 1) <= remaining(0, b, s, r, d, m)
<1>1. /\ (d - 1) * PERIOD \in Int /\ (r + 1) * PERIOD = r * PERIOD + PERIOD
      /\ (m - 1) * PERIOD = m * PERIOD - PERIOD /\ r * PERIOD \in Nat /\ m * PERIOD \in Nat
      /\ PERIOD \in Nat /\ CALL \in Nat /\ PERIOD <= 4 * CALL /\ 4 * CALL \in Nat
      /\ 4 * CALL * m \in Nat /\ 4 * CALL * (m - 1) = 4 * CALL * m - 4 * CALL
  <2>1. 4 * CALL * (m - 1) = 4 * CALL * m - 4 * CALL
    BY Constants
  <2> QED
    BY <2>1, Constants, Products
<1>2. \A x \in Int, y \in Nat, z \in Nat, p \in Nat, c \in Nat :
        p <= c => s + x - least(s + (y + p), c) - (z - p) <= s + x - least(s + y, 0) - z
  BY DEF least
<1>3. sleeping(4 * CALL, s, r + 1, d, m - 1) <= sleeping(0, s, r, d, m)
  <2> DEFINE c == 4 * CALL
  <2>1. c \in Nat /\ PERIOD <= c
    BY <1>1
  <2> HIDE DEF c
  <2>2. sleeping(c, s, r + 1, d, m - 1) <= sleeping(0, s, r, d, m)
    BY <1>1, <1>2, <2>1 DEF sleeping
  <2> QED
    BY <2>2 DEF c
<1>4. /\ sleeping(4 * CALL, s, r + 1, d, m - 1) \in Int /\ sleeping(0, s, r, d, m) \in Int
  <2>1. m - 1 \in Nat /\ r + 1 \in Nat /\ 4 * CALL \in Nat
    BY <1>1
  <2> QED
    BY <2>1, SleepingType
<1> QED
  BY <1>1, <1>3, <1>4 DEF remaining, positive

\* A tick before a queued position is taken and needs no calls.
LEMMA TickTaken ==
  ASSUME NEW b \in Nat, NEW s \in Nat, NEW r \in Nat, NEW d \in Int, NEW m \in Nat, m >= 1
  PROVE  remaining(0, b, s, r + 1, d, m - 1) <= remaining(0, b, s, r, d, m)
<1>1. /\ (d - 1) * PERIOD \in Int /\ (r + 1) * PERIOD \in Nat
      /\ (m - 1) * PERIOD = m * PERIOD - PERIOD /\ r * PERIOD \in Nat /\ m * PERIOD \in Nat
      /\ PERIOD \in Nat /\ CALL \in Nat /\ PERIOD <= 4 * CALL /\ 4 * CALL \in Nat
      /\ 4 * CALL * m \in Nat /\ 4 * CALL * (m - 1) = 4 * CALL * m - 4 * CALL
  <2>1. 4 * CALL * (m - 1) = 4 * CALL * m - 4 * CALL
    BY Constants
  <2> QED
    BY <2>1, Constants, Products
<1>2. \A y \in Nat : least(s + y, 0) = 0
  BY DEF least
<1>3. sleeping(0, s, r, d, m) = s + (d - 1) * PERIOD - m * PERIOD
  <2>1. s + (d - 1) * PERIOD - least(s + r * PERIOD, 0) - m * PERIOD = s + (d - 1) * PERIOD - m * PERIOD
    <3>1. least(s + r * PERIOD, 0) = 0
      BY <1>1, <1>2
    <3>2. (d - 1) * PERIOD - 0 = (d - 1) * PERIOD
      BY <1>1
    <3> QED
      BY <3>1, <3>2, Zenon
  <2> QED
    BY <2>1, Zenon DEF sleeping
<1>4. sleeping(0, s, r + 1, d, m - 1) = s + (d - 1) * PERIOD - (m * PERIOD - PERIOD)
  <2>1. \A x \in Int, z \in Int, y \in Nat : s + x - least(s + y, 0) - z = s + x - z
    BY <1>2
  <2>2. m * PERIOD - PERIOD \in Int
    BY <1>1
  <2>3. sleeping(0, s, r + 1, d, m - 1) =
          s + (d - 1) * PERIOD - least(s + (r + 1) * PERIOD, 0) - (m * PERIOD - PERIOD)
    BY <1>1, Zenon DEF sleeping
  <2> QED
    BY <1>1, <2>1, <2>2, <2>3, ZenonT(30)
<1> QED
  BY <1>1, <1>3, <1>4 DEF remaining, positive

\* A tick behind the last position is taken.
LEMMA TickCounts ==
  ASSUME NEW b \in Nat, NEW s \in Nat, NEW r \in Nat, NEW r1 \in Nat, NEW d \in Int, NEW m \in Nat
  PROVE  remaining(0, b, s, r1, d, m) <= remaining(0, b, s, r, d, m)
<1>1. r1 * PERIOD \in Nat /\ r * PERIOD \in Nat
  BY Constants, Products
<1>2. \A y \in Nat : least(s + y, 0) = 0
  BY DEF least
<1>3. least(s + r1 * PERIOD, 0) = 0 /\ least(s + r * PERIOD, 0) = 0
  BY <1>1, <1>2, Zenon
<1>4. remaining(0, b, s, r1, d, m) = remaining(0, b, s, r, d, m)
  BY <1>3, Zenon DEF remaining, sleeping
<1>5. remaining(0, b, s, r, d, m) \in Nat
  BY RemainingType
<1> QED
  BY <1>4, <1>5

\* Work is dropped: a call that is given up no longer counts.
LEMMA WorkDropped ==
  ASSUME NEW w \in Nat, NEW w1 \in Nat, NEW b \in Nat, NEW s \in Nat, NEW r \in Nat, NEW d \in Int,
         NEW m \in Nat, w1 <= w
  PROVE  remaining(w1, b, s, r, d, m) <= remaining(w, b, s, r, d, m)
<1>1. (d - 1) * PERIOD \in Int /\ r * PERIOD \in Nat /\ m * PERIOD \in Nat /\ 4 * CALL * m \in Nat
  BY Constants, Products
<1>2. \A x \in Int, y \in Nat, z \in Nat :
        s + x - least(s + y, w1) - z <= s + x - least(s + y, w) - z + (w - w1)
  BY DEF least
<1>3. sleeping(w1, s, r, d, m) <= sleeping(w, s, r, d, m) + (w - w1)
  BY <1>1, <1>2 DEF sleeping
<1>4. sleeping(w1, s, r, d, m) \in Int /\ sleeping(w, s, r, d, m) \in Int /\ 4 * CALL * m \in Nat
  BY SleepingType, ZenonT(30)
<1> QED
  BY <1>3, <1>4 DEF remaining, positive

\* The battery read begins.
LEMMA BatteryRead ==
  ASSUME NEW s \in Nat, NEW r \in Nat, NEW d \in Int, NEW m \in Nat
  PROVE  remaining(CALL, 0, s, r, d, m) <= remaining(0, CALL, s, r, d, m)
<1>1. /\ (d - 1) * PERIOD \in Int /\ r * PERIOD \in Nat /\ m * PERIOD \in Nat
      /\ 4 * CALL * m \in Nat /\ CALL \in Nat
  BY Constants, Products
<1>2. \A x \in Int, y \in Nat, z \in Nat, c \in Nat :
        s + x - least(s + y, c) - z <= s + x - least(s + y, 0) - z
  BY DEF least
<1>3. sleeping(CALL, s, r, d, m) <= sleeping(0, s, r, d, m)
  BY <1>1, <1>2 DEF sleeping
<1>4. sleeping(CALL, s, r, d, m) \in Int /\ sleeping(0, s, r, d, m) \in Int
  BY <1>1, SleepingType
<1> QED
  BY <1>1, <1>3, <1>4 DEF remaining, positive

\* However the queue is filled, HEALTHY is enough.
LEMMA NeverMore ==
  ASSUME NEW w \in Nat, NEW b \in Nat, NEW s \in Nat, NEW n \in Nat, NEW d \in Int, NEW m \in Nat,
         w <= 4 * CALL, b <= CALL, s <= PERIOD, m <= n, n <= QLEN, d <= CI_WDT - n + m
  PROVE  remaining(w, b, s, QLEN - n, d, m) <= HEALTHY
<1> DEFINE r == QLEN - n
           q == 4 * CALL
           rest == CI_WDT - QLEN - 1
<1>1. /\ QLEN \in Nat /\ CI_WDT \in Nat /\ PERIOD \in Nat /\ CALL \in Nat /\ PERIOD <= q
      /\ q \in Nat /\ r \in Nat /\ rest \in Nat /\ QLEN + 1 < CI_WDT
  BY Constants
<1>2. HEALTHY = q * QLEN + q + CALL + rest * PERIOD
  BY <1>1 DEF HEALTHY
<1>3. rest * PERIOD \in Nat /\ q * m \in Nat /\ q * QLEN \in Nat /\ q * n \in Nat
      /\ r * PERIOD \in Nat /\ m * PERIOD \in Nat /\ (d - 1) * PERIOD \in Int
  BY <1>1, Products
<1>4. q * m <= q * n /\ q * n <= q * QLEN
  BY <1>1, Products
<1>5. w + q * m + b <= HEALTHY
  BY <1>1, <1>2, <1>3, <1>4
<1>6. ASSUME s + r * PERIOD <= w
      PROVE  w + q * m + b + sleeping(w, s, r, d, m) <= HEALTHY
  <2>1. sleeping(w, s, r, d, m) = (d - 1) * PERIOD - r * PERIOD - m * PERIOD
    BY <1>3, <1>6 DEF sleeping, least
  <2>2. (d - 1) * PERIOD - r * PERIOD - m * PERIOD = (d - 1 - r - m) * PERIOD
    BY <1>1
  <2>3. (d - 1 - r - m) * PERIOD <= rest * PERIOD
    <3>1. d - 1 - r - m \in Int /\ d - 1 - r - m <= rest
      BY <1>1
    <3> HIDE DEF r, rest
    <3> QED
      BY <1>1, <3>1, Products
  <2> QED
    BY <1>1, <1>2, <1>3, <1>4, <2>1, <2>2, <2>3
<1>7. ASSUME ~(s + r * PERIOD <= w)
      PROVE  w + q * m + b + sleeping(w, s, r, d, m) <= HEALTHY
  <2>1. sleeping(w, s, r, d, m) = s + (d - 1) * PERIOD - w - m * PERIOD
    BY <1>3, <1>7 DEF sleeping, least
  <2>2. (d - 1) * PERIOD - m * PERIOD = (d - 1 - m) * PERIOD
    BY <1>1
  <2>3. (d - 1 - m) * PERIOD <= (rest + (QLEN - n)) * PERIOD
    <3>1. d - 1 - m \in Int /\ rest + (QLEN - n) \in Int /\ d - 1 - m <= rest + (QLEN - n)
      BY <1>1
    <3> HIDE DEF rest
    <3> QED
      BY <1>1, <3>1, Products
  <2>4. (rest + (QLEN - n)) * PERIOD = rest * PERIOD + (QLEN - n) * PERIOD
    BY <1>1
  <2>5. (QLEN - n) * PERIOD <= (QLEN - n) * q
    <3>1. \A a \in Nat, x \in Nat, y \in Nat : x <= y => a * x <= a * y
      OBVIOUS
    <3>2. QLEN - n \in Nat
      BY <1>1
    <3> HIDE DEF q
    <3> QED
      BY <1>1, <3>1, <3>2
  <2>6. (QLEN - n) * q = q * QLEN - q * n
    BY <1>1
  <2>7. (QLEN - n) * PERIOD \in Int
    BY <1>1, <1>3
  <2> HIDE DEF q, r, rest
  <2> QED
    BY <1>1, <1>2, <1>3, <1>4, <2>1, <2>2, <2>3, <2>4, <2>5, <2>6, <2>7
<1>8. sleeping(w, s, r, d, m) \in Int
  BY <1>1, SleepingType
<1> QED
  BY <1>3, <1>5, <1>6, <1>7, <1>8 DEF remaining, positive

-----------------------------------------------------------------------------
(* The invariant.                                                            *)

\* What is left of the handler that runs.  A call that is given up does not count:
\* quiet stands still while the main thread waits for it.
waits == IF failing THEN 0 ELSE busy
work  == waits + todo * CALL

\* The last position in the queue is its m-th message; none if m is 0.
LastJs(m) ==
  /\ m \in 0..Len(queue)
  /\ m > 0 => queue[m] = "JS"
  /\ \A i \in 1..Len(queue) : i > m => queue[i] = "TIMER"

\* Ticks the timer has still to send before the watchdog is due.
ticks_due(m) == IF m > 0 THEN CI_WDT - (Len(queue) - m) ELSE CI_WDT - cx_wdt - Len(queue)

\* How often handle_timer may come to the battery before that.
readings(m) == (IF mpc \in {"wdt", "batt"} THEN 1 ELSE 0)
               + (IF m > 0 THEN m - 1 + CI_WDT - 1 ELSE CI_WDT - cx_wdt - 1)
batt_work(m) == IF cx_batt + readings(m) >= CI_BATT THEN CALL ELSE 0

left(m) == remaining(work, batt_work(m), sleep, QLEN - Len(queue), ticks_due(m), m)

Handling ==
  /\ mpc = "boot" => quiet = 0
  /\ mpc # "boot" => todo <= 4 /\ work <= 4 * CALL
  /\ mpc \in {"recv", "batt"} => todo = 0
  /\ mpc # "wdt" => cx_wdt < CI_WDT
  /\ mpc = "wdt" => fired
  /\ ~failing => busy <= CALL
  /\ mpc = "batt" => busy = 0

\* The watchdog has still to fire, after the queued positions if there are any.
pending(m) == mpc # "boot" /\ (m > 0 \/ ~fired)

Deadline == \E m \in 0..Len(queue) : LastJs(m) /\ (pending(m) => quiet + left(m) <= HEALTHY)

WdtInv == TypeOK /\ Handling /\ Deadline

-----------------------------------------------------------------------------
LEMMA QueueAppend ==
  ASSUME TypeOK, NEW x \in {"JS", "TIMER"}, has_room, queue' = Append(queue, x)
  PROVE  /\ queue' \in Seq({"JS", "TIMER"}) /\ Len(queue') = Len(queue) + 1 /\ Len(queue') <= QLEN
         /\ queue'[Len(queue) + 1] = x
         /\ \A i \in 1..Len(queue) : queue'[i] = queue[i]
<1>1. queue \in Seq({"JS", "TIMER"}) /\ Len(queue) \in Nat /\ Len(queue) < QLEN /\ QLEN \in Nat
  BY Constants DEF TypeOK, has_room
<1> QED
  BY <1>1

LEMMA QueueTail ==
  ASSUME TypeOK, queue # <<>>, queue' = Tail(queue)
  PROVE  /\ queue' \in Seq({"JS", "TIMER"}) /\ Len(queue') = Len(queue) - 1 /\ Len(queue') <= QLEN
         /\ Len(queue) >= 1 /\ Head(queue) = queue[1]
         /\ \A i \in 1..Len(queue) - 1 : queue'[i] = queue[i + 1]
<1>1. queue \in Seq({"JS", "TIMER"}) /\ Len(queue) \in Nat /\ Len(queue) <= QLEN /\ QLEN \in Nat
  BY Constants DEF TypeOK
<1>2. Len(queue) >= 1 /\ Head(queue) = queue[1]
  BY <1>1
<1>3. queue' \in Seq({"JS", "TIMER"}) /\ Len(queue') = Len(queue) - 1
  BY <1>1
<1>4. \A i \in 1..Len(queue) - 1 : queue'[i] = queue[i + 1]
  BY <1>1
<1> QED
  BY <1>1, <1>2, <1>3, <1>4

LEMMA InitWdt == Init => WdtInv
<1> SUFFICES ASSUME Init PROVE WdtInv
  OBVIOUS
<1>1. TypeOK
  <2>1. queue \in Seq({"JS", "TIMER"}) /\ Len(queue) = 0
    BY DEF Init
  <2>2. failing \in BOOLEAN /\ fired \in BOOLEAN
    BY Zenon DEF Init
  <2>3. 0 \in 0..CAP /\ 0 \in 0..GIVE_UP /\ 0 \in 0..CI_WDT /\ 0 \in 0..CI_BATT
    BY HealthyType, Constants
  <2> HIDE DEF CAP
  <2> QED
    BY <2>1, <2>2, <2>3, Constants DEF Init, TypeOK
<1>2. Handling
  <2>1. failing = FALSE
    BY Zenon DEF Init
  <2> QED
    BY <2>1, Constants DEF Init, Handling
<1>3. Deadline
  <2>1. Len(queue) = 0 /\ mpc = "boot"
    BY DEF Init
  <2>2. LastJs(0) /\ ~pending(0)
    BY <2>1 DEF LastJs, pending
  <2> QED
    BY <2>1, <2>2 DEF Deadline
<1> QED
  BY <1>1, <1>2, <1>3 DEF WdtInv

\* Types, and where the main thread is.
LEMMA HandlingStep ==
  ASSUME TypeOK, Handling, [Next]_vars
  PROVE  TypeOK' /\ Handling'
<1> HIDE DEF CAP, HEALTHY
<1>0. /\ CAP \in Nat /\ todo \in Nat /\ busy \in Nat /\ sleep \in Nat
      /\ cx_wdt \in Nat /\ cx_batt \in Nat /\ silent \in Nat /\ quiet \in Nat
  BY HealthyType, Constants DEF TypeOK
<1>1. CASE TimerSends
  <2>1. /\ queue' = Append(queue, "TIMER") /\ sleep' = PERIOD /\ has_room
        /\ UNCHANGED <<mpc, todo, busy, cx_wdt, cx_batt>>
        /\ UNCHANGED <<silent, quiet, failing, fired>>
    BY <1>1, Zenon DEF TimerSends, main, history
  <2>2. queue' \in Seq({"JS", "TIMER"}) /\ Len(queue') <= QLEN
    BY <2>1, QueueAppend
  <2>3. sleep' \in 0..PERIOD
    BY <2>1, Constants
  <2>4. TypeOK'
    BY <2>1, <2>2, <2>3 DEF TypeOK
  <2>5. Handling'
    BY <2>1 DEF Handling, work, waits
  <2> QED
    BY <2>4, <2>5
<1>2. CASE SendJs
  <2>1. /\ queue' = Append(queue, "JS") /\ has_room /\ silent' = 0 /\ quiet' = 0
        /\ UNCHANGED <<sleep, mpc, todo, busy, cx_wdt, cx_batt, failing, fired>>
    BY <1>2, Zenon DEF SendJs, main
  <2>2. queue' \in Seq({"JS", "TIMER"}) /\ Len(queue') <= QLEN
    BY <2>1, QueueAppend
  <2>3. 0 \in 0..CAP
    BY <1>0
  <2>4. TypeOK'
    BY <2>1, <2>2, <2>3 DEF TypeOK
  <2>5. Handling'
    BY <2>1 DEF Handling, work, waits
  <2> QED
    BY <2>4, <2>5
<1>3. CASE handle_js
  <2>1. /\ queue # <<>> /\ queue' = Tail(queue) /\ busy = 0 /\ mpc = "recv"
        /\ cx_wdt' = 0 /\ mpc' = "js" /\ todo' = 4 /\ fired' = FALSE
        /\ UNCHANGED <<sleep, busy, cx_batt, silent, quiet, failing>>
    BY <1>3, Zenon DEF handle_js, receives
  <2>2. queue' \in Seq({"JS", "TIMER"}) /\ Len(queue') <= QLEN
    BY <2>1, QueueTail
  <2>3. TypeOK'
    <3>1. fired' \in BOOLEAN
      BY <2>1, Zenon
    <3> QED
      BY <2>1, <2>2, <3>1, Constants DEF TypeOK
  <2>4. work' = 4 * CALL
    <3>1. waits' = 0
      BY <2>1, Zenon DEF waits
    <3> QED
      BY <2>1, <3>1, Constants DEF work
  <2>5. Handling'
    BY <2>1, <2>4, Constants DEF Handling
  <2> QED
    BY <2>3, <2>5
<1>4. CASE handle_timer
  <2>1. /\ queue # <<>> /\ queue' = Tail(queue) /\ busy = 0 /\ mpc = "recv"
        /\ cx_wdt' = cx_wdt + 1
        /\ UNCHANGED <<sleep, busy, cx_batt, silent, quiet, failing>>
    BY <1>4, Zenon DEF handle_timer, receives
  <2>2. queue' \in Seq({"JS", "TIMER"}) /\ Len(queue') <= QLEN
    BY <2>1, QueueTail
  <2>3. todo = 0 /\ cx_wdt < CI_WDT
    BY <2>1 DEF Handling
  <2>4. waits' = 0
    BY <2>1, Zenon DEF waits
  <2>5. CASE CI_WDT <= cx_wdt + 1
    <3>1. mpc' = "wdt" /\ todo' = 4 /\ fired' = TRUE
      BY <1>4, <2>5, Zenon DEF handle_timer, wdt_due
    <3>2. fired' \in BOOLEAN
      BY <3>1, Zenon
    <3>3. TypeOK'
      BY <2>1, <2>2, <2>3, <3>1, <3>2, Constants DEF TypeOK
    <3>4. work' = 4 * CALL
      BY <2>4, <3>1, Constants DEF work
    <3>5. Handling'
      BY <2>1, <3>1, <3>4, Constants DEF Handling
    <3> QED
      BY <3>3, <3>5
  <2>6. CASE ~(CI_WDT <= cx_wdt + 1)
    <3>1. mpc' = "batt" /\ todo' = todo /\ fired' = fired
      BY <1>4, <2>6, Zenon DEF handle_timer, wdt_due
    <3>2. TypeOK'
      BY <2>1, <2>2, <2>3, <3>1, Constants DEF TypeOK
    <3>3. work' = 0
      BY <2>3, <2>4, <3>1, Constants DEF work
    <3>4. Handling'
      BY <1>0, <2>1, <2>3, <2>6, <3>1, <3>3, Constants DEF Handling
    <3> QED
      BY <3>2, <3>4
  <2> QED
    BY <2>5, <2>6
<1>5. CASE MainCall
  <2>1. /\ busy = 0 /\ todo > 0 /\ todo' = todo - 1
        /\ UNCHANGED <<queue, sleep, mpc, cx_wdt, cx_batt, silent, quiet, fired>>
        /\ (busy' = CALL /\ failing' = FALSE) \/ (busy' = GIVE_UP /\ failing' = TRUE)
    BY <1>5, Zenon DEF MainCall, answered, given_up
  <2>2. failing' \in BOOLEAN /\ busy' \in 0..GIVE_UP
    <3>1. failing' \in BOOLEAN
      BY <2>1, Zenon
    <3> QED
      BY <2>1, <3>1, Constants
  <2>3. TypeOK'
    BY <1>0, <2>1, <2>2 DEF TypeOK
  <2>4. waits = 0 /\ waits' \in {0, CALL}
    BY <2>1, Zenon DEF waits
  <2>5. work' <= work
    <3>1. (todo - 1) * CALL = todo * CALL - CALL /\ todo * CALL \in Nat /\ CALL \in Nat
      BY <1>0, Constants, Products
    <3> QED
      BY <2>1, <2>4, <3>1 DEF work
  <2>6. Handling'
    <3>1. work \in Nat /\ work' \in Int
      <4>1. todo * CALL \in Nat /\ (todo - 1) * CALL \in Int
        BY <1>0, Constants, Products
      <4> QED
        BY <2>1, <2>4, <4>1, Constants DEF work
    <3>2. mpc # "recv" /\ mpc # "batt"
      BY <1>0, <2>1 DEF Handling
    <3>3. ~failing' => busy' <= CALL
      BY <2>1, Constants
    <3> QED
      BY <1>0, <2>1, <2>5, <3>1, <3>2, <3>3, Constants DEF Handling
  <2> QED
    BY <2>3, <2>6
<1>6. CASE HandlerDone \/ WdtReset
  <2>1. /\ busy = 0 /\ todo = 0 /\ UNCHANGED <<queue, sleep, todo, busy, cx_batt>>
        /\ UNCHANGED <<silent, quiet, failing, fired>>
        /\ \/ mpc \in {"boot", "js"} /\ mpc' = "recv" /\ cx_wdt' = cx_wdt
           \/ mpc = "wdt" /\ mpc' = "batt" /\ cx_wdt' = 0
    BY <1>6, Zenon DEF HandlerDone, WdtReset, history
  <2>2. TypeOK'
    BY <2>1, Constants DEF TypeOK
  <2>3. work' = 0
    <3>1. waits' = 0
      BY <2>1, Zenon DEF waits
    <3> QED
      BY <2>1, <3>1, Constants DEF work
  <2>4. Handling'
    BY <2>1, <2>3, Constants DEF Handling
  <2> QED
    BY <2>2, <2>4
<1>7. CASE Battery
  <2>1. /\ mpc = "batt" /\ busy = 0 /\ mpc' = "recv"
        /\ UNCHANGED <<queue, sleep, todo, cx_wdt, silent, quiet, fired>>
        /\ \/ busy' = CALL /\ failing' = FALSE /\ cx_batt' = 0
           \/ busy' = GIVE_UP /\ failing' = TRUE /\ cx_batt' = CI_BATT
           \/ ~(CI_BATT <= cx_batt + 1) /\ cx_batt' = cx_batt + 1 /\ UNCHANGED <<busy, failing>>
    BY <1>7, Zenon DEF Battery, answered, given_up
  <2>2. failing' \in BOOLEAN
    BY <2>1, Zenon DEF TypeOK
  <2>3. busy' \in 0..GIVE_UP /\ cx_batt' \in 0..CI_BATT
    BY <1>0, <2>1, Constants
  <2>4. TypeOK'
    BY <2>1, <2>2, <2>3 DEF TypeOK
  <2>5. todo = 0 /\ cx_wdt < CI_WDT
    BY <2>1 DEF Handling
  <2>6. waits' \in {0, CALL}
    BY <2>1, Zenon DEF waits
  <2>7. work' <= 4 * CALL
    <3>1. todo' * CALL = 0
      BY <2>1, <2>5, Constants
    <3>2. work' = waits' + 0
      BY <3>1, Zenon DEF work
    <3>3. \A x \in {0, CALL} : x + 0 <= 4 * CALL
      BY Constants
    <3> QED
      BY <2>6, <3>2, <3>3, Zenon
  <2>8. ~failing' => busy' <= CALL
    BY <2>1, Constants
  <2>9. Handling'
    BY <2>1, <2>5, <2>7, <2>8 DEF Handling
  <2> QED
    BY <2>4, <2>9
<1>8. CASE Elapse
  <2>1. /\ busy > 0 \/ mpc = "recv"
        /\ busy' = less(busy) /\ sleep' = less(sleep)
        /\ silent' = 0 \/ silent' = later(silent)
        /\ quiet' = 0 \/ quiet' = later(quiet)
        /\ mpc = "boot" => quiet' = 0
        /\ UNCHANGED <<queue, mpc, todo, cx_wdt, cx_batt, failing, fired>>
    BY <1>8, Zenon DEF Elapse
  <2>2. busy' \in 0..GIVE_UP /\ busy' <= busy /\ sleep' \in 0..PERIOD
    BY <1>0, <2>1, Constants DEF less, TypeOK
  <2>3. silent' \in 0..CAP /\ quiet' \in 0..CAP
    BY <1>0, <2>1 DEF later, TypeOK
  <2>4. TypeOK'
    BY <2>1, <2>2, <2>3 DEF TypeOK
  <2>5. waits' <= waits /\ waits \in Nat /\ waits' \in Nat
    <3>1. CASE failing
      <4>1. waits = 0 /\ waits' = 0
        BY <2>1, <3>1, Zenon DEF waits
      <4> QED
        BY <4>1
    <3>2. CASE ~failing
      <4>1. waits = busy /\ waits' = busy'
        BY <2>1, <3>2, Zenon DEF waits
      <4> QED
        BY <1>0, <2>2, <4>1
    <3> QED
      BY <3>1, <3>2
  <2>6. work' <= work /\ work \in Nat /\ work' \in Nat
    <3>1. todo * CALL \in Nat
      BY <1>0, Constants, Products
    <3> QED
      BY <2>1, <2>5, <3>1 DEF work
  <2>7. mpc # "batt"
    BY <2>1 DEF Handling
  <2>8. ~failing' => busy' <= CALL
    BY <1>0, <2>1, <2>2, Constants DEF Handling
  <2>9. Handling'
    BY <2>1, <2>6, <2>7, <2>8, Constants DEF Handling
  <2> QED
    BY <2>4, <2>9
<1>9. CASE UNCHANGED vars
  <2>1. /\ UNCHANGED <<queue, sleep, mpc, todo, busy, cx_wdt, cx_batt>>
        /\ UNCHANGED <<silent, quiet, failing, fired>>
    BY <1>9, Zenon DEF vars, main, history
  <2> QED
    BY <2>1 DEF TypeOK, Handling, work, waits
<1> QED
  BY <1>1, <1>2, <1>3, <1>4, <1>5, <1>6, <1>7, <1>8, <1>9 DEF Next, Main

-----------------------------------------------------------------------------
(* The deadline, action by action.                                           *)

LEMMA PartTypes ==
  ASSUME TypeOK, Handling, NEW m \in 0..Len(queue)
  PROVE  /\ Len(queue) \in Nat /\ m \in Nat /\ m <= Len(queue) /\ Len(queue) <= QLEN
         /\ QLEN - Len(queue) \in Nat
         /\ sleep \in Nat /\ sleep <= PERIOD /\ cx_wdt \in Nat /\ cx_batt \in Nat /\ quiet \in Nat
         /\ work \in Nat /\ ticks_due(m) \in Int /\ readings(m) \in Int
         /\ batt_work(m) \in Nat /\ batt_work(m) <= CALL /\ left(m) \in Nat
<1>1. /\ Len(queue) \in Nat /\ Len(queue) <= QLEN /\ QLEN \in Nat /\ m \in Nat /\ m <= Len(queue)
  BY Constants DEF TypeOK
<1>2. /\ sleep \in Nat /\ sleep <= PERIOD /\ cx_wdt \in Nat /\ cx_batt \in Nat
      /\ todo \in Nat /\ busy \in Nat
  BY Constants DEF TypeOK
<1>3. quiet \in Nat
  <2> HIDE DEF CAP
  <2> QED
    BY HealthyType DEF TypeOK
<1>4. work \in Nat
  <2>1. todo * CALL \in Nat
    BY <1>2, Constants, Products
  <2>2. waits \in Nat
    BY <1>2 DEF waits
  <2> QED
    BY <2>1, <2>2 DEF work
<1>5. ticks_due(m) \in Int /\ readings(m) \in Int
  BY <1>1, <1>2, Constants DEF ticks_due, readings
<1>6. batt_work(m) \in Nat /\ batt_work(m) <= CALL
  BY Constants DEF batt_work
<1>7. QLEN - Len(queue) \in Nat
  BY <1>1
<1>8. left(m) \in Nat
  BY <1>1, <1>2, <1>4, <1>5, <1>6, <1>7, RemainingType DEF left
<1> QED
  BY <1>1, <1>2, <1>3, <1>4, <1>5, <1>6, <1>7, <1>8

\* When quiet restarts, the bound is met whatever the state is.
LEMMA Restarts ==
  ASSUME TypeOK', Handling', quiet' = 0, mpc' # "boot", NEW m \in 0..Len(queue')
  PROVE  quiet' + left(m)' <= HEALTHY
<1>1. /\ Len(queue') \in Nat /\ Len(queue') <= QLEN /\ QLEN \in Nat /\ m \in Nat /\ m <= Len(queue')
      /\ CI_WDT \in Nat
  BY Constants DEF TypeOK
<1>2. /\ sleep' \in Nat /\ sleep' <= PERIOD /\ cx_wdt' \in Nat /\ todo' \in Nat /\ busy' \in Nat
  BY Constants DEF TypeOK
<1>3. work' \in Nat /\ work' <= 4 * CALL
  <2>1. todo' * CALL \in Nat
    BY <1>2, Constants, Products
  <2>2. waits' \in Nat
    BY <1>2 DEF waits
  <2> QED
    BY <2>1, <2>2 DEF work, Handling
<1>4. ticks_due(m)' \in Int /\ ticks_due(m)' <= CI_WDT - Len(queue') + m
  BY <1>1, <1>2 DEF ticks_due
<1>5. batt_work(m)' \in Nat /\ batt_work(m)' <= CALL
  BY Constants DEF batt_work
<1>6. remaining(work', batt_work(m)', sleep', QLEN - Len(queue'), ticks_due(m)', m) <= HEALTHY
  BY <1>1, <1>2, <1>3, <1>4, <1>5, NeverMore
<1>7. left(m)' <= HEALTHY /\ left(m)' \in Nat
  <2>1. QLEN - Len(queue') \in Nat
    BY <1>1
  <2>2. remaining(work', batt_work(m)', sleep', QLEN - Len(queue'), ticks_due(m)', m) \in Nat
    BY <1>1, <1>2, <1>3, <1>4, <1>5, <2>1, RemainingType
  <2> QED
    BY <1>6, <2>2, Zenon DEF left
<1> HIDE DEF HEALTHY
<1> QED
  BY <1>7

\* The witness for the next state.
LEMMA DeadlineFrom ==
  ASSUME NEW k \in 0..Len(queue'), LastJs(k)', pending(k)' => quiet' + left(k)' <= HEALTHY
  PROVE  Deadline'
BY Zenon DEF Deadline

LEMMA TimerSendsDeadline == ASSUME WdtInv, TimerSends PROVE Deadline'
<1>0. TypeOK /\ Handling /\ Deadline
  BY DEF WdtInv
<1>1. PICK m \in 0..Len(queue) : LastJs(m) /\ (pending(m) => quiet + left(m) <= HEALTHY)
  BY <1>0, Zenon DEF Deadline
<1>2. /\ sleep = 0 /\ has_room /\ queue' = Append(queue, "TIMER") /\ sleep' = PERIOD
      /\ UNCHANGED <<mpc, todo, busy, cx_wdt, cx_batt>> /\ UNCHANGED <<silent, quiet, failing, fired>>
  BY Zenon DEF TimerSends, main, history
<1>3. /\ Len(queue') = Len(queue) + 1 /\ queue'[Len(queue) + 1] = "TIMER"
      /\ \A i \in 1..Len(queue) : queue'[i] = queue[i]
  BY <1>0, <1>2, QueueAppend
<1>4. /\ Len(queue) \in Nat /\ m \in Nat /\ m <= Len(queue) /\ QLEN - Len(queue) \in Nat
      /\ work \in Nat /\ ticks_due(m) \in Int /\ batt_work(m) \in Nat /\ cx_wdt \in Nat
  BY <1>0, PartTypes
<1>5. LastJs(m)' /\ m \in 0..Len(queue')
  BY <1>1, <1>3, <1>4 DEF LastJs
<1>6. pending(m)' = pending(m) /\ work' = work /\ batt_work(m)' = batt_work(m) /\ quiet' = quiet
  BY <1>2, Zenon DEF pending, work, waits, batt_work, readings
<1>7. ticks_due(m)' = ticks_due(m) - 1
  BY <1>2, <1>3, <1>4, Constants DEF ticks_due
<1>8. QLEN - Len(queue') = (QLEN - Len(queue)) - 1 /\ QLEN - Len(queue) >= 1
  BY <1>2, <1>3, <1>4, Constants DEF has_room
<1>9. left(m)' = left(m)
  <2>1. remaining(work, batt_work(m), PERIOD, (QLEN - Len(queue)) - 1, ticks_due(m) - 1, m)
          = remaining(work, batt_work(m), 0, QLEN - Len(queue), ticks_due(m), m)
    <3>1. PICK r \in Nat : r = QLEN - Len(queue)
      BY <1>4
    <3>2. PICK d \in Int : d = ticks_due(m)
      BY <1>4
    <3>3. r >= 1
      BY <1>8, <3>1
    <3>4. remaining(work, batt_work(m), PERIOD, r - 1, d - 1, m)
            = remaining(work, batt_work(m), 0, r, d, m)
      BY <1>4, <3>3, TickSent
    <3> QED
      BY <3>1, <3>2, <3>4, Zenon
  <2>3. sleep = 0 /\ sleep' = PERIOD
    BY <1>2
  <2>2. left(m) = remaining(work, batt_work(m), 0, QLEN - Len(queue), ticks_due(m), m)
    BY <2>3, Zenon DEF left
  <2>4. left(m)' =
          remaining(work, batt_work(m), PERIOD, (QLEN - Len(queue)) - 1, ticks_due(m) - 1, m)
    BY <1>6, <1>7, <1>8, <2>3, Zenon DEF left
  <2> QED
    BY <2>1, <2>2, <2>4, Zenon
<1> QED
  BY <1>1, <1>5, <1>6, <1>9, DeadlineFrom, Zenon

LEMMA SendJsDeadline == ASSUME WdtInv, SendJs, TypeOK', Handling' PROVE Deadline'
<1>0. TypeOK /\ Handling /\ Len(queue) \in Nat
  BY DEF WdtInv, TypeOK
<1>1. has_room /\ queue' = Append(queue, "JS") /\ quiet' = 0
  BY Zenon DEF SendJs
<1>2. Len(queue') = Len(queue) + 1 /\ queue'[Len(queue) + 1] = "JS"
  BY <1>0, <1>1, QueueAppend
<1>k. PICK k \in Nat : k = Len(queue) + 1
  BY <1>0
<1>3. k \in 0..Len(queue') /\ LastJs(k)'
  BY <1>0, <1>2, <1>k DEF LastJs
<1>4. pending(k)' => quiet' + left(k)' <= HEALTHY
  BY <1>1, <1>3, Restarts DEF pending
<1> QED
  BY <1>3, <1>4, DeadlineFrom

\* The last position once the head of the queue is taken.
LEMMA LastAfterTail ==
  ASSUME TypeOK, queue # <<>>, queue' = Tail(queue), NEW m, LastJs(m)
  PROVE  /\ Head(queue) = "JS" => m >= 1
         /\ Head(queue) = "TIMER" => m # 1
         /\ m >= 1 => m - 1 \in 0..Len(queue') /\ LastJs(m - 1)'
         /\ m = 0 => 0 \in 0..Len(queue') /\ LastJs(0)'
<1>1. /\ Len(queue) \in Nat /\ Len(queue') = Len(queue) - 1 /\ Len(queue) >= 1
      /\ Head(queue) = queue[1] /\ \A i \in 1..Len(queue) - 1 : queue'[i] = queue[i + 1]
  BY QueueTail DEF TypeOK
<1>2. /\ m \in 0..Len(queue) /\ (m > 0 => queue[m] = "JS")
      /\ \A i \in 1..Len(queue) : i > m => queue[i] = "TIMER"
  BY DEF LastJs
<1>3. (Head(queue) = "JS" => m >= 1) /\ (Head(queue) = "TIMER" => m # 1)
  BY <1>1, <1>2
<1>4. m >= 1 => m - 1 \in 0..Len(queue') /\ LastJs(m - 1)'
  BY <1>1, <1>2 DEF LastJs
<1>5. m = 0 => 0 \in 0..Len(queue') /\ LastJs(0)'
  BY <1>1, <1>2 DEF LastJs
<1> QED
  BY <1>3, <1>4, <1>5

LEMMA HandleJsDeadline == ASSUME WdtInv, handle_js PROVE Deadline'
<1>0. TypeOK /\ Handling /\ Deadline
  BY DEF WdtInv
<1>1. PICK m \in 0..Len(queue) : LastJs(m) /\ (pending(m) => quiet + left(m) <= HEALTHY)
  BY <1>0, Zenon DEF Deadline
<1>2. /\ queue # <<>> /\ queue' = Tail(queue) /\ Head(queue) = "JS" /\ busy = 0 /\ mpc = "recv"
      /\ cx_wdt' = 0 /\ mpc' = "js" /\ todo' = 4
      /\ UNCHANGED <<sleep, busy, cx_batt, silent, quiet, failing>>
  BY Zenon DEF handle_js, receives
<1>3. m >= 1 /\ m - 1 \in 0..Len(queue') /\ LastJs(m - 1)'
  BY <1>0, <1>1, <1>2, LastAfterTail
<1>4. /\ Len(queue) \in Nat /\ m \in Nat /\ m <= Len(queue) /\ QLEN - Len(queue) \in Nat
      /\ work \in Nat /\ ticks_due(m) \in Int /\ batt_work(m) \in Nat /\ sleep \in Nat
      /\ cx_batt \in Nat /\ quiet \in Nat /\ left(m) \in Nat
  BY <1>0, PartTypes
<1>5. Len(queue') = Len(queue) - 1
  BY <1>0, <1>2, QueueTail
<1>6. work = 0 /\ work' = 4 * CALL
  <2>1. waits = 0 /\ waits' = 0
    BY <1>2, Zenon DEF waits
  <2>2. todo = 0
    BY <1>0, <1>2 DEF Handling
  <2> QED
    BY <1>2, <2>1, <2>2, Constants DEF work
<1>7. ticks_due(m - 1)' = ticks_due(m)
  BY <1>2, <1>3, <1>4, <1>5, Constants DEF ticks_due
<1>8. batt_work(m - 1)' \in Nat /\ batt_work(m - 1)' <= batt_work(m)
  <2>1. readings(m - 1)' <= readings(m) /\ readings(m) \in Int /\ readings(m - 1)' \in Int
    BY <1>2, <1>3, <1>4, Constants DEF readings
  <2> QED
    BY <1>2, <1>4, <2>1, Constants DEF batt_work
<1>9. QLEN - Len(queue') = (QLEN - Len(queue)) + 1
  BY <1>4, <1>5, Constants
<1>10. left(m - 1)' <= left(m) /\ left(m - 1)' \in Nat
  <2>0. remaining(4 * CALL, batt_work(m - 1)', sleep, (QLEN - Len(queue)) + 1, ticks_due(m), m - 1)
          \in Nat
    <3>1. 4 * CALL \in Nat /\ (QLEN - Len(queue)) + 1 \in Nat /\ m - 1 \in Nat
      BY <1>3, <1>4, Constants
    <3> QED
      BY <1>4, <1>8, <3>1, RemainingType
  <2>1. remaining(4 * CALL, batt_work(m - 1)', sleep, (QLEN - Len(queue)) + 1, ticks_due(m), m - 1)
          <= remaining(0, batt_work(m), sleep, QLEN - Len(queue), ticks_due(m), m)
    BY <1>3, <1>4, <1>8, HandlerStarts
  <2> QED
    BY <1>2, <1>6, <1>7, <1>9, <2>0, <2>1, Zenon DEF left
<1>11. quiet + left(m) <= HEALTHY
  BY <1>1, <1>2, <1>3 DEF pending
<1>12. quiet' + left(m - 1)' <= HEALTHY
  BY <1>2, <1>4, <1>10, <1>11, HealthyType
<1> QED
  BY <1>3, <1>12, DeadlineFrom

LEMMA HandleTimerDeadline == ASSUME WdtInv, handle_timer PROVE Deadline'
<1>0. TypeOK /\ Handling /\ Deadline
  BY DEF WdtInv
<1>1. PICK m \in 0..Len(queue) : LastJs(m) /\ (pending(m) => quiet + left(m) <= HEALTHY)
  BY <1>0, Zenon DEF Deadline
<1>2. /\ queue # <<>> /\ queue' = Tail(queue) /\ Head(queue) = "TIMER" /\ busy = 0 /\ mpc = "recv"
      /\ cx_wdt' = cx_wdt + 1 /\ UNCHANGED <<sleep, busy, cx_batt, silent, quiet, failing>>
      /\ \/ CI_WDT <= cx_wdt + 1 /\ mpc' = "wdt" /\ todo' = 4 /\ fired' = TRUE
         \/ mpc' = "batt" /\ UNCHANGED <<todo, fired>>
  BY Zenon DEF handle_timer, receives, wdt_due
<1>3. /\ Len(queue) \in Nat /\ m \in Nat /\ m <= Len(queue) /\ QLEN - Len(queue) \in Nat
      /\ work \in Nat /\ ticks_due(m) \in Int /\ batt_work(m) \in Nat /\ sleep \in Nat
      /\ cx_batt \in Nat /\ cx_wdt \in Nat /\ quiet \in Nat /\ left(m) \in Nat
  BY <1>0, PartTypes
<1>4. Len(queue') = Len(queue) - 1
  BY <1>0, <1>2, QueueTail
<1>5. QLEN - Len(queue') = (QLEN - Len(queue)) + 1 /\ (QLEN - Len(queue)) + 1 \in Nat
  BY <1>3, <1>4, Constants
<1>6. waits = 0 /\ waits' = 0 /\ todo = 0
  <2>1. waits = 0 /\ waits' = 0
    BY <1>2, Zenon DEF waits
  <2> QED
    BY <1>0, <1>2, <2>1 DEF Handling
<1>7. work = 0
  BY <1>6, Constants DEF work
<1>8. CASE m > 0
  <2>1. m >= 2 /\ m - 1 \in 0..Len(queue') /\ LastJs(m - 1)'
    <3>1. m # 1 /\ (m >= 1 => m - 1 \in 0..Len(queue') /\ LastJs(m - 1)')
      BY <1>0, <1>1, <1>2, LastAfterTail
    <3> QED
      BY <1>3, <1>8, <3>1
  <2>2. ticks_due(m - 1)' = ticks_due(m)
    BY <1>3, <1>4, <2>1, Constants DEF ticks_due
  <2>3. batt_work(m - 1)' = batt_work(m)
    <3>1. readings(m - 1)' = readings(m)
      BY <1>2, <1>3, <2>1, Constants DEF readings
    <3> QED
      BY <1>2, <3>1 DEF batt_work
  <2>4. left(m) = remaining(0, batt_work(m), sleep, QLEN - Len(queue), ticks_due(m), m)
    BY <1>7, Zenon DEF left
  <2>5. left(m - 1)' = remaining(work', batt_work(m), sleep, (QLEN - Len(queue)) + 1, ticks_due(m), m - 1)
    BY <1>2, <1>5, <2>2, <2>3, Zenon DEF left
  <2>6. work' = 4 * CALL \/ work' = 0
    BY <1>2, <1>6, Constants DEF work
  <2>7. left(m - 1)' <= left(m) /\ left(m - 1)' \in Nat
    <3>1. m >= 1 /\ m - 1 \in Nat /\ 4 * CALL \in Nat /\ 0 \in Nat /\ batt_work(m) <= batt_work(m)
      BY <1>3, <2>1, Constants
    <3>2. CASE work' = 4 * CALL
      <4>1. remaining(4 * CALL, batt_work(m), sleep, (QLEN - Len(queue)) + 1, ticks_due(m), m - 1)
              <= remaining(0, batt_work(m), sleep, QLEN - Len(queue), ticks_due(m), m)
        BY <1>3, <3>1, HandlerStarts, Zenon
      <4>2. remaining(4 * CALL, batt_work(m), sleep, (QLEN - Len(queue)) + 1, ticks_due(m), m - 1) \in Nat
        BY <1>3, <1>5, <3>1, RemainingType, Zenon
      <4> QED
        BY <2>4, <2>5, <3>2, <4>1, <4>2, Zenon
    <3>3. CASE work' = 0
      <4>1. remaining(0, batt_work(m), sleep, (QLEN - Len(queue)) + 1, ticks_due(m), m - 1)
              <= remaining(0, batt_work(m), sleep, QLEN - Len(queue), ticks_due(m), m)
        BY <1>3, <3>1, TickTaken, Zenon
      <4>2. remaining(0, batt_work(m), sleep, (QLEN - Len(queue)) + 1, ticks_due(m), m - 1) \in Nat
        BY <1>3, <1>5, <3>1, RemainingType, Zenon
      <4> QED
        BY <2>4, <2>5, <3>3, <4>1, <4>2, Zenon
    <3> QED
      BY <2>6, <3>2, <3>3, Zenon
  <2>8. quiet + left(m) <= HEALTHY
    BY <1>1, <1>2, <1>8 DEF pending
  <2>9. quiet' + left(m - 1)' <= HEALTHY
    BY <1>2, <1>3, <2>7, <2>8, HealthyType
  <2> QED
    BY <2>1, <2>9, DeadlineFrom
<1>9. CASE m = 0
  <2>1. 0 \in 0..Len(queue') /\ LastJs(0)'
    BY <1>0, <1>1, <1>2, <1>9, LastAfterTail
  <2>2. CASE fired' = TRUE
    <3>1. fired'
      BY <2>2, Zenon
    <3>2. ~(0 > 0)
      OBVIOUS
    <3>3. ~pending(0)'
      BY <3>1, <3>2, Zenon DEF pending
    <3> QED
      BY <2>1, <3>3, DeadlineFrom, Zenon
  <2>3. CASE mpc' = "batt" /\ UNCHANGED <<todo, fired>>
    <3>1. ticks_due(0)' = ticks_due(0)
      BY <1>2, <1>3, <1>4, Constants DEF ticks_due
    <3>2. batt_work(0)' = batt_work(0)
      <4>1. readings(0)' = readings(0)
        BY <1>2, <1>3, <2>3, Constants DEF readings
      <4> QED
        BY <1>2, <4>1 DEF batt_work
    <3>3. work' = 0
      BY <1>6, <2>3, Constants DEF work
    <3>4. left(0)' <= left(0) /\ left(0)' \in Nat
      <4>1. remaining(0, batt_work(0), sleep, (QLEN - Len(queue)) + 1, ticks_due(0), 0)
              <= remaining(0, batt_work(0), sleep, QLEN - Len(queue), ticks_due(0), 0)
        <5>1. 0 \in Nat /\ QLEN - Len(queue) \in Nat /\ (QLEN - Len(queue)) + 1 \in Nat
          BY <1>3, <1>5
        <5>2. ticks_due(0) \in Int /\ batt_work(0) \in Nat /\ sleep \in Nat
          BY <1>3, <1>9, Zenon
        <5> QED
          BY <5>1, <5>2, TickCounts, Zenon
      <4>5. remaining(0, batt_work(0), sleep, (QLEN - Len(queue)) + 1, ticks_due(0), 0) \in Nat
        <5>1. 0 \in Nat /\ (QLEN - Len(queue)) + 1 \in Nat
          BY <1>3, <1>5
        <5>2. ticks_due(0) \in Int /\ batt_work(0) \in Nat /\ sleep \in Nat
          BY <1>3, <1>9, Zenon
        <5> QED
          BY <5>1, <5>2, RemainingType, Zenon
      <4>2. left(0) = remaining(0, batt_work(0), sleep, QLEN - Len(queue), ticks_due(0), 0)
        BY <1>7, Zenon DEF left
      <4>3. sleep' = sleep
        BY <1>2
      <4>4. left(0)' = remaining(0, batt_work(0), sleep, (QLEN - Len(queue)) + 1, ticks_due(0), 0)
        BY <1>5, <3>1, <3>2, <3>3, <4>3, Zenon DEF left
      <4> QED
        BY <4>1, <4>2, <4>4, <4>5, Zenon
    <3>5. pending(0)' => pending(0)
      BY <1>2, <2>3 DEF pending
    <3>6. quiet' = quiet
      BY <1>2
    <3>7. pending(0)' => quiet' + left(0)' <= HEALTHY
      <4>1. \A x \in Nat, y \in Nat, z \in Nat, h \in Nat : x <= y /\ z + y <= h => z + x <= h
        OBVIOUS
      <4> QED
        BY <1>1, <1>3, <1>9, <3>4, <3>5, <3>6, <4>1, HealthyType, Zenon
    <3> QED
      BY <2>1, <3>7, DeadlineFrom, Zenon
  <2> QED
    BY <1>2, <2>2, <2>3, Zenon
<1> QED
  BY <1>3, <1>8, <1>9

LEMMA MainCallDeadline == ASSUME WdtInv, MainCall PROVE Deadline'
<1>0. TypeOK /\ Handling /\ Deadline
  BY DEF WdtInv
<1>1. PICK m \in 0..Len(queue) : LastJs(m) /\ (pending(m) => quiet + left(m) <= HEALTHY)
  BY <1>0, Zenon DEF Deadline
<1>2. /\ busy = 0 /\ todo > 0 /\ todo' = todo - 1
      /\ UNCHANGED <<queue, sleep, mpc, cx_wdt, cx_batt, silent, quiet, fired>>
      /\ (busy' = CALL /\ failing' = FALSE) \/ (busy' = GIVE_UP /\ failing' = TRUE)
  BY Zenon DEF MainCall, answered, given_up
<1>3. /\ Len(queue) \in Nat /\ m \in Nat /\ QLEN - Len(queue) \in Nat
      /\ work \in Nat /\ ticks_due(m) \in Int /\ batt_work(m) \in Nat /\ sleep \in Nat
      /\ quiet \in Nat /\ left(m) \in Nat
  BY <1>0, PartTypes
<1>4. work' \in Nat /\ work' <= work
  <2>1. waits = 0 /\ waits' \in {0, CALL}
    BY <1>2, Zenon DEF waits
  <2>2. /\ (todo - 1) * CALL = todo * CALL - CALL /\ todo * CALL \in Nat /\ CALL \in Nat
        /\ (todo - 1) * CALL \in Nat
    <3>1. todo \in Nat /\ todo - 1 \in Nat
      BY <1>0, <1>2 DEF TypeOK
    <3> QED
      BY <3>1, Constants, Products
  <2> QED
    BY <1>2, <2>1, <2>2 DEF work
<1>5. /\ m \in 0..Len(queue') /\ LastJs(m)' /\ pending(m)' = pending(m)
      /\ ticks_due(m)' = ticks_due(m) /\ batt_work(m)' = batt_work(m) /\ quiet' = quiet
  BY <1>1, <1>2, Zenon DEF LastJs, pending, ticks_due, batt_work, readings
<1>6. left(m)' <= left(m) /\ left(m)' \in Nat
  <2>1. left(m)' = remaining(work', batt_work(m), sleep, QLEN - Len(queue), ticks_due(m), m)
    BY <1>2, <1>5, Zenon DEF left
  <2>2. remaining(work', batt_work(m), sleep, QLEN - Len(queue), ticks_due(m), m) <= left(m)
    BY <1>3, <1>4, WorkDropped, Zenon DEF left
  <2>3. remaining(work', batt_work(m), sleep, QLEN - Len(queue), ticks_due(m), m) \in Nat
    BY <1>3, <1>4, RemainingType, Zenon
  <2> QED
    BY <2>1, <2>2, <2>3, Zenon
<1>7. pending(m)' => quiet' + left(m)' <= HEALTHY
  <2>1. \A x \in Nat, y \in Nat, z \in Nat, h \in Nat : x <= y /\ z + y <= h => z + x <= h
    OBVIOUS
  <2> QED
    BY <1>1, <1>3, <1>5, <1>6, <2>1, HealthyType, Zenon
<1> QED
  BY <1>5, <1>7, DeadlineFrom, Zenon

LEMMA HandlerDoneDeadline == ASSUME WdtInv, HandlerDone, TypeOK', Handling' PROVE Deadline'
<1>0. TypeOK /\ Handling /\ Deadline
  BY DEF WdtInv
<1>1. PICK m \in 0..Len(queue) : LastJs(m) /\ (pending(m) => quiet + left(m) <= HEALTHY)
  BY <1>0, Zenon DEF Deadline
<1>2. /\ mpc \in {"boot", "js"} /\ mpc' = "recv"
      /\ UNCHANGED <<queue, sleep, todo, busy, cx_wdt, cx_batt>>
      /\ UNCHANGED <<silent, quiet, failing, fired>>
  BY Zenon DEF HandlerDone, history
<1>3. m \in 0..Len(queue') /\ LastJs(m)'
  BY <1>1, <1>2, Zenon DEF LastJs
<1>4. CASE mpc = "boot"
  <2>1. quiet' = 0 /\ mpc' # "boot"
    BY <1>0, <1>2, <1>4 DEF Handling
  <2>2. quiet' + left(m)' <= HEALTHY
    BY <1>3, <2>1, Restarts, Zenon
  <2> QED
    BY <1>3, <2>2, DeadlineFrom, Zenon
<1>5. CASE mpc = "js"
  <2>1. mpc \notin {"wdt", "batt"} /\ mpc' \notin {"wdt", "batt"} /\ mpc # "boot"
    BY <1>2, <1>5
  <2>2. readings(m)' = readings(m)
    BY <1>2, <2>1, Zenon DEF readings
  <2>3. batt_work(m)' = batt_work(m) /\ ticks_due(m)' = ticks_due(m) /\ work' = work
    BY <1>2, <2>2, Zenon DEF batt_work, ticks_due, work, waits
  <2>4. left(m)' = left(m)
    BY <1>2, <2>3, Zenon DEF left
  <2>5. pending(m)' => pending(m)
    BY <1>2, <2>1, Zenon DEF pending
  <2>6. quiet' = quiet
    BY <1>2
  <2> QED
    BY <1>1, <1>3, <2>4, <2>5, <2>6, DeadlineFrom, Zenon
<1> QED
  BY <1>2, <1>4, <1>5

LEMMA WdtResetDeadline == ASSUME WdtInv, WdtReset PROVE Deadline'
<1>0. TypeOK /\ Handling /\ Deadline
  BY DEF WdtInv
<1>1. PICK m \in 0..Len(queue) : LastJs(m) /\ (pending(m) => quiet + left(m) <= HEALTHY)
  BY <1>0, Zenon DEF Deadline
<1>2. /\ mpc = "wdt" /\ mpc' = "batt" /\ cx_wdt' = 0
      /\ UNCHANGED <<queue, sleep, todo, busy, cx_batt>>
      /\ UNCHANGED <<silent, quiet, failing, fired>>
  BY Zenon DEF WdtReset, history
<1>3. m \in 0..Len(queue') /\ LastJs(m)' /\ quiet' = quiet
  BY <1>1, <1>2, Zenon DEF LastJs
<1>4. ASSUME pending(m)' PROVE quiet' + left(m)' <= HEALTHY
  <2>1. fired'
    BY <1>0, <1>2, Zenon DEF Handling
  <2>2. m > 0
    BY <1>4, <2>1, Zenon DEF pending
  <2>3. pending(m)
    BY <1>2, <2>2 DEF pending
  <2>4. mpc \in {"wdt", "batt"} /\ mpc' \in {"wdt", "batt"}
    BY <1>2
  <2>5. readings(m)' = readings(m)
    BY <2>2, <2>4, Zenon DEF readings
  <2>6. batt_work(m)' = batt_work(m) /\ ticks_due(m)' = ticks_due(m) /\ work' = work
    BY <1>2, <2>2, <2>5, Zenon DEF batt_work, ticks_due, work, waits
  <2>7. left(m)' = left(m)
    BY <1>2, <2>6, Zenon DEF left
  <2> QED
    BY <1>1, <1>3, <2>3, <2>7, Zenon
<1> QED
  BY <1>3, <1>4, DeadlineFrom, Zenon

LEMMA BatteryDeadline == ASSUME WdtInv, Battery PROVE Deadline'
<1>0. TypeOK /\ Handling /\ Deadline
  BY DEF WdtInv
<1>1. PICK m \in 0..Len(queue) : LastJs(m) /\ (pending(m) => quiet + left(m) <= HEALTHY)
  BY <1>0, Zenon DEF Deadline
<1>2. /\ mpc = "batt" /\ busy = 0 /\ mpc' = "recv"
      /\ UNCHANGED <<queue, sleep, todo, cx_wdt, silent, quiet, fired>>
      /\ \/ CI_BATT <= cx_batt + 1 /\ busy' = CALL /\ failing' = FALSE /\ cx_batt' = 0
         \/ CI_BATT <= cx_batt + 1 /\ busy' = GIVE_UP /\ failing' = TRUE /\ cx_batt' = CI_BATT
         \/ ~(CI_BATT <= cx_batt + 1) /\ cx_batt' = cx_batt + 1 /\ UNCHANGED <<busy, failing>>
  BY Zenon DEF Battery, answered, given_up
<1>3. /\ Len(queue) \in Nat /\ m \in Nat /\ m <= Len(queue) /\ Len(queue) <= QLEN
      /\ QLEN - Len(queue) \in Nat /\ ticks_due(m) \in Int /\ batt_work(m) \in Nat /\ sleep \in Nat
      /\ cx_batt \in Nat /\ cx_wdt \in Nat /\ quiet \in Nat /\ left(m) \in Nat
      /\ readings(m) \in Int
  BY <1>0, PartTypes
<1>4. /\ m \in 0..Len(queue') /\ LastJs(m)' /\ quiet' = quiet /\ ticks_due(m)' = ticks_due(m)
  BY <1>1, <1>2, Zenon DEF LastJs, ticks_due
<1>5. pending(m)' => pending(m)
  BY <1>2 DEF pending
<1>6. todo = 0 /\ cx_wdt < CI_WDT
  BY <1>0, <1>2 DEF Handling
<1>7. work = 0 /\ work' = waits'
  <2>1. waits = 0
    BY <1>2, Zenon DEF waits
  <2>2. todo * CALL = 0 /\ todo' * CALL = 0
    BY <1>2, <1>6, Constants
  <2>3. waits' \in Nat
    <3>1. busy' \in Nat
      BY <1>2, Constants
    <3> QED
      BY <3>1 DEF waits
  <2> QED
    BY <2>1, <2>2, <2>3 DEF work
<1>8. readings(m)' = readings(m) - 1 /\ readings(m) >= 1 /\ readings(m)' < CI_BATT
  BY <1>2, <1>3, <1>6, Constants DEF readings
<1>9. left(m)' <= left(m) /\ left(m)' \in Nat
  <2>0. /\ left(m) = remaining(0, batt_work(m), sleep, QLEN - Len(queue), ticks_due(m), m)
        /\ left(m)' = remaining(waits', batt_work(m)', sleep, QLEN - Len(queue), ticks_due(m), m)
    BY <1>2, <1>4, <1>7, Zenon DEF left
  <2>1. CASE CI_BATT <= cx_batt + 1 /\ busy' = CALL /\ failing' = FALSE /\ cx_batt' = 0
    <3>1. waits' = CALL
      BY <2>1, Zenon DEF waits
    <3>2. batt_work(m) = CALL /\ batt_work(m)' = 0
      BY <1>3, <1>8, <2>1, Constants DEF batt_work
    <3>3. /\ remaining(CALL, 0, sleep, QLEN - Len(queue), ticks_due(m), m)
               <= remaining(0, CALL, sleep, QLEN - Len(queue), ticks_due(m), m)
          /\ remaining(CALL, 0, sleep, QLEN - Len(queue), ticks_due(m), m) \in Nat
      BY <1>3, Constants, BatteryRead, RemainingType
    <3> QED
      BY <2>0, <3>1, <3>2, <3>3, Zenon
  <2>2. CASE CI_BATT <= cx_batt + 1 /\ busy' = GIVE_UP /\ failing' = TRUE /\ cx_batt' = CI_BATT
    <3>1. waits' = 0
      BY <2>2, Zenon DEF waits
    <3>2. batt_work(m) = CALL /\ batt_work(m)' = CALL
      BY <1>3, <1>8, <2>2, Constants DEF batt_work
    <3>3. left(m)' = left(m)
      BY <2>0, <3>1, <3>2, Zenon
    <3> QED
      BY <1>3, <3>3
  <2>3. CASE ~(CI_BATT <= cx_batt + 1) /\ cx_batt' = cx_batt + 1 /\ UNCHANGED <<busy, failing>>
    <3>1. waits' = 0
      BY <1>2, <2>3, Zenon DEF waits
    <3>2. batt_work(m)' = batt_work(m)
      BY <1>3, <1>8, <2>3, Constants DEF batt_work
    <3>3. left(m)' = left(m)
      BY <2>0, <3>1, <3>2, Zenon
    <3> QED
      BY <1>3, <3>3
  <2> QED
    BY <1>2, <2>1, <2>2, <2>3, Zenon
<1>10. pending(m)' => quiet' + left(m)' <= HEALTHY
  <2>1. \A x \in Nat, y \in Nat, z \in Nat, h \in Nat : x <= y /\ z + y <= h => z + x <= h
    OBVIOUS
  <2> QED
    BY <1>1, <1>3, <1>4, <1>5, <1>9, <2>1, HealthyType, Zenon
<1> QED
  BY <1>4, <1>10, DeadlineFrom, Zenon

\* Every millisecond that quiet counts is one of those left.
LEMMA ElapseDeadline == ASSUME WdtInv, Elapse, TypeOK', Handling' PROVE Deadline'
<1>0. TypeOK /\ Handling /\ Deadline
  BY DEF WdtInv
<1>1. PICK m \in 0..Len(queue) : LastJs(m) /\ (pending(m) => quiet + left(m) <= HEALTHY)
  BY <1>0, Zenon DEF Deadline
<1>2. /\ busy > 0 \/ (mpc = "recv" /\ queue = <<>>)
      /\ sleep > 0 \/ ~(Len(queue) < QLEN)
      /\ busy' = less(busy) /\ sleep' = less(sleep)
      /\ (mpc = "boot" \/ (failing /\ busy > 0)) => quiet' = 0
      /\ ~(mpc = "boot" \/ (failing /\ busy > 0)) => quiet' = later(quiet)
      /\ UNCHANGED <<queue, mpc, todo, cx_wdt, cx_batt, failing, fired>>
  BY Zenon DEF Elapse, has_room
<1>3. /\ Len(queue) \in Nat /\ m \in Nat /\ m <= Len(queue) /\ Len(queue) <= QLEN
      /\ QLEN - Len(queue) \in Nat /\ ticks_due(m) \in Int /\ batt_work(m) \in Nat /\ sleep \in Nat
      /\ work \in Nat /\ cx_wdt \in Nat /\ quiet \in Nat /\ left(m) \in Nat
  BY <1>0, PartTypes
<1>4. /\ m \in 0..Len(queue') /\ LastJs(m)' /\ pending(m)' = pending(m)
      /\ ticks_due(m)' = ticks_due(m) /\ batt_work(m)' = batt_work(m)
  BY <1>1, <1>2, Zenon DEF LastJs, pending, ticks_due, batt_work, readings
<1>5. busy \in Nat /\ todo \in Nat
  BY <1>0, Constants DEF TypeOK
<1>6. left(m)' = remaining(work', batt_work(m), sleep', QLEN - Len(queue), ticks_due(m), m)
  BY <1>2, <1>4, Zenon DEF left
<1>7. later(quiet) <= quiet + 1 /\ later(quiet) \in Nat
  <2> HIDE DEF CAP
  <2> QED
    BY <1>3, HealthyType DEF later
<1>8. ASSUME left(m)' + 1 <= left(m), left(m)' \in Nat, quiet' = later(quiet)
      PROVE  pending(m)' => quiet' + left(m)' <= HEALTHY
  <2>1. \A x \in Nat, y \in Nat, z \in Nat, z1 \in Nat, h \in Nat :
          x + 1 <= y /\ z1 <= z + 1 /\ z + y <= h => z1 + x <= h
    OBVIOUS
  <2> QED
    BY <1>1, <1>3, <1>4, <1>7, <1>8, <2>1, HealthyType, Zenon
<1>9. CASE mpc = "boot"
  <2>1. ~pending(m)'
    BY <1>2, <1>9, Zenon DEF pending
  <2> QED
    BY <1>4, <2>1, DeadlineFrom, Zenon
<1>10. CASE mpc # "boot" /\ failing /\ busy > 0
  <2>1. quiet' = 0 /\ mpc' # "boot"
    BY <1>2, <1>10, Zenon
  <2>2. quiet' + left(m)' <= HEALTHY
    BY <1>4, <2>1, Restarts, Zenon
  <2> QED
    BY <1>4, <2>2, DeadlineFrom, Zenon
<1>11. CASE mpc # "boot" /\ ~failing /\ busy > 0
  <2>1. quiet' = later(quiet)
    BY <1>2, <1>11, Zenon
  <2>2. waits = busy /\ waits' = busy'
    BY <1>2, <1>11, Zenon DEF waits
  <2>3. busy' = busy - 1
    BY <1>2, <1>5, <1>11 DEF less
  <2>4. work' = work - 1 /\ work >= 1 /\ work' \in Nat
    <3>1. todo * CALL \in Nat
      BY <1>5, Constants, Products
    <3> QED
      BY <1>2, <1>5, <1>11, <2>2, <2>3, <3>1 DEF work
  <2>5. PICK r \in Nat : r = QLEN - Len(queue)
    BY <1>3
  <2>6. sleep' \in Nat /\ ((sleep > 0 /\ sleep' = sleep - 1) \/ (sleep = 0 /\ sleep' = 0 /\ r = 0))
    BY <1>2, <1>3, <2>5, Constants DEF less
  <2>7. remaining(work', batt_work(m), sleep', r, ticks_due(m), m) + 1
          <= remaining(work, batt_work(m), sleep, r, ticks_due(m), m)
    BY <1>3, <2>4, <2>6, WorkPasses, Zenon
  <2>8. left(m)' + 1 <= left(m)
    BY <1>6, <2>4, <2>5, <2>7, Zenon DEF left
  <2>9. left(m)' \in Nat
    <3>1. remaining(work', batt_work(m), sleep', QLEN - Len(queue), ticks_due(m), m) \in Nat
      BY <1>3, <2>4, <2>6, RemainingType, Zenon
    <3> QED
      BY <1>6, <3>1, Zenon
  <2> QED
    BY <1>4, <1>8, <2>1, <2>8, <2>9, DeadlineFrom, Zenon
<1>12. CASE mpc # "boot" /\ ~(busy > 0)
  <2>1. quiet' = later(quiet) /\ mpc = "recv" /\ queue = <<>>
    BY <1>2, <1>12, Zenon
  <2>2. busy = 0 /\ busy' = 0 /\ Len(queue) = 0 /\ m = 0
    BY <1>2, <1>3, <1>5, <1>12, <2>1 DEF less
  <2>3. todo = 0 /\ cx_wdt < CI_WDT
    BY <1>0, <2>1 DEF Handling
  <2>4. work = 0 /\ work' = 0
    <3>1. waits = 0 /\ waits' = 0
      BY <2>2, Zenon DEF waits
    <3> QED
      BY <1>2, <2>3, <3>1, Constants DEF work
  <2>5. sleep > 0 /\ sleep' = sleep - 1 /\ sleep' \in Nat
    BY <1>2, <1>3, <2>2, Constants DEF less
  <2>6. ticks_due(m) >= 1
    BY <1>3, <2>2, <2>3, Constants DEF ticks_due
  <2>7. remaining(0, batt_work(m), sleep', QLEN - Len(queue), ticks_due(m), 0) + 1
          = remaining(0, batt_work(m), sleep, QLEN - Len(queue), ticks_due(m), 0)
    <3>1. PICK r \in Nat : r = QLEN - Len(queue)
      BY <1>3
    <3>2. PICK d \in Int : d = ticks_due(m)
      BY <1>3
    <3>3. remaining(0, batt_work(m), sleep - 1, r, d, 0) + 1 = remaining(0, batt_work(m), sleep, r, d, 0)
      BY <1>3, <2>5, <2>6, <3>2, SleepPasses
    <3> QED
      BY <2>5, <3>1, <3>2, <3>3, Zenon
  <2>8. left(m)' + 1 <= left(m)
    <3>1. left(m)' + 1 = left(m)
      BY <1>6, <2>2, <2>4, <2>7, Zenon DEF left
    <3> QED
      BY <1>3, <3>1
  <2>9. left(m)' \in Nat
    <3>1. 0 \in Nat
      OBVIOUS
    <3>2. remaining(0, batt_work(m), sleep', QLEN - Len(queue), ticks_due(m), m) \in Nat
      BY <1>3, <2>5, <3>1, RemainingType, Zenon
    <3> QED
      BY <1>6, <2>4, <3>2, Zenon
  <2> QED
    BY <1>4, <1>8, <2>1, <2>8, <2>9, DeadlineFrom, Zenon
<1> QED
  BY <1>9, <1>10, <1>11, <1>12, Zenon

LEMMA StutterDeadline == ASSUME WdtInv, UNCHANGED vars PROVE Deadline'
<1>1. /\ UNCHANGED <<queue, sleep, mpc, todo, busy, cx_wdt, cx_batt>>
      /\ UNCHANGED <<silent, quiet, failing, fired>>
  BY Zenon DEF vars, main, history
<1>2. PICK m \in 0..Len(queue) : LastJs(m) /\ (pending(m) => quiet + left(m) <= HEALTHY)
  BY Zenon DEF WdtInv, Deadline
<1>3. m \in 0..Len(queue') /\ LastJs(m)' /\ pending(m)' = pending(m) /\ quiet' = quiet
  BY <1>1, <1>2, Zenon DEF LastJs, pending
<1>4. ticks_due(m)' = ticks_due(m) /\ batt_work(m)' = batt_work(m) /\ work' = work
  BY <1>1, Zenon DEF ticks_due, batt_work, readings, work, waits
<1>5. left(m)' = left(m)
  BY <1>1, <1>4, Zenon DEF left
<1> QED
  BY <1>2, <1>3, <1>5, DeadlineFrom, Zenon

LEMMA WdtStep == ASSUME WdtInv, [Next]_vars PROVE WdtInv'
<1>1. TypeOK' /\ Handling'
  BY HandlingStep DEF WdtInv
<1>2. Deadline'
  <2>1. CASE TimerSends
    BY <2>1, TimerSendsDeadline
  <2>2. CASE SendJs
    BY <1>1, <2>2, SendJsDeadline
  <2>3. CASE handle_js
    BY <2>3, HandleJsDeadline
  <2>4. CASE handle_timer
    BY <2>4, HandleTimerDeadline
  <2>5. CASE MainCall
    BY <2>5, MainCallDeadline
  <2>6. CASE HandlerDone
    BY <1>1, <2>6, HandlerDoneDeadline
  <2>7. CASE WdtReset
    BY <2>7, WdtResetDeadline
  <2>8. CASE Battery
    BY <2>8, BatteryDeadline
  <2>9. CASE Elapse
    BY <1>1, <2>9, ElapseDeadline
  <2>10. CASE UNCHANGED vars
    BY <2>10, StutterDeadline
  <2> QED
    BY <2>1, <2>2, <2>3, <2>4, <2>5, <2>6, <2>7, <2>8, <2>9, <2>10, Zenon DEF Next, Main
<1> QED
  BY <1>1, <1>2 DEF WdtInv

\* A watchdog that has not fired had the time to: quiet has not passed HEALTHY.
LEMMA InvFires == WdtInv => WatchdogFires
<1> SUFFICES ASSUME WdtInv, quiet > HEALTHY, ~fired PROVE FALSE
  BY Zenon DEF WatchdogFires
<1>1. PICK m \in 0..Len(queue) : LastJs(m) /\ (pending(m) => quiet + left(m) <= HEALTHY)
  BY Zenon DEF WdtInv, Deadline
<1>2. quiet \in Nat /\ left(m) \in Nat /\ HEALTHY \in Nat
  BY PartTypes, HealthyType DEF WdtInv
<1> HIDE DEF HEALTHY
<1>3. mpc # "boot"
  BY <1>2 DEF WdtInv, Handling
<1>4. quiet + left(m) <= HEALTHY
  BY <1>1, <1>3, Zenon DEF pending
<1> QED
  BY <1>2, <1>4

-----------------------------------------------------------------------------
(* The theorems.                                                             *)

\* The two threads of app.cpp keep the deadline: the work ahead of the main thread
\* and the sleeps of the timer that do not pass meanwhile always fit into HEALTHY.
THEOREM WatchdogInvariant == Spec => []WdtInv
BY InitWdt, WdtStep, PTL DEF Spec

\* The counters of handle_timer and the queue of ticks stay within their ranges.
THEOREM WatchdogTypeCorrect == Spec => []TypeOK
<1>1. WdtInv => TypeOK
  BY DEF WdtInv
<1> QED
  BY <1>1, WatchdogInvariant, PTL

\* Whatever the queue held and however long calls failed before, once nobody sends
\* positions and the slave answers the watchdog of handle_timer fires within HEALTHY,
\* for every queue length, interval, period and call time of TimeAssumption.
THEOREM WatchdogAlwaysFires == Spec => []WatchdogFires
BY InvFires, WatchdogInvariant, PTL
=============================================================================
