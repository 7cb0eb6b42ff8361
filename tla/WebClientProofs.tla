-------------------------- MODULE WebClientProofs ---------------------------
(***************************************************************************)
(* Proofs about WebClient, for every set of browsers, of stick positions   *)
(* and of scales, and all times with INTERVAL + DELAY < CI_WDT.  Each of   *)
(* the three properties bounds a time; its invariant says at every moment  *)
(* how much of that time can be gone, from where the positions are: still  *)
(* to be sampled, on their way, or handled wdt ticks ago.                  *)
(***************************************************************************)
EXTENDS WebClient, TLAPS

-----------------------------------------------------------------------------
(* The inductive invariant. *)

\* The youngest message.
Last(s) == s[Len(s)]
sampled(c) == INTERVAL - due[c]     \* ticks since the page's last sampling

\* Messages keep their order, so the first is the oldest.
Ordered ==
  \A c \in Clients : \A i \in 1..Len(net[c]) : \A j \in i..Len(net[c]) : net[c][j].age <= net[c][i].age

\* How long nobody can have been driving: not at all while a page is engaged, at
\* most since a page's last sampling while it has a position to send, since then
\* and a message's age while the message is on its way, and since then and wdt
\* while the motors run.
Silent ==
  /\ \A c \in Clients : engaged(c, js[c]) => idle = 0
  /\ \A c \in Clients : ws[c] \in {"connecting", "open"} /\ zero_count[c] = 0 => idle <= sampled(c)
  /\ \A c \in Clients : \A i \in 1..Len(net[c]) : idle <= INTERVAL + net[c][i].age
  /\ motors # Stop => idle <= INTERVAL + DELAY + wdt

driving(c) == ws[c] = "open" /\ both_nonzero(js[c])

\* While a stick is held, positions of other pages and other positions of its own
\* page are older than that.
Elder(c) ==
  \A d \in Clients : \A i \in 1..Len(net[d]) :
    d # c \/ net[d][i].js # js[c] => net[d][i].age >= held[c]

\* The time since the sampling before the oldest one on its way.
since(c) == IF net[c] = <<>> THEN sampled(c) ELSE net[c][1].age + INTERVAL

\* What that sampling sent has arrived and has reset wdt, if the stick was held by
\* then; when DELAY more has passed nothing else was handled after it.
Kept(c) ==
  driving(c) /\ held[c] > since(c) =>
    wdt <= since(c) /\ (held[c] > since(c) + DELAY => motors = js[c])

\* While a release is recent, it is still to be sampled, or its position is the
\* last on its way, or it has been handled.
Obeyed(c) ==
  /\ driven[c] => zero_count[c] = 0
  /\ released[c] # None =>
       /\ ws[c] = "open" /\ ~both_nonzero(js[c]) /\ others_silent(c)
       /\ zero_count[c] = 0 => released[c] <= sampled(c)
       /\ zero_count[c] # 0 /\ net[c] # <<>> =>
            Last(net[c]).js = js[c] /\ released[c] <= INTERVAL + Last(net[c]).age
       /\ zero_count[c] # 0 /\ net[c] = <<>> => motors \in {js[c], Stop}

Held == \A c \in Clients : Elder(c) /\ Kept(c)
Released == \A c \in Clients : Obeyed(c)

WebInv == TypeOK /\ Ordered /\ Silent /\ Held /\ Released

-----------------------------------------------------------------------------
(* Operators. *)

Msg == [js : Sticks, age : 0..DELAY]

LEMMA Times ==
  /\ INTERVAL \in Nat /\ INTERVAL > 0 /\ DELAY \in Nat /\ CI_WDT \in Nat /\ LOADS \in Nat
  /\ INTERVAL + DELAY < CI_WDT
  /\ IDLE_CAP \in Nat /\ IDLE_CAP = INTERVAL + DELAY + CI_WDT
  /\ HELD_CAP \in Nat /\ HELD_CAP = INTERVAL + 2 * DELAY + 1
  /\ RELEASED_CAP \in Nat /\ RELEASED_CAP = INTERVAL + DELAY + 1
BY TimeAssumption, StickAssumption DEF IDLE_CAP, HELD_CAP, RELEASED_CAP

LEMMA Later ==
  ASSUME NEW cap \in Nat, NEW n \in -1..cap
  PROVE  /\ later(n, cap) \in -1..cap /\ (n = None <=> later(n, cap) = None)
         /\ n >= 0 => later(n, cap) \in 0..cap
         /\ later(n, cap) <= n + 1 /\ later(n, cap) >= n
         /\ n = None \/ n = cap \/ later(n, cap) = n + 1
BY DEF later, None

\* A stick's position lies in the unit square, whatever the scale.
LEMMA SidesInRange ==
  ASSUME NEW x \in -100..100, NEW y \in -100..100, NEW scale \in 0..100
  PROVE  sides(x, y, scale) \in Sticks
<1>1. ASSUME NEW v \in Int PROVE turned(v) \in Int
  BY DEF turned
<1>2. ASSUME NEW n \in Int PROVE side(n, scale) \in -100..100
  <2>1. CASE n > 70 \/ n < -70
    BY <2>1 DEF side
  <2>2. CASE ~(n > 70) /\ ~(n < -70)
    <3>1. n * scale <= 70 * scale /\ (-70) * scale <= n * scale /\ n * scale \in Int
      BY <2>2
    <3>2. PICK p \in Int : p = n * scale /\ p <= 7000 /\ -7000 <= p
      BY <3>1
    <3>3. 2 * n * 100 * scale = 200 * p
      BY <3>2
    <3>4. (200 * p + 7071) \div (2 * 7071) \in -100..100
      BY <3>2
    <3> QED
      BY <2>2, <3>3, <3>4 DEF side
  <2> QED
    BY <2>1, <2>2
<1>3. x + y \in Int /\ y - x \in Int
  OBVIOUS
<1> QED
  BY <1>1, <1>2, <1>3 DEF sides, Sticks

LEMMA ClientType ==
  ASSUME TypeOK, NEW c \in Clients
  PROVE  /\ ws[c] \in {"none", "connecting", "open", "closed"} /\ js[c] \in Sticks
         /\ zero_count[c] \in 0..1 /\ due[c] \in 0..INTERVAL /\ sampled(c) \in 0..INTERVAL
         /\ net[c] \in Seq(Msg) /\ held[c] \in 0..HELD_CAP /\ driven[c] \in BOOLEAN
         /\ released[c] \in -1..RELEASED_CAP
         /\ \A i \in 1..Len(net[c]) : net[c][i] \in Msg /\ net[c][i].age \in 0..DELAY
         /\ Len(net[c]) \in Nat /\ (net[c] = <<>> <=> Len(net[c]) = 0)
<1>1. /\ ws[c] \in {"none", "connecting", "open", "closed"} /\ js[c] \in Sticks
      /\ zero_count[c] \in 0..1 /\ due[c] \in 0..INTERVAL
      /\ net[c] \in Seq(Msg) /\ held[c] \in 0..HELD_CAP /\ driven[c] \in BOOLEAN
      /\ released[c] \in -1..RELEASED_CAP
  BY DEF TypeOK, Msg, None
<1>2. sampled(c) \in 0..INTERVAL
  BY <1>1, Times DEF sampled
<1>3. \A i \in 1..Len(net[c]) : net[c][i] \in Msg
  BY <1>1
<1>4. \A m \in Msg : m.age \in 0..DELAY
  BY DEF Msg
<1>5. Len(net[c]) \in Nat /\ (net[c] = <<>> <=> Len(net[c]) = 0)
  BY <1>1
<1> QED
  BY <1>1, <1>2, <1>3, <1>4, <1>5

\* The types of the next state, one variable at a time.
LEMMA NextType ==
  ASSUME ws' \in [Clients -> {"none", "connecting", "open", "closed"}], js' \in [Clients -> Sticks],
         zero_count' \in [Clients -> 0..1], due' \in [Clients -> 0..INTERVAL],
         net' \in [Clients -> Seq(Msg)], motors' \in Sticks, wdt' \in 0..CI_WDT-1,
         loads' \in 0..LOADS, idle' \in 0..IDLE_CAP, held' \in [Clients -> 0..HELD_CAP],
         driven' \in [Clients -> BOOLEAN], released' \in [Clients -> -1..RELEASED_CAP]
  PROVE  TypeOK'
BY Zenon DEF TypeOK, Msg, None

LEMMA ThisType ==
  ASSUME TypeOK
  PROVE  /\ ws \in [Clients -> {"none", "connecting", "open", "closed"}] /\ js \in [Clients -> Sticks]
         /\ zero_count \in [Clients -> 0..1] /\ due \in [Clients -> 0..INTERVAL]
         /\ net \in [Clients -> Seq(Msg)] /\ motors \in Sticks /\ wdt \in 0..CI_WDT-1
         /\ loads \in 0..LOADS /\ idle \in 0..IDLE_CAP /\ held \in [Clients -> 0..HELD_CAP]
         /\ driven \in [Clients -> BOOLEAN] /\ released \in [Clients -> -1..RELEASED_CAP]
BY Zenon DEF TypeOK, Msg, None

LEMMA GlobalType ==
  ASSUME TypeOK
  PROVE  wdt \in Nat /\ wdt < CI_WDT /\ idle \in 0..IDLE_CAP /\ loads \in 0..LOADS
BY Times DEF TypeOK

-----------------------------------------------------------------------------
(* What is on its way. *)

LEMMA Prefix ==
  ASSUME NEW s \in Seq(Msg), NEW n \in 0..Len(s)
  PROVE  /\ SubSeq(s, 1, n) \in Seq(Msg) /\ Len(SubSeq(s, 1, n)) = n
         /\ \A i \in 1..n : SubSeq(s, 1, n)[i] = s[i]
OBVIOUS

LEMMA Rest ==
  ASSUME NEW s \in Seq(Msg), s # <<>>
  PROVE  /\ Tail(s) \in Seq(Msg) /\ Len(Tail(s)) = Len(s) - 1 /\ Len(s) \in Nat \ {0}
         /\ \A i \in 1..Len(s) - 1 : Tail(s)[i] = s[i + 1]
         /\ Head(s) = s[1] /\ s[1] \in Msg
OBVIOUS

LEMMA Appended ==
  ASSUME NEW s \in Seq(Msg), NEW m \in Msg
  PROVE  /\ Append(s, m) \in Seq(Msg) /\ Len(Append(s, m)) = Len(s) + 1 /\ Len(s) \in Nat
         /\ \A i \in 1..Len(s) : Append(s, m)[i] = s[i]
         /\ Append(s, m)[Len(s) + 1] = m /\ Append(s, m) # <<>>
OBVIOUS

LEMMA Aged ==
  ASSUME NEW s \in Seq(Msg), \A i \in 1..Len(s) : s[i].age < DELAY
  PROVE  /\ aged(s) \in Seq(Msg) /\ Len(aged(s)) = Len(s) /\ (aged(s) = <<>> <=> s = <<>>)
         /\ \A i \in 1..Len(s) : aged(s)[i].age = s[i].age + 1 /\ aged(s)[i].js = s[i].js
<1>1. DOMAIN s = 1..Len(s) /\ Len(s) \in Nat /\ \A i \in 1..Len(s) : s[i] \in Msg
  OBVIOUS
<1>2. ASSUME NEW i \in 1..Len(s)
      PROVE  /\ aged(s)[i] \in Msg
             /\ aged(s)[i].age = s[i].age + 1 /\ aged(s)[i].js = s[i].js
  <2>1. aged(s)[i] = [js |-> s[i].js, age |-> s[i].age + 1]
    BY <1>1 DEF aged
  <2>2. ASSUME NEW m \in Msg, m.age < DELAY
        PROVE  /\ [js |-> m.js, age |-> m.age + 1] \in Msg
               /\ [js |-> m.js, age |-> m.age + 1].age = m.age + 1 /\ [js |-> m.js, age |-> m.age + 1].js = m.js
    BY <2>2, Times DEF Msg
  <2> QED
    BY <1>1, <2>1, <2>2
<1>3. aged(s) \in [1..Len(s) -> Msg]
  BY <1>1, <1>2 DEF aged
<1>4. aged(s) \in Seq(Msg) /\ Len(aged(s)) = Len(s)
  BY <1>1, <1>3
<1> QED
  BY <1>1, <1>2, <1>4

-----------------------------------------------------------------------------
(* The steps.  First what a step of one page leaves alone in another. *)

\* The state of page c, and the motors, are as they were.
Apart(c) ==
  /\ ws'[c] = ws[c] /\ js'[c] = js[c] /\ zero_count'[c] = zero_count[c] /\ due'[c] = due[c]
  /\ net'[c] = net[c] /\ held'[c] = held[c] /\ driven'[c] = driven[c]
  /\ released'[c] = released[c] /\ motors' = motors /\ wdt' = wdt

LEMMA ApartKept ==
  ASSUME NEW c \in Clients, Apart(c), Kept(c)
  PROVE  Kept(c)'
BY DEF Apart, Kept, driving, since, sampled

LEMMA ApartObeyed ==
  ASSUME NEW c \in Clients, Apart(c), Obeyed(c), others_silent(c) => others_silent(c)'
  PROVE  Obeyed(c)'
<1>1. Last(net[c])' = Last(net[c]) /\ sampled(c)' = sampled(c)
  BY DEF Apart, Last, sampled
<1> QED
  BY <1>1 DEF Apart, Obeyed

\* A page whose stick has just moved, or whose connection has just changed.
LEMMA JustMoved ==
  ASSUME TypeOK', NEW c \in Clients, held'[c] = 0
  PROVE  Elder(c)' /\ Kept(c)'
<1>1. ASSUME NEW d \in Clients
      PROVE  /\ \A i \in 1..Len(net'[d]) : net'[d][i].age \in 0..DELAY
             /\ Len(net'[d]) \in Nat /\ (net'[d] = <<>> <=> Len(net'[d]) = 0)
  <2>1. net'[d] \in Seq(Msg)
    BY DEF TypeOK, Msg
  <2>2. \A m \in Msg : m.age \in 0..DELAY
    BY DEF Msg
  <2> QED
    BY <2>1, <2>2
<1>2. sampled(c)' \in 0..INTERVAL /\ (net'[c] # <<>> => net'[c][1].age \in 0..DELAY)
  <2>1. due'[c] \in 0..INTERVAL
    BY DEF TypeOK
  <2> QED
    BY <1>1, <2>1, Times DEF sampled
<1>3. since(c)' >= 0
  BY <1>2, Times DEF since
<1>4. Elder(c)'
  BY <1>1, Times DEF Elder
<1> QED
  BY <1>2, <1>3, <1>4, Times DEF Kept, since

LEMMA LoadStep ==
  ASSUME WebInv, NEW x \in Clients, Load(x)
  PROVE  WebInv'
<1> USE DEF WebInv
<1>1. TypeOK'
  <2>1. Stop \in Sticks
    BY DEF Stop, Sticks
  <2> QED
    BY SMTT(30), <2>1, Times, ThisType, NextType DEF Load, None
<1>2. Ordered'
  BY DEF Load, Ordered
<1>3. Silent'
  <2>1. \A c \in Clients : \A i \in 1..Len(net[c]) : net[c][i].age \in 0..DELAY
    BY ClientType
  <2>2. \A c \in Clients : sampled(c)' \in 0..INTERVAL
    <3>1. due' \in [Clients -> 0..INTERVAL]
      BY <1>1 DEF TypeOK
    <3> QED
      BY <3>1, Times DEF sampled
  <2>3. idle' = 0 /\ net' = net /\ wdt' = wdt
    BY DEF Load
  <2> QED
    <3>1. ASSUME NEW c \in Clients, NEW i \in 1..Len(net'[c])
          PROVE  idle' <= INTERVAL + net'[c][i].age
      <4>1. net'[c][i].age \in 0..DELAY
        BY <2>1, <2>3
      <4>2. \A a \in 0..DELAY : 0 <= INTERVAL + a
        BY Times
      <4> QED
        BY <2>3, <4>1, <4>2
    <3>2. idle' <= INTERVAL + DELAY + wdt'
      BY <2>3, Times, GlobalType
    <3>3. \A c \in Clients : idle' <= sampled(c)'
      BY <2>2, <2>3, Times
    <3> QED
      BY <2>3, <3>1, <3>2, <3>3 DEF Silent
<1>4. Held'
  <2> SUFFICES ASSUME NEW c \in Clients PROVE Elder(c)' /\ Kept(c)'
    BY DEF Held
  <2>1. CASE c = x
    BY <1>1, <2>1, JustMoved DEF Load, TypeOK
  <2>2. CASE c # x
    <3>1. Apart(c) /\ net' = net
      BY <2>2 DEF Load, Apart, TypeOK
    <3>2. Elder(c) /\ Kept(c)
      BY DEF Held
    <3> QED
      BY <3>1, <3>2, ApartKept DEF Elder, Apart
  <2> QED
    BY <2>1, <2>2
<1>5. Released'
  <2> SUFFICES ASSUME NEW c \in Clients PROVE Obeyed(c)'
    BY DEF Released
  <2>1. CASE c = x
    BY <2>1 DEF Load, TypeOK, Obeyed
  <2>2. CASE c # x
    <3>1. Apart(c) /\ net' = net
      BY <2>2 DEF Load, Apart, TypeOK
    <3>2. others_silent(c) => others_silent(c)'
      BY <3>1 DEF others_silent
    <3> QED
      BY <3>1, <3>2, ApartObeyed DEF Released
  <2> QED
    BY <2>1, <2>2
<1> QED
  BY <1>1, <1>2, <1>3, <1>4, <1>5

LEMMA ConnectStep ==
  ASSUME WebInv, NEW x \in Clients, Connect(x)
  PROVE  WebInv'
<1> USE DEF WebInv
<1>1. TypeOK'
  BY SMTT(30), Times, ThisType, NextType DEF Connect, None
<1>2. Ordered'
  BY DEF Connect, Ordered
<1>3. Silent'
  <2>1. \A c \in Clients : ws'[c] \in {"connecting", "open"} => ws[c] \in {"connecting", "open"}
    BY DEF Connect, TypeOK
  <2>2. \A c \in Clients : sampled(c)' = sampled(c)
    BY DEF Connect, sampled
  <2> QED
    BY <2>1, <2>2 DEF Silent, Connect, engaged
<1>4. Held'
  <2> SUFFICES ASSUME NEW c \in Clients PROVE Elder(c)' /\ Kept(c)'
    BY DEF Held
  <2>1. CASE c = x
    BY <1>1, <2>1, JustMoved DEF Connect, TypeOK
  <2>2. CASE c # x
    <3>1. Apart(c) /\ net' = net
      BY <2>2 DEF Connect, Apart, TypeOK
    <3>2. Elder(c) /\ Kept(c)
      BY DEF Held
    <3> QED
      BY <3>1, <3>2, ApartKept DEF Elder, Apart
  <2> QED
    BY <2>1, <2>2
<1>5. Released'
  <2> SUFFICES ASSUME NEW c \in Clients PROVE Obeyed(c)'
    BY DEF Released
  <2>1. CASE c = x
    BY <2>1 DEF Connect, TypeOK, Obeyed, Released
  <2>2. CASE c # x
    <3>1. Apart(c) /\ net' = net
      BY <2>2 DEF Connect, Apart, TypeOK
    <3>2. others_silent(c) => others_silent(c)'
      BY <3>1 DEF others_silent
    <3> QED
      BY <3>1, <3>2, ApartObeyed DEF Released
  <2> QED
    BY <2>1, <2>2
<1> QED
  BY <1>1, <1>2, <1>3, <1>4, <1>5

LEMMA BreakStep ==
  ASSUME WebInv, NEW x \in Clients, Break(x)
  PROVE  WebInv'
<1> USE DEF WebInv
<1>0. net[x] \in Seq(Msg) /\ Len(net[x]) \in Nat
  BY ClientType
<1>a. PICK n \in 0..Len(net[x]) : net' = [net EXCEPT ![x] = SubSeq(@, 1, n)]
  BY DEF Break
<1>b. net' = [net EXCEPT ![x] = SubSeq(net[x], 1, n)] /\ SubSeq(net[x], 1, n) \in Seq(Msg)
  BY <1>0, <1>a, Prefix
<1>c. ASSUME NEW d \in Clients
      PROVE  /\ Len(net'[d]) \in 0..Len(net[d]) /\ (d # x => net'[d] = net[d])
             /\ \A i \in 1..Len(net'[d]) : net'[d][i] = net[d][i]
  <2>1. net[d] \in Seq(Msg) /\ Len(net[d]) \in Nat
    BY ClientType
  <2> QED
    BY SMTT(30), <1>0, <1>b, <2>1, Prefix DEF TypeOK
<1>1. TypeOK'
  <2>1. net' \in [Clients -> Seq(Msg)]
    BY <1>b DEF TypeOK, Msg
  <2>2. ws' \in [Clients -> {"none", "connecting", "open", "closed"}]
    BY DEF TypeOK, Break
  <2> QED
    <3>1. held' \in [Clients -> 0..HELD_CAP] /\ released' \in [Clients -> -1..RELEASED_CAP]
      BY SMTT(30), Times, ThisType DEF Break, None
    <3>2. /\ js' = js /\ zero_count' = zero_count /\ due' = due /\ motors' = motors /\ wdt' = wdt
          /\ loads' = loads /\ idle' = idle /\ driven' = driven
      BY DEF Break
    <3> QED
      BY <2>1, <2>2, <3>1, <3>2, ThisType, NextType
<1>2. Ordered'
  <2> SUFFICES ASSUME NEW c \in Clients, NEW i \in 1..Len(net'[c]), NEW j \in i..Len(net'[c])
               PROVE  net'[c][j].age <= net'[c][i].age
    BY DEF Ordered
  <2>1. i \in 1..Len(net[c]) /\ j \in i..Len(net[c]) /\ j \in 1..Len(net'[c])
    BY <1>c, ClientType
  <2> QED
    BY <1>c, <2>1 DEF Ordered
<1>3. Silent'
  <2>1. \A c \in Clients : ws'[c] \in {"connecting", "open"} => ws[c] \in {"connecting", "open"}
    BY DEF Break, TypeOK
  <2>2. \A c \in Clients : sampled(c)' = sampled(c)
    BY DEF Break, sampled
  <2>3. \A c \in Clients : \A i \in 1..Len(net'[c]) : i \in 1..Len(net[c])
    BY <1>c, ClientType
  <2> QED
    BY <1>c, <2>1, <2>2, <2>3 DEF Silent, Break, engaged
<1>4. Held'
  <2> SUFFICES ASSUME NEW c \in Clients PROVE Elder(c)' /\ Kept(c)'
    BY DEF Held
  <2>1. CASE c = x
    BY <1>1, <2>1, JustMoved DEF Break, TypeOK
  <2>2. CASE c # x
    <3>1. Apart(c)
      BY <1>c, <2>2 DEF Break, Apart, TypeOK
    <3>2. Elder(c) /\ Kept(c)
      BY DEF Held
    <3>3. \A d \in Clients : \A i \in 1..Len(net'[d]) : i \in 1..Len(net[d])
      BY <1>c, ClientType
    <3> QED
      BY <1>c, <3>1, <3>2, <3>3, ApartKept DEF Elder, Apart
  <2> QED
    BY <2>1, <2>2
<1>5. Released'
  <2> SUFFICES ASSUME NEW c \in Clients PROVE Obeyed(c)'
    BY DEF Released
  <2>1. CASE c = x
    BY <2>1 DEF Break, TypeOK, Obeyed, Released
  <2>2. CASE c # x
    <3>1. Apart(c)
      BY <1>c, <2>2 DEF Break, Apart, TypeOK
    <3>2. ASSUME NEW d \in Clients, net[d] = <<>> PROVE net'[d] = <<>>
      <4>1. net'[d] \in Seq(Msg) /\ Len(net'[d]) \in 0..0
        BY <1>1, <1>c, <3>2 DEF TypeOK, Msg
      <4> QED
        BY <4>1
    <3>3. others_silent(c) => others_silent(c)'
      BY <3>2 DEF others_silent
    <3> QED
      BY <3>1, <3>3, ApartObeyed DEF Released
  <2> QED
    BY <2>1, <2>2
<1> QED
  BY <1>1, <1>2, <1>3, <1>4, <1>5

LEMMA JoyStickStep ==
  ASSUME WebInv, NEW x \in Clients, JoyStick(x)
  PROVE  WebInv'
<1> USE DEF WebInv
<1>a. PICK p \in Sticks :
        /\ js' = [js EXCEPT ![x] = p]
        /\ idle' = IF engaged(x, p) THEN 0 ELSE idle
        /\ released' = [released EXCEPT ![x] =
             IF ~both_nonzero(p) /\ driven[x] /\ ws[x] = "open" /\ others_silent(x) THEN 0 ELSE None]
  <2>1. \A xy \in Positions, scale \in Scales : sides(xy[1], xy[2], scale) \in Sticks
    <3>1. \A xy \in Positions : xy[1] \in -100..100 /\ xy[2] \in -100..100
      BY StickAssumption
    <3>2. \A scale \in Scales : scale \in 0..100
      BY StickAssumption
    <3> QED
      BY <3>1, <3>2, SidesInRange
  <2> QED
    BY <2>1 DEF JoyStick
<1>b. /\ held' = [held EXCEPT ![x] = 0] /\ ws' = ws /\ zero_count' = zero_count /\ due' = due
      /\ net' = net /\ motors' = motors /\ wdt' = wdt /\ loads' = loads /\ driven' = driven
  BY DEF JoyStick
<1>c. idle' \in {0, idle} /\ idle \in 0..IDLE_CAP
  BY <1>a, GlobalType
<1>1. TypeOK'
  <2>1. js' \in [Clients -> Sticks] /\ idle' \in 0..IDLE_CAP
    BY <1>a, <1>c, Times, ThisType
  <2>2. held' \in [Clients -> 0..HELD_CAP] /\ released' \in [Clients -> -1..RELEASED_CAP]
    BY <1>a, <1>b, Times, ThisType DEF None
  <2> QED
    BY <1>b, <2>1, <2>2, ThisType, NextType
<1>2. Ordered'
  BY <1>b DEF Ordered
<1>3. Silent'
  <2>1. ASSUME NEW n \in Int, idle <= n, n >= 0 PROVE idle' <= n
    BY <1>c, <2>1, Times
  <2>2. ASSUME NEW c \in Clients, engaged(c, js[c])' PROVE idle' = 0
    <3>1. CASE c = x
      BY <1>a, <1>b, <2>2, <3>1, ThisType DEF engaged
    <3>2. CASE c # x
      <4>1. engaged(c, js[c])
        BY <1>a, <1>b, <2>2, <3>2, ThisType DEF engaged
      <4> QED
        BY <1>c, <4>1 DEF Silent
    <3> QED
      BY <3>1, <3>2
  <2>3. ASSUME NEW c \in Clients, ws'[c] \in {"connecting", "open"}, zero_count'[c] = 0
        PROVE  idle' <= sampled(c)'
    <3>1. sampled(c)' = sampled(c) /\ sampled(c) \in Int /\ sampled(c) >= 0
      BY <1>b, Times, ClientType DEF sampled
    <3> QED
      BY <1>b, <2>1, <2>3, <3>1 DEF Silent
  <2>4. ASSUME NEW c \in Clients, NEW i \in 1..Len(net'[c]) PROVE idle' <= INTERVAL + net'[c][i].age
    <3>1. net[c][i].age \in 0..DELAY /\ idle <= INTERVAL + net[c][i].age
      BY <1>b, ClientType DEF Silent
    <3>2. \A a \in 0..DELAY : INTERVAL + a \in Int /\ INTERVAL + a >= 0
      BY Times
    <3> QED
      BY <1>b, <2>1, <3>1, <3>2
  <2>5. motors' # Stop => idle' <= INTERVAL + DELAY + wdt'
    <3>1. INTERVAL + DELAY + wdt \in Int /\ INTERVAL + DELAY + wdt >= 0
      BY Times, GlobalType
    <3> QED
      BY <1>b, <2>1, <3>1 DEF Silent
  <2> QED
    BY <2>2, <2>3, <2>4, <2>5 DEF Silent
<1>4. Held'
  <2> SUFFICES ASSUME NEW c \in Clients PROVE Elder(c)' /\ Kept(c)'
    BY DEF Held
  <2>1. CASE c = x
    BY <1>1, <1>b, <2>1, JustMoved, ThisType
  <2>2. CASE c # x
    <3>1. Apart(c)
      BY <1>a, <1>b, <2>2, ThisType DEF Apart
    <3>2. Elder(c) /\ Kept(c)
      BY DEF Held
    <3> QED
      BY <1>b, <3>1, <3>2, ApartKept DEF Elder, Apart
  <2> QED
    BY <2>1, <2>2
<1>5. Released'
  <2> SUFFICES ASSUME NEW c \in Clients PROVE Obeyed(c)'
    BY DEF Released
  <2>0. Obeyed(c)
    BY DEF Released
  <2>1. CASE c = x
    <3>1. CASE released'[c] = None
      BY <1>b, <2>0, <2>1, <3>1 DEF Obeyed
    <3>2. CASE released'[c] # None
      <4>1. /\ released'[c] = 0 /\ js'[c] = p /\ ~both_nonzero(p)
            /\ driven[c] /\ ws[c] = "open" /\ others_silent(c)
        BY <1>a, <2>1, <3>2, ThisType
      <4>2. zero_count[c] = 0
        BY <2>0, <4>1 DEF Obeyed
      <4>3. sampled(c)' >= 0
        BY <1>b, Times, ClientType DEF sampled
      <4>4. others_silent(c)'
        BY <1>b, <4>1 DEF others_silent
      <4> QED
        BY <1>b, <4>1, <4>2, <4>3, <4>4 DEF Obeyed
    <3> QED
      BY <3>1, <3>2
  <2>2. CASE c # x
    <3>1. Apart(c)
      BY <1>a, <1>b, <2>2, ThisType DEF Apart
    <3>2. others_silent(c) => others_silent(c)'
      BY <1>b DEF others_silent
    <3> QED
      BY <2>0, <3>1, <3>2, ApartObeyed
  <2> QED
    BY <2>1, <2>2
<1> QED
  BY <1>1, <1>2, <1>3, <1>4, <1>5

LEMMA HandleStep ==
  ASSUME WebInv, NEW x \in Clients, handle_js(x)
  PROVE  WebInv'
<1> USE DEF WebInv
<1>a. /\ net[x] # <<>> /\ motors' = Head(net[x]).js /\ wdt' = 0
      /\ net' = [net EXCEPT ![x] = Tail(net[x])]
      /\ ws' = ws /\ js' = js /\ zero_count' = zero_count /\ due' = due /\ loads' = loads
      /\ idle' = idle /\ held' = held /\ driven' = driven /\ released' = released
  BY DEF handle_js, history
<1>b. /\ net[x] \in Seq(Msg) /\ Head(net[x]) = net[x][1] /\ net[x][1] \in Msg
      /\ Len(net[x]) \in Nat \ {0} /\ Tail(net[x]) \in Seq(Msg)
      /\ Len(Tail(net[x])) = Len(net[x]) - 1
      /\ \A i \in 1..Len(net[x]) - 1 : Tail(net[x])[i] = net[x][i + 1]
  BY <1>a, Rest, ClientType
<1>c. net'[x] = Tail(net[x]) /\ \A d \in Clients : d # x => net'[d] = net[d]
  BY <1>a, ThisType
<1>d. net[x][1].age \in 0..DELAY /\ net[x][1].js \in Sticks
  BY <1>b DEF Msg
<1>e. \A i \in 1..Len(net'[x]) : i + 1 \in 1..Len(net[x]) /\ net'[x][i] = net[x][i + 1]
  BY <1>b, <1>c
<1>g. PICK n \in Nat : Len(net[x]) = n + 1 /\ Len(net'[x]) = n /\ (net'[x] = <<>> <=> n = 0)
  <2>1. Len(net[x]) \in Nat \ {0} /\ Len(net'[x]) = Len(net[x]) - 1
    BY <1>b, <1>c
  <2>2. net'[x] \in Seq(Msg)
    BY <1>b, <1>c
  <2>3. net'[x] = <<>> <=> Len(net'[x]) = 0
    BY <2>2
  <2>4. \A k \in Nat \ {0} : k - 1 \in Nat /\ k = (k - 1) + 1
    OBVIOUS
  <2> QED
    BY <2>1, <2>3, <2>4
<1>f. Kept(x)'
  <2>1. sampled(x)' \in 0..INTERVAL
    BY <1>a, ClientType DEF sampled
  <2>2. since(x)' \in Nat
    <3>1. ASSUME net'[x] # <<>> PROVE net'[x][1].age \in 0..DELAY
      <4>1. 1 \in 1..Len(net'[x])
        BY <1>b, <1>c, <3>1
      <4> QED
        BY <1>e, <4>1, ClientType
    <3>2. \A a \in 0..DELAY : a + INTERVAL \in Nat
      BY Times
    <3> QED
      BY <2>1, <3>1, <3>2, Times DEF since
  <2>3. ASSUME held[x] > since(x)' + DELAY PROVE net[x][1].js = js[x]
    <3>1. Elder(x) /\ 1 \in 1..Len(net[x])
      BY <1>b DEF Held
    <3>2. net[x][1].js # js[x] => net[x][1].age >= held[x]
      BY <3>1 DEF Elder
    <3>3. \A a \in 0..DELAY, h \in 0..HELD_CAP, s \in Nat : h > s + DELAY => ~(a >= h)
      BY Times
    <3> QED
      BY <1>d, <2>2, <2>3, <3>2, <3>3, ClientType
  <2> QED
    BY <1>a, <1>b, <2>2, <2>3 DEF Kept
<1>1. TypeOK'
  <2>1. net' \in [Clients -> Seq(Msg)]
    BY <1>a, <1>b, ThisType
  <2>2. wdt' \in 0..CI_WDT-1 /\ motors' \in Sticks
    BY <1>a, <1>b, <1>d, Times
  <2> QED
    BY <1>a, <2>1, <2>2, ThisType, NextType
<1>2. Ordered'
  <2> SUFFICES ASSUME NEW c \in Clients, NEW i \in 1..Len(net'[c]), NEW j \in i..Len(net'[c])
               PROVE  net'[c][j].age <= net'[c][i].age
    BY DEF Ordered
  <2>1. CASE c = x
    <3>1. i \in 1..n /\ j \in i..n
      BY <1>g, <2>1
    <3>2. j \in 1..n /\ i + 1 \in 1..(n + 1) /\ j + 1 \in (i + 1)..(n + 1)
      BY <3>1
    <3> QED
      BY <1>e, <1>g, <2>1, <3>1, <3>2 DEF Ordered
  <2>2. CASE c # x
    BY <1>c, <2>2 DEF Ordered
  <2> QED
    BY <2>1, <2>2
<1>3. Silent'
  <2>1. ASSUME NEW c \in Clients, NEW i \in 1..Len(net'[c]) PROVE idle' <= INTERVAL + net'[c][i].age
    BY <1>a, <1>c, <1>e DEF Silent
  <2>2. idle' <= INTERVAL + DELAY + wdt'
    <3>1. idle <= INTERVAL + net[x][1].age
      BY <1>b DEF Silent
    <3>2. \A a \in 0..DELAY, t \in 0..IDLE_CAP : t <= INTERVAL + a => t <= INTERVAL + DELAY + 0
      BY Times
    <3> QED
      BY <1>a, <1>d, <3>1, <3>2, GlobalType
  <2>3. \A c \in Clients : sampled(c)' = sampled(c) /\ (engaged(c, js[c])' <=> engaged(c, js[c]))
    BY <1>a DEF sampled, engaged
  <2> QED
    BY <1>a, <2>1, <2>2, <2>3 DEF Silent
<1>4. Held'
  <2> SUFFICES ASSUME NEW c \in Clients PROVE Elder(c)' /\ Kept(c)'
    BY DEF Held
  <2>0. Elder(c) /\ Kept(c)
    BY DEF Held
  <2>1. Elder(c)'
    <3> SUFFICES ASSUME NEW d \in Clients, NEW i \in 1..Len(net'[d]), d # c \/ net'[d][i].js # js'[c]
                 PROVE  net'[d][i].age >= held'[c]
      BY DEF Elder
    <3>1. CASE d = x
      BY SMTT(30), <1>a, <1>e, <2>0, <3>1 DEF Elder
    <3>2. CASE d # x
      BY <1>a, <1>c, <2>0, <3>2 DEF Elder
    <3> QED
      BY <3>1, <3>2
  <2>2. CASE c # x
    <3>1. since(c)' = since(c) /\ (driving(c)' <=> driving(c))
      BY <1>a, <1>c, <2>2 DEF since, sampled, driving
    <3>2. since(c) \in Nat
      <4>1. net[c] # <<>> => net[c][1].age \in 0..DELAY
        <5>1. net[c] # <<>> => 1 \in 1..Len(net[c])
          BY ClientType
        <5> QED
          BY <5>1, ClientType
      <4>2. \A a \in 0..DELAY : a + INTERVAL \in Nat
        BY Times
      <4> QED
        BY <4>1, <4>2, Times, ClientType DEF since
    <3>3. ~(held[c] > since(c) + DELAY)
      <4>1. net[x][1].age >= held[c] /\ held[c] \in 0..HELD_CAP
        BY <1>b, <2>0, <2>2, ClientType DEF Elder
      <4>2. \A a \in 0..DELAY, h \in 0..HELD_CAP, s \in Nat : a >= h => ~(h > s + DELAY)
        BY Times
      <4> QED
        BY <1>d, <3>2, <4>1, <4>2
    <3> QED
      BY <1>a, <2>1, <3>1, <3>2, <3>3 DEF Kept
  <2> QED
    BY <1>f, <2>1, <2>2
<1>5. Released'
  <2> SUFFICES ASSUME NEW c \in Clients PROVE Obeyed(c)'
    BY DEF Released
  <2>0. Obeyed(c)
    BY DEF Released
  <2>1. CASE released[c] = None
    BY <1>a, <2>0, <2>1 DEF Obeyed
  <2>2. CASE released[c] # None
    <3>1. c = x
      BY <1>a, <2>0, <2>2 DEF Obeyed, others_silent
    <3>2. others_silent(c)' /\ sampled(c)' = sampled(c)
      BY <1>a, <1>c, <2>0, <2>2, <3>1 DEF Obeyed, others_silent, sampled
    <3>3. CASE n = 0
      <4>1. Last(net[x]) = net[x][1] /\ net'[x] = <<>>
        BY <1>g, <3>3 DEF Last
      <4> QED
        BY <1>a, <1>b, <2>0, <2>2, <3>1, <3>2, <4>1 DEF Obeyed
    <3>4. CASE n # 0
      <4>1. n \in 1..n /\ net'[x] # <<>>
        BY <1>g, <3>4
      <4>2. Last(net[x])' = Last(net[x])
        BY <1>e, <1>g, <4>1 DEF Last
      <4> QED
        BY <1>a, <2>0, <2>2, <3>1, <3>2, <4>1, <4>2 DEF Obeyed
    <3> QED
      BY <3>3, <3>4
  <2> QED
    BY <2>1, <2>2
<1> QED
  BY <1>1, <1>2, <1>3, <1>4, <1>5

LEMMA SinceType ==
  ASSUME TypeOK, NEW c \in Clients
  PROVE  since(c) \in Nat
<1>1. net[c] # <<>> => 1 \in 1..Len(net[c])
  BY ClientType
<1>2. net[c] # <<>> => net[c][1].age \in 0..DELAY
  BY <1>1, ClientType
<1>3. \A a \in 0..DELAY : a + INTERVAL \in Nat
  BY Times
<1>4. sampled(c) \in Nat
  <2>1. sampled(c) \in 0..INTERVAL
    BY ClientType
  <2> QED
    BY <2>1, Times
<1>5. net[c] # <<>> => net[c][1].age + INTERVAL \in Nat
  BY <1>2, <1>3, Zenon
<1> QED
  BY <1>4, <1>5, Zenon DEF since

\* A sampling that sends nothing.
LEMMA QuietSampleStep ==
  ASSUME WebInv, NEW x \in Clients, Sample(x), ~(update(x) /\ ws[x] = "open")
  PROVE  WebInv'
<1> USE DEF WebInv
<1>a. /\ ws[x] # "none" /\ due[x] = 0 /\ due' = [due EXCEPT ![x] = INTERVAL]
      /\ zero_count' = [zero_count EXCEPT ![x] = zero_count_after(x)]
      /\ driven' = [driven EXCEPT ![x] = both_nonzero(js[x])]
      /\ net' = net /\ held' = held /\ released' = released /\ ws' = ws /\ js' = js
      /\ motors' = motors /\ wdt' = wdt /\ loads' = loads /\ idle' = idle
  BY DEF Sample
<1>b. sampled(x)' = 0 /\ sampled(x) = INTERVAL
  BY <1>a, Times, ThisType DEF sampled
<1>c. \A c \in Clients : c # x => Apart(c)
  BY <1>a, ThisType DEF Apart
<1>d. zero_count'[x] = zero_count_after(x) /\ driven'[x] = both_nonzero(js[x])
  BY <1>a, ThisType
<1>1. TypeOK'
  <2>1. due' \in [Clients -> 0..INTERVAL]
    BY <1>a, Times, ThisType
  <2>2. zero_count' \in [Clients -> 0..1]
    BY <1>a, ThisType DEF zero_count_after
  <2>3. driven' \in [Clients -> BOOLEAN]
    <3>1. both_nonzero(js[x]) \in BOOLEAN
      BY DEF both_nonzero
    <3> QED
      BY <1>a, <3>1, ThisType
  <2> QED
    BY <1>a, <2>1, <2>2, <2>3, ThisType, NextType
<1>2. Ordered'
  BY <1>a DEF Ordered
<1>3. Silent'
  <2>1. ASSUME NEW c \in Clients, ws'[c] \in {"connecting", "open"}, zero_count'[c] = 0
        PROVE  idle' <= sampled(c)'
    <3>1. CASE c = x
      <4>1. engaged(x, js[x])
        BY <1>a, <1>d, <2>1, <3>1 DEF zero_count_after, engaged
      <4>2. idle = 0
        BY <4>1 DEF Silent
      <4> QED
        BY <1>a, <1>b, <3>1, <4>2
    <3>2. CASE c # x
      BY <1>a, <1>c, <2>1, <3>2 DEF Silent, Apart, sampled
    <3> QED
      BY <3>1, <3>2
  <2> QED
    BY <1>a, <2>1 DEF Silent, engaged
<1>4. Held'
  <2> SUFFICES ASSUME NEW c \in Clients PROVE Elder(c)' /\ Kept(c)'
    BY DEF Held
  <2>0. Elder(c) /\ Kept(c)
    BY DEF Held
  <2>1. Elder(c)'
    BY <1>a, <2>0 DEF Elder
  <2>2. CASE c = x
    BY <1>a, <2>1, <2>2 DEF Kept, driving, update
  <2>3. CASE c # x
    BY <1>c, <2>0, <2>1, <2>3, ApartKept
  <2> QED
    BY <2>2, <2>3
<1>5. Released'
  <2> SUFFICES ASSUME NEW c \in Clients PROVE Obeyed(c)'
    BY DEF Released
  <2>0. Obeyed(c)
    BY DEF Released
  <2>1. CASE c = x
    <3>1. driven'[x] => zero_count'[x] = 0
      BY <1>d DEF zero_count_after
    <3>2. ASSUME released[x] # None
          PROVE  /\ zero_count[x] # 0 /\ zero_count'[x] # 0 /\ Last(net[x])' = Last(net[x])
                 /\ others_silent(x)'
      BY <1>a, <1>d, <2>0, <2>1, <3>2
      DEF Obeyed, update, zero_count_after, Last, others_silent
    <3> QED
      BY <1>a, <2>0, <2>1, <3>1, <3>2 DEF Obeyed
  <2>2. CASE c # x
    <3>1. others_silent(c) => others_silent(c)'
      BY <1>a DEF others_silent
    <3> QED
      BY <1>c, <2>0, <2>2, <3>1, ApartObeyed
  <2> QED
    BY <2>1, <2>2
<1> QED
  BY <1>1, <1>2, <1>3, <1>4, <1>5

\* A sampling that sends the stick's position.
LEMMA SendingSampleStep ==
  ASSUME WebInv, NEW x \in Clients, Sample(x), update(x), ws[x] = "open"
  PROVE  WebInv'
<1> USE DEF WebInv
<1>m. PICK m \in Msg : m = [js |-> js[x], age |-> 0] /\ m.age = 0 /\ m.js = js[x]
  <2>1. js[x] \in Sticks
    BY ClientType
  <2>2. [js |-> js[x], age |-> 0] \in Msg
    BY <2>1, Times DEF Msg
  <2> QED
    BY <2>2
<1>a. /\ due[x] = 0 /\ due' = [due EXCEPT ![x] = INTERVAL]
      /\ zero_count' = [zero_count EXCEPT ![x] = zero_count_after(x)]
      /\ driven' = [driven EXCEPT ![x] = both_nonzero(js[x])]
      /\ net' = [net EXCEPT ![x] = Append(net[x], m)]
      /\ held' = [d \in Clients |-> IF d = x THEN held[d] ELSE 0]
      /\ released' = [d \in Clients |-> IF d = x THEN released[d] ELSE None]
      /\ ws' = ws /\ js' = js /\ motors' = motors /\ wdt' = wdt /\ loads' = loads /\ idle' = idle
  BY <1>m DEF Sample
<1>b. sampled(x)' = 0 /\ sampled(x) = INTERVAL
  BY <1>a, Times, ThisType DEF sampled
<1>d. zero_count'[x] = zero_count_after(x) /\ driven'[x] = both_nonzero(js[x])
  BY <1>a, ThisType
<1>n. PICK n \in Nat : Len(net[x]) = n /\ (net[x] = <<>> <=> n = 0)
  BY ClientType
<1>e. /\ net'[x] # <<>> /\ Len(net'[x]) = n + 1 /\ net'[x][n + 1] = m
      /\ \A i \in 1..n : net'[x][i] = net[x][i]
      /\ Append(net[x], m) \in Seq(Msg)
  <2>1. net[x] \in Seq(Msg)
    BY ClientType
  <2>2. net'[x] = Append(net[x], m)
    BY <1>a, ThisType
  <2>3. /\ Append(net[x], m) \in Seq(Msg) /\ Len(Append(net[x], m)) = Len(net[x]) + 1
        /\ \A i \in 1..Len(net[x]) : Append(net[x], m)[i] = net[x][i]
        /\ Append(net[x], m)[Len(net[x]) + 1] = m /\ Append(net[x], m) # <<>>
    BY <2>1, Appended
  <2> QED
    BY <1>n, <2>2, <2>3
<1>f. \A d \in Clients : d # x => net'[d] = net[d]
  BY <1>a, ThisType
<1>g. \A i \in 1..(n + 1) : i \in 1..n \/ i = n + 1
  BY <1>n
<1>h. \A d \in Clients : d # x => held'[d] = 0 /\ released'[d] = None
  BY <1>a
<1>1. TypeOK'
  <2>1. due' \in [Clients -> 0..INTERVAL]
    BY <1>a, Times, ThisType
  <2>2. zero_count' \in [Clients -> 0..1]
    BY <1>a, ThisType DEF zero_count_after
  <2>3. driven' \in [Clients -> BOOLEAN]
    <3>1. both_nonzero(js[x]) \in BOOLEAN
      BY DEF both_nonzero
    <3> QED
      BY <1>a, <3>1, ThisType
  <2>4. net' \in [Clients -> Seq(Msg)]
    BY <1>a, <1>e, ThisType
  <2>5. held' \in [Clients -> 0..HELD_CAP]
    <3>1. \A d \in Clients : (IF d = x THEN held[d] ELSE 0) \in 0..HELD_CAP
      <4>1. 0 \in 0..HELD_CAP
        BY Times
      <4>2. \A d \in Clients : held[d] \in 0..HELD_CAP
        BY ThisType, Zenon
      <4> QED
        BY <4>1, <4>2, Zenon
    <3> QED
      BY <1>a, <3>1
  <2>6. released' \in [Clients -> -1..RELEASED_CAP]
    <3>1. \A d \in Clients : (IF d = x THEN released[d] ELSE None) \in -1..RELEASED_CAP
      <4>1. None \in -1..RELEASED_CAP
        BY Times DEF None
      <4>2. \A d \in Clients : released[d] \in -1..RELEASED_CAP
        BY ThisType, Zenon
      <4> QED
        BY <4>1, <4>2, Zenon
    <3> QED
      BY <1>a, <3>1
  <2> QED
    BY <1>a, <2>1, <2>2, <2>3, <2>4, <2>5, <2>6, ThisType, NextType
<1>2. Ordered'
  <2> SUFFICES ASSUME NEW c \in Clients, NEW i \in 1..Len(net'[c]), NEW j \in i..Len(net'[c])
               PROVE  net'[c][j].age <= net'[c][i].age
    BY DEF Ordered
  <2>1. CASE c = x
    <3>1. i \in 1..(n + 1) /\ j \in i..(n + 1)
      BY <1>e, <2>1
    <3>2. CASE j = n + 1
      <4>1. net'[x][i].age \in 0..DELAY
        <5>1. CASE i = n + 1
          <6>1. net'[x][i] = m
            BY <1>e, <5>1, Zenon
          <6> QED
            BY <1>m, <6>1, Times
        <5>2. CASE i # n + 1
          BY <1>e, <1>g, <1>n, <3>1, <5>2, ClientType
        <5> QED
          BY <5>1, <5>2
      <4>2. \A a \in 0..DELAY : 0 <= a
        BY Times
      <4> QED
        BY <1>e, <1>m, <2>1, <3>2, <4>1, <4>2
    <3>3. CASE j # n + 1
      <4>1. i \in 1..n /\ j \in i..n /\ j \in 1..n
        BY <3>1, <3>3
      <4> QED
        BY <1>e, <1>n, <2>1, <4>1 DEF Ordered
    <3> QED
      BY <3>2, <3>3
  <2>2. CASE c # x
    BY <1>f, <2>2 DEF Ordered
  <2> QED
    BY <2>1, <2>2
<1>3. Silent'
  <2>0. (both_nonzero(js[x]) => idle = 0) /\ idle <= INTERVAL
    <3>1. both_nonzero(js[x]) => idle = 0
      BY DEF Silent, engaged
    <3>2. zero_count[x] = 0 => idle <= INTERVAL
      BY <1>b DEF Silent
    <3> QED
      BY <3>1, <3>2, Times DEF update
  <2>1. ASSUME NEW c \in Clients, ws'[c] \in {"connecting", "open"}, zero_count'[c] = 0
        PROVE  idle' <= sampled(c)'
    <3>1. CASE c = x
      <4>1. idle = 0
        BY <1>d, <2>0, <2>1, <3>1 DEF zero_count_after
      <4> QED
        BY <1>a, <1>b, <3>1, <4>1
    <3>2. CASE c # x
      <4>1. sampled(c)' = sampled(c) /\ zero_count[c] = 0
        BY <1>a, <2>1, <3>2, ThisType DEF sampled
      <4> QED
        BY <1>a, <2>1, <4>1 DEF Silent
    <3> QED
      BY <3>1, <3>2
  <2>2. ASSUME NEW c \in Clients, NEW i \in 1..Len(net'[c]) PROVE idle' <= INTERVAL + net'[c][i].age
    <3>1. CASE c = x /\ i = n + 1
      BY <1>a, <1>e, <1>m, <2>0, <3>1, Times
    <3>2. CASE c = x /\ i # n + 1
      BY <1>a, <1>e, <1>g, <1>n, <3>2 DEF Silent
    <3>3. CASE c # x
      BY <1>a, <1>f, <3>3 DEF Silent
    <3> QED
      BY <3>1, <3>2, <3>3
  <2> QED
    BY <1>a, <2>1, <2>2 DEF Silent, engaged
<1>4. Held'
  <2> SUFFICES ASSUME NEW c \in Clients PROVE Elder(c)' /\ Kept(c)'
    BY DEF Held
  <2>0. Elder(c) /\ Kept(c)
    BY DEF Held
  <2>1. CASE c # x
    BY <1>1, <1>h, <2>1, JustMoved
  <2>2. CASE c = x
    <3>1. held'[x] = held[x]
      BY <1>a
    <3>2. Elder(x)'
      <4> SUFFICES ASSUME NEW d \in Clients, NEW i \in 1..Len(net'[d]), d # x \/ net'[d][i].js # js'[x]
                   PROVE  net'[d][i].age >= held'[x]
        BY DEF Elder
      <4>1. CASE d = x
        <5>1. i \in 1..n
          BY <1>a, <1>e, <1>g, <1>m, <4>1
        <5> QED
          <6>1. net'[d][i] = net[x][i] /\ net[x][i].js # js[x]
            BY <1>a, <1>e, <4>1, <5>1
          <6>2. i \in 1..Len(net[x])
            BY <1>n, <5>1
          <6>3. net[x][i].age >= held[x]
            BY <2>0, <2>2, <6>1, <6>2 DEF Elder
          <6> QED
            BY <3>1, <6>1, <6>3
      <4>2. CASE d # x
        BY <1>f, <2>0, <2>2, <3>1, <4>2 DEF Elder
      <4> QED
        BY <4>1, <4>2
    <3>3. since(x)' = since(x)
      <4>1. CASE n = 0
        BY <1>b, <1>e, <1>m, <1>n, <4>1, Times DEF since
      <4>2. CASE n # 0
        <5>1. 1 \in 1..n
          BY <4>2
        <5> QED
          BY <1>e, <1>n, <4>2, <5>1 DEF since
      <4> QED
        BY <4>1, <4>2
    <3>4. Kept(x)'
      BY <1>a, <2>0, <2>2, <3>1, <3>3 DEF Kept, driving
    <3> QED
      BY <2>2, <3>2, <3>4
  <2> QED
    BY <2>1, <2>2
<1>5. Released'
  <2> SUFFICES ASSUME NEW c \in Clients PROVE Obeyed(c)'
    BY DEF Released
  <2>0. Obeyed(c)
    BY DEF Released
  <2>1. CASE c = x
    <3>1. driven'[x] => zero_count'[x] = 0
      BY <1>d DEF zero_count_after
    <3>2. released'[x] = released[x]
      BY <1>a
    <3>3. ASSUME released[x] # None
          PROVE  /\ zero_count'[x] # 0 /\ others_silent(x)' /\ ~both_nonzero(js[x])
                 /\ Last(net[x])' = m /\ released[x] <= INTERVAL
      <4>1. ~both_nonzero(js[x]) /\ others_silent(x) /\ zero_count[x] = 0
        BY <2>0, <2>1, <3>3 DEF Obeyed, update
      <4>2. released[x] <= INTERVAL
        BY <1>b, <2>0, <2>1, <3>3, <4>1 DEF Obeyed
      <4>3. others_silent(x)'
        BY <1>f, <4>1 DEF others_silent
      <4> QED
        BY <1>d, <1>e, <4>1, <4>2, <4>3 DEF zero_count_after, Last
    <3> QED
      BY <1>a, <1>e, <1>m, <2>1, <3>1, <3>2, <3>3, Times DEF Obeyed
  <2>2. CASE c # x
    BY <1>a, <1>h, <2>0, <2>2, ThisType DEF Obeyed
  <2> QED
    BY <2>1, <2>2
<1> QED
  BY <1>1, <1>2, <1>3, <1>4, <1>5

\* Every message can become one tick older, for the oldest of its page can.
LEMMA RoomToAge ==
  ASSUME TypeOK, Ordered, Tick, NEW c \in Clients, NEW i \in 1..Len(net[c])
  PROVE  net[c][i].age < DELAY
<1>1. net[c] # <<>> /\ net[c] \in Seq(Msg) /\ 1 \in 1..Len(net[c]) /\ i \in 1..Len(net[c])
  BY ClientType
<1>2. Head(net[c]) = net[c][1]
  BY <1>1
<1>3. net[c][1].age < DELAY
  BY <1>1, <1>2 DEF Tick
<1>4. net[c][i].age <= net[c][1].age
  BY <1>1 DEF Ordered
<1>5. net[c][1].age \in 0..DELAY /\ net[c][i].age \in 0..DELAY
  BY <1>1, ClientType
<1>6. \A a, b \in 0..DELAY : a <= b /\ b < DELAY => a < DELAY
  BY Times
<1> QED
  BY <1>3, <1>4, <1>5, <1>6

LEMMA TickStep ==
  ASSUME WebInv, Tick
  PROVE  WebInv'
<1> USE DEF WebInv
<1>a. /\ ws' = ws /\ js' = js /\ zero_count' = zero_count /\ loads' = loads /\ driven' = driven
      /\ due' = [c \in Clients |-> IF ws[c] = "none" THEN due[c] ELSE due[c] - 1]
      /\ net' = [c \in Clients |-> aged(net[c])]
      /\ held' = [c \in Clients |-> later(held[c], HELD_CAP)]
      /\ released' = [c \in Clients |-> later(released[c], RELEASED_CAP)]
      /\ idle' = IF \E c \in Clients : engaged(c, js[c]) THEN 0 ELSE later(idle, IDLE_CAP)
      /\ (wdt_due /\ motors' = Stop /\ wdt' = 0) \/ (~wdt_due /\ wdt' = wdt + 1 /\ motors' = motors)
      /\ \A c \in Clients : ws[c] # "none" => due[c] > 0
  BY DEF Tick
<1>b. ASSUME NEW c \in Clients
      PROVE  /\ net'[c] \in Seq(Msg) /\ Len(net'[c]) = Len(net[c]) /\ (net'[c] = <<>> <=> net[c] = <<>>)
             /\ \A i \in 1..Len(net[c]) :
                  net'[c][i].age = net[c][i].age + 1 /\ net'[c][i].js = net[c][i].js
  <2>1. net[c] \in Seq(Msg) /\ net'[c] = aged(net[c])
    BY <1>a, ClientType
  <2>2. \A i \in 1..Len(net[c]) : net[c][i].age < DELAY
    BY RoomToAge
  <2> QED
    BY <2>1, <2>2, Aged
<1>c. ASSUME NEW c \in Clients
      PROVE  /\ held'[c] \in 0..HELD_CAP /\ held'[c] <= held[c] + 1
             /\ released'[c] \in -1..RELEASED_CAP /\ released'[c] <= released[c] + 1
             /\ (released'[c] = None <=> released[c] = None)
  <2>1. held'[c] = later(held[c], HELD_CAP) /\ released'[c] = later(released[c], RELEASED_CAP)
    BY <1>a
  <2>2. held[c] \in 0..HELD_CAP /\ held[c] \in -1..HELD_CAP /\ held[c] >= 0
    BY ClientType, Times
  <2>3. released[c] \in -1..RELEASED_CAP
    BY ClientType
  <2>4. later(held[c], HELD_CAP) \in 0..HELD_CAP /\ later(held[c], HELD_CAP) <= held[c] + 1
    BY <2>2, Later, Times
  <2>5. /\ later(released[c], RELEASED_CAP) \in -1..RELEASED_CAP
        /\ later(released[c], RELEASED_CAP) <= released[c] + 1
        /\ (later(released[c], RELEASED_CAP) = None <=> released[c] = None)
    BY <2>3, Later, Times
  <2> QED
    BY <2>1, <2>4, <2>5
<1>d. idle' \in 0..IDLE_CAP /\ idle' <= idle + 1 /\ \A c \in Clients : engaged(c, js[c]) => idle' = 0
  <2>1. idle \in -1..IDLE_CAP /\ idle >= 0
    BY GlobalType, Times
  <2>2. later(idle, IDLE_CAP) \in 0..IDLE_CAP /\ later(idle, IDLE_CAP) <= idle + 1
    BY <2>1, Later, Times
  <2> QED
    BY <1>a, <2>1, <2>2, Times
<1>e. ASSUME NEW c \in Clients, ws[c] # "none" PROVE sampled(c)' = sampled(c) + 1 /\ due[c] > 0
  <2>1. due[c] > 0 /\ due'[c] = due[c] - 1 /\ due[c] \in 0..INTERVAL
    BY <1>a, <1>e, ClientType
  <2> QED
    BY <2>1, Times DEF sampled
<1>1. TypeOK'
  <2>1. net' \in [Clients -> Seq(Msg)]
    BY <1>a, <1>b
  <2>2. due' \in [Clients -> 0..INTERVAL]
    <3>1. \A c \in Clients : (IF ws[c] = "none" THEN due[c] ELSE due[c] - 1) \in 0..INTERVAL
      BY SMTT(30), <1>a, Times, ThisType
    <3> QED
      BY <1>a, <3>1
  <2>3. held' \in [Clients -> 0..HELD_CAP] /\ released' \in [Clients -> -1..RELEASED_CAP]
    BY <1>a, <1>c
  <2>4. wdt' \in 0..CI_WDT-1 /\ motors' \in Sticks
    <3>1. Stop \in Sticks
      BY DEF Stop, Sticks
    <3> QED
      BY <1>a, <3>1, Times, ThisType DEF wdt_due
  <2> QED
    BY <1>a, <1>d, <2>1, <2>2, <2>3, <2>4, ThisType, NextType
<1>2. Ordered'
  <2> SUFFICES ASSUME NEW c \in Clients, NEW i \in 1..Len(net'[c]), NEW j \in i..Len(net'[c])
               PROVE  net'[c][j].age <= net'[c][i].age
    BY DEF Ordered
  <2>1. i \in 1..Len(net[c]) /\ j \in i..Len(net[c]) /\ j \in 1..Len(net[c])
    BY <1>b, ClientType
  <2>2. /\ net'[c][i].age = net[c][i].age + 1 /\ net'[c][j].age = net[c][j].age + 1
        /\ net[c][i].age \in 0..DELAY /\ net[c][j].age \in 0..DELAY
    BY <1>b, <2>1, ClientType
  <2>3. net[c][j].age <= net[c][i].age
    BY <2>1 DEF Ordered
  <2>4. \A a, b \in 0..DELAY : a <= b => a + 1 <= b + 1
    BY Times
  <2> QED
    BY <2>2, <2>3, <2>4
<1>3. Silent'
  <2>1. \A n \in Int : idle <= n => idle' <= n + 1
    BY <1>d, GlobalType, Times
  <2>2. ASSUME NEW c \in Clients, ws'[c] \in {"connecting", "open"}, zero_count'[c] = 0
        PROVE  idle' <= sampled(c)'
    <3>1. idle <= sampled(c) /\ sampled(c) \in Int
      BY <1>a, <2>2, Times, ClientType DEF Silent
    <3>2. sampled(c)' = sampled(c) + 1
      BY <1>a, <1>e, <2>2
    <3> QED
      BY <2>1, <3>1, <3>2
  <2>3. ASSUME NEW c \in Clients, NEW i \in 1..Len(net'[c]) PROVE idle' <= INTERVAL + net'[c][i].age
    <3>1. i \in 1..Len(net[c]) /\ net'[c][i].age = net[c][i].age + 1
      BY <1>b
    <3>2. idle <= INTERVAL + net[c][i].age /\ net[c][i].age \in 0..DELAY
      BY <3>1, ClientType DEF Silent
    <3>3. \A a \in 0..DELAY : INTERVAL + a \in Int /\ (INTERVAL + a) + 1 = INTERVAL + (a + 1)
      BY Times
    <3> QED
      BY <2>1, <3>1, <3>2, <3>3
  <2>4. motors' # Stop => idle' <= INTERVAL + DELAY + wdt'
    <3>1. INTERVAL + DELAY + wdt \in Int /\ (INTERVAL + DELAY + wdt) + 1 = INTERVAL + DELAY + (wdt + 1)
      BY Times, GlobalType
    <3> QED
      BY <1>a, <2>1, <3>1 DEF Silent
  <2>5. \A c \in Clients : engaged(c, js[c])' => idle' = 0
    BY <1>a, <1>d DEF engaged
  <2> QED
    BY <2>2, <2>3, <2>4, <2>5 DEF Silent
<1>4. Held'
  <2> SUFFICES ASSUME NEW c \in Clients PROVE Elder(c)' /\ Kept(c)'
    BY DEF Held
  <2>0. Elder(c) /\ Kept(c)
    BY DEF Held
  <2>1. Elder(c)'
    <3> SUFFICES ASSUME NEW d \in Clients, NEW i \in 1..Len(net'[d]), d # c \/ net'[d][i].js # js'[c]
                 PROVE  net'[d][i].age >= held'[c]
      BY DEF Elder
    <3>1. i \in 1..Len(net[d]) /\ net'[d][i].age = net[d][i].age + 1 /\ net'[d][i].js = net[d][i].js
      BY <1>b
    <3>2. net[d][i].age >= held[c]
      BY <1>a, <2>0, <3>1 DEF Elder
    <3>3. net[d][i].age \in 0..DELAY /\ held[c] \in 0..HELD_CAP
      BY <3>1, ClientType
    <3>4. \A a \in 0..DELAY, h, k \in 0..HELD_CAP : a >= h /\ k <= h + 1 => a + 1 >= k
      BY Times
    <3> QED
      BY <1>c, <3>1, <3>2, <3>3, <3>4
  <2>2. Kept(c)'
    <3> SUFFICES ASSUME driving(c)', held'[c] > since(c)'
                 PROVE  wdt' <= since(c)' /\ (held'[c] > since(c)' + DELAY => motors' = js'[c])
      BY DEF Kept
    <3>1. driving(c) /\ ws[c] # "none"
      BY <1>a DEF driving
    <3>2. since(c)' = since(c) + 1 /\ since(c) + 1 < CI_WDT
      <4>1. CASE net[c] = <<>>
        <5>1. since(c) = sampled(c) /\ since(c)' = sampled(c)'
          BY <1>b, <4>1 DEF since
        <5>2. sampled(c) + 1 <= INTERVAL
          BY <1>e, <3>1, Times, ClientType DEF sampled
        <5> QED
          BY <1>e, <3>1, <5>1, <5>2, Times, ClientType
      <4>2. CASE net[c] # <<>>
        <5>1. 1 \in 1..Len(net[c])
          BY <4>2, ClientType
        <5>2. /\ net'[c][1].age = net[c][1].age + 1 /\ net'[c] # <<>>
              /\ net[c][1].age \in 0..DELAY /\ net[c][1].age < DELAY
          BY <1>b, <4>2, <5>1, ClientType, RoomToAge
        <5>3. \A a \in 0..DELAY : a < DELAY =>
                (a + 1) + INTERVAL = (a + INTERVAL) + 1 /\ (a + INTERVAL) + 1 < CI_WDT
          BY Times
        <5> QED
          BY <4>2, <5>2, <5>3 DEF since
      <4> QED
        BY <4>1, <4>2
    <3>3. since(c) \in Nat /\ held[c] \in 0..HELD_CAP /\ wdt \in Nat
      BY SinceType, ClientType, GlobalType
    <3>4. held[c] > since(c) /\ (held'[c] > since(c)' + DELAY => held[c] > since(c) + DELAY)
      BY <1>c, <3>2, <3>3, Times
    <3>5. wdt <= since(c) /\ (held[c] > since(c) + DELAY => motors = js[c])
      BY <2>0, <3>1, <3>4 DEF Kept
    <3>6. ~wdt_due
      BY <3>2, <3>3, <3>5, Times DEF wdt_due
    <3>7. wdt' = wdt + 1 /\ motors' = motors /\ js' = js
      BY <1>a, <3>6
    <3> QED
      BY <3>2, <3>3, <3>4, <3>5, <3>7
  <2> QED
    BY <2>1, <2>2
<1>5. Released'
  <2> SUFFICES ASSUME NEW c \in Clients PROVE Obeyed(c)'
    BY DEF Released
  <2>0. Obeyed(c)
    BY DEF Released
  <2>1. CASE released[c] = None
    BY <1>a, <1>c, <2>0, <2>1 DEF Obeyed
  <2>2. CASE released[c] # None
    <3>1. /\ ws[c] = "open" /\ ~both_nonzero(js[c]) /\ others_silent(c)
          /\ zero_count[c] = 0 => released[c] <= sampled(c)
          /\ zero_count[c] # 0 /\ net[c] # <<>> =>
               Last(net[c]).js = js[c] /\ released[c] <= INTERVAL + Last(net[c]).age
          /\ zero_count[c] # 0 /\ net[c] = <<>> => motors \in {js[c], Stop}
      BY <2>0, <2>2 DEF Obeyed
    <3>2. others_silent(c)'
      BY <1>b, <3>1 DEF others_silent
    <3>3. released[c] <= sampled(c) => released'[c] <= sampled(c)'
      <4>1. sampled(c)' = sampled(c) + 1 /\ sampled(c) \in 0..INTERVAL
        BY <1>e, <3>1, ClientType
      <4>2. released[c] \in -1..RELEASED_CAP
        BY ClientType
      <4> QED
        BY <1>c, <4>1, <4>2, Times
    <3>4. ASSUME net[c] # <<>>, Last(net[c]).js = js[c], released[c] <= INTERVAL + Last(net[c]).age
          PROVE  Last(net[c])'.js = js[c] /\ released'[c] <= INTERVAL + Last(net[c])'.age
      <4>1. Len(net[c]) \in 1..Len(net[c])
        BY <3>4, ClientType
      <4>2. /\ Last(net[c])'.age = Last(net[c]).age + 1 /\ Last(net[c])'.js = Last(net[c]).js
            /\ Last(net[c]).age \in 0..DELAY
        BY <1>b, <4>1, ClientType DEF Last
      <4>3. \A a \in 0..DELAY, k, h \in -1..RELEASED_CAP :
              h <= INTERVAL + a /\ k <= h + 1 => k <= INTERVAL + (a + 1)
        BY Times
      <4> QED
        BY <1>c, <3>4, <4>2, <4>3, ClientType
    <3>5. motors \in {js[c], Stop} => motors' \in {js[c], Stop}
      BY <1>a
    <3>6. driven'[c] => zero_count'[c] = 0
      BY <1>a, <2>0 DEF Obeyed
    <3> QED
      BY <1>a, <1>b, <3>1, <3>2, <3>3, <3>4, <3>5, <3>6 DEF Obeyed
  <2> QED
    BY <2>1, <2>2
<1> QED
  BY <1>1, <1>2, <1>3, <1>4, <1>5

-----------------------------------------------------------------------------
LEMMA WebInit ==
  ASSUME Init
  PROVE  WebInv
<1>1. TypeOK
  <2>1. Stop \in Sticks
    BY DEF Stop, Sticks
  <2>2. <<>> \in Seq([js : Sticks, age : 0..DELAY])
    OBVIOUS
  <2> QED
    BY <2>1, <2>2, Times DEF Init, TypeOK, None
<1>2. \A c \in Clients : net[c] = <<>> /\ Len(net[c]) = 0 /\ ws[c] = "none" /\ released[c] = None
  BY DEF Init
<1>3. \A c \in Clients : 1..Len(net[c]) = {}
  <2>1. 1..0 = {}
    OBVIOUS
  <2> QED
    BY <1>2, <2>1, Zenon
<1>4. Ordered
  BY <1>3 DEF Ordered
<1>5. Silent
  BY <1>2, <1>3 DEF Init, Silent, engaged
<1>6. Held
  BY <1>2, <1>3 DEF Held, Elder, Kept, driving
<1>7. Released
  BY <1>2 DEF Init, Released, Obeyed
<1> QED
  BY <1>1, <1>4, <1>5, <1>6, <1>7 DEF WebInv

LEMMA WebStutter ==
  ASSUME WebInv, UNCHANGED vars
  PROVE  WebInv'
<1>1. /\ ws' = ws /\ js' = js /\ zero_count' = zero_count /\ due' = due /\ net' = net
      /\ motors' = motors /\ wdt' = wdt /\ loads' = loads /\ idle' = idle /\ held' = held
      /\ driven' = driven /\ released' = released
  BY Zenon DEF vars, history
<1>2. TypeOK' /\ Ordered' /\ Silent'
  BY <1>1, Zenon DEF WebInv, TypeOK, Ordered, Silent, engaged, sampled
<1>3. Held'
  BY <1>1, Zenon DEF WebInv, Held, Elder, Kept, driving, since, sampled
<1>4. Released'
  BY <1>1, Zenon DEF WebInv, Released, Obeyed, sampled, others_silent, Last
<1> QED
  BY <1>2, <1>3, <1>4 DEF WebInv

\* The invariant of the page, the way of its messages and the watchdog, whatever
\* pages load, connect, break, sample and move their sticks meanwhile.
THEOREM WebInvariant == Spec => []WebInv
<1>1. Init => WebInv
  BY WebInit
<1>2. WebInv /\ [Next]_vars => WebInv'
  <2> SUFFICES ASSUME WebInv, [Next]_vars PROVE WebInv'
    OBVIOUS
  <2>1. CASE Tick
    BY <2>1, TickStep
  <2>2. ASSUME NEW c \in Clients, Load(c) PROVE WebInv'
    BY <2>2, LoadStep
  <2>3. ASSUME NEW c \in Clients, Connect(c) PROVE WebInv'
    BY <2>3, ConnectStep
  <2>4. ASSUME NEW c \in Clients, Break(c) PROVE WebInv'
    BY <2>4, BreakStep
  <2>5. ASSUME NEW c \in Clients, JoyStick(c) PROVE WebInv'
    BY <2>5, JoyStickStep
  <2>6. ASSUME NEW c \in Clients, Sample(c) PROVE WebInv'
    BY <2>6, QuietSampleStep, SendingSampleStep
  <2>7. ASSUME NEW c \in Clients, handle_js(c) PROVE WebInv'
    BY <2>7, HandleStep
  <2>8. CASE UNCHANGED vars
    BY <2>8, WebStutter
  <2> QED
    BY <2>1, <2>2, <2>3, <2>4, <2>5, <2>6, <2>7, <2>8 DEF Next
<1> QED
  BY <1>1, <1>2, PTL DEF Spec

\* Every variable keeps its type; in particular no message is on its way for more
\* than DELAY ticks and the positions sent lie within a stick's range.
THEOREM WebTypeCorrect == Spec => []TypeOK
<1>1. WebInv => TypeOK
  BY DEF WebInv
<1> QED
  BY <1>1, WebInvariant, PTL

\* Once no page has had both sides nonzero for INTERVAL + DELAY + CI_WDT the motors
\* stand still, although the release may never have been sent.
THEOREM SilenceAlwaysStops == Spec => []SilentStops
<1>1. WebInv => SilentStops
  <2> SUFFICES ASSUME WebInv, idle >= INTERVAL + DELAY + CI_WDT, motors # Stop PROVE FALSE
    BY DEF SilentStops
  <2>1. idle <= INTERVAL + DELAY + wdt
    BY DEF WebInv, Silent
  <2>2. wdt \in Nat /\ wdt < CI_WDT /\ idle \in 0..IDLE_CAP
    BY GlobalType DEF WebInv
  <2> QED
    BY <2>1, <2>2, Times
<1> QED
  BY <1>1, WebInvariant, PTL

\* A stick held with both sides nonzero for INTERVAL + 2 * DELAY drives the motors,
\* and the watchdog does not fire between its repeats.
THEOREM HeldAlwaysDrives == Spec => []HeldDrives
<1>1. WebInv => HeldDrives
  <2> SUFFICES ASSUME WebInv, NEW c \in Clients, ws[c] = "open", both_nonzero(js[c]),
                      held[c] > INTERVAL + 2 * DELAY
               PROVE  motors = js[c]
    BY DEF HeldDrives
  <2>1. since(c) \in Nat /\ since(c) <= INTERVAL + DELAY
    <3>1. net[c] # <<>> => 1 \in 1..Len(net[c])
      BY ClientType DEF WebInv
    <3>2. net[c] # <<>> => net[c][1].age \in 0..DELAY
      BY <3>1, ClientType DEF WebInv
    <3>3. \A a \in 0..DELAY : a + INTERVAL \in Nat /\ a + INTERVAL <= INTERVAL + DELAY
      BY Times
    <3>4. sampled(c) \in Nat /\ sampled(c) <= INTERVAL + DELAY
      BY Times, ClientType DEF WebInv
    <3> QED
      BY <3>2, <3>3, <3>4 DEF since
  <2>2. held[c] \in 0..HELD_CAP
    BY ClientType DEF WebInv
  <2>3. held[c] > since(c) /\ held[c] > since(c) + DELAY
    BY <2>1, <2>2, Times
  <2>4. Kept(c)
    BY DEF WebInv, Held
  <2> QED
    BY <2>3, <2>4 DEF Kept, driving
<1> QED
  BY <1>1, WebInvariant, PTL

\* A stick that leaves a drive for a position with a side at zero is obeyed within
\* INTERVAL + DELAY, long before the watchdog: its position is sent exactly once,
\* and nothing that could lose it happens without ending the claim.
THEOREM ReleaseAlwaysObeyed == Spec => []ReleaseObeyed
<1>1. WebInv => ReleaseObeyed
  <2> SUFFICES ASSUME WebInv, NEW c \in Clients, released[c] > INTERVAL + DELAY
               PROVE  motors \in {js[c], Stop}
    BY DEF ReleaseObeyed
  <2>1. released[c] \in -1..RELEASED_CAP /\ sampled(c) \in 0..INTERVAL /\ released[c] # None
    BY Times, ClientType DEF WebInv, None
  <2>2. Obeyed(c)
    BY DEF WebInv, Released
  <2>3. zero_count[c] # 0
    BY <2>1, <2>2, Times DEF Obeyed
  <2>4. net[c] = <<>>
    <3> SUFFICES ASSUME net[c] # <<>> PROVE FALSE
      OBVIOUS
    <3>1. Len(net[c]) \in 1..Len(net[c])
      BY ClientType DEF WebInv
    <3>2. Last(net[c]).age \in 0..DELAY
      BY <3>1, ClientType DEF WebInv, Last
    <3>3. released[c] <= INTERVAL + Last(net[c]).age
      BY <2>1, <2>2, <2>3 DEF Obeyed
    <3>4. \A a \in 0..DELAY, h \in -1..RELEASED_CAP : h <= INTERVAL + a => ~(h > INTERVAL + DELAY)
      BY Times
    <3> QED
      BY <2>1, <3>2, <3>3, <3>4
  <2> QED
    BY <2>1, <2>2, <2>3, <2>4 DEF Obeyed
<1> QED
  BY <1>1, WebInvariant, PTL
=============================================================================
