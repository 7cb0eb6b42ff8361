--------------------------- MODULE WsServerProofs ---------------------------
(***************************************************************************)
(* Proofs about WsServer, for every number of connections and addresses,   *)
(* queue length and number of messages and datagrams.  The map from ids to *)
(* connections and the map from addresses to ids are inverse to each other *)
(* because an address has one live connection (Distinct) and an id is used *)
(* once (Numbered); every message in flight carries an id that leads to    *)
(* its sender or to nobody (Sound); in a broadcast the connections behind  *)
(* the cursor have the datagram and those ahead of it do not (Forwarded).  *)
(***************************************************************************)
EXTENDS WsServer, FiniteSetTheorems, TLAPS

-----------------------------------------------------------------------------
(* The inductive invariant. *)

live(c) == conn[c].state \in {"open", "leaving"}
id_of(e, c) == connections_rmap[e][conn[c].address]

\* The maps of e are inverse to each other through the addresses.
Registered ==
  \A e \in Endpoints :
    /\ \A id \in DOMAIN connections_fmap[e] :
         /\ connections_fmap[e][id] \in connected(e)
         /\ id_of(e, connections_fmap[e][id]) = id
    /\ \A c \in connected(e) :
         /\ conn[c].address \in DOMAIN connections_rmap[e]
         /\ id_of(e, c) \in DOMAIN connections_fmap[e]
         /\ connections_fmap[e][id_of(e, c)] = c
    /\ \A a \in DOMAIN connections_rmap[e] : \E c \in connected(e) : conn[c].address = a

\* An address is that of one live connection.
Distinct ==
  \A c, d \in Connections : live(c) /\ live(d) /\ conn[c].address = conn[d].address => c = d

\* Handles not given out yet are blank.
Blank  == \A c \in Connections : c > opened => conn[c] = Unopened
Unused == \A c \in Connections : c > opened => asked[c] = 0 /\ got[c] = 0

\* While a connection can still be opened the next id is larger than all used.
Numbered ==
  opened < OPENS =>
    \A e \in Endpoints : /\ connection_id_ctr[e] <= opened
                         /\ \A id \in DOMAIN connections_fmap[e] : id < connection_id_ctr[e]

\* The id of a message leads to its sender or, once that is gone, to nobody.
Sound(m) ==
  /\ m.from <= opened
  /\ opened < OPENS => m.conn_id < connection_id_ctr["server"]
  /\ m.conn_id \in DOMAIN connections_fmap["server"] =>
       connections_fmap["server"][m.conn_id] = m.from
  /\ live(m.from) => m.conn_id \in DOMAIN connections_fmap["server"]

InFlight ==
  /\ \A i \in DOMAIN blocked : Sound(blocked[i])
  /\ \A i \in DOMAIN queue : Sound(queue[i])
  /\ \A i \in DOMAIN handling : Sound(handling[i])

\* A connection of the broadcaster has been sent what was broadcast since it was
\* registered, but for the datagram being broadcast if it is ahead of the cursor.
pending(c) ==
  IF cursor # <<>> /\ id_of("broadcaster", c) > cursor[1] THEN 1 ELSE 0
Forwarded ==
  alive => \A c \in connected("broadcaster") : got[c] = broadcasts - missed[c] - pending(c)

\* No connection has asked more often than messages were received.
Received == \A c \in Connections : asked[c] <= received

TableInv == Registered /\ Distinct /\ Blank /\ Numbered
WsInv == TypeOK /\ TableInv /\ InFlight /\ Forwarded /\ Unused /\ Received /\ RepliesBalance

-----------------------------------------------------------------------------
(* Counting the requests of a connection in a sequence of messages. *)

mine(m, c) == IF m.cmd = "stats" /\ m.from = c THEN 1 ELSE 0
places(s, c) == {i \in DOMAIN s : s[i].cmd = "stats" /\ s[i].from = c}

LEMMA PlacesFinite ==
  ASSUME NEW s \in Seq(QueueMessages), NEW c
  PROVE  IsFiniteSet(places(s, c)) /\ requests(s, c) \in Nat
<1>1. IsFiniteSet(1..Len(s))
  BY FS_Interval
<1>2. places(s, c) \subseteq 1..Len(s)
  BY DEF places
<1>3. IsFiniteSet(places(s, c))
  BY <1>1, <1>2, FS_Subset
<1> QED
  BY <1>3, FS_CardinalityType DEF requests, places

LEMMA RequestsEmpty ==
  ASSUME NEW c
  PROVE  requests(<<>>, c) = 0
<1>1. places(<<>>, c) = {}
  BY DEF places
<1> QED
  BY <1>1, FS_EmptySet DEF requests, places

LEMMA RequestsAppend ==
  ASSUME NEW s \in Seq(QueueMessages), NEW m \in QueueMessages, NEW c
  PROVE  requests(Append(s, m), c) = requests(s, c) + mine(m, c)
<1> DEFINE n == Len(s) + 1
           t == Append(s, m)
<1>1. /\ DOMAIN t = 1..n /\ DOMAIN s = 1..Len(s) /\ Len(s) \in Nat
      /\ t[n] = m /\ \A i \in DOMAIN s : t[i] = s[i]
  OBVIOUS
<1>2. n \notin places(s, c)
  BY <1>1 DEF places
<1>3. IsFiniteSet(places(s, c)) /\ requests(s, c) \in Nat
  BY PlacesFinite
<1> HIDE DEF t
<1>4. CASE m.cmd = "stats" /\ m.from = c
  <2>1. places(t, c) = places(s, c) \union {n}
    BY <1>1, <1>4 DEF places
  <2>2. Cardinality(places(t, c)) = Cardinality(places(s, c)) + 1
    BY <1>2, <1>3, <2>1, FS_AddElement
  <2>3. mine(m, c) = 1
    BY <1>4 DEF mine
  <2> QED
    BY <2>2, <2>3 DEF requests, places, t
<1>5. CASE ~(m.cmd = "stats" /\ m.from = c)
  <2>1. places(t, c) = places(s, c)
    BY <1>1, <1>5 DEF places
  <2>2. mine(m, c) = 0
    BY <1>5 DEF mine
  <2>3. requests(t, c) = Cardinality(places(t, c)) /\ requests(s, c) = Cardinality(places(s, c))
    BY DEF requests, places
  <2> QED
    BY <1>3, <2>1, <2>2, <2>3 DEF t
<1> QED
  BY <1>4, <1>5

LEMMA RequestsTail ==
  ASSUME NEW s \in Seq(QueueMessages), s # <<>>, NEW c
  PROVE  requests(s, c) = requests(Tail(s), c) + mine(Head(s), c)
<1> DEFINE t == Tail(s)
           P == places(s, c) \ {1}
           f == [i \in places(t, c) |-> i + 1]
<1>1. /\ t \in Seq(QueueMessages) /\ Len(s) \in Nat \ {0} /\ Len(t) = Len(s) - 1
      /\ DOMAIN t = 1..Len(s)-1 /\ DOMAIN s = 1..Len(s)
      /\ \A i \in DOMAIN t : t[i] = s[i + 1]
      /\ s[1] = Head(s)
  OBVIOUS
<1>2. /\ IsFiniteSet(places(s, c)) /\ requests(s, c) \in Nat
      /\ IsFiniteSet(places(t, c)) /\ requests(t, c) \in Nat
  BY <1>1, PlacesFinite
<1> HIDE DEF t
<1>3. f \in Bijection(places(t, c), P)
  <2>1. \A i \in places(t, c) : i + 1 \in P /\ i \in Int
    BY <1>1 DEF places
  <2>2. \A j \in P : j - 1 \in places(t, c) /\ j \in Int
    <3> TAKE j \in P
    <3>1. j \in 2..Len(s) /\ s[j].cmd = "stats" /\ s[j].from = c
      BY <1>1 DEF places
    <3>2. j - 1 \in 1..Len(s)-1 /\ j - 1 + 1 = j
      BY <1>1, <3>1
    <3>3. t[j - 1] = s[j]
      BY <1>1, <3>2
    <3> QED
      BY <1>1, <3>1, <3>2, <3>3 DEF places
  <2> HIDE DEF P
  <2>3. f \in [places(t, c) -> P]
    BY <2>1
  <2>4. \A a, b \in places(t, c) : f[a] = f[b] => a = b
    BY <2>1
  <2>5. \A j \in P : \E a \in places(t, c) : f[a] = j
    <3> TAKE j \in P
    <3>1. j - 1 \in places(t, c) /\ f[j - 1] = j
      BY <2>2
    <3> QED
      BY <3>1
  <2> HIDE DEF f
  <2> QED
    BY <2>3, <2>4, <2>5 DEF Bijection, Injection, Surjection, IsInjective
<1>4. Cardinality(P) = requests(t, c)
  <2>1. ExistsBijection(places(t, c), P)
    BY <1>3 DEF ExistsBijection
  <2> QED
    BY <1>2, <2>1, FS_Bijection DEF requests, places
<1>5. CASE s[1].cmd = "stats" /\ s[1].from = c
  <2>1. 1 \in places(s, c)
    BY <1>1, <1>5 DEF places
  <2>2. Cardinality(P) = Cardinality(places(s, c)) - 1
    BY <1>2, <2>1, FS_RemoveElement
  <2>3. mine(Head(s), c) = 1
    BY <1>1, <1>5 DEF mine
  <2>4. Cardinality(places(s, c)) = requests(s, c)
    BY DEF requests, places
  <2> QED
    BY <1>2, <1>4, <2>2, <2>3, <2>4 DEF t
<1>6. CASE ~(s[1].cmd = "stats" /\ s[1].from = c)
  <2>1. P = places(s, c)
    <3>1. 1 \notin places(s, c)
      BY <1>6 DEF places
    <3> QED
      BY <3>1
  <2>2. mine(Head(s), c) = 0
    BY <1>1, <1>6 DEF mine
  <2>3. Cardinality(places(s, c)) = requests(s, c)
    BY DEF requests, places
  <2> HIDE DEF P
  <2> QED
    BY <1>2, <1>4, <2>1, <2>2, <2>3 DEF t
<1> QED
  BY <1>5, <1>6

\* A sequence that holds at most one message.
LEMMA RequestsSingle ==
  ASSUME NEW s \in Seq(QueueMessages), Len(s) <= 1, s # <<>>, NEW c
  PROVE  /\ s = <<s[1]>> /\ s[1] \in QueueMessages /\ DOMAIN s = {1}
         /\ requests(s, c) = mine(s[1], c)
<1>1. s = Append(<<>>, s[1]) /\ s = <<s[1]>> /\ s[1] \in QueueMessages /\ DOMAIN s = {1}
  OBVIOUS
<1>2. <<>> \in Seq(QueueMessages)
  OBVIOUS
<1>3. requests(s, c) = requests(<<>>, c) + mine(s[1], c)
  BY <1>1, <1>2, RequestsAppend
<1> QED
  BY <1>1, <1>3, RequestsEmpty DEF mine

-----------------------------------------------------------------------------
(* The tables. *)

LEMMA Bounds ==
  /\ QLEN \in Nat /\ QLEN > 0 /\ MESSAGES \in Nat /\ DATAGRAMS \in Nat
  /\ OPENS \in Nat /\ ID_RANGE \in Nat /\ ID_RANGE > 0 /\ OPENS <= ID_RANGE
BY BoundAssumption

LEMMA NextId ==
  ASSUME NEW n \in 0..ID_RANGE-1
  PROVE  /\ (n + 1) % ID_RANGE \in 0..ID_RANGE-1
         /\ n + 1 < ID_RANGE => (n + 1) % ID_RANGE = n + 1
BY Bounds

\* A live connection has an endpoint and an address, and counts as connected.
LEMMA LiveType ==
  ASSUME TypeOK, NEW c \in Connections, live(c)
  PROVE  /\ conn[c] \in [endpoint : Endpoints, address : Addresses,
                         state : {"open", "leaving", "gone"}]
         /\ conn[c].endpoint \in Endpoints /\ conn[c].address \in Addresses
         /\ c \in connected(conn[c].endpoint)
<1>1. conn[c] \in [endpoint : Endpoints, address : Addresses,
                   state : {"open", "leaving", "gone"}] \union {Unopened}
  BY DEF TypeOK
<1>2. conn[c] # Unopened
  BY DEF live, Unopened
<1> QED
  BY <1>1, <1>2 DEF connected, live

LEMMA TablesKept ==
  ASSUME TableInv, UNCHANGED <<conn, opened>>, UNCHANGED tables
  PROVE  TableInv'
<1>1. UNCHANGED <<conn, opened, connection_id_ctr, connections_fmap, connections_rmap>>
  BY DEF tables
<1> QED
  BY <1>1 DEF TableInv, Registered, Distinct, Blank, Numbered, connected, live, id_of

LEMMA LeaveTables ==
  ASSUME TypeOK, TableInv, NEW c \in Connections, Leave(c)
  PROVE  /\ TableInv'
         /\ \A d \in Connections : live(d)' <=> live(d)
         /\ \A d \in Connections : conn'[d].address = conn[d].address
         /\ \A e \in Endpoints : connected(e)' = connected(e)
<1>1. /\ conn[c].state = "open" /\ conn' = [conn EXCEPT ![c].state = "leaving"]
      /\ UNCHANGED <<opened, connection_id_ctr, connections_fmap, connections_rmap>>
  BY DEF Leave, tables
<1>2. live(c)
  BY <1>1 DEF live
<1>3. /\ conn'[c].endpoint = conn[c].endpoint /\ conn'[c].address = conn[c].address
      /\ conn'[c].state = "leaving"
  BY <1>1, <1>2, LiveType DEF TypeOK
<1>4. \A d \in Connections : d # c => conn'[d] = conn[d]
  BY <1>1 DEF TypeOK
<1>5. \A d \in Connections : live(d)' <=> live(d)
  BY <1>2, <1>3, <1>4 DEF live
<1>6. \A d \in Connections : conn'[d].address = conn[d].address
  BY <1>3, <1>4
<1>7. ASSUME NEW e \in Endpoints PROVE connected(e)' = connected(e)
  BY <1>3, <1>4, <1>5 DEF connected, live
<1>8. Registered'
  <2>1. \A e \in Endpoints : connected(e) \subseteq Connections
    BY DEF connected
  <2>2. \A e \in Endpoints, d \in Connections : id_of(e, d)' = id_of(e, d)
    BY <1>1, <1>6 DEF id_of
  <2> QED
    BY <1>1, <1>6, <1>7, <2>1, <2>2 DEF TableInv, Registered
<1>9. Distinct'
  BY <1>5, <1>6 DEF TableInv, Distinct
<1>10. Blank'
  <2>1. \A d \in Connections : live(d) => d <= opened
    BY DEF TableInv, Blank, Unopened, live, Connections, TypeOK
  <2> QED
    BY <1>1, <1>2, <1>4, <2>1 DEF TableInv, Blank, TypeOK, Connections
<1>11. Numbered'
  BY <1>1 DEF TableInv, Numbered
<1> QED
  BY <1>5, <1>6, <1>7, <1>8, <1>9, <1>10, <1>11 DEF TableInv

\* A new connection: fresh handle, fresh id, and an address nobody has.
LEMMA OpenTables ==
  ASSUME TypeOK, TableInv, NEW e \in Endpoints, NEW a \in Addresses, NEW c, NEW id,
         c = opened + 1, id = connection_id_ctr[e], opened < OPENS, ~in_use(a),
         opened' = c,
         conn' = [conn EXCEPT ![c] = [endpoint |-> e, address |-> a, state |-> "open"]],
         connection_id_ctr' = next_id(e),
         connections_fmap' = [connections_fmap EXCEPT ![e] = emplace(@, id, c)],
         connections_rmap' = [connections_rmap EXCEPT ![e] = emplace(@, a, id)]
  PROVE  /\ TableInv'
         /\ connection_id_ctr' \in [Endpoints -> 0..ID_RANGE-1]
         /\ c \in Connections /\ id \in 0..ID_RANGE-1 /\ ~live(c) /\ live(c)'
         /\ conn'[c] = [endpoint |-> e, address |-> a, state |-> "open"]
         /\ \A d \in Connections : d # c => conn'[d] = conn[d]
         /\ connected(e)' = connected(e) \union {c} /\ c \notin connected(e)
         /\ \A f \in Endpoints : f # e => /\ connected(f)' = connected(f)
                                          /\ connections_fmap'[f] = connections_fmap[f]
                                          /\ connections_rmap'[f] = connections_rmap[f]
         /\ id \notin DOMAIN connections_fmap[e] /\ a \notin DOMAIN connections_rmap[e]
         /\ connections_fmap'[e] = emplace(connections_fmap[e], id, c)
         /\ connections_rmap'[e] = emplace(connections_rmap[e], a, id)
         /\ opened' < OPENS =>
              \A f \in Endpoints : /\ connection_id_ctr'[f] >= connection_id_ctr[f]
                                   /\ connection_id_ctr'[e] > id
<1>1. c \in Connections /\ opened \in 0..OPENS /\ c \in 1..OPENS
  BY Bounds DEF TypeOK, Connections
<1>2. id \in 0..ID_RANGE-1
  BY DEF TypeOK
<1>3. /\ conn'[c] = [endpoint |-> e, address |-> a, state |-> "open"]
      /\ \A d \in Connections : d # c => conn'[d] = conn[d]
  BY <1>1 DEF TypeOK
<1>4. conn[c] = Unopened /\ ~live(c) /\ live(c)'
  <2>1. conn[c] = Unopened
    BY <1>1 DEF TableInv, Blank
  <2> QED
    BY <1>3, <2>1 DEF live, Unopened
<1>5. connected(e)' = connected(e) \union {c} /\ c \notin connected(e)
  BY <1>1, <1>3, <1>4 DEF connected, Unopened
<1>6. \A f \in Endpoints : f # e => connected(f)' = connected(f)
  BY <1>1, <1>3, <1>4 DEF connected, Unopened
<1>7. id \notin DOMAIN connections_fmap[e]
  <2>1. \A i \in DOMAIN connections_fmap[e] : i < id
    BY DEF TableInv, Numbered
  <2> QED
    BY <1>2, <2>1
<1>8. a \notin DOMAIN connections_rmap[e]
  <2>1. \A d \in connected(e) : d \in Connections /\ live(d)
    BY DEF connected, live
  <2>2. \A d \in connected(e) : conn[d].address # a
    BY <2>1 DEF in_use, live
  <2> QED
    BY <2>2 DEF TableInv, Registered
<1>9. /\ connections_fmap'[e] = emplace(connections_fmap[e], id, c)
      /\ connections_rmap'[e] = emplace(connections_rmap[e], a, id)
      /\ \A f \in Endpoints : f # e => /\ connections_fmap'[f] = connections_fmap[f]
                                       /\ connections_rmap'[f] = connections_rmap[f]
  BY DEF TypeOK
<1>10. connection_id_ctr' \in [Endpoints -> 0..ID_RANGE-1]
  BY <1>2, NextId DEF next_id, TypeOK
<1>11. opened' < OPENS =>
         /\ connection_id_ctr'[e] = id + 1
         /\ \A f \in Endpoints : f # e => connection_id_ctr'[f] = connection_id_ctr[f]
  <2> SUFFICES ASSUME opened' < OPENS
               PROVE  /\ connection_id_ctr'[e] = id + 1
                      /\ \A f \in Endpoints : f # e => connection_id_ctr'[f] = connection_id_ctr[f]
    OBVIOUS
  <2>1. id <= opened
    BY DEF TableInv, Numbered
  <2>2. id + 1 < ID_RANGE
    BY <1>1, <1>2, <2>1, Bounds
  <2>3. (id + 1) % ID_RANGE = id + 1
    BY <1>2, <2>2, NextId
  <2> QED
    BY <2>3 DEF next_id, TypeOK
<1>12. Numbered'
  <2> SUFFICES ASSUME opened' < OPENS, NEW f \in Endpoints
               PROVE  /\ connection_id_ctr'[f] <= opened'
                      /\ \A i \in DOMAIN connections_fmap'[f] : i < connection_id_ctr'[f]
    BY DEF Numbered
  <2>1. /\ connection_id_ctr[f] <= opened /\ connection_id_ctr[f] \in Int
        /\ \A i \in DOMAIN connections_fmap[f] : i < connection_id_ctr[f] /\ i \in Int
    BY DEF TableInv, Numbered, TypeOK
  <2>2. CASE f = e
    <3>1. DOMAIN connections_fmap'[e] = DOMAIN connections_fmap[e] \union {id}
      BY <1>9 DEF emplace
    <3> QED
      BY <1>1, <1>2, <1>11, <2>1, <2>2, <3>1
  <2>3. CASE f # e
    BY <1>1, <1>9, <1>11, <2>1, <2>3
  <2> QED
    BY <2>2, <2>3
<1>13. Blank'
  BY <1>1, <1>3 DEF TableInv, Blank, Connections
<1>14. Distinct'
  <2> SUFFICES ASSUME NEW d \in Connections, NEW f \in Connections, live(d)', live(f)',
                      conn'[d].address = conn'[f].address
               PROVE  d = f
    BY DEF Distinct
  <2>1. \A g \in Connections : g # c /\ live(g)' => live(g) /\ conn[g].address # a
    BY <1>3 DEF live, in_use
  <2> QED
    BY <1>1, <1>3, <2>1 DEF TableInv, Distinct
<1>15. Registered'
  <2> SUFFICES ASSUME NEW f \in Endpoints
               PROVE  (/\ \A i \in DOMAIN connections_fmap[f] :
                            /\ connections_fmap[f][i] \in connected(f)
                            /\ id_of(f, connections_fmap[f][i]) = i
                       /\ \A d \in connected(f) :
                            /\ conn[d].address \in DOMAIN connections_rmap[f]
                            /\ id_of(f, d) \in DOMAIN connections_fmap[f]
                            /\ connections_fmap[f][id_of(f, d)] = d
                       /\ \A b \in DOMAIN connections_rmap[f] :
                            \E d \in connected(f) : conn[d].address = b)'
    BY DEF Registered
  <2>1. \A d \in connected(f) : d \in Connections /\ d # c /\ conn'[d] = conn[d]
    BY <1>3, <1>4 DEF connected, Unopened
  <2>2. CASE f # e
    <3>1. \A d \in connected(f) : id_of(f, d)' = id_of(f, d)
      BY <1>9, <2>1, <2>2 DEF id_of
    <3> QED
      BY <1>6, <1>9, <2>1, <2>2, <3>1 DEF TableInv, Registered
  <2>3. CASE f = e
    <3> DEFINE F == connections_fmap[e]
               R == connections_rmap[e]
    <3>1. /\ DOMAIN connections_fmap'[e] = DOMAIN F \union {id}
          /\ connections_fmap'[e][id] = c
          /\ \A i \in DOMAIN F : i # id /\ connections_fmap'[e][i] = F[i]
      BY <1>7, <1>9 DEF emplace
    <3>2. /\ DOMAIN connections_rmap'[e] = DOMAIN R \union {a}
          /\ connections_rmap'[e][a] = id
          /\ \A b \in DOMAIN R : b # a /\ connections_rmap'[e][b] = R[b]
      BY <1>8, <1>9 DEF emplace
    <3>3. id_of(e, c)' = id
      BY <1>3, <3>2 DEF id_of
    <3>4. \A d \in connected(e) : conn[d].address \in DOMAIN R /\ id_of(e, d)' = id_of(e, d)
      BY <2>1, <2>3, <3>2 DEF TableInv, Registered, id_of
    <3>5. \A i \in DOMAIN F : F[i] \in connected(e) /\ id_of(e, F[i]) = i
      BY DEF TableInv, Registered
    <3>6. ASSUME NEW i \in DOMAIN connections_fmap'[e]
          PROVE  connections_fmap'[e][i] \in connected(e)' /\ id_of(e, connections_fmap[e][i])' = i
      BY <1>5, <3>1, <3>3, <3>4, <3>5
    <3>7. ASSUME NEW d \in connected(e)'
          PROVE  /\ conn'[d].address \in DOMAIN connections_rmap'[e]
                 /\ id_of(e, d)' \in DOMAIN connections_fmap'[e]
                 /\ connections_fmap'[e][id_of(e, d)'] = d
      <4>1. CASE d = c
        BY <1>3, <3>1, <3>2, <3>3, <4>1
      <4>2. CASE d \in connected(e)
        <5>1. /\ conn[d].address \in DOMAIN R /\ id_of(e, d) \in DOMAIN F /\ F[id_of(e, d)] = d
          BY <4>2 DEF TableInv, Registered
        <5> QED
          BY <2>1, <2>3, <3>1, <3>2, <3>4, <4>2, <5>1
      <4> QED
        BY <1>5, <4>1, <4>2
    <3>8. ASSUME NEW b \in DOMAIN connections_rmap'[e]
          PROVE  \E d \in connected(e)' : conn'[d].address = b
      <4>1. CASE b = a
        BY <1>3, <1>5, <4>1
      <4>2. CASE b \in DOMAIN R
        <5>1. PICK d \in connected(e) : conn[d].address = b
          BY <4>2 DEF TableInv, Registered
        <5> QED
          BY <1>5, <2>1, <2>3, <5>1
      <4> QED
        BY <3>2, <4>1, <4>2
    <3> QED
      BY <2>3, <3>6, <3>7, <3>8
  <2> QED
    BY <2>2, <2>3
<1>16. opened' < OPENS =>
         \A f \in Endpoints : connection_id_ctr'[f] >= connection_id_ctr[f] /\ connection_id_ctr'[e] > id
  <2> SUFFICES ASSUME opened' < OPENS, NEW f \in Endpoints
               PROVE  connection_id_ctr'[f] >= connection_id_ctr[f] /\ connection_id_ctr'[e] > id
    OBVIOUS
  <2>1. connection_id_ctr[f] \in Int /\ connection_id_ctr'[e] = id + 1
    BY <1>11 DEF TypeOK
  <2>2. f # e => connection_id_ctr'[f] = connection_id_ctr[f]
    BY <1>11
  <2> QED
    BY <1>2, <2>1, <2>2
<1> QED
  BY <1>1, <1>2, <1>3, <1>4, <1>5, <1>6, <1>7, <1>8, <1>9, <1>10, <1>12, <1>13, <1>14, <1>15, <1>16
     DEF TableInv

\* The close handler takes exactly the connection's entries out of both maps.
LEMMA CloseTables ==
  ASSUME TypeOK, TableInv, NEW c \in Connections, on_close(c), NEW e, e = conn[c].endpoint
  PROVE  /\ TableInv'
         /\ e \in Endpoints /\ live(c) /\ c \in connected(e) /\ ~live(c)'
         /\ conn' \in [Connections -> [endpoint : Endpoints, address : Addresses,
                                       state : {"open", "leaving", "gone"}] \union {Unopened}]
         /\ \A d \in Connections : d # c => conn'[d] = conn[d]
         /\ connected(e)' = connected(e) \ {c}
         /\ \A f \in Endpoints : f # e => /\ connected(f)' = connected(f)
                                          /\ connections_fmap'[f] = connections_fmap[f]
                                          /\ connections_rmap'[f] = connections_rmap[f]
         /\ connections_fmap[e][id_of(e, c)] = c
         /\ DOMAIN connections_fmap' = Endpoints /\ DOMAIN connections_rmap' = Endpoints
         /\ connections_fmap'[e] = erase(connections_fmap[e], id_of(e, c))
         /\ connections_rmap'[e] = erase(connections_rmap[e], conn[c].address)
<1> DEFINE a  == conn[c].address
           id == id_of(e, c)
           F  == connections_fmap[e]
           R  == connections_rmap[e]
<1>1. conn[c].state = "leaving" /\ live(c)
  BY DEF on_close, live
<1>2. e \in Endpoints /\ a \in Addresses /\ c \in connected(e)
  BY <1>1, LiveType
<1>3. a \in DOMAIN R /\ id \in DOMAIN F /\ F[id] = c
  BY <1>2 DEF TableInv, Registered
<1>4. /\ close_maps(e, id, a) /\ conn' = [conn EXCEPT ![c].state = "gone"]
      /\ UNCHANGED <<opened, connection_id_ctr>>
  BY <1>3 DEF on_close, id_of
<1>5. /\ connections_fmap'[e] = erase(F, id) /\ connections_rmap'[e] = erase(R, a)
      /\ \A f \in Endpoints : f # e => /\ connections_fmap'[f] = connections_fmap[f]
                                       /\ connections_rmap'[f] = connections_rmap[f]
      /\ DOMAIN connections_fmap' = Endpoints /\ DOMAIN connections_rmap' = Endpoints
  BY <1>2, <1>4 DEF close_maps, TypeOK
<1>6. /\ conn'[c].endpoint = e /\ conn'[c].address = a /\ conn'[c].state = "gone"
      /\ conn'[c] \in [endpoint : Endpoints, address : Addresses, state : {"open", "leaving", "gone"}]
  BY <1>1, <1>4, LiveType DEF TypeOK
<1>7. \A d \in Connections : d # c => conn'[d] = conn[d]
  BY <1>4 DEF TypeOK
<1>8. conn' \in [Connections -> [endpoint : Endpoints, address : Addresses,
                                 state : {"open", "leaving", "gone"}] \union {Unopened}]
  BY <1>1, <1>4, LiveType DEF TypeOK
<1>9. ~live(c)'
  BY <1>6 DEF live
<1>10. connected(e)' = connected(e) \ {c}
  BY <1>6, <1>7 DEF connected
<1>11. \A f \in Endpoints : f # e => connected(f)' = connected(f)
  BY <1>6, <1>7 DEF connected
<1>12. Distinct'
  <2>1. \A d \in Connections : live(d)' => d # c /\ live(d) /\ conn'[d] = conn[d]
    BY <1>7, <1>9 DEF live
  <2> QED
    BY <2>1 DEF TableInv, Distinct
<1>13. Blank'
  <2>1. c <= opened
    BY <1>1 DEF TableInv, Blank, Unopened, live, Connections, TypeOK
  <2> QED
    BY <1>4, <1>7, <2>1 DEF TableInv, Blank, TypeOK, Connections
<1>14. \A i \in DOMAIN connections_fmap'[e] : i \in DOMAIN F /\ i # id /\ connections_fmap'[e][i] = F[i]
  BY <1>5 DEF erase
<1>15. \A b \in DOMAIN connections_rmap'[e] : b \in DOMAIN R /\ b # a /\ connections_rmap'[e][b] = R[b]
  BY <1>5 DEF erase
<1>16. DOMAIN connections_fmap'[e] = DOMAIN F \ {id} /\ DOMAIN connections_rmap'[e] = DOMAIN R \ {a}
  BY <1>5 DEF erase
<1>17. Numbered'
  <2> SUFFICES ASSUME opened < OPENS, NEW f \in Endpoints
               PROVE  /\ connection_id_ctr[f] <= opened
                      /\ \A i \in DOMAIN connections_fmap'[f] : i < connection_id_ctr[f]
    BY <1>4 DEF Numbered
  <2> QED
    BY <1>5, <1>14 DEF TableInv, Numbered
<1>18. Registered'
  <2> SUFFICES ASSUME NEW f \in Endpoints
               PROVE  (/\ \A i \in DOMAIN connections_fmap[f] :
                            /\ connections_fmap[f][i] \in connected(f)
                            /\ id_of(f, connections_fmap[f][i]) = i
                       /\ \A d \in connected(f) :
                            /\ conn[d].address \in DOMAIN connections_rmap[f]
                            /\ id_of(f, d) \in DOMAIN connections_fmap[f]
                            /\ connections_fmap[f][id_of(f, d)] = d
                       /\ \A b \in DOMAIN connections_rmap[f] :
                            \E d \in connected(f) : conn[d].address = b)'
    BY DEF Registered
  <2>1. \A d \in connected(f)' : d \in connected(f) /\ d \in Connections /\ d # c /\ conn'[d] = conn[d]
    BY <1>7, <1>9 DEF connected, live
  <2>2. CASE f # e
    <3>1. \A d \in connected(f) : id_of(f, d)' = id_of(f, d)
      BY <1>5, <1>11, <2>1, <2>2 DEF id_of
    <3> QED
      BY <1>5, <1>11, <2>1, <2>2, <3>1 DEF TableInv, Registered
  <2>3. CASE f = e
    <3>1. \A d \in connected(e)' : /\ conn[d].address # a /\ conn[d].address \in DOMAIN R
                                   /\ id_of(e, d)' = id_of(e, d)
      <4> TAKE d \in connected(e)'
      <4>1. d \in connected(e) /\ d # c /\ conn'[d] = conn[d] /\ live(d)
        BY <2>1, <2>3 DEF connected, live
      <4>2. conn[d].address # a /\ conn[d].address \in DOMAIN R
        BY <1>1, <1>2, <4>1 DEF TableInv, Registered, Distinct, connected
      <4>3. conn[d].address \in DOMAIN connections_rmap'[e]
        BY <1>16, <4>2
      <4> QED
        BY <1>15, <4>1, <4>2, <4>3 DEF id_of
    <3>2. ASSUME NEW i \in DOMAIN connections_fmap'[e]
          PROVE  connections_fmap'[e][i] \in connected(e)' /\ id_of(e, connections_fmap[e][i])' = i
      <4>1. i \in DOMAIN F /\ i # id /\ connections_fmap'[e][i] = F[i]
        BY <1>14
      <4>2. F[i] \in connected(e) /\ id_of(e, F[i]) = i
        BY <1>2, <4>1 DEF TableInv, Registered
      <4>3. F[i] \in connected(e)'
        <5>1. F[i] # c
          BY <4>1, <4>2
        <5> QED
          BY <1>10, <4>2, <5>1
      <4> QED
        BY <3>1, <4>1, <4>2, <4>3
    <3>3. ASSUME NEW d \in connected(e)'
          PROVE  /\ conn'[d].address \in DOMAIN connections_rmap'[e]
                 /\ id_of(e, d)' \in DOMAIN connections_fmap'[e]
                 /\ connections_fmap'[e][id_of(e, d)'] = d
      <4>1. /\ conn[d].address \in DOMAIN R /\ id_of(e, d) \in DOMAIN F /\ F[id_of(e, d)] = d
            /\ d # c /\ conn'[d] = conn[d]
        BY <2>1, <2>3 DEF TableInv, Registered
      <4>2. id_of(e, d) # id
        BY <1>3, <4>1
      <4> QED
        BY <1>14, <1>16, <3>1, <4>1, <4>2
    <3>4. ASSUME NEW b \in DOMAIN connections_rmap'[e]
          PROVE  \E d \in connected(e)' : conn'[d].address = b
      <4>1. b \in DOMAIN R /\ b # a
        BY <1>15
      <4>2. PICK d \in connected(e) : conn[d].address = b
        BY <1>2, <4>1 DEF TableInv, Registered
      <4>3. d # c /\ d \in connected(e)'
        <5>1. d # c
          BY <4>1, <4>2
        <5> QED
          BY <1>10, <5>1
      <4> QED
        BY <2>1, <2>3, <4>2, <4>3
    <3> QED
      BY <2>3, <3>2, <3>3, <3>4
  <2> QED
    BY <2>2, <2>3
<1> QED
  BY <1>1, <1>2, <1>3, <1>5, <1>7, <1>8, <1>9, <1>10, <1>11, <1>12, <1>13, <1>17, <1>18 DEF TableInv

-----------------------------------------------------------------------------
(* What the steps that move messages leave alone. *)

flight == <<blocked, queue, handling>>
forwarding == <<conn, connections_rmap, cursor, got, broadcasts, missed, alive>>

LEMMA SoundKept ==
  ASSUME UNCHANGED <<conn, opened>>, UNCHANGED tables, NEW m, Sound(m)
  PROVE  Sound(m)'
BY DEF tables, Sound, live

LEMMA ForwardedKept ==
  ASSUME Forwarded, UNCHANGED forwarding
  PROVE  Forwarded'
BY DEF forwarding, Forwarded, pending, connected, id_of

LEMMA InFlightKept ==
  ASSUME TypeOK, InFlight, UNCHANGED flight,
         \A m \in QueueMessages : Sound(m) => Sound(m)'
  PROVE  InFlight'
<1>1. blocked' = blocked /\ queue' = queue /\ handling' = handling
  BY DEF flight
<1>2. \A i \in DOMAIN blocked : blocked[i] \in QueueMessages
  BY DEF TypeOK
<1>3. \A i \in DOMAIN queue : queue[i] \in QueueMessages
  BY DEF TypeOK
<1>4. \A i \in DOMAIN handling : handling[i] \in QueueMessages
  BY DEF TypeOK
<1> QED
  BY <1>1, <1>2, <1>3, <1>4 DEF InFlight, Sound, live

LEMMA WaitingType ==
  ASSUME TypeOK, NEW c
  PROVE  /\ requests(blocked, c) \in Nat /\ requests(queue, c) \in Nat
         /\ requests(handling, c) \in Nat /\ waiting(c) \in Nat
<1>1. requests(blocked, c) \in Nat /\ requests(queue, c) \in Nat /\ requests(handling, c) \in Nat
  BY PlacesFinite DEF TypeOK
<1> QED
  BY <1>1 DEF waiting

LEMMA CountType ==
  ASSUME TypeOK, NEW c \in Connections
  PROVE  /\ asked[c] \in Nat /\ answered[c] \in Nat /\ waiting(c) \in Nat
         /\ got[c] \in Nat /\ missed[c] \in Nat /\ broadcasts \in Nat
<1>1. /\ asked[c] \in Nat /\ answered[c] \in Nat
      /\ got[c] \in Nat /\ missed[c] \in Nat /\ broadcasts \in Nat
  BY DEF TypeOK
<1> QED
  BY <1>1, WaitingType

LEMMA OnOpen ==
  ASSUME WsInv, NEW e \in Endpoints, on_open(e)
  PROVE  WsInv'
<1> DEFINE rec(a) == [endpoint |-> e, address |-> a, state |-> "open"]
<1>1. PICK a \in Addresses, c \in {opened + 1}, id \in {connection_id_ctr[e]} :
        /\ ~in_use(a) /\ opened' = c
        /\ conn' = [conn EXCEPT ![c] = rec(a)]
        /\ connection_id_ctr' = next_id(e)
        /\ connections_fmap' = [connections_fmap EXCEPT ![e] = emplace(@, id, c)]
        /\ connections_rmap' = [connections_rmap EXCEPT ![e] = emplace(@, a, id)]
        /\ missed' = [missed EXCEPT ![c] = broadcasts]
  BY DEF on_open
<1>2. /\ opened < OPENS /\ mutex_free(e)
      /\ UNCHANGED <<loop, blocked, queue, handling, cursor, alive>>
      /\ UNCHANGED <<asked, answered, got, broadcasts, received>>
  BY DEF on_open
<1>3. TypeOK /\ TableInv /\ InFlight /\ Forwarded /\ Unused /\ Received /\ RepliesBalance
  BY DEF WsInv
<1>4. /\ TableInv'
      /\ connection_id_ctr' \in [Endpoints -> 0..ID_RANGE-1]
      /\ c \in Connections /\ id \in 0..ID_RANGE-1 /\ ~live(c) /\ live(c)'
      /\ conn'[c] = rec(a)
      /\ \A d \in Connections : d # c => conn'[d] = conn[d]
      /\ connected(e)' = connected(e) \union {c} /\ c \notin connected(e)
      /\ \A f \in Endpoints : f # e => /\ connected(f)' = connected(f)
                                       /\ connections_fmap'[f] = connections_fmap[f]
                                       /\ connections_rmap'[f] = connections_rmap[f]
      /\ id \notin DOMAIN connections_fmap[e] /\ a \notin DOMAIN connections_rmap[e]
      /\ connections_fmap'[e] = emplace(connections_fmap[e], id, c)
      /\ connections_rmap'[e] = emplace(connections_rmap[e], a, id)
      /\ opened' < OPENS =>
           \A f \in Endpoints : /\ connection_id_ctr'[f] >= connection_id_ctr[f]
                                /\ connection_id_ctr'[e] > id
  BY <1>1, <1>2, <1>3, OpenTables
<1>5. opened \in 0..OPENS /\ c = opened + 1 /\ opened' = c /\ OPENS \in Nat
  BY <1>1, <1>3, Bounds DEF TypeOK
<1>6. TypeOK'
  <2>1. conn' \in [Connections -> [endpoint : Endpoints, address : Addresses,
                                   state : {"open", "leaving", "gone"}] \union {Unopened}]
    <3>1. rec(a) \in [endpoint : Endpoints, address : Addresses, state : {"open", "leaving", "gone"}]
      OBVIOUS
    <3> HIDE DEF rec
    <3> QED
      BY <1>1, <1>3, <3>1 DEF TypeOK
  <2>2. opened' \in 0..OPENS
    BY <1>2, <1>5
  <2>3. DOMAIN connections_fmap' = Endpoints /\ DOMAIN connections_rmap' = Endpoints
    BY <1>1, <1>3 DEF TypeOK
  <2>4. ASSUME NEW f \in Endpoints
        PROVE  /\ DOMAIN connections_fmap'[f] \subseteq 0..ID_RANGE-1
               /\ \A i \in DOMAIN connections_fmap'[f] : connections_fmap'[f][i] \in Connections
               /\ DOMAIN connections_rmap'[f] \subseteq Addresses
               /\ \A b \in DOMAIN connections_rmap'[f] : connections_rmap'[f][b] \in 0..ID_RANGE-1
    <3>1. CASE f # e
      BY <1>3, <1>4, <3>1 DEF TypeOK
    <3>2. CASE f = e
      <4> DEFINE F == connections_fmap[e]
                 R == connections_rmap[e]
      <4>1. /\ DOMAIN F \subseteq 0..ID_RANGE-1 /\ \A i \in DOMAIN F : F[i] \in Connections
            /\ DOMAIN R \subseteq Addresses /\ \A b \in DOMAIN R : R[b] \in 0..ID_RANGE-1
        BY <1>3 DEF TypeOK
      <4>2. /\ DOMAIN emplace(F, id, c) = DOMAIN F \union {id}
            /\ \A i \in DOMAIN F \union {id} : emplace(F, id, c)[i] \in Connections
        BY <1>4, <4>1 DEF emplace
      <4>3. /\ DOMAIN emplace(R, a, id) = DOMAIN R \union {a}
            /\ \A b \in DOMAIN R \union {a} : emplace(R, a, id)[b] \in 0..ID_RANGE-1
        BY <1>4, <4>1 DEF emplace
      <4> QED
        BY <1>4, <3>2, <4>1, <4>2, <4>3
    <3> QED
      BY <3>1, <3>2
  <2>5. missed' \in [Connections -> 0..DATAGRAMS]
    BY <1>1, <1>3 DEF TypeOK
  <2> QED
    BY <1>2, <1>3, <1>4, <2>1, <2>2, <2>3, <2>4, <2>5 DEF TypeOK
<1>7. InFlight'
  <2>1. ASSUME NEW m \in QueueMessages, Sound(m) PROVE Sound(m)'
    <3>1. m.from <= opened /\ m.from \in Connections /\ m.conn_id \in 0..ID_RANGE-1 /\ m.from \in Int
      BY <2>1 DEF Sound, QueueMessages, Connections
    <3>2. m.from # c /\ conn'[m.from] = conn[m.from] /\ m.from <= opened'
      BY <1>4, <1>5, <3>1
    <3>3. live(m.from)' <=> live(m.from)
      BY <3>2 DEF live
    <3>4. m.conn_id < connection_id_ctr["server"]
      BY <1>2, <2>1 DEF Sound
    <3>5. opened' < OPENS => m.conn_id < connection_id_ctr'["server"]
      <4>1. /\ connection_id_ctr["server"] \in Int /\ connection_id_ctr'["server"] \in Int
        BY <1>3, <1>4 DEF TypeOK, Endpoints
      <4> QED
        BY <1>4, <3>1, <3>4, <4>1 DEF Endpoints
    <3>6. CASE e # "server"
      <4>1. connections_fmap'["server"] = connections_fmap["server"]
        BY <1>4, <3>6 DEF Endpoints
      <4> QED
        BY <2>1, <3>2, <3>3, <3>5, <4>1 DEF Sound
    <3>7. CASE e = "server"
      <4>1. m.conn_id # id
        BY <1>1, <1>4, <3>1, <3>4, <3>7
      <4>2. /\ m.conn_id \in DOMAIN connections_fmap'["server"] <=>
                 m.conn_id \in DOMAIN connections_fmap["server"]
            /\ m.conn_id \in DOMAIN connections_fmap["server"] =>
                 connections_fmap'["server"][m.conn_id] = connections_fmap["server"][m.conn_id]
        BY <1>4, <3>7, <4>1 DEF emplace
      <4> QED
        BY <2>1, <3>2, <3>3, <3>5, <4>2 DEF Sound
    <3> QED
      BY <3>6, <3>7
  <2> QED
    BY <1>2, <1>3, <2>1, InFlightKept DEF flight
<1>8. Forwarded'
  <2> SUFFICES ASSUME alive, NEW d \in connected("broadcaster")'
               PROVE  got[d] = broadcasts - missed'[d] - pending(d)'
    BY <1>2 DEF Forwarded
  <2>1. d \in Connections
    BY DEF connected
  <2>2. CASE d = c
    <3>1. e = "broadcaster"
      BY <1>4, <2>2 DEF connected
    <3>2. pending(d)' = 0
      BY <1>2, <3>1 DEF pending, mutex_free
    <3>3. got[d] = 0
      BY <1>3, <1>5, <2>1, <2>2 DEF Unused
    <3>4. missed'[d] = broadcasts /\ broadcasts \in Int
      BY <1>1, <1>3, <2>1, <2>2 DEF TypeOK
    <3> QED
      BY <3>2, <3>3, <3>4
  <2>3. CASE d # c
    <3>1. d \in connected("broadcaster") /\ conn'[d] = conn[d]
      BY <1>4, <2>1, <2>3 DEF Endpoints
    <3>2. missed'[d] = missed[d]
      BY <1>1, <1>3, <2>1, <2>3 DEF TypeOK
    <3>3. pending(d)' = pending(d)
      <4>1. CASE e = "broadcaster"
        BY <1>2, <4>1 DEF pending, mutex_free
      <4>2. CASE e # "broadcaster"
        <5>1. connections_rmap'["broadcaster"] = connections_rmap["broadcaster"]
          BY <1>4, <4>2 DEF Endpoints
        <5> QED
          BY <1>2, <3>1, <5>1 DEF pending, id_of
      <4> QED
        BY <4>1, <4>2
    <3> QED
      BY <1>3, <3>1, <3>2, <3>3 DEF Forwarded
  <2> QED
    BY <2>2, <2>3
<1>9. Unused' /\ Received'
  BY <1>2, <1>3, <1>5 DEF Unused, Received, Connections
<1>10. RepliesBalance'
  <2> SUFFICES ASSUME alive, NEW d \in Connections
               PROVE  /\ answered[d] + waiting(d) <= asked[d]
                      /\ conn'[d].state = "open" => answered[d] + waiting(d) = asked[d]
    BY <1>2 DEF RepliesBalance, waiting
  <2>1. /\ answered[d] + waiting(d) <= asked[d]
        /\ conn[d].state = "open" => answered[d] + waiting(d) = asked[d]
    BY <1>3 DEF RepliesBalance
  <2>2. answered[d] \in Nat /\ waiting(d) \in Nat /\ asked[d] \in Nat
    BY <1>3, CountType
  <2>3. d = c => asked[d] = 0
    BY <1>3, <1>5 DEF Unused
  <2> QED
    BY <1>4, <2>1, <2>2, <2>3
<1> QED
  BY <1>4, <1>6, <1>7, <1>8, <1>9, <1>10 DEF WsInv

LEMMA OnLeave ==
  ASSUME WsInv, NEW c \in Connections, Leave(c)
  PROVE  WsInv'
<1>1. TypeOK /\ TableInv /\ InFlight /\ Forwarded /\ Unused /\ Received /\ RepliesBalance
  BY DEF WsInv
<1>2. /\ conn[c].state = "open" /\ conn' = [conn EXCEPT ![c].state = "leaving"]
      /\ UNCHANGED <<opened, loop, blocked, queue, handling, cursor, alive>>
      /\ UNCHANGED <<connection_id_ctr, connections_fmap, connections_rmap>>
      /\ UNCHANGED <<asked, answered, got, missed, broadcasts, received>>
  BY DEF Leave, tables, history
<1>3. /\ TableInv'
      /\ \A d \in Connections : live(d)' <=> live(d)
      /\ \A d \in Connections : conn'[d].address = conn[d].address
      /\ \A e \in Endpoints : connected(e)' = connected(e)
  BY <1>1, LeaveTables
<1>4. TypeOK'
  <2>1. live(c)
    BY <1>2 DEF live
  <2>2. conn' \in [Connections -> [endpoint : Endpoints, address : Addresses,
                                   state : {"open", "leaving", "gone"}] \union {Unopened}]
    BY <1>1, <1>2, <2>1, LiveType DEF TypeOK
  <2> QED
    BY <1>1, <1>2, <2>2 DEF TypeOK
<1>5. InFlight'
  <2>1. ASSUME NEW m \in QueueMessages, Sound(m) PROVE Sound(m)'
    BY <1>2, <1>3, <2>1 DEF Sound, QueueMessages
  <2> QED
    BY <1>1, <1>2, <2>1, InFlightKept DEF flight
<1>6. Forwarded'
  <2>1. connected("broadcaster")' = connected("broadcaster") /\ connected("broadcaster") \subseteq Connections
    BY <1>3 DEF Endpoints, connected
  <2>2. \A d \in connected("broadcaster") : pending(d)' = pending(d)
    BY <1>2, <1>3, <2>1 DEF pending, id_of
  <2> QED
    BY <1>1, <1>2, <2>1, <2>2 DEF Forwarded
<1>7. Unused' /\ Received'
  BY <1>1, <1>2 DEF Unused, Received
<1>8. RepliesBalance'
  <2>1. \A d \in Connections : conn'[d].state = "open" => conn[d].state = "open"
    BY <1>1, <1>2 DEF TypeOK
  <2>2. \A d : waiting(d)' = waiting(d)
    BY <1>2 DEF waiting
  <2> QED
    BY <1>1, <1>2, <2>1, <2>2 DEF RepliesBalance
<1> QED
  BY <1>3, <1>4, <1>5, <1>6, <1>7, <1>8 DEF WsInv

LEMMA OnClose ==
  ASSUME WsInv, NEW c \in Connections, on_close(c)
  PROVE  WsInv'
<1>1. TypeOK /\ TableInv /\ InFlight /\ Forwarded /\ Unused /\ Received /\ RepliesBalance
  BY DEF WsInv
<1>2. PICK e : e = conn[c].endpoint
  OBVIOUS
<1>3. /\ UNCHANGED <<opened, loop, connection_id_ctr, blocked, queue, handling, cursor, alive>>
      /\ UNCHANGED <<asked, answered, got, missed, broadcasts, received>>
      /\ mutex_free(e)
  BY <1>2 DEF on_close, history
<1>4. /\ TableInv'
      /\ e \in Endpoints /\ live(c) /\ c \in connected(e) /\ ~live(c)'
      /\ conn' \in [Connections -> [endpoint : Endpoints, address : Addresses,
                                    state : {"open", "leaving", "gone"}] \union {Unopened}]
      /\ \A d \in Connections : d # c => conn'[d] = conn[d]
      /\ connected(e)' = connected(e) \ {c}
      /\ \A f \in Endpoints : f # e => /\ connected(f)' = connected(f)
                                       /\ connections_fmap'[f] = connections_fmap[f]
                                       /\ connections_rmap'[f] = connections_rmap[f]
      /\ connections_fmap[e][id_of(e, c)] = c
      /\ DOMAIN connections_fmap' = Endpoints /\ DOMAIN connections_rmap' = Endpoints
      /\ connections_fmap'[e] = erase(connections_fmap[e], id_of(e, c))
      /\ connections_rmap'[e] = erase(connections_rmap[e], conn[c].address)
  BY <1>1, <1>2, CloseTables
<1>5. TypeOK'
  <2>1. ASSUME NEW f \in Endpoints
        PROVE  /\ DOMAIN connections_fmap'[f] \subseteq 0..ID_RANGE-1
               /\ \A i \in DOMAIN connections_fmap'[f] : connections_fmap'[f][i] \in Connections
               /\ DOMAIN connections_rmap'[f] \subseteq Addresses
               /\ \A b \in DOMAIN connections_rmap'[f] : connections_rmap'[f][b] \in 0..ID_RANGE-1
    <3>1. CASE f # e
      BY <1>1, <1>4, <3>1 DEF TypeOK
    <3>2. CASE f = e
      BY <1>1, <1>4, <3>2 DEF TypeOK, erase
    <3> QED
      BY <3>1, <3>2
  <2> QED
    BY <1>1, <1>3, <1>4, <2>1 DEF TypeOK
<1>6. InFlight'
  <2>1. ASSUME NEW m \in QueueMessages, Sound(m) PROVE Sound(m)'
    <3>1. m.from \in Connections
      BY DEF QueueMessages
    <3>2. CASE e # "server"
      <4>1. connections_fmap'["server"] = connections_fmap["server"]
        BY <1>4, <3>2 DEF Endpoints
      <4>2. live(m.from)' => live(m.from)
        BY <1>4, <3>1 DEF live
      <4> QED
        BY <1>3, <2>1, <4>1, <4>2 DEF Sound
    <3>3. CASE e = "server"
      <4>1. m.conn_id \in DOMAIN connections_fmap'["server"] =>
              /\ m.conn_id \in DOMAIN connections_fmap["server"]
              /\ connections_fmap'["server"][m.conn_id] = connections_fmap["server"][m.conn_id]
        BY <1>4, <3>3 DEF erase
      <4>2. live(m.from)' => m.conn_id \in DOMAIN connections_fmap'["server"]
        <5> SUFFICES ASSUME live(m.from)' PROVE m.conn_id \in DOMAIN connections_fmap'["server"]
          OBVIOUS
        <5>1. m.from # c /\ live(m.from)
          BY <1>4, <3>1 DEF live
        <5>2. /\ m.conn_id \in DOMAIN connections_fmap["server"]
              /\ connections_fmap["server"][m.conn_id] = m.from
          BY <2>1, <5>1 DEF Sound
        <5>3. m.conn_id # id_of(e, c)
          BY <1>4, <3>3, <5>1, <5>2
        <5> QED
          BY <1>4, <3>3, <5>2, <5>3 DEF erase
      <4> QED
        BY <1>3, <2>1, <4>1, <4>2 DEF Sound
    <3> QED
      BY <3>2, <3>3
  <2> QED
    BY <1>1, <1>3, <2>1, InFlightKept DEF flight
<1>7. Forwarded'
  <2> SUFFICES ASSUME alive, NEW d \in connected("broadcaster")'
               PROVE  got[d] = broadcasts - missed[d] - pending(d)'
    BY <1>3 DEF Forwarded
  <2>1. d \in connected("broadcaster")
    BY <1>4 DEF Endpoints
  <2>2. d \in Connections /\ d # c /\ conn'[d] = conn[d]
    BY <1>4 DEF connected, live
  <2>3. pending(d)' = pending(d)
    <3>1. CASE e = "broadcaster"
      BY <1>3, <3>1 DEF pending, mutex_free
    <3>2. CASE e # "broadcaster"
      <4>1. connections_rmap'["broadcaster"] = connections_rmap["broadcaster"]
        BY <1>4, <3>2 DEF Endpoints
      <4> QED
        BY <1>3, <2>2, <4>1 DEF pending, id_of
    <3> QED
      BY <3>1, <3>2
  <2> QED
    BY <1>1, <2>1, <2>3 DEF Forwarded
<1>8. Unused' /\ Received'
  BY <1>1, <1>3 DEF Unused, Received
<1>9. RepliesBalance'
  <2>1. \A d \in Connections : conn'[d].state = "open" => conn[d].state = "open"
    BY <1>4 DEF live
  <2>2. \A d : waiting(d)' = waiting(d)
    BY <1>3 DEF waiting
  <2> QED
    BY <1>1, <1>3, <2>1, <2>2 DEF RepliesBalance
<1> QED
  BY <1>4, <1>5, <1>6, <1>7, <1>8, <1>9 DEF WsInv

\* A request is counted when it reaches the event loop, and put on its way with the
\* id under which its sender is registered.
LEMMA OnMessage ==
  ASSUME WsInv, NEW c \in Connections, on_message(c)
  PROVE  WsInv'
<1>1. TypeOK /\ TableInv /\ InFlight /\ Forwarded /\ Unused /\ Received /\ RepliesBalance
  BY DEF WsInv
<1> DEFINE a == conn[c].address
           id == connections_rmap["server"][a]
<1>2. /\ conn[c].state = "open" /\ conn[c].endpoint = "server"
      /\ received < MESSAGES /\ received' = received + 1 /\ blocked = <<>>
      /\ UNCHANGED <<conn, opened, loop, queue, handling, cursor, alive>>
      /\ UNCHANGED tables
      /\ UNCHANGED <<answered, got, missed, broadcasts>>
  BY DEF on_message, loop_free
<1>3. live(c) /\ c \in connected("server")
  BY <1>1, <1>2, LiveType DEF live
<1>4. /\ a \in DOMAIN connections_rmap["server"] /\ id \in DOMAIN connections_fmap["server"]
      /\ connections_fmap["server"][id] = c
  BY <1>1, <1>3 DEF TableInv, Registered, id_of, Endpoints
<1>5. PICK cmd \in Commands :
        /\ asked' = IF cmd = "stats" THEN [asked EXCEPT ![c] = @ + 1] ELSE asked
        /\ blocked' = <<[conn_id |-> id, cmd |-> cmd, from |-> c]>>
  BY <1>2, <1>4 DEF on_message
<1> DEFINE m == [conn_id |-> id, cmd |-> cmd, from |-> c]
<1>6. m \in QueueMessages
  BY <1>1, <1>4 DEF TypeOK, QueueMessages, Endpoints
<1>7. blocked' \in Seq(QueueMessages) /\ Len(blocked') <= 1 /\ blocked' # <<>>
      /\ DOMAIN blocked' = {1} /\ blocked'[1] = m
  BY <1>5, <1>6
<1>8. c <= opened
  BY <1>1, <1>3 DEF TableInv, Blank, Unopened, live, Connections, TypeOK
<1>9. TypeOK' /\ Received' /\ Unused'
  <2>1. received \in 0..MESSAGES /\ received' \in 0..MESSAGES
    BY <1>1, <1>2, Bounds, SMTT(30) DEF TypeOK
  <2>2. \A d \in Connections : asked[d] <= received /\ asked[d] \in Nat
    BY <1>1, CountType DEF Received
  <2>3. asked' \in [Connections -> 0..MESSAGES] /\ Received'
    <3>1. asked[c] + 1 \in 0..MESSAGES
      BY <1>2, <2>1, <2>2, Bounds
    <3>2. asked' \in [Connections -> 0..MESSAGES]
      BY <1>1, <1>5, <3>1 DEF TypeOK
    <3>3. ASSUME NEW d \in Connections PROVE asked'[d] <= received'
      <4>1. asked'[d] = asked[d] \/ asked'[d] = asked[d] + 1
        BY <1>1, <1>5 DEF TypeOK
      <4>2. asked[d] <= received /\ asked[d] \in Int /\ received \in Int
        BY <2>1, <2>2
      <4> QED
        BY <1>2, <4>1, <4>2
    <3> QED
      BY <3>2, <3>3 DEF Received
  <2>4. Unused'
    <3>1. \A d \in Connections : d > opened => d # c
      BY <1>1, <1>8 DEF TypeOK, Connections
    <3> QED
      BY <1>1, <1>2, <1>5, <3>1 DEF Unused, TypeOK
  <2> QED
    BY <1>1, <1>2, <1>7, <2>1, <2>3, <2>4 DEF TypeOK, tables
<1>10. TableInv' /\ Forwarded'
  <2>1. UNCHANGED forwarding
    BY <1>2 DEF forwarding, tables
  <2> QED
    BY <1>1, <1>2, <2>1, TablesKept, ForwardedKept
<1>11. InFlight'
  <2>1. /\ connection_id_ctr' = connection_id_ctr /\ connections_fmap' = connections_fmap
        /\ conn' = conn /\ opened' = opened /\ queue' = queue /\ handling' = handling
    BY <1>2 DEF tables
  <2>2. Sound(m)
    <3>1. m.from = c /\ m.conn_id = id
      OBVIOUS
    <3>2. opened < OPENS => id < connection_id_ctr["server"]
      BY <1>1, <1>4 DEF TableInv, Numbered, Endpoints
    <3> HIDE DEF m, id
    <3> QED
      BY <1>4, <1>8, <3>1, <3>2 DEF Sound
  <2> HIDE DEF m
  <2> QED
    BY <1>1, <1>7, <2>1, <2>2 DEF InFlight, Sound, live
<1>12. RepliesBalance'
  <2> SUFFICES ASSUME alive, NEW d \in Connections
               PROVE  /\ answered[d] + waiting(d)' <= asked'[d]
                      /\ conn[d].state = "open" => answered[d] + waiting(d)' = asked'[d]
    BY <1>2 DEF RepliesBalance
  <2>1. /\ answered[d] + waiting(d) <= asked[d]
        /\ conn[d].state = "open" => answered[d] + waiting(d) = asked[d]
    BY <1>1 DEF RepliesBalance
  <2>2. requests(blocked, d) = 0 /\ requests(queue, d) \in Nat /\ requests(handling, d) \in Nat
    BY <1>1, <1>2, RequestsEmpty, WaitingType
  <2>3. requests(blocked', d) = mine(m, d)
    BY <1>7, RequestsSingle
  <2>4. mine(m, d) \in {0, 1}
    BY DEF mine
  <2>5. waiting(d)' = waiting(d) + mine(m, d)
    BY <1>2, <2>2, <2>3, <2>4 DEF waiting
  <2>6. asked'[d] = asked[d] + mine(m, d)
    <3>1. mine(m, d) = IF cmd = "stats" /\ c = d THEN 1 ELSE 0
      BY DEF mine
    <3>2. asked[d] \in Nat
      BY <1>1, CountType
    <3> QED
      BY <1>1, <1>5, <3>1, <3>2, SMTT(30) DEF TypeOK
  <2>7. answered[d] \in Nat /\ waiting(d) \in Nat /\ asked[d] \in Nat
    BY <1>1, CountType
  <2> HIDE DEF m
  <2> QED
    BY <2>1, <2>4, <2>5, <2>6, <2>7
<1> QED
  BY <1>9, <1>10, <1>11, <1>12 DEF WsInv

LEMMA OnSendToQueue ==
  ASSUME WsInv, SendToQueue
  PROVE  WsInv'
<1>1. TypeOK /\ TableInv /\ InFlight /\ Forwarded /\ Unused /\ Received /\ RepliesBalance
  BY DEF WsInv
<1>2. /\ blocked # <<>> /\ Len(queue) < QLEN /\ queue' = queue \o blocked /\ blocked' = <<>>
      /\ UNCHANGED <<conn, opened, loop, handling, cursor, alive>>
      /\ UNCHANGED tables
      /\ UNCHANGED <<asked, answered, got, missed, broadcasts, received>>
  BY DEF SendToQueue, history
<1>3. /\ blocked \in Seq(QueueMessages) /\ Len(blocked) <= 1 /\ queue \in Seq(QueueMessages)
  BY <1>1 DEF TypeOK
<1>4. PICK m \in QueueMessages : blocked = <<m>> /\ \A d : requests(blocked, d) = mine(m, d)
  BY <1>2, <1>3, RequestsSingle
<1>5. queue' = Append(queue, m)
  BY <1>2, <1>3, <1>4
<1>6. TypeOK'
  <2>1. queue' \in Seq(QueueMessages) /\ Len(queue') <= QLEN
    BY <1>2, <1>3, <1>5, Bounds
  <2> QED
    BY <1>1, <1>2, <2>1 DEF TypeOK, tables
<1>7. TableInv' /\ Forwarded' /\ Unused' /\ Received'
  <2>1. UNCHANGED forwarding
    BY <1>2 DEF forwarding, tables
  <2> QED
    BY <1>1, <1>2, <2>1, TablesKept, ForwardedKept DEF Unused, Received
<1>8. InFlight'
  <2>1. UNCHANGED <<conn, opened, connection_id_ctr, connections_fmap, handling>>
    BY <1>2 DEF tables
  <2>2. Sound(m)
    BY <1>1, <1>4 DEF InFlight
  <2>3. \A i \in DOMAIN queue' : queue'[i] = m \/ (i \in DOMAIN queue /\ queue'[i] = queue[i])
    BY <1>3, <1>5
  <2>4. DOMAIN blocked' = {}
    BY <1>2
  <2> QED
    BY <1>1, <2>1, <2>2, <2>3, <2>4 DEF InFlight, Sound, live
<1>9. RepliesBalance'
  <2>1. ASSUME NEW d PROVE waiting(d)' = waiting(d)
    <3>1. requests(queue', d) = requests(queue, d) + mine(m, d)
      BY <1>3, <1>5, RequestsAppend
    <3>2. requests(blocked', d) = 0 /\ requests(blocked, d) = mine(m, d)
      BY <1>2, <1>4, RequestsEmpty
    <3>3. /\ requests(queue, d) \in Nat /\ requests(handling, d) \in Nat /\ mine(m, d) \in {0, 1}
      BY <1>1, WaitingType DEF mine
    <3> QED
      BY <1>2, <3>1, <3>2, <3>3 DEF waiting
  <2> QED
    BY <1>1, <1>2, <2>1 DEF RepliesBalance
<1> QED
  BY <1>6, <1>7, <1>8, <1>9 DEF WsInv

LEMMA OnRunWs ==
  ASSUME WsInv, run_ws
  PROVE  WsInv'
<1>1. TypeOK /\ TableInv /\ InFlight /\ Forwarded /\ Unused /\ Received /\ RepliesBalance
  BY DEF WsInv
<1>2. /\ handling = <<>> /\ queue # <<>> /\ handling' = <<Head(queue)>> /\ queue' = Tail(queue)
      /\ UNCHANGED <<conn, opened, loop, blocked, cursor, alive>>
      /\ UNCHANGED tables
      /\ UNCHANGED <<asked, answered, got, missed, broadcasts, received>>
  BY DEF run_ws, history
<1>3. queue \in Seq(QueueMessages) /\ Len(queue) <= QLEN
  BY <1>1 DEF TypeOK
<1>4. /\ Head(queue) \in QueueMessages /\ Head(queue) = queue[1] /\ 1 \in DOMAIN queue
      /\ queue' \in Seq(QueueMessages) /\ Len(queue') <= QLEN
      /\ \A i \in DOMAIN queue' : i + 1 \in DOMAIN queue /\ queue'[i] = queue[i + 1]
  BY <1>2, <1>3, Bounds
<1>5. handling' \in Seq(QueueMessages) /\ Len(handling') <= 1 /\ handling' # <<>>
      /\ DOMAIN handling' = {1} /\ handling'[1] = Head(queue)
  BY <1>2, <1>4
<1>6. TypeOK'
  BY <1>1, <1>2, <1>4, <1>5 DEF TypeOK, tables
<1>7. TableInv' /\ Forwarded' /\ Unused' /\ Received'
  <2>1. UNCHANGED forwarding
    BY <1>2 DEF forwarding, tables
  <2> QED
    BY <1>1, <1>2, <2>1, TablesKept, ForwardedKept DEF Unused, Received
<1>8. InFlight'
  <2>1. UNCHANGED <<conn, opened, connection_id_ctr, connections_fmap, blocked>>
    BY <1>2 DEF tables
  <2> QED
    BY <1>1, <1>4, <1>5, <2>1 DEF InFlight, Sound, live
<1>9. RepliesBalance'
  <2>1. ASSUME NEW d PROVE waiting(d)' = waiting(d)
    <3>1. requests(queue, d) = requests(queue', d) + mine(Head(queue), d)
      BY <1>2, <1>3, RequestsTail
    <3>2. requests(handling', d) = mine(Head(queue), d) /\ requests(handling, d) = 0
      BY <1>2, <1>5, RequestsSingle, RequestsEmpty
    <3>3. requests(queue', d) \in Nat /\ requests(blocked, d) \in Nat /\ mine(Head(queue), d) \in {0, 1}
      BY <1>1, <1>4, PlacesFinite, WaitingType DEF mine
    <3> QED
      BY <1>2, <3>1, <3>2, <3>3 DEF waiting
  <2> QED
    BY <1>1, <1>2, <2>1 DEF RepliesBalance
<1> QED
  BY <1>6, <1>7, <1>8, <1>9 DEF WsInv

\* The reply goes to the sender, or the sender is gone.
LEMMA OnStats ==
  ASSUME WsInv, handle_ws_stats
  PROVE  WsInv'
<1>1. TypeOK /\ TableInv /\ InFlight /\ Forwarded /\ Unused /\ Received /\ RepliesBalance
  BY DEF WsInv
<1>2. /\ alive /\ handling # <<>> /\ handling[1].cmd = "stats" /\ handling' = <<>>
      /\ UNCHANGED <<conn, opened, loop, blocked, queue, cursor>>
      /\ UNCHANGED tables
      /\ UNCHANGED <<asked, got, missed, broadcasts, received>>
  BY DEF handle_ws_stats
<1>3. PICK m \in QueueMessages : /\ handling = <<m>> /\ handling[1] = m
                                 /\ \A d : requests(handling, d) = mine(m, d)
  <2>1. handling \in Seq(QueueMessages) /\ Len(handling) <= 1
    BY <1>1 DEF TypeOK
  <2> QED
    BY <1>2, <2>1, RequestsSingle
<1>4. Sound(m) /\ m.cmd = "stats" /\ m.from \in Connections
  BY <1>1, <1>2, <1>3 DEF InFlight, QueueMessages
<1>5. \/ /\ live(m.from) /\ alive' = alive /\ conn[m.from].state = "open"
         /\ answered' = [answered EXCEPT ![m.from] = @ + 1]
      \/ alive' = FALSE /\ answered' = answered
      \/ ~live(m.from) /\ alive' = alive /\ answered' = answered
  <2>1. CASE m.conn_id \in DOMAIN connections_fmap["server"]
    <3>1. connections_fmap["server"][m.conn_id] = m.from
      BY <1>4, <2>1 DEF Sound
    <3> QED
      BY <1>3, <2>1, <3>1 DEF handle_ws_stats, sends_to, throws, live
  <2>2. CASE m.conn_id \notin DOMAIN connections_fmap["server"]
    <3>1. ~live(m.from)
      BY <1>4, <2>2 DEF Sound
    <3> QED
      BY <1>3, <2>2, <3>1 DEF handle_ws_stats
  <2> QED
    BY <2>1, <2>2
<1>6. ASSUME NEW d PROVE waiting(d) = waiting(d)' + mine(m, d) /\ waiting(d)' \in Nat
  <2>1. requests(handling, d) = mine(m, d) /\ requests(handling', d) = 0
    BY <1>2, <1>3, RequestsEmpty
  <2>2. requests(blocked, d) \in Nat /\ requests(queue, d) \in Nat /\ mine(m, d) \in {0, 1}
    BY <1>1, WaitingType DEF mine
  <2> QED
    BY <1>2, <2>1, <2>2 DEF waiting
<1>7. mine(m, m.from) = 1 /\ \A d : mine(m, d) \in {0, 1} /\ (d # m.from => mine(m, d) = 0)
  BY <1>4 DEF mine
<1>8. TypeOK'
  <2>1. answered' \in [Connections -> 0..MESSAGES]
    <3>1. answered[m.from] + waiting(m.from) <= asked[m.from]
      BY <1>1, <1>2, <1>4 DEF RepliesBalance
    <3>2. waiting(m.from) = waiting(m.from)' + 1 /\ waiting(m.from)' \in Nat
      BY <1>6, <1>7
    <3>3. asked[m.from] \in 0..MESSAGES /\ answered[m.from] \in Nat
      BY <1>1, <1>4 DEF TypeOK
    <3>4. answered[m.from] + 1 \in 0..MESSAGES
      BY <3>1, <3>2, <3>3, Bounds
    <3> QED
      BY <1>1, <1>5, <3>4 DEF TypeOK
  <2>2. handling' \in Seq(QueueMessages) /\ Len(handling') <= 1
    BY <1>2
  <2>3. alive' \in BOOLEAN
    BY <1>1, <1>5 DEF TypeOK
  <2> QED
    BY <1>1, <1>2, <2>1, <2>2, <2>3 DEF TypeOK, tables
<1>9. TableInv' /\ Unused' /\ Received'
  BY <1>1, <1>2, TablesKept DEF Unused, Received
<1>10. Forwarded'
  <2>1. UNCHANGED <<conn, connections_rmap, cursor, got, broadcasts, missed>>
    BY <1>2 DEF tables
  <2> QED
    BY <1>1, <1>2, <2>1 DEF Forwarded, pending, connected, id_of
<1>11. InFlight'
  <2>1. UNCHANGED <<conn, opened, connection_id_ctr, connections_fmap, blocked, queue>>
    BY <1>2 DEF tables
  <2>2. DOMAIN handling' = {}
    BY <1>2
  <2> QED
    BY <1>1, <2>1, <2>2 DEF InFlight, Sound, live
<1>12. RepliesBalance'
  <2> SUFFICES ASSUME alive', NEW d \in Connections
               PROVE  /\ answered'[d] + waiting(d)' <= asked[d]
                      /\ conn[d].state = "open" => answered'[d] + waiting(d)' = asked[d]
    BY <1>2 DEF RepliesBalance
  <2>1. /\ answered[d] + waiting(d) <= asked[d]
        /\ conn[d].state = "open" => answered[d] + waiting(d) = asked[d]
    BY <1>1, <1>2 DEF RepliesBalance
  <2>2. waiting(d) = waiting(d)' + mine(m, d) /\ waiting(d)' \in Nat
    BY <1>6
  <2>3. answered[d] \in Nat /\ asked[d] \in Nat
    BY <1>1, CountType
  <2>4. CASE d # m.from
    <3>1. mine(m, d) = 0 /\ answered'[d] = answered[d]
      BY <1>1, <1>5, <1>7, <2>4 DEF TypeOK
    <3> QED
      BY <2>1, <2>2, <2>3, <3>1
  <2>5. CASE d = m.from /\ answered' = answered
    <3>0. answered[d] + 1 # answered[d]
      BY <2>3
    <3>1. ~live(d) /\ mine(m, d) = 1
      BY <1>1, <1>5, <1>7, <2>5, <3>0 DEF TypeOK
    <3>2. conn[d].state # "open"
      BY <3>1 DEF live
    <3> QED
      BY <2>1, <2>2, <2>3, <2>5, <3>1, <3>2
  <2>6. CASE d = m.from /\ answered' = [answered EXCEPT ![m.from] = @ + 1]
    <3>1. mine(m, d) = 1 /\ answered'[d] = answered[d] + 1
      BY <1>1, <1>7, <2>6 DEF TypeOK
    <3> QED
      BY <2>1, <2>2, <2>3, <3>1
  <2> QED
    BY <1>5, <2>4, <2>5, <2>6
<1> QED
  BY <1>8, <1>9, <1>10, <1>11, <1>12 DEF WsInv

LEMMA OnCommand ==
  ASSUME WsInv, handle_ws_command
  PROVE  WsInv'
<1>1. TypeOK /\ TableInv /\ InFlight /\ Forwarded /\ Unused /\ Received /\ RepliesBalance
  BY DEF WsInv
<1>2. /\ handling # <<>> /\ handling[1].cmd = "js" /\ handling' = <<>>
      /\ UNCHANGED <<conn, opened, loop, blocked, queue, cursor, alive>>
      /\ UNCHANGED tables
      /\ UNCHANGED <<asked, answered, got, missed, broadcasts, received>>
  BY DEF handle_ws_command, history
<1>3. \A d : requests(handling, d) = 0
  <2>1. handling \in Seq(QueueMessages) /\ Len(handling) <= 1
    BY <1>1 DEF TypeOK
  <2> QED
    BY <1>2, <2>1, RequestsSingle DEF mine
<1>4. TypeOK'
  <2>1. handling' \in Seq(QueueMessages) /\ Len(handling') <= 1
    BY <1>2
  <2> QED
    BY <1>1, <1>2, <2>1 DEF TypeOK, tables
<1>5. TableInv' /\ Forwarded' /\ Unused' /\ Received'
  <2>1. UNCHANGED forwarding
    BY <1>2 DEF forwarding, tables
  <2> QED
    BY <1>1, <1>2, <2>1, TablesKept, ForwardedKept DEF Unused, Received
<1>6. InFlight'
  <2>1. UNCHANGED <<conn, opened, connection_id_ctr, connections_fmap, blocked, queue>>
    BY <1>2 DEF tables
  <2>2. DOMAIN handling' = {}
    BY <1>2
  <2> QED
    BY <1>1, <2>1, <2>2 DEF InFlight, Sound, live
<1>7. RepliesBalance'
  <2>1. ASSUME NEW d PROVE waiting(d)' = waiting(d)
    BY <1>2, <1>3, RequestsEmpty DEF waiting
  <2> QED
    BY <1>1, <1>2, <2>1 DEF RepliesBalance
<1> QED
  BY <1>4, <1>5, <1>6, <1>7 DEF WsInv

-----------------------------------------------------------------------------
(* The broadcast. *)

LEMMA OnRunUdp ==
  ASSUME WsInv, run_udp
  PROVE  WsInv'
<1>1. TypeOK /\ TableInv /\ InFlight /\ Forwarded /\ Unused /\ Received /\ RepliesBalance
  BY DEF WsInv
<1>2. /\ cursor = <<>> /\ broadcasts < DATAGRAMS /\ cursor' = <<-1>> /\ broadcasts' = broadcasts + 1
      /\ UNCHANGED <<conn, opened, loop, blocked, queue, handling, alive>>
      /\ UNCHANGED tables
      /\ UNCHANGED <<asked, answered, got, missed, received>>
  BY DEF run_udp
<1>3. TypeOK'
  <2>1. cursor' \in Seq(-1..ID_RANGE-1) /\ Len(cursor') <= 1
    <3>1. -1 \in -1..ID_RANGE-1
      BY Bounds
    <3> QED
      BY <1>2, <3>1
  <2>2. broadcasts' \in 0..DATAGRAMS
    BY <1>1, <1>2, Bounds DEF TypeOK
  <2> QED
    BY <1>1, <1>2, <2>1, <2>2 DEF TypeOK, tables
<1>4. TableInv' /\ Unused' /\ Received'
  BY <1>1, <1>2, TablesKept DEF Unused, Received
<1>5. InFlight'
  <2>1. UNCHANGED flight
    BY <1>2 DEF flight
  <2> QED
    BY <1>1, <1>2, <2>1, SoundKept, InFlightKept
<1>6. Forwarded'
  <2> SUFFICES ASSUME alive, NEW c \in connected("broadcaster")
               PROVE  got[c] = broadcasts' - missed[c] - pending(c)'
    BY <1>2 DEF Forwarded, connected
  <2>1. got[c] = broadcasts - missed[c] - pending(c) /\ pending(c) = 0
    BY <1>1, <1>2 DEF Forwarded, pending
  <2>2. id_of("broadcaster", c)' = id_of("broadcaster", c)
    BY <1>2 DEF tables, id_of
  <2>3. id_of("broadcaster", c) \in 0..ID_RANGE-1
    BY <1>1 DEF TableInv, Registered, TypeOK, Endpoints, id_of
  <2>4. cursor'[1] = -1 /\ cursor' # <<>>
    BY <1>2
  <2>5. pending(c)' = 1
    BY <2>2, <2>3, <2>4, Bounds DEF pending
  <2>6. c \in Connections
    BY DEF connected
  <2>7. got[c] \in Nat /\ missed[c] \in Nat /\ broadcasts \in Nat
    BY <1>1, <2>6, CountType
  <2> QED
    BY <1>2, <2>1, <2>5, <2>7
<1>7. RepliesBalance'
  BY <1>1, <1>2 DEF RepliesBalance, waiting
<1> QED
  BY <1>3, <1>4, <1>5, <1>6, <1>7 DEF WsInv

\* The next connection in the order of ids gets the datagram.
LEMMA OnForward ==
  ASSUME WsInv, Forward
  PROVE  WsInv'
<1>1. TypeOK /\ TableInv /\ InFlight /\ Forwarded /\ Unused /\ Received /\ RepliesBalance
  BY DEF WsInv
<1>2. /\ alive /\ cursor # <<>>
      /\ UNCHANGED <<conn, opened, loop, blocked, queue, handling>>
      /\ UNCHANGED tables
      /\ UNCHANGED <<asked, answered, missed, broadcasts, received>>
  BY DEF Forward
<1>a. PICK id \in ahead : \E c \in {connections_fmap["broadcaster"][id]} :
        /\ \A other \in ahead : id <= other
        /\ \/ sends_to(c) /\ got' = [got EXCEPT ![c] = @ + 1]
           \/ throws(c) /\ UNCHANGED got
        /\ cursor' = <<id>>
  BY DEF Forward
<1>3. PICK c \in {connections_fmap["broadcaster"][id]} :
        /\ \A other \in ahead : id <= other
        /\ \/ sends_to(c) /\ got' = [got EXCEPT ![c] = @ + 1]
           \/ throws(c) /\ UNCHANGED got
        /\ cursor' = <<id>>
  BY <1>a
<1>4. /\ id \in DOMAIN connections_fmap["broadcaster"] /\ id > cursor[1]
      /\ id \in 0..ID_RANGE-1
      /\ c = connections_fmap["broadcaster"][id]
  BY <1>1, <1>3 DEF ahead, TypeOK, Endpoints
<1>5. cursor[1] \in Int
  <2>1. \A S : cursor \in Seq(S) => cursor[1] \in S
    BY <1>2
  <2>2. cursor[1] \in -1..ID_RANGE-1
    BY <1>1, <2>1 DEF TypeOK
  <2> QED
    BY <2>2
<1>6. c \in connected("broadcaster") /\ id_of("broadcaster", c) = id /\ c \in Connections
  BY <1>1, <1>4 DEF TableInv, Registered, Endpoints, connected
<1>7. got[c] = broadcasts - missed[c] - 1
  BY <1>1, <1>2, <1>4, <1>6 DEF Forwarded, pending
<1>8. c <= opened
  <2>1. live(c)
    BY <1>6 DEF connected, live
  <2> QED
    BY <1>1, <1>6, <2>1 DEF TableInv, Blank, Unopened, live, Connections, TypeOK
<1>9. TypeOK'
  <2>1. got' \in [Connections -> 0..DATAGRAMS]
    <3>1. got[c] + 1 \in 0..DATAGRAMS
      <4>1. got[c] \in Nat /\ missed[c] \in Nat /\ broadcasts \in 0..DATAGRAMS
        BY <1>1, <1>6, CountType DEF TypeOK
      <4> QED
        BY <1>7, <4>1, Bounds
    <3> QED
      BY <1>1, <1>3, <1>6, <3>1 DEF TypeOK
  <2>2. cursor' \in Seq(-1..ID_RANGE-1) /\ Len(cursor') <= 1
    <3>1. id \in -1..ID_RANGE-1
      BY <1>4, Bounds
    <3> QED
      BY <1>3, <3>1
  <2>3. alive' \in BOOLEAN
    BY <1>1, <1>3 DEF TypeOK, sends_to, throws
  <2> QED
    BY <1>1, <1>2, <2>1, <2>2, <2>3 DEF TypeOK, tables
<1>10. TableInv' /\ Received'
  BY <1>1, <1>2, TablesKept DEF Received
<1>11. Unused'
  <2>1. \A d \in Connections : d > opened => d # c
    BY <1>1, <1>6, <1>8 DEF TypeOK, Connections
  <2> QED
    BY <1>1, <1>2, <1>3, <2>1 DEF Unused, TypeOK
<1>12. InFlight'
  <2>1. UNCHANGED flight
    BY <1>2 DEF flight
  <2> QED
    BY <1>1, <1>2, <2>1, SoundKept, InFlightKept
<1>13. Forwarded'
  <2> SUFFICES ASSUME alive', NEW d \in connected("broadcaster")
               PROVE  got'[d] = broadcasts - missed[d] - pending(d)'
    BY <1>2 DEF Forwarded, connected
  <2>1. got' = [got EXCEPT ![c] = @ + 1]
    BY <1>3 DEF throws
  <2> DEFINE i == id_of("broadcaster", d)
  <2>2. /\ d \in Connections /\ i \in DOMAIN connections_fmap["broadcaster"]
        /\ connections_fmap["broadcaster"][i] = d /\ i \in 0..ID_RANGE-1
    BY <1>1 DEF TableInv, Registered, Endpoints, connected, TypeOK
  <2>3. got[d] = broadcasts - missed[d] - pending(d)
    BY <1>1, <1>2 DEF Forwarded
  <2>4. pending(d) = IF i > cursor[1] THEN 1 ELSE 0
    BY <1>2 DEF pending
  <2>5. pending(d)' = IF i > id THEN 1 ELSE 0
    <3>1. id_of("broadcaster", d)' = i
      BY <1>2 DEF tables, id_of
    <3>2. cursor' # <<>> /\ cursor'[1] = id
      BY <1>3
    <3> HIDE DEF i
    <3> QED
      BY <3>1, <3>2 DEF pending
  <2>6. CASE d = c
    <3>1. got'[d] = got[d] + 1 /\ i = id
      BY <1>1, <1>6, <2>1, <2>6 DEF TypeOK
    <3>2. got[d] \in Nat /\ missed[d] \in Nat /\ broadcasts \in Nat
      BY <1>1, <2>2, CountType
    <3> QED
      BY <1>4, <1>7, <2>5, <2>6, <3>1, <3>2
  <2>7. CASE d # c
    <3>1. got'[d] = got[d] /\ i # id
      BY <1>1, <1>4, <2>1, <2>2, <2>7 DEF TypeOK
    <3>2. i > cursor[1] => i >= id
      BY <1>3, <2>2 DEF ahead
    <3>3. pending(d)' = pending(d)
      BY <1>4, <1>5, <2>2, <2>4, <2>5, <3>1, <3>2, Bounds
    <3> QED
      BY <2>3, <3>1, <3>3
  <2> QED
    BY <2>6, <2>7
<1>14. RepliesBalance'
  BY <1>1, <1>2 DEF RepliesBalance, waiting
<1> QED
  BY <1>9, <1>10, <1>11, <1>12, <1>13, <1>14 DEF WsInv

LEMMA OnBroadcastDone ==
  ASSUME WsInv, BroadcastDone
  PROVE  WsInv'
<1>1. TypeOK /\ TableInv /\ InFlight /\ Forwarded /\ Unused /\ Received /\ RepliesBalance
  BY DEF WsInv
<1>2. /\ cursor # <<>> /\ ahead = {} /\ cursor' = <<>>
      /\ UNCHANGED <<conn, opened, loop, blocked, queue, handling, alive>>
      /\ UNCHANGED tables
      /\ UNCHANGED <<asked, answered, got, missed, broadcasts, received>>
  BY DEF BroadcastDone, history
<1>3. TypeOK'
  <2>1. cursor' \in Seq(-1..ID_RANGE-1) /\ Len(cursor') <= 1
    BY <1>2
  <2> QED
    BY <1>1, <1>2, <2>1 DEF TypeOK, tables
<1>4. TableInv' /\ Unused' /\ Received'
  BY <1>1, <1>2, TablesKept DEF Unused, Received
<1>5. InFlight'
  <2>1. UNCHANGED flight
    BY <1>2 DEF flight
  <2> QED
    BY <1>1, <1>2, <2>1, SoundKept, InFlightKept
<1>6. Forwarded'
  <2> SUFFICES ASSUME alive, NEW c \in connected("broadcaster")
               PROVE  got[c] = broadcasts - missed[c] - pending(c)'
    BY <1>2 DEF Forwarded, connected
  <2>1. id_of("broadcaster", c) \in DOMAIN connections_fmap["broadcaster"]
    BY <1>1 DEF TableInv, Registered, Endpoints
  <2>2. ~(id_of("broadcaster", c) > cursor[1])
    BY <1>2, <2>1 DEF ahead
  <2>3. pending(c) = 0 /\ pending(c)' = 0
    BY <1>2, <2>2 DEF pending
  <2> QED
    BY <1>1, <2>3 DEF Forwarded
<1>7. RepliesBalance'
  BY <1>1, <1>2 DEF RepliesBalance, waiting
<1> QED
  BY <1>3, <1>4, <1>5, <1>6, <1>7 DEF WsInv

\* A step that changes at most what the event loops are doing.
LEMMA OnAside ==
  ASSUME WsInv, loop' \in [Endpoints -> {"starting", "running", "ended"}],
         UNCHANGED <<conn, opened, blocked, queue, handling, cursor, alive>>,
         UNCHANGED tables, UNCHANGED history
  PROVE  WsInv'
<1>1. TypeOK /\ TableInv /\ InFlight /\ Forwarded /\ Unused /\ Received /\ RepliesBalance
  BY DEF WsInv
<1>2. UNCHANGED <<asked, answered, got, missed, broadcasts, received>>
  BY DEF history
<1>3. TypeOK'
  BY <1>1, <1>2 DEF TypeOK, tables
<1>4. UNCHANGED forwarding /\ UNCHANGED flight
  BY <1>2 DEF forwarding, flight, tables
<1>5. TableInv' /\ Forwarded' /\ Unused' /\ Received' /\ InFlight'
  BY <1>1, <1>2, <1>4, TablesKept, ForwardedKept, SoundKept, InFlightKept DEF Unused, Received
<1>6. RepliesBalance'
  BY <1>1, <1>2 DEF RepliesBalance, waiting
<1> QED
  BY <1>3, <1>5, <1>6 DEF WsInv

-----------------------------------------------------------------------------
(* Theorems. *)

LEMMA InitWs == Init => WsInv
<1> SUFFICES ASSUME Init PROVE WsInv
  OBVIOUS
<1>1. /\ conn = [c \in Connections |-> Unopened] /\ opened = 0
      /\ connection_id_ctr = [e \in Endpoints |-> 0]
      /\ connections_fmap = [e \in Endpoints |-> <<>>]
      /\ connections_rmap = [e \in Endpoints |-> <<>>]
      /\ blocked = <<>> /\ queue = <<>> /\ handling = <<>> /\ cursor = <<>>
  BY DEF Init
<1>2. \A e \in Endpoints : DOMAIN connections_fmap[e] = {} /\ DOMAIN connections_rmap[e] = {}
  BY <1>1
<1>3. \A e \in Endpoints : connected(e) = {}
  BY <1>1 DEF connected, Unopened
<1>4. TypeOK
  <2>1. /\ blocked \in Seq(QueueMessages) /\ queue \in Seq(QueueMessages)
        /\ handling \in Seq(QueueMessages) /\ cursor \in Seq(-1..ID_RANGE-1)
        /\ Len(blocked) <= 1 /\ Len(queue) <= QLEN /\ Len(handling) <= 1 /\ Len(cursor) <= 1
    BY <1>1, Bounds
  <2>2. /\ asked \in [Connections -> 0..MESSAGES] /\ answered \in [Connections -> 0..MESSAGES]
        /\ got \in [Connections -> 0..DATAGRAMS] /\ missed \in [Connections -> 0..DATAGRAMS]
        /\ broadcasts \in 0..DATAGRAMS /\ received \in 0..MESSAGES
    BY Bounds DEF Init
  <2>3. /\ opened \in 0..OPENS /\ connection_id_ctr \in [Endpoints -> 0..ID_RANGE-1]
    BY <1>1, Bounds
  <2>4. loop \in [Endpoints -> {"starting", "running", "ended"}] /\ alive \in BOOLEAN
    BY DEF Init
  <2>5. DOMAIN connections_fmap = Endpoints /\ DOMAIN connections_rmap = Endpoints
    BY <1>1
  <2>6. conn \in [Connections -> [endpoint : Endpoints, address : Addresses,
                                  state : {"open", "leaving", "gone"}] \union {Unopened}]
    BY <1>1
  <2> QED
    BY <1>2, <2>1, <2>2, <2>3, <2>4, <2>5, <2>6 DEF TypeOK
<1>5. TableInv
  BY <1>1, <1>2, <1>3 DEF TableInv, Registered, Distinct, Blank, Numbered, live, Unopened
<1>6. InFlight
  BY <1>1 DEF InFlight
<1>7. Forwarded
  BY <1>3 DEF Forwarded, Endpoints
<1>8. Unused /\ Received
  BY DEF Init, Unused, Received
<1>9. RepliesBalance
  <2>1. \A c : waiting(c) = 0
    BY <1>1, RequestsEmpty DEF waiting
  <2> QED
    BY <2>1 DEF Init, RepliesBalance
<1> QED
  BY <1>4, <1>5, <1>6, <1>7, <1>8, <1>9 DEF WsInv

LEMMA NextWs == WsInv /\ [Next]_vars => WsInv'
<1> SUFFICES ASSUME WsInv, [Next]_vars PROVE WsInv'
  OBVIOUS
<1>1. ASSUME NEW e \in Endpoints, Listen(e) PROVE WsInv'
  <2>1. loop' \in [Endpoints -> {"starting", "running", "ended"}]
    BY <1>1 DEF Listen, WsInv, TypeOK
  <2>2. /\ UNCHANGED <<conn, opened, blocked, queue, handling, cursor, alive>>
        /\ UNCHANGED tables /\ UNCHANGED history
    BY Zenon, <1>1 DEF Listen
  <2> QED
    BY <2>1, <2>2, OnAside
<1>2. CASE UNCHANGED vars
  <2>1. /\ UNCHANGED <<conn, opened, blocked, queue, handling, cursor, alive>>
        /\ UNCHANGED tables /\ UNCHANGED history /\ UNCHANGED loop
    BY Zenon, <1>2 DEF vars
  <2> QED
    BY <2>1, OnAside DEF WsInv, TypeOK
<1> QED
  BY <1>1, <1>2, OnOpen, OnLeave, OnClose, OnMessage, OnSendToQueue, OnRunWs, OnStats, OnCommand,
     OnRunUdp, OnForward, OnBroadcastDone DEF Next, WsThread, UdpThread

\* The parts of the invariant hold together, however connections, requests and
\* datagrams interleave.
THEOREM WsInvariant == Spec => []WsInv
BY InitWs, NextWs, PTL DEF Spec

\* The queue never exceeds what the socketpair holds, an id fits its 32 bits, and
\* the maps hold connections and ids only.
THEOREM WsTypeCorrect == Spec => []TypeOK
BY WsInvariant, PTL DEF WsInv

\* connections_fmap and connections_rmap hold exactly the live connections, each
\* under one id and under its own address.
THEOREM TablesAlwaysExact == Spec => []TablesExact
<1>1. WsInv => TablesExact
  <2> SUFFICES ASSUME WsInv, NEW e \in Endpoints
               PROVE  /\ {connections_fmap[e][id] : id \in DOMAIN connections_fmap[e]} = connected(e)
                      /\ DOMAIN connections_rmap[e] = {conn[c].address : c \in connected(e)}
                      /\ \A id \in DOMAIN connections_fmap[e] :
                           connections_rmap[e][conn[connections_fmap[e][id]].address] = id
    BY DEF TablesExact
  <2> QED
    BY DEF WsInv, TableInv, Registered, id_of
<1> QED
  BY <1>1, WsInvariant, PTL

\* A stats reply goes to the connection that asked, once, although its id is looked
\* up when it may have left and its address may have been taken over.
THEOREM RepliesAlwaysBalance == Spec => []RepliesBalance
BY WsInvariant, PTL DEF WsInv

\* Between broadcasts every registered connection has been sent each datagram since
\* it was registered, once.
THEOREM BroadcastAlwaysComplete == Spec => []BroadcastComplete
<1>1. WsInv => BroadcastComplete
  <2> SUFFICES ASSUME WsInv, alive, cursor = <<>>, NEW c \in connected("broadcaster")
               PROVE  got[c] = broadcasts - missed[c]
    BY DEF BroadcastComplete
  <2>1. got[c] = broadcasts - missed[c] - pending(c) /\ pending(c) = 0
    BY DEF WsInv, Forwarded, pending
  <2>2. c \in Connections
    BY DEF connected
  <2>3. missed[c] \in Nat /\ broadcasts \in Nat
    BY <2>2, CountType DEF WsInv
  <2> QED
    BY <2>1, <2>3
<1> QED
  BY <1>1, WsInvariant, PTL

\* The udp thread's iteration over connections_fmap never sees the map change.
THEOREM IterationAlwaysSafe == Spec => IterationSafe
<1>1. WsInv /\ [Next]_vars =>
        [cursor # <<>> => connections_fmap'["broadcaster"] = connections_fmap["broadcaster"]]_vars
  <2> SUFFICES ASSUME WsInv, Next, cursor # <<>>
               PROVE  connections_fmap'["broadcaster"] = connections_fmap["broadcaster"]
    OBVIOUS
  <2>1. "broadcaster" \in Endpoints /\ DOMAIN connections_fmap = Endpoints
    BY DEF Endpoints, WsInv, TypeOK
  <2>2. ASSUME UNCHANGED tables PROVE connections_fmap'["broadcaster"] = connections_fmap["broadcaster"]
    BY <2>2 DEF tables
  <2>3. ASSUME NEW e \in Endpoints, on_open(e)
        PROVE  connections_fmap'["broadcaster"] = connections_fmap["broadcaster"]
    <3>1. e # "broadcaster"
      BY <2>3 DEF on_open, mutex_free
    <3> QED
      BY <2>1, <2>3, <3>1 DEF on_open
  <2>4. ASSUME NEW c \in Connections, on_close(c)
        PROVE  connections_fmap'["broadcaster"] = connections_fmap["broadcaster"]
    <3>1. conn[c].endpoint # "broadcaster"
      BY <2>4 DEF on_close, mutex_free
    <3> QED
      BY <2>1, <2>4, <3>1 DEF on_close, close_maps
  <2>5. CASE SendToQueue \/ WsThread \/ run_udp \/ UdpThread
    <3>1. UNCHANGED tables
      BY <2>5 DEF SendToQueue, WsThread, run_ws, handle_ws_stats, handle_ws_command, run_udp,
         UdpThread, Forward, BroadcastDone
    <3> QED
      BY <2>2, <3>1
  <2>6. CASE \/ \E e \in Endpoints : Listen(e)
             \/ \E c \in Connections : Leave(c) \/ on_message(c)
    <3>1. UNCHANGED tables
      BY <2>6 DEF Listen, Leave, on_message
    <3> QED
      BY <2>2, <3>1
  <2> QED
    BY <2>3, <2>4, <2>5, <2>6 DEF Next
<1> QED
  BY <1>1, WsInvariant, PTL DEF Spec, IterationSafe

\* Only a connection between its end and its close handler can make send() throw
\* and the process die: the maps hold no other that is not open, and the id of a
\* request leads to its sender (Sound).
THEOREM DiesOnlyThen == Spec => DiesOnlyInCloseWindow
<1> DEFINE Answering == /\ handling' # handling
                        /\ conn[handling[1].from].state = "leaving"
           Broadcasting == /\ cursor' # cursor
                           /\ conn[connections_fmap["broadcaster"][cursor'[1]]].state = "leaving"
<1>1. WsInv /\ [Next]_vars => [alive /\ ~alive' => Answering \/ Broadcasting]_vars
  <2> SUFFICES ASSUME WsInv, Next, alive, ~alive'
               PROVE  Answering \/ Broadcasting
    OBVIOUS
  <2>1. ASSUME NEW e \in Endpoints, NEW id \in DOMAIN connections_fmap[e],
               throws(connections_fmap[e][id])
        PROVE  conn[connections_fmap[e][id]].state = "leaving"
    <3>1. connections_fmap[e][id] \in connected(e)
      BY DEF WsInv, TableInv, Registered
    <3> QED
      BY <2>1, <3>1 DEF connected, throws
  <2>2. CASE handle_ws_stats
    <3> DEFINE id == handling[1].conn_id
    <3>1. /\ handling # <<>> /\ handling' = <<>>
          /\ id \in DOMAIN connections_fmap["server"]
          /\ throws(connections_fmap["server"][id])
      BY <2>2 DEF handle_ws_stats, sends_to
    <3>2. 1 \in DOMAIN handling
      BY <3>1 DEF WsInv, TypeOK
    <3>3. connections_fmap["server"][id] = handling[1].from
      BY <3>1, <3>2 DEF WsInv, InFlight, Sound
    <3>4. conn[connections_fmap["server"][id]].state = "leaving"
      BY <2>1, <3>1 DEF Endpoints
    <3> QED
      BY <3>1, <3>3, <3>4
  <2>3. CASE Forward
    <3>1. PICK id \in ahead : /\ throws(connections_fmap["broadcaster"][id])
                              /\ cursor # <<>> /\ cursor' = <<id>>
      BY <2>3 DEF Forward, sends_to
    <3>2. id \in DOMAIN connections_fmap["broadcaster"] /\ id > cursor[1]
      BY <3>1 DEF ahead
    <3>3. conn[connections_fmap["broadcaster"][id]].state = "leaving"
      BY <2>1, <3>1, <3>2 DEF Endpoints
    <3>4. cursor[1] \in Int /\ id \in Int
      <4>1. cursor \in Seq(-1..ID_RANGE-1) /\ ID_RANGE \in Int
        BY BoundAssumption DEF WsInv, TypeOK
      <4>2. cursor[1] \in -1..ID_RANGE-1
        BY <3>1, <4>1
      <4>3. id \in 0..ID_RANGE-1
        BY <3>2 DEF WsInv, TypeOK, Endpoints
      <4> QED
        BY <4>1, <4>2, <4>3
    <3>5. cursor'[1] # cursor[1]
      BY <3>1, <3>2, <3>4
    <3> QED
      BY <3>1, <3>3, <3>5
  <2>4. handle_ws_stats \/ Forward
    BY DEF Next, SendToQueue, WsThread, run_ws, handle_ws_command, run_udp, UdpThread,
       BroadcastDone, Listen, on_open, Leave, on_close, on_message
  <2> QED
    BY <2>2, <2>3, <2>4
<1> QED
  BY <1>1, WsInvariant, PTL DEF Spec, DiesOnlyInCloseWindow
=============================================================================
