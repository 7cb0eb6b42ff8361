------------------------------ MODULE WsServer ------------------------------
(***************************************************************************)
(* The two websocket endpoints of the rover: ws_server (port 9002, the     *)
(* web client's commands) with the ws thread of main_app that answers      *)
(* them, and ws_broadcaster (port 9003) with its udp thread that forwards  *)
(* every datagram to every connection.  Each endpoint has a thread in      *)
(* websocketpp's event loop, which makes all its handlers sequential, and  *)
(* a pair of maps guarded by server_mutex.                                 *)
(*                                                                         *)
(* A connection is named by its handle, a weak_ptr, which is never reused; *)
(* the address of the connection object, the key of connections_rmap, is   *)
(* reused once the object is gone.  websocketpp leaves the state "open"    *)
(* when the peer closes or disappears, before the close handler runs, and  *)
(* send() to a connection in that window throws.  Nothing on the ws and    *)
(* udp threads catches it: the process dies.                               *)
(***************************************************************************)
EXTENDS Integers, Sequences, FiniteSets

CONSTANTS
  Addresses,   \* where the allocator places connection objects
  QLEN,        \* messages the socketpair holds before ::send blocks
  ID_RANGE,    \* values of connection_id_ctr (2^32)
  OPENS,       \* bound on connections opened
  MESSAGES,    \* bound on messages received on port 9002
  DATAGRAMS    \* bound on datagrams broadcast

ASSUME BoundAssumption ==
  /\ QLEN \in Nat \ {0} /\ MESSAGES \in Nat /\ DATAGRAMS \in Nat
  /\ OPENS \in Nat /\ ID_RANGE \in Nat \ {0} /\ OPENS <= ID_RANGE

Endpoints   == {"server", "broadcaster"}
Connections == 1..OPENS        \* handles, in the order of opening
Commands    == {"stats", "js"} \* "led" goes the way of "js"

VARIABLES
  conn,               \* handle -> endpoint, address and websocketpp state
  opened,             \* connections opened so far
  loop,               \* what each event loop is doing
  connection_id_ctr, connections_fmap, connections_rmap,
  blocked,            \* the message on_message is sending to the queue
  queue,              \* ws_server_queue_socks
  handling,           \* the message the ws thread has taken
  cursor,             \* the broadcast in progress: the id served last
  alive               \* the process

tables == <<connection_id_ctr, connections_fmap, connections_rmap>>

(***************************************************************************)
(* History, for the properties: per connection the stats requests received *)
(* and the replies it was sent, the datagrams it was sent and those that   *)
(* had been broadcast before it was registered.                            *)
(***************************************************************************)
VARIABLES asked, answered, got, missed, broadcasts, received
history == <<asked, answered, got, missed, broadcasts, received>>

vars == <<conn, opened, loop, tables, blocked, queue, handling, cursor, alive, history>>

Unopened == [endpoint |-> "none", address |-> "none", state |-> "none"]

Init ==
  /\ conn = [c \in Connections |-> Unopened] /\ opened = 0
  /\ loop = [e \in Endpoints |-> "starting"]
  /\ connection_id_ctr = [e \in Endpoints |-> 0]
  /\ connections_fmap = [e \in Endpoints |-> <<>>]
  /\ connections_rmap = [e \in Endpoints |-> <<>>]
  /\ blocked = <<>> /\ queue = <<>> /\ handling = <<>> /\ cursor = <<>>
  /\ alive = TRUE
  /\ asked = [c \in Connections |-> 0] /\ answered = [c \in Connections |-> 0]
  /\ got = [c \in Connections |-> 0] /\ missed = [c \in Connections |-> 0]
  /\ broadcasts = 0 /\ received = 0

-----------------------------------------------------------------------------
(* The event loops. *)

\* run(), run_ws(): listen() succeeds, or throws and the thread ends; the rest of
\* the program does not notice.
Listen(e) ==
  /\ alive /\ loop[e] = "starting"
  /\ \E outcome \in {"running", "ended"} : loop' = [loop EXCEPT ![e] = outcome]
  /\ UNCHANGED <<conn, opened, blocked, queue, handling, cursor, alive>>
  /\ UNCHANGED tables /\ UNCHANGED history

\* server_mutex is held across steps only by the udp thread, for a whole broadcast.
mutex_ignored(e) == TRUE
mutex_free(e) == e = "broadcaster" => cursor = <<>>

\* An event loop that waits for a mutex or in ::send runs no other handler.
loop_free(e) == alive /\ loop[e] = "running" /\ (e = "server" => blocked = <<>>)

\* std::map::emplace keeps an element that has the key already.
emplace(map, key, value) ==
  [k \in DOMAIN map \union {key} |-> IF k \in DOMAIN map THEN map[k] ELSE value]
erase(map, key) == [k \in DOMAIN map \ {key} |-> map[k]]

in_use(a) == \E c \in Connections : conn[c].address = a /\ conn[c].state \in {"open", "leaving"}

next_id_kept(e) == connection_id_ctr
next_id_unwrapped(e) == [connection_id_ctr EXCEPT ![e] = @ + 1]
next_id(e) == [connection_id_ctr EXCEPT ![e] = (@ + 1) % ID_RANGE]

\* The handshake completes, websocketpp makes the state open and calls the handler.
on_open(e) ==
  /\ loop_free(e) /\ mutex_free(e) /\ opened < OPENS
  /\ LET c  == opened + 1
         id == connection_id_ctr[e]
     IN  \E a \in Addresses :
           /\ ~in_use(a)
           /\ opened' = c
           /\ conn' = [conn EXCEPT ![c] = [endpoint |-> e, address |-> a, state |-> "open"]]
           /\ connection_id_ctr' = next_id(e)
           /\ connections_fmap' = [connections_fmap EXCEPT ![e] = emplace(@, id, c)]
           /\ connections_rmap' = [connections_rmap EXCEPT ![e] = emplace(@, a, id)]
           /\ missed' = [missed EXCEPT ![c] = broadcasts]
  /\ UNCHANGED <<loop, blocked, queue, handling, cursor, alive>>
  /\ UNCHANGED <<asked, answered, got, broadcasts, received>>

\* The peer closes or is lost: the state changes in the event loop, the connection
\* shuts down, the close handler comes later.
Leave(c) ==
  /\ conn[c].state = "open" /\ loop_free(conn[c].endpoint)
  /\ conn' = [conn EXCEPT ![c].state = "leaving"]
  /\ UNCHANGED <<opened, loop, blocked, queue, handling, cursor, alive>>
  /\ UNCHANGED tables /\ UNCHANGED history

close_rmap_only(e, id, address) ==
  /\ connections_rmap' = [connections_rmap EXCEPT ![e] = erase(@, address)]
  /\ UNCHANGED connections_fmap

close_fmap_only(e, id, address) ==
  /\ connections_fmap' = [connections_fmap EXCEPT ![e] = erase(@, id)]
  /\ UNCHANGED connections_rmap

close_maps(e, id, address) ==
  /\ connections_fmap' = [connections_fmap EXCEPT ![e] = erase(@, id)]
  /\ connections_rmap' = [connections_rmap EXCEPT ![e] = erase(@, address)]

\* After the handler the object is destroyed.
on_close(c) ==
  LET e == conn[c].endpoint
      a == conn[c].address
  IN  /\ conn[c].state = "leaving" /\ loop_free(e) /\ mutex_free(e)
      /\ IF a \in DOMAIN connections_rmap[e]
           THEN close_maps(e, connections_rmap[e][a], a)
           ELSE UNCHANGED <<connections_fmap, connections_rmap>>
      /\ conn' = [conn EXCEPT ![c].state = "gone"]
      /\ UNCHANGED <<opened, loop, connection_id_ctr, blocked, queue, handling, cursor, alive>>
      /\ UNCHANGED history

\* ws_server::on_message reads the map without the mutex; ws_broadcaster's ignores
\* the message.
on_message(c) ==
  LET e == conn[c].endpoint
      a == conn[c].address
  IN  /\ conn[c].state = "open" /\ e = "server" /\ loop_free(e)
      /\ received < MESSAGES /\ received' = received + 1
      /\ \E cmd \in Commands :
           /\ asked' = IF cmd = "stats" THEN [asked EXCEPT ![c] = @ + 1] ELSE asked
           /\ blocked' = IF a \in DOMAIN connections_rmap[e]
                           THEN <<[conn_id |-> connections_rmap[e][a], cmd |-> cmd, from |-> c]>>
                           ELSE <<>>
      /\ UNCHANGED <<conn, opened, loop, queue, handling, cursor, alive>>
      /\ UNCHANGED tables
      /\ UNCHANGED <<answered, got, missed, broadcasts>>

\* ::send at the end of on_message, which blocks while the queue is full.
send_or_drop ==
  /\ alive /\ blocked # <<>>
  /\ queue' = IF Len(queue) < QLEN THEN queue \o blocked ELSE queue
  /\ blocked' = <<>>
  /\ UNCHANGED <<conn, opened, loop, handling, cursor, alive>>
  /\ UNCHANGED tables /\ UNCHANGED history

SendToQueue ==
  /\ alive /\ blocked # <<>> /\ Len(queue) < QLEN
  /\ queue' = queue \o blocked
  /\ blocked' = <<>>
  /\ UNCHANGED <<conn, opened, loop, handling, cursor, alive>>
  /\ UNCHANGED tables /\ UNCHANGED history

-----------------------------------------------------------------------------
(* server.send(hdl, ...): to a connection that is not open it throws. *)

sends_to(c) == conn[c].state = "open" /\ UNCHANGED alive
throws(c)   == conn[c].state # "open" /\ alive' = FALSE

(* The ws thread of main_app. *)

run_ws ==
  /\ alive /\ handling = <<>> /\ queue # <<>>
  /\ handling' = <<Head(queue)>> /\ queue' = Tail(queue)
  /\ UNCHANGED <<conn, opened, loop, blocked, cursor, alive>>
  /\ UNCHANGED tables /\ UNCHANGED history

\* "stats": ws_send finds the connection by its id, or drops the reply.
handle_ws_stats ==
  /\ alive /\ handling # <<>> /\ handling[1].cmd = "stats"
  /\ LET id == handling[1].conn_id
     IN  IF id \in DOMAIN connections_fmap["server"]
           THEN LET c == connections_fmap["server"][id]
                IN  \/ sends_to(c) /\ answered' = [answered EXCEPT ![c] = @ + 1]
                    \/ throws(c) /\ UNCHANGED answered
           ELSE UNCHANGED <<answered, alive>>
  /\ handling' = <<>>
  /\ UNCHANGED <<conn, opened, loop, blocked, queue, cursor>>
  /\ UNCHANGED tables
  /\ UNCHANGED <<asked, got, missed, broadcasts, received>>

\* "js" and "led" are RoverApp's; here they only take time.
handle_ws_command ==
  /\ alive /\ handling # <<>> /\ handling[1].cmd = "js"
  /\ handling' = <<>>
  /\ UNCHANGED <<conn, opened, loop, blocked, queue, cursor, alive>>
  /\ UNCHANGED tables /\ UNCHANGED history

-----------------------------------------------------------------------------
(* The udp thread of ws_broadcaster: cursor is <<>> between broadcasts, else    *)
(* the id sent to last, the mutex being held.                                   *)

run_udp ==
  /\ alive /\ cursor = <<>> /\ broadcasts < DATAGRAMS
  /\ cursor' = <<-1>> /\ broadcasts' = broadcasts + 1
  /\ UNCHANGED <<conn, opened, loop, blocked, queue, handling, alive>>
  /\ UNCHANGED tables
  /\ UNCHANGED <<asked, answered, got, missed, received>>

ahead_of_one == {id \in DOMAIN connections_fmap["broadcaster"] : id > cursor[1] + 1}
ahead == {id \in DOMAIN connections_fmap["broadcaster"] : id > cursor[1]}

Forward ==
  /\ alive /\ cursor # <<>> /\ ahead # {}
  /\ \E id \in ahead :
       LET c == connections_fmap["broadcaster"][id]
       IN  /\ \A other \in ahead : id <= other
           /\ \/ sends_to(c) /\ got' = [got EXCEPT ![c] = @ + 1]
              \/ throws(c) /\ UNCHANGED got
           /\ cursor' = <<id>>
  /\ UNCHANGED <<conn, opened, loop, blocked, queue, handling>>
  /\ UNCHANGED tables
  /\ UNCHANGED <<asked, answered, missed, broadcasts, received>>

broadcast_keeps_mutex ==
  /\ alive /\ cursor # <<>> /\ ahead = {} /\ broadcasts < DATAGRAMS
  /\ cursor' = <<-1>> /\ broadcasts' = broadcasts + 1
  /\ UNCHANGED <<conn, opened, loop, blocked, queue, handling, alive>>
  /\ UNCHANGED tables
  /\ UNCHANGED <<asked, answered, got, missed, received>>

BroadcastDone ==
  /\ alive /\ cursor # <<>> /\ ahead = {}
  /\ cursor' = <<>>
  /\ UNCHANGED <<conn, opened, loop, blocked, queue, handling, alive>>
  /\ UNCHANGED tables /\ UNCHANGED history

-----------------------------------------------------------------------------
WsThread  == run_ws \/ handle_ws_stats \/ handle_ws_command
UdpThread == Forward \/ BroadcastDone

Next ==
  \/ SendToQueue \/ WsThread \/ run_udp \/ UdpThread
  \/ \E e \in Endpoints : Listen(e) \/ on_open(e)
  \/ \E c \in Connections : Leave(c) \/ on_close(c) \/ on_message(c)

Spec == Init /\ [][Next]_vars

\* The threads keep running; a broadcast is followed by a wait for the next
\* datagram with the mutex released; websocketpp ends every connection it started
\* to shut down (its timeouts bound the closing handshake).
FairSpec ==
  /\ Spec
  /\ WF_vars(SendToQueue) /\ WF_vars(WsThread) /\ WF_vars(UdpThread)
  /\ \A c \in Connections : WF_vars(on_close(c))

-----------------------------------------------------------------------------
QueueMessages == [conn_id : 0..ID_RANGE-1, cmd : Commands, from : Connections]

TypeOK ==
  /\ conn \in [Connections -> [endpoint : Endpoints, address : Addresses,
                               state : {"open", "leaving", "gone"}] \union {Unopened}]
  /\ opened \in 0..OPENS
  /\ loop \in [Endpoints -> {"starting", "running", "ended"}]
  /\ connection_id_ctr \in [Endpoints -> 0..ID_RANGE-1]
  /\ DOMAIN connections_fmap = Endpoints /\ DOMAIN connections_rmap = Endpoints
  /\ \A e \in Endpoints :
       /\ DOMAIN connections_fmap[e] \subseteq 0..ID_RANGE-1
       /\ \A id \in DOMAIN connections_fmap[e] : connections_fmap[e][id] \in Connections
       /\ DOMAIN connections_rmap[e] \subseteq Addresses
       /\ \A a \in DOMAIN connections_rmap[e] : connections_rmap[e][a] \in 0..ID_RANGE-1
  /\ blocked \in Seq(QueueMessages) /\ Len(blocked) <= 1
  /\ queue \in Seq(QueueMessages) /\ Len(queue) <= QLEN
  /\ handling \in Seq(QueueMessages) /\ Len(handling) <= 1
  /\ cursor \in Seq(-1..ID_RANGE-1) /\ Len(cursor) <= 1
  /\ alive \in BOOLEAN
  /\ asked \in [Connections -> 0..MESSAGES] /\ answered \in [Connections -> 0..MESSAGES]
  /\ got \in [Connections -> 0..DATAGRAMS] /\ missed \in [Connections -> 0..DATAGRAMS]
  /\ broadcasts \in 0..DATAGRAMS /\ received \in 0..MESSAGES

connected(e) == {c \in Connections : conn[c].endpoint = e /\ conn[c].state \in {"open", "leaving"}}

\* The two maps of an endpoint hold exactly its connections, each under one id and
\* under its own address, although addresses are reused and on_message reads them
\* without the mutex.
TablesExact ==
  \A e \in Endpoints :
    /\ {connections_fmap[e][id] : id \in DOMAIN connections_fmap[e]} = connected(e)
    /\ DOMAIN connections_rmap[e] = {conn[c].address : c \in connected(e)}
    /\ \A id \in DOMAIN connections_fmap[e] :
         connections_rmap[e][conn[connections_fmap[e][id]].address] = id

\* Stats requests of c between the event loop and their reply.
requests(s, c) == Cardinality({i \in DOMAIN s : s[i].cmd = "stats" /\ s[i].from = c})
waiting(c) == requests(blocked, c) + requests(queue, c) + requests(handling, c)

\* A stats reply goes to the connection that asked, once: as long as a connection
\* is open its requests are answered or still on their way, and none ever gets a
\* reply to somebody else's, even when it took over the address of one that left
\* with requests in the queue.
RepliesBalance ==
  alive => \A c \in Connections :
    /\ answered[c] + waiting(c) <= asked[c]
    /\ conn[c].state = "open" => answered[c] + waiting(c) = asked[c]

\* Between broadcasts every registered connection has been sent each datagram since
\* it was registered, and none twice, however connections come and go meanwhile.
BroadcastComplete ==
  alive /\ cursor = <<>> =>
    \A c \in connected("broadcaster") : got[c] = broadcasts - missed[c]

\* The map is not changed while the udp thread iterates over it.
IterationSafe ==
  [][cursor # <<>> =>
       connections_fmap'["broadcaster"] = connections_fmap["broadcaster"]]_vars

\* The process dies only on a send to a connection that is between its end and its
\* close handler: the one whose stats request is being answered, or the one the
\* broadcast has come to.  One whose close handler has run can no longer kill it,
\* even by a request it left in the queue.
DiesOnlyInCloseWindow ==
  [][alive /\ ~alive' =>
       \/ handling' # handling /\ conn[handling[1].from].state = "leaving"
       \/ cursor' # cursor
          /\ conn[connections_fmap["broadcaster"][cursor'[1]]].state = "leaving"]_vars

\* Every stats request of a connection that stays open is answered once traffic
\* pauses, if the process survives, although the event loop may block on a full
\* queue and the other endpoint may have failed to listen.
StatsAnswered ==
  []<>(alive => \A c \in Connections : conn[c].state = "open" => answered[c] = asked[c])

\* The window closes: no wait for a mutex or a full queue keeps a connection that
\* left in the maps for ever.
WindowCloses == []<>(alive => \A c \in Connections : conn[c].state # "leaving")
=============================================================================
