----------------------------- MODULE DashboardHub -----------------------------
(***************************************************************************)
(* The dashboard's event stream (internal/dashboard/websocket.go) and the  *)
(* handlers that feed it.  One hub goroutine owns the set of clients and   *)
(* copies every broadcast into the buffered channel of each of them; every *)
(* client has a goroutine that writes to its connection and one that reads *)
(* from it.                                                                *)
(*                                                                         *)
(* A channel is closed by two paths (a full buffer, an unregistration), a  *)
(* connection by three, and a send to a closed channel panics.  Everybody  *)
(* sends to the hub over unbuffered channels, so a hub that waits for a    *)
(* client would stop the dashboard.  An event is the partner it announces. *)
(***************************************************************************)
EXTENDS Naturals, Sequences

CONSTANTS
    Clients,          \* connections; a page that reconnects is another one
    Discoveries,      \* calls of discoverPartnerHandler
    SendBuffer,       \* capacity of Client.send, 256 in the code
    BroadcastBuffer   \* capacity of Hub.broadcast, 256 in the code

ASSUME BufferAssumption      == SendBuffer \in Nat \ {0} /\ BroadcastBuffer \in Nat \ {0}
ASSUME DiscoveriesAssumption == Discoveries # {}

VARIABLES
    handler,    \* where each discoverPartnerHandler stands
    broadcast,  \* Hub.broadcast
    clients,    \* Hub.clients
    msg,        \* the event the hub hands round
    todo,       \* the clients it has not come to yet; {}: it is in its select
    send,       \* Client.send
    closed,     \* clients whose channel is closed
    current,    \* what writePump took from the channel and has not written yet
    conn,       \* the connection
    reader,     \* where readPump stands
    writer,     \* where writePump stands
    got,        \* what reached the browser
    log,        \* history: the events the hub handed round
    since,      \* history: length of log when the client was registered
    panicked    \* history: a closed channel was used

hubVars  == <<broadcast, clients, msg, todo, log, since>>
pumpVars == <<current, conn, reader, writer, got>>
chanVars == <<send, closed, panicked>>
vars == <<handler, hubVars, pumpVars, chanVars>>

Init ==
    /\ handler = [d \in Discoveries |-> "fetching"]
    /\ broadcast = <<>> /\ clients = {} /\ todo = {}
    /\ msg = CHOOSE d \in Discoveries : TRUE
    /\ send = [c \in Clients |-> <<>>] /\ closed = {} /\ panicked = FALSE
    /\ current = [c \in Clients |-> <<>>] /\ got = [c \in Clients |-> <<>>]
    /\ conn = [c \in Clients |-> "new"]
    /\ reader = [c \in Clients |-> "off"] /\ writer = [c \in Clients |-> "off"]
    /\ log = <<>> /\ since = [c \in Clients |-> 0]

-----------------------------------------------------------------------------
(***************************************************************************)
(* discoverPartnerHandler: the partner is saved and the call answered, then *)
(* the event is broadcast, waiting while the channel is full.              *)
(***************************************************************************)
Save(d) ==
    /\ handler[d] = "fetching"
    /\ handler' = [handler EXCEPT ![d] = "saved"]
    /\ UNCHANGED <<hubVars, pumpVars, chanVars>>

\* Mutant of Announce: the event does not wait for the partner to be saved.
AnnounceEarly(d) ==
    /\ handler[d] \in {"fetching", "saved"} /\ Len(broadcast) < BroadcastBuffer
    /\ broadcast' = Append(broadcast, d)
    /\ handler' = [handler EXCEPT ![d] = IF @ = "saved" THEN "done" ELSE "fetching"]
    /\ UNCHANGED <<clients, msg, todo, log, since, pumpVars, chanVars>>

Announce(d) ==
    /\ handler[d] = "saved" /\ Len(broadcast) < BroadcastBuffer
    /\ broadcast' = Append(broadcast, d)
    /\ handler' = [handler EXCEPT ![d] = "done"]
    /\ UNCHANGED <<clients, msg, todo, log, since, pumpVars, chanVars>>
-----------------------------------------------------------------------------
(***************************************************************************)
(* Hub.Run.  register and unregister are unbuffered: the other side goes   *)
(* on when the hub, in its select, receives.                               *)
(***************************************************************************)
Selecting == todo = {}

\* ServeWs is received, and starts the two pumps.
Register(c) ==
    /\ Selecting /\ conn[c] # "new" /\ reader[c] = "off"
    /\ clients' = clients \cup {c}
    /\ since' = [since EXCEPT ![c] = Len(log)]
    /\ reader' = [reader EXCEPT ![c] = "reading"]
    /\ writer' = [writer EXCEPT ![c] = "running"]
    /\ UNCHANGED <<handler, broadcast, msg, todo, log, current, conn, got, chanVars>>

CloseChannel(c) ==
    /\ closed' = closed \cup {c}
    /\ panicked' = (panicked \/ c \in closed)

\* Mutant of Unregister: the client is not looked up first.
UnregisterAnyway(c) ==
    /\ Selecting /\ reader[c] = "leaving"
    /\ clients' = clients \ {c} /\ CloseChannel(c)
    /\ reader' = [reader EXCEPT ![c] = "done"]
    /\ conn' = [conn EXCEPT ![c] = "closed"]
    /\ UNCHANGED <<handler, broadcast, msg, todo, log, since, send, current, writer, got>>

\* readPump's deferred unregister, then conn.Close.
Unregister(c) ==
    /\ Selecting /\ reader[c] = "leaving"
    /\ \/ c \in clients /\ clients' = clients \ {c} /\ CloseChannel(c)
       \/ c \notin clients /\ UNCHANGED <<clients, closed, panicked>>
    /\ reader' = [reader EXCEPT ![c] = "done"]
    /\ conn' = [conn EXCEPT ![c] = "closed"]
    /\ UNCHANGED <<handler, broadcast, msg, todo, log, since, send, current, writer, got>>

HandRound ==
    /\ Selecting /\ broadcast # <<>>
    /\ msg' = Head(broadcast) /\ todo' = clients
    /\ broadcast' = Tail(broadcast)
    /\ log' = Append(log, Head(broadcast))
    /\ UNCHANGED <<handler, clients, since, pumpVars, chanVars>>

\* Mutant of Deliver: an unbuffered channel, and a hub that waits for the pump.
DeliverBlocking(c) ==
    /\ c \in todo /\ todo' = todo \ {c}
    /\ writer[c] = "running" /\ current[c] = <<>> /\ send[c] = <<>>
    /\ send' = [send EXCEPT ![c] = Append(@, msg)]
    /\ panicked' = (panicked \/ c \in closed)
    /\ UNCHANGED <<handler, broadcast, clients, msg, log, since, pumpVars, closed>>

\* Mutant of Deliver: a full buffer costs the event, not the client.
DeliverLossy(c) ==
    /\ c \in todo /\ todo' = todo \ {c}
    /\ send' = IF Len(send[c]) < SendBuffer
               THEN [send EXCEPT ![c] = Append(@, msg)] ELSE send
    /\ panicked' = (panicked \/ c \in closed)
    /\ UNCHANGED <<handler, broadcast, clients, msg, log, since, pumpVars, closed>>

\* Mutant of Deliver: the buffer has no capacity.
DeliverUnbounded(c) ==
    /\ c \in todo /\ todo' = todo \ {c}
    /\ send' = [send EXCEPT ![c] = Append(@, msg)]
    /\ panicked' = (panicked \/ c \in closed)
    /\ UNCHANGED <<handler, broadcast, clients, msg, log, since, pumpVars, closed>>

\* The select with a default branch: a client whose buffer is full is dropped.
Deliver(c) ==
    /\ c \in todo /\ todo' = todo \ {c}
    /\ \/ /\ Len(send[c]) < SendBuffer
          /\ send' = [send EXCEPT ![c] = Append(@, msg)]
          /\ panicked' = (panicked \/ c \in closed)
          /\ UNCHANGED <<clients, closed>>
       \/ /\ Len(send[c]) = SendBuffer
          /\ clients' = clients \ {c} /\ CloseChannel(c)
          /\ UNCHANGED send
    /\ UNCHANGED <<handler, broadcast, msg, log, since, pumpVars>>
-----------------------------------------------------------------------------
(***************************************************************************)
(* The pumps.  I/O on a connection that is gone or closed fails, at the    *)
(* latest when the 10s and 60s deadlines pass.                             *)
(***************************************************************************)
Take(c) ==
    /\ writer[c] = "running" /\ current[c] = <<>> /\ send[c] # <<>>
    /\ current' = [current EXCEPT ![c] = <<Head(send[c])>>]
    /\ send' = [send EXCEPT ![c] = Tail(@)]
    /\ UNCHANGED <<handler, hubVars, conn, reader, writer, got, closed, panicked>>

StopWriting(c) ==
    /\ writer' = [writer EXCEPT ![c] = "done"]
    /\ conn' = [conn EXCEPT ![c] = "closed"]

\* What it took, and all that has been queued meanwhile, goes into one frame.
Flush(c) ==
    /\ writer[c] = "running" /\ current[c] # <<>>
    /\ \/ /\ conn[c] = "open"
          /\ got' = [got EXCEPT ![c] = @ \o current[c] \o send[c]]
          /\ current' = [current EXCEPT ![c] = <<>>]
          /\ send' = [send EXCEPT ![c] = <<>>]
          /\ UNCHANGED <<writer, conn>>
       \/ conn[c] # "open" /\ StopWriting(c) /\ UNCHANGED <<got, current, send>>
    /\ UNCHANGED <<handler, hubVars, reader, closed, panicked>>

\* The channel is closed and drained, or a ping fails.
FinishWriting(c) ==
    /\ writer[c] = "running" /\ current[c] = <<>>
    /\ (send[c] = <<>> /\ c \in closed) \/ conn[c] # "open"
    /\ StopWriting(c)
    /\ UNCHANGED <<handler, hubVars, current, reader, got, chanVars>>

\* Mutant of ReadFails: the pump returns without unregistering.
ReadFailsSilently(c) ==
    /\ reader[c] = "reading" /\ conn[c] # "open"
    /\ reader' = [reader EXCEPT ![c] = "done"]
    /\ conn' = [conn EXCEPT ![c] = "closed"]
    /\ UNCHANGED <<handler, hubVars, current, writer, got, chanVars>>

ReadFails(c) ==
    /\ reader[c] = "reading" /\ conn[c] # "open"
    /\ reader' = [reader EXCEPT ![c] = "leaving"]
    /\ UNCHANGED <<handler, hubVars, current, conn, writer, got, chanVars>>

\* websocketHandler upgrades the connection; the browser leaves or is cut off.
Connect(c) ==
    /\ conn[c] = "new"
    /\ conn' = [conn EXCEPT ![c] = "open"]
    /\ UNCHANGED <<handler, hubVars, current, reader, writer, got, chanVars>>

Vanish(c) ==
    /\ conn[c] = "open"
    /\ conn' = [conn EXCEPT ![c] = "gone"]
    /\ UNCHANGED <<handler, hubVars, current, reader, writer, got, chanVars>>
-----------------------------------------------------------------------------
Hub == HandRound \/ \E c \in Clients : Register(c) \/ Unregister(c) \/ Deliver(c)

Writer(c) == Take(c) \/ Flush(c) \/ FinishWriting(c)

Next ==
    \/ \E d \in Discoveries : Save(d) \/ Announce(d)
    \/ Hub
    \/ \E c \in Clients : Connect(c) \/ Vanish(c) \/ Writer(c) \/ ReadFails(c)

(***************************************************************************)
(* The goroutines are scheduled, and the hub's select, which picks at      *)
(* random among what is ready, does not pass a waiting client over for     *)
(* ever.  Nobody has to discover a partner, connect or leave.              *)
(***************************************************************************)
Fairness ==
    /\ \A d \in Discoveries : WF_vars(Announce(d))
    /\ WF_vars(HandRound)
    /\ \A c \in Clients :
          /\ WF_vars(Register(c)) /\ WF_vars(Unregister(c)) /\ WF_vars(Deliver(c))
          /\ WF_vars(Writer(c)) /\ WF_vars(ReadFails(c))

Spec == Init /\ [][Next]_vars /\ Fairness
-----------------------------------------------------------------------------
\* The variables have their types, and the channels their capacity.
TypeOK ==
    /\ handler \in [Discoveries -> {"fetching", "saved", "done"}]
    /\ broadcast \in Seq(Discoveries) /\ Len(broadcast) <= BroadcastBuffer
    /\ clients \subseteq Clients /\ closed \subseteq Clients /\ todo \subseteq Clients
    /\ msg \in Discoveries /\ panicked \in BOOLEAN
    /\ {send, current, got} \subseteq [Clients -> Seq(Discoveries)]
    /\ \A c \in Clients : Len(send[c]) <= SendBuffer
    /\ conn \in [Clients -> {"new", "open", "gone", "closed"}]
    /\ reader \in [Clients -> {"off", "reading", "leaving", "done"}]
    /\ writer \in [Clients -> {"off", "running", "done"}]
    /\ log \in Seq(Discoveries) /\ since \in [Clients -> Nat]

\* No channel is closed twice and none is sent to after it was closed, whichever
\* of the hub's two closing paths comes first: the node does not panic.
NeverPanics == ~panicked

\* A client sees the events in the order the hub had them, without a gap, from
\* its registration on; and one that is still registered and written to lacks
\* nothing but what is on its way.
Stream(c, last) == SubSeq(log, since[c] + 1, last)

GaplessStream ==
    \A c \in Clients : reader[c] # "off" =>
        /\ got[c] = Stream(c, since[c] + Len(got[c]))
        /\ c \in clients /\ writer[c] = "running" =>
              got[c] \o current[c] \o send[c] =
                  Stream(c, IF c \in todo THEN Len(log) - 1 ELSE Len(log))

\* An event never reaches anybody before the partner it announces is in the
\* table, so a page that reloads its list on the event finds the partner.
EventsFollowTheTable ==
    \A d \in Discoveries :
        handler[d] = "fetching" =>
            \A c \in Clients : \A i \in 1 .. Len(got[c]) : got[c][i] # d

\* A client that vanished, or that was dropped, ends: it leaves the hub's map
\* and both of its goroutines return.
Ended(c) == c \notin clients /\ reader[c] = "done" /\ writer[c] = "done"

ClosedClientsLeave ==
    \A c \in Clients : (conn[c] = "gone" \/ c \in closed) ~> Ended(c)

\* No client, however slow, keeps a discovery call waiting for ever.
BroadcastsGetThrough ==
    \A d \in Discoveries : handler[d] = "saved" ~> handler[d] = "done"
=============================================================================
