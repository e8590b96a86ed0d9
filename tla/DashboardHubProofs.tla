-------------------------- MODULE DashboardHubProofs --------------------------
(***************************************************************************)
(* Theorems about DashboardHub for every set of connections, any number of *)
(* discoveries and buffers of any size: its types, that no channel is used *)
(* after it was closed, that no stream has a gap, and that no event        *)
(* overtakes the save it announces.                                        *)
(***************************************************************************)
EXTENDS DashboardHub, SequenceTheorems, TLAPS

USE BufferAssumption, DiscoveriesAssumption

-----------------------------------------------------------------------------
(***************************************************************************)
(* Who may use a channel.  A channel is closed by whoever takes its client *)
(* out of Hub.clients, and the hub only sends to clients: the map is what  *)
(* keeps the two closing paths apart.                                      *)
(***************************************************************************)
Channels ==
    /\ clients \cap closed = {} /\ todo \subseteq clients
    /\ \A c \in Clients : reader[c] = "off" => c \notin clients \cup closed
    /\ ~panicked

(***************************************************************************)
(* Streams.  What reached the browser, what writePump holds and what waits *)
(* in the channel make up one piece of the log, which begins where the     *)
(* client was registered.  While the client is in the map the piece ends   *)
(* where the hub is; once it was dropped, wherever it happened to end.     *)
(***************************************************************************)
Way(c) == got[c] \o current[c] \o send[c]

Covered(c) == since[c] + Len(Way(c))

Come(c) == IF c \in todo THEN Len(log) - 1 ELSE Len(log)

Begun(c) == reader[c] # "off"

Piece(c) ==
    /\ Covered(c) <= Len(log)
    /\ \A i \in 1 .. Len(Way(c)) : Way(c)[i] = log[since[c] + i]
    /\ c \in clients => Covered(c) = Come(c)

Streams ==
    /\ \A c \in Clients : Begun(c) => Piece(c)
    /\ \A c \in Clients : ~Begun(c) => Way(c) = <<>>
    /\ todo # {} => log # <<>> /\ msg = log[Len(log)]

\* An event is on its way only from a call that has saved its partner.
Among(s, d) == \E i \in 1 .. Len(s) : s[i] = d

Saved == \A d \in Discoveries : handler[d] = "fetching" => ~Among(broadcast, d) /\ ~Among(log, d)

IInv == TypeOK /\ Channels /\ Streams /\ Saved
-----------------------------------------------------------------------------
(***************************************************************************)
(* Sequences: one after the other, one more at the end, one less in front. *)
(***************************************************************************)
LEMMA ThreeInARow ==
    ASSUME NEW s \in Seq(Discoveries), NEW t \in Seq(Discoveries),
           NEW u \in Seq(Discoveries)
    PROVE  /\ s \o t \o u \in Seq(Discoveries)
           /\ Len(s) \in Nat /\ Len(s \o t \o u) \in Nat /\ Len(s) <= Len(s \o t \o u)
           /\ \A i \in 1 .. Len(s) : (s \o t \o u)[i] = s[i]
  <1>1. /\ s \o t \in Seq(Discoveries) /\ Len(s \o t) = Len(s) + Len(t)
        /\ \A i \in 1 .. Len(s) : (s \o t)[i] = s[i]
    OBVIOUS
  <1>2. /\ (s \o t) \o u \in Seq(Discoveries) /\ Len((s \o t) \o u) = Len(s \o t) + Len(u)
        /\ \A i \in 1 .. Len(s \o t) : ((s \o t) \o u)[i] = (s \o t)[i]
    BY <1>1
  <1>3. Len(s) \in Nat /\ Len(t) \in Nat /\ Len(u) \in Nat
    OBVIOUS
  <1> QED
    BY <1>1, <1>2, <1>3

LEMMA OneMore ==
    ASSUME NEW s \in Seq(Discoveries), NEW t \in Seq(Discoveries),
           NEW u \in Seq(Discoveries), NEW e \in Discoveries
    PROVE  s \o t \o Append(u, e) = Append(s \o t \o u, e)
  <1>1. /\ s \o t \in Seq(Discoveries) /\ <<e>> \in Seq(Discoveries)
        /\ s \o t \o u \in Seq(Discoveries)
    BY ThreeInARow
  <1>2. Append(u, e) = u \o <<e>> /\ Append(s \o t \o u, e) = (s \o t \o u) \o <<e>>
    BY <1>1, AppendIsConcat
  <1> QED
    BY <1>1, <1>2, ConcatAssociative

LEMMA OneMoved ==
    ASSUME NEW s \in Seq(Discoveries), NEW u \in Seq(Discoveries), u # <<>>
    PROVE  s \o <<Head(u)>> \o Tail(u) = s \o <<>> \o u
  <1>1. /\ <<Head(u)>> \in Seq(Discoveries) /\ Tail(u) \in Seq(Discoveries)
        /\ <<Head(u)>> \o Tail(u) = u
    OBVIOUS
  <1>2. s \o <<Head(u)>> \o Tail(u) = s \o (<<Head(u)>> \o Tail(u))
    BY <1>1, ConcatAssociative
  <1> QED
    BY <1>1, <1>2, ConcatEmptySeq

(***************************************************************************)
(* The stream of a client, piece by piece.                                 *)
(***************************************************************************)
Queues == [Clients -> Seq(Discoveries)]

LEMMA WayFacts ==
    ASSUME NEW c \in Clients, got \in Queues, current \in Queues, send \in Queues
    PROVE  /\ got[c] \in Seq(Discoveries) /\ Len(got[c]) \in Nat
           /\ Way(c) \in Seq(Discoveries) /\ Len(Way(c)) \in Nat
           /\ Len(got[c]) <= Len(Way(c))
           /\ \A i \in 1 .. Len(got[c]) : Way(c)[i] = got[c][i]
  <1>1. /\ got[c] \in Seq(Discoveries) /\ current[c] \in Seq(Discoveries)
        /\ send[c] \in Seq(Discoveries)
    BY DEF Queues
  <1> QED
    BY <1>1, ThreeInARow DEF Way

\* The hub adds an event at the end of the stream.
LEMMA SentFacts ==
    ASSUME NEW c \in Clients, NEW d \in Discoveries, got \in Queues, current \in Queues,
           send \in Queues, UNCHANGED <<got, current>>,
           send' = [send EXCEPT ![c] = Append(@, d)]
    PROVE  /\ Way(c)' = Append(Way(c), d)
           /\ \A b \in Clients : b # c => Way(b)' = Way(b)
  <1>1. /\ got[c] \in Seq(Discoveries) /\ current[c] \in Seq(Discoveries)
        /\ send[c] \in Seq(Discoveries)
    BY DEF Queues
  <1>2. DOMAIN send = Clients
    BY DEF Queues
  <1>3. /\ send'[c] = Append(send[c], d)
        /\ \A b \in Clients : b # c => send'[b] = send[b]
    BY <1>2
  <1> DEFINE g == got[c]
             k == current[c]
             q == send[c]
  <1>4. g \in Seq(Discoveries) /\ k \in Seq(Discoveries) /\ q \in Seq(Discoveries)
    BY <1>1
  <1> HIDE DEF g, k, q
  <1>5. g \o k \o Append(q, d) = Append(g \o k \o q, d)
    BY <1>4, OneMore
  <1> QED
    BY <1>3, <1>5, Zenon DEF Way, g, k, q

\* writePump passes on what it takes, in order: the stream stays the same.
LEMMA TakeFacts ==
    ASSUME NEW c \in Clients, got \in Queues, current \in Queues, send \in Queues, Take(c)
    PROVE  \A b \in Clients : Way(b)' = Way(b)
  <1>1. /\ got[c] \in Seq(Discoveries) /\ send[c] \in Seq(Discoveries) /\ send[c] # <<>>
        /\ current[c] = <<>> /\ got' = got
        /\ current'[c] = <<Head(send[c])>> /\ send'[c] = Tail(send[c])
        /\ \A b \in Clients : b # c => current'[b] = current[b] /\ send'[b] = send[b]
    BY DEF Queues, Take
  <1>2. got[c] \o <<Head(send[c])>> \o Tail(send[c]) = got[c] \o <<>> \o send[c]
    BY <1>1, OneMoved
  <1> QED
    BY <1>1, <1>2, Zenon DEF Way

LEMMA FlushFacts ==
    ASSUME NEW c \in Clients, got \in Queues, current \in Queues, send \in Queues, Flush(c)
    PROVE  \A b \in Clients : Way(b)' = Way(b)
  <1>1. CASE UNCHANGED <<got, current, send>>
    BY <1>1 DEF Way
  <1>2. CASE ~UNCHANGED <<got, current, send>>
    <2>1. /\ got' = [got EXCEPT ![c] = @ \o current[c] \o send[c]]
          /\ current' = [current EXCEPT ![c] = <<>>] /\ send' = [send EXCEPT ![c] = <<>>]
      BY <1>2 DEF Flush
    <2>2. /\ got'[c] = Way(c) /\ current'[c] = <<>> /\ send'[c] = <<>>
          /\ \A b \in Clients : b # c => /\ got'[b] = got[b] /\ current'[b] = current[b]
                                         /\ send'[b] = send[b]
      BY <2>1 DEF Queues, Way
    <2>3. Way(c) \in Seq(Discoveries)
      BY WayFacts
    <2>4. (Way(c) \o <<>>) \o <<>> = Way(c)
      BY <2>3, ConcatEmptySeq
    <2> QED
      BY <2>2, <2>4 DEF Way
  <1> QED
    BY <1>1, <1>2
-----------------------------------------------------------------------------
LEMMA TypeInit == Init => TypeOK
  <1> SUFFICES ASSUME Init PROVE TypeOK
    OBVIOUS
  <1>1. <<>> \in Seq(Discoveries) /\ Len(<<>>) = 0
    BY EmptySeq
  <1> DEFINE none == [c \in Clients |-> <<>>]
  <1>2. none \in [Clients -> Seq(Discoveries)] /\ \A c \in Clients : Len(none[c]) = 0
    BY <1>1
  <1>3. send = none /\ current = none /\ got = none
    BY DEF Init
  <1> HIDE DEF none
  <1>4. /\ {send, current, got} \subseteq [Clients -> Seq(Discoveries)]
        /\ \A c \in Clients : Len(send[c]) <= SendBuffer
    BY <1>2, <1>3
  <1> QED
    <2>1. handler \in [Discoveries -> {"fetching", "saved", "done"}] /\ msg \in Discoveries
      BY DEF Init
    <2>2. panicked \in BOOLEAN
      BY DEF Init
    <2>3. Len(broadcast) <= BroadcastBuffer
      BY <1>1 DEF Init
    <2> QED
      BY <1>1, <1>4, <2>1, <2>2, <2>3 DEF Init, TypeOK

LEMMA TypeNext == TypeOK /\ [Next]_vars => TypeOK'
  <1> SUFFICES ASSUME TypeOK, [Next]_vars PROVE TypeOK'
    OBVIOUS
  <1> USE DEF TypeOK
  <1>1. ASSUME NEW d \in Discoveries, Save(d) PROVE TypeOK'
    BY <1>1 DEF Save, hubVars, pumpVars, chanVars
  <1>2. ASSUME NEW d \in Discoveries, Announce(d) PROVE TypeOK'
    <2>1. broadcast' \in Seq(Discoveries) /\ Len(broadcast') = Len(broadcast) + 1
          /\ Len(broadcast) \in Nat
      BY <1>2, AppendProperties DEF Announce
    <2> QED
      BY <1>2, <2>1 DEF Announce, pumpVars, chanVars
  <1>3. ASSUME NEW c \in Clients, Register(c) PROVE TypeOK'
    <2>1. since' \in [Clients -> Nat]
      BY <1>3 DEF Register
    <2> QED
      BY <1>3, <2>1 DEF Register, chanVars
  <1>4. ASSUME NEW c \in Clients, Unregister(c) PROVE TypeOK'
    <2>1. clients' \subseteq Clients /\ closed' \subseteq Clients /\ panicked' \in BOOLEAN
      BY <1>4 DEF Unregister, CloseChannel
    <2> QED
      BY <1>4, <2>1 DEF Unregister
  <1>5. CASE HandRound
    <2>0. broadcast \in Seq(Discoveries) /\ broadcast # <<>>
      BY <1>5 DEF HandRound
    <2>1. /\ Head(broadcast) \in Discoveries /\ Tail(broadcast) \in Seq(Discoveries)
          /\ Len(Tail(broadcast)) = Len(broadcast) - 1 /\ Len(broadcast) \in Nat
      BY <2>0
    <2>2. log' \in Seq(Discoveries)
      BY <1>5, <2>1, AppendProperties DEF HandRound
    <2> QED
      BY <1>5, <2>1, <2>2 DEF HandRound, pumpVars, chanVars
  <1>6. ASSUME NEW c \in Clients, Deliver(c) PROVE TypeOK'
    <2>1. CASE Len(send[c]) < SendBuffer /\ send' = [send EXCEPT ![c] = Append(@, msg)]
               /\ panicked' = (panicked \/ c \in closed) /\ UNCHANGED <<clients, closed>>
      <3>1. /\ Append(send[c], msg) \in Seq(Discoveries)
            /\ Len(Append(send[c], msg)) = Len(send[c]) + 1 /\ Len(send[c]) \in Nat
        BY AppendProperties
      <3>2. send' \in [Clients -> Seq(Discoveries)] /\ \A b \in Clients : Len(send'[b]) <= SendBuffer
        BY <2>1, <3>1
      <3> QED
        BY <1>6, <2>1, <3>2 DEF Deliver, pumpVars
    <2>2. CASE clients' = clients \ {c} /\ CloseChannel(c) /\ UNCHANGED send
      BY <1>6, <2>2 DEF Deliver, CloseChannel, pumpVars
    <2> QED
      BY <1>6, <2>1, <2>2 DEF Deliver
  <1>7. ASSUME NEW c \in Clients, Take(c) PROVE TypeOK'
    <2>1. /\ Head(send[c]) \in Discoveries /\ Tail(send[c]) \in Seq(Discoveries)
          /\ Len(Tail(send[c])) = Len(send[c]) - 1 /\ Len(send[c]) \in Nat
      BY <1>7, HeadTailProperties DEF Take
    <2>2. send' \in [Clients -> Seq(Discoveries)] /\ \A b \in Clients : Len(send'[b]) <= SendBuffer
      BY <1>7, <2>1 DEF Take
    <2>3. current' \in [Clients -> Seq(Discoveries)]
      BY <1>7, <2>1 DEF Take
    <2> QED
      BY <1>7, <2>2, <2>3 DEF Take, hubVars
  <1>8. ASSUME NEW c \in Clients, Flush(c) PROVE TypeOK'
    <2>1. got[c] \o current[c] \o send[c] \in Seq(Discoveries)
      BY WayFacts DEF Queues, Way
    <2>2. <<>> \in Seq(Discoveries) /\ Len(<<>>) = 0
      BY EmptySeq
    <2>3. CASE UNCHANGED <<got, current, send>>
      BY <1>8, <2>3 DEF Flush, StopWriting, hubVars
    <2>4. CASE /\ got' = [got EXCEPT ![c] = @ \o current[c] \o send[c]]
               /\ current' = [current EXCEPT ![c] = <<>>] /\ send' = [send EXCEPT ![c] = <<>>]
               /\ UNCHANGED <<writer, conn>>
      <3>1. {send', current', got'} \subseteq [Clients -> Seq(Discoveries)]
        BY <2>1, <2>2, <2>4
      <3>2. \A b \in Clients : Len(send'[b]) <= SendBuffer
        BY <2>2, <2>4
      <3> QED
        BY <1>8, <2>4, <3>1, <3>2 DEF Flush, hubVars
    <2> QED
      BY <1>8, <2>3, <2>4 DEF Flush
  <1>9. ASSUME NEW c \in Clients, Connect(c) \/ Vanish(c) \/ ReadFails(c) \/ FinishWriting(c)
        PROVE  TypeOK'
    <2>1. UNCHANGED <<handler, broadcast, clients, msg, todo, log, since, send, closed,
                      panicked, current, got>>
      BY <1>9 DEF Connect, Vanish, ReadFails, FinishWriting, StopWriting, hubVars, chanVars
    <2>2. /\ conn' \in [Clients -> {"new", "open", "gone", "closed"}]
          /\ reader' \in [Clients -> {"off", "reading", "leaving", "done"}]
          /\ writer' \in [Clients -> {"off", "running", "done"}]
      BY <1>9 DEF Connect, Vanish, ReadFails, FinishWriting, StopWriting
    <2> QED
      BY <2>1, <2>2
  <1>10. CASE UNCHANGED vars
    BY <1>10 DEF vars, hubVars, pumpVars, chanVars
  <1> QED
    BY <1>1, <1>2, <1>3, <1>4, <1>5, <1>6, <1>7, <1>8, <1>9, <1>10 DEF Next, Hub, Writer

\* Channels keep their capacity and everything its type, for buffers of any size.
THEOREM TypeCorrect == Spec => []TypeOK
  BY TypeInit, TypeNext, PTL DEF Spec
-----------------------------------------------------------------------------
LEMMA ChannelsInit == Init => Channels
  BY DEF Init, Channels

\* The steps outside the hub leave its map, and who is registered, alone.
LEMMA ChannelsKept ==
    ASSUME Channels, UNCHANGED <<clients, closed, panicked, todo>>,
           \A c \in Clients : reader'[c] = "off" => reader[c] = "off"
    PROVE  Channels'
  BY DEF Channels

LEMMA ChannelsNext == TypeOK /\ Channels /\ [Next]_vars => Channels'
  <1> SUFFICES ASSUME TypeOK, Channels, [Next]_vars PROVE Channels'
    OBVIOUS
  <1>types. reader \in [Clients -> {"off", "reading", "leaving", "done"}] /\ clients \subseteq Clients
    BY DEF TypeOK
  <1>1. ASSUME NEW d \in Discoveries, Save(d) \/ Announce(d) PROVE Channels'
    BY <1>1, ChannelsKept DEF Save, Announce, hubVars, pumpVars, chanVars
  <1>2. ASSUME NEW c \in Clients, Register(c) PROVE Channels'
    BY <1>2, <1>types DEF Register, Selecting, Channels, chanVars
  <1>3. ASSUME NEW c \in Clients, Unregister(c) PROVE Channels'
    <2>1. CASE c \notin clients /\ UNCHANGED <<clients, closed, panicked>>
      BY <1>3, <1>types, <2>1 DEF Unregister, Selecting, Channels
    <2>2. CASE c \in clients /\ clients' = clients \ {c} /\ CloseChannel(c)
      <3>1. c \notin closed /\ ~panicked
        BY <2>2 DEF Channels
      <3>2. closed' = closed \cup {c} /\ ~panicked'
        BY <2>2, <3>1, Zenon DEF CloseChannel
      <3> QED
        BY <1>3, <1>types, <2>2, <3>1, <3>2 DEF Unregister, Selecting, Channels
    <2> QED
      BY <1>3, <2>1, <2>2 DEF Unregister
  <1>4. CASE HandRound
    BY <1>4 DEF HandRound, Channels, pumpVars, chanVars
  <1>5. ASSUME NEW c \in Clients, Deliver(c) PROVE Channels'
    BY <1>5, <1>types DEF Deliver, CloseChannel, Channels, pumpVars
  <1>6. ASSUME NEW c \in Clients, Connect(c) \/ Vanish(c) \/ Writer(c) \/ ReadFails(c)
        PROVE  Channels'
    <2>1. UNCHANGED <<clients, closed, panicked, todo>>
      BY <1>6 DEF Connect, Vanish, Writer, Take, Flush, FinishWriting, ReadFails, hubVars, chanVars
    <2>2. \A b \in Clients : reader'[b] = "off" => reader[b] = "off"
      BY <1>6, <1>types DEF Connect, Vanish, Writer, Take, Flush, FinishWriting, ReadFails
    <2> QED
      BY <2>1, <2>2, ChannelsKept
  <1>7. CASE UNCHANGED vars
    BY <1>7, ChannelsKept DEF vars, hubVars, pumpVars, chanVars
  <1> QED
    BY <1>1, <1>2, <1>3, <1>4, <1>5, <1>6, <1>7 DEF Next, Hub

\* Whichever of its two closing paths a client takes first, no channel is closed twice
\* and none is sent to after it was closed.
THEOREM ChannelsAreNotMisused == Spec => []NeverPanics
  <1>1. Init => TypeOK /\ Channels
    BY TypeInit, ChannelsInit
  <1>2. TypeOK /\ Channels /\ [Next]_vars => TypeOK' /\ Channels'
    BY TypeNext, ChannelsNext
  <1>3. Channels => NeverPanics
    BY DEF Channels, NeverPanics
  <1> QED
    BY <1>1, <1>2, <1>3, PTL DEF Spec
-----------------------------------------------------------------------------
LEMMA StreamsInit == Init => Streams
  <1> SUFFICES ASSUME Init, NEW c \in Clients PROVE ~Begun(c) /\ Way(c) = <<>>
    BY DEF Init, Streams
  <1>1. <<>> \in Seq(Discoveries) /\ (<<>> \o <<>>) \o <<>> = <<>>
    BY EmptySeq, ConcatEmptySeq
  <1> QED
    BY <1>1 DEF Init, Begun, Way

\* What a step that moves neither the hub nor the streams leaves as it was.  A client
\* that is dropped, or leaves, only ceases to be followed.
LEMMA StreamsKept ==
    ASSUME Streams, UNCHANGED <<log, since, msg>>, todo' \subseteq todo,
           \A c \in Clients : /\ Begun(c)' = Begun(c) /\ Way(c)' = Way(c)
                              /\ c \in clients' => c \in clients /\ (c \in todo' <=> c \in todo)
    PROVE  Streams'
  <1>1. ASSUME NEW c \in Clients, Begun(c)' PROVE Piece(c)'
    <2>1. Piece(c) /\ Way(c)' = Way(c) /\ Covered(c)' = Covered(c)
      BY <1>1 DEF Streams, Covered
    <2>2. c \in clients' => Come(c)' = Come(c) /\ c \in clients
      BY DEF Come
    <2> QED
      BY <2>1, <2>2 DEF Piece
  <1>2. ASSUME NEW c \in Clients, ~Begun(c)' PROVE Way(c)' = <<>>
    BY <1>2 DEF Streams
  <1>3. todo' # {} => log' # <<>> /\ msg' = log'[Len(log')]
    BY DEF Streams
  <1> QED
    BY <1>1, <1>2, <1>3 DEF Streams

LEMMA StreamsRegister ==
    ASSUME TypeOK, Streams, NEW c \in Clients, Register(c)
    PROVE  Streams'
  <1>1. /\ todo = {} /\ UNCHANGED <<log, msg, todo, got, current, send>>
        /\ since'[c] = Len(log) /\ \A b \in Clients : b # c => since'[b] = since[b]
        /\ reader'[c] = "reading" /\ \A b \in Clients : b # c => reader'[b] = reader[b]
        /\ clients' = clients \cup {c} /\ ~Begun(c)
    BY DEF Register, Selecting, Begun, TypeOK, chanVars
  <1>2. Len(log) \in Nat
    BY DEF TypeOK
  <1>3. ASSUME NEW b \in Clients, Begun(b)' PROVE Piece(b)'
    <2>1. Way(b)' = Way(b) /\ Come(b)' = Come(b) /\ Come(b) = Len(log)
      BY <1>1 DEF Way, Come
    <2>2. CASE b = c
      <3>1. Way(b)' = <<>> /\ Len(<<>>) = 0
        BY <1>1, <2>1, <2>2 DEF Streams
      <3>2. Covered(b)' = Len(log)
        BY <1>1, <1>2, <2>2, <3>1 DEF Covered
      <3>3. \A i \in 1 .. Len(Way(b)') : FALSE
        BY <3>1
      <3> QED
        BY <1>1, <1>2, <2>1, <3>2, <3>3 DEF Piece
    <2>3. CASE b # c
      <3>1. Piece(b) /\ since'[b] = since[b]
        BY <1>1, <1>3, <2>3 DEF Streams, Begun
      <3>2. Covered(b)' = Covered(b)
        BY <2>1, <3>1 DEF Covered
      <3> QED
        BY <1>1, <2>1, <2>3, <3>1, <3>2 DEF Piece
    <2> QED
      BY <2>2, <2>3
  <1>4. ASSUME NEW b \in Clients, ~Begun(b)' PROVE Way(b)' = <<>>
    <2>1. ~Begun(b)
      BY <1>1, <1>4 DEF Begun
    <2> QED
      BY <1>1, <2>1 DEF Streams, Way
  <1> QED
    BY <1>1, <1>3, <1>4 DEF Streams

LEMMA StreamsHandRound ==
    ASSUME TypeOK, Streams, HandRound
    PROVE  Streams'
  <1>1. /\ todo = {} /\ todo' = clients /\ UNCHANGED <<clients, since, reader, got, current, send>>
        /\ broadcast \in Seq(Discoveries) /\ broadcast # <<>> /\ log \in Seq(Discoveries)
        /\ msg' = Head(broadcast) /\ log' = Append(log, Head(broadcast))
    BY DEF HandRound, Selecting, TypeOK, pumpVars, chanVars
  <1>2. Head(broadcast) \in Discoveries
    BY <1>1
  <1>3. /\ Len(log) \in Nat /\ log' # <<>> /\ Len(log') = Len(log) + 1
        /\ log'[Len(log')] = Head(broadcast)
        /\ \A i \in 1 .. Len(log) : log'[i] = log[i]
    BY <1>1, <1>2, AppendProperties
  <1>4. ASSUME NEW c \in Clients PROVE Begun(c)' = Begun(c) /\ Way(c)' = Way(c)
    BY <1>1 DEF Begun, Way
  <1>5. ASSUME NEW c \in Clients, Begun(c)' PROVE Piece(c)'
    <2>1. Piece(c) /\ Way(c)' = Way(c) /\ Covered(c)' = Covered(c)
      BY <1>1, <1>4, <1>5 DEF Streams, Covered
    <2>2. Len(Way(c)) \in Nat /\ since[c] \in Nat
      BY WayFacts DEF TypeOK, Queues
    <2>3. ASSUME NEW i \in 1 .. Len(Way(c)) PROVE Way(c)[i] = log'[since[c] + i]
      <3>1. since[c] + i \in 1 .. Len(log)
        BY <1>3, <2>1, <2>2 DEF Piece, Covered
      <3> QED
        BY <1>3, <2>1, <3>1 DEF Piece
    <2>4. c \in clients' => Come(c)' = Len(log) /\ Come(c) = Len(log)
      BY <1>1, <1>3 DEF Come
    <2>5. Covered(c) \in Nat /\ Covered(c) <= Len(log)
      BY <2>1, <2>2 DEF Piece, Covered
    <2>6. Covered(c)' <= Len(log')
      BY <1>3, <2>1, <2>5
    <2>7. \A i \in 1 .. Len(Way(c)') : Way(c)'[i] = log'[since'[c] + i]
      BY <1>1, <2>1, <2>3
    <2>8. c \in clients' => Covered(c)' = Come(c)'
      BY <1>1, <2>1, <2>4 DEF Piece
    <2> QED
      BY <2>6, <2>7, <2>8 DEF Piece
  <1>6. ASSUME NEW c \in Clients, ~Begun(c)' PROVE Way(c)' = <<>>
    BY <1>4, <1>6 DEF Streams
  <1> QED
    BY <1>1, <1>3, <1>5, <1>6 DEF Streams

\* The hub's send to a client whose buffer has room.
LEMMA StreamsSend ==
    ASSUME TypeOK, Channels, Streams, NEW c \in Clients, c \in todo, todo' = todo \ {c},
           send' = [send EXCEPT ![c] = Append(@, msg)],
           UNCHANGED <<clients, msg, log, since, reader, got, current>>
    PROVE  Streams'
  <1>types. /\ got \in Queues /\ current \in Queues /\ send \in Queues
            /\ since[c] \in Nat /\ msg \in Discoveries /\ Len(log) \in Nat
    BY DEF TypeOK, Queues
  <1>1. /\ Way(c)' = Append(Way(c), msg) /\ \A b \in Clients : b # c => Way(b)' = Way(b)
    BY <1>types, SentFacts
  <1>2. /\ Way(c) \in Seq(Discoveries) /\ Len(Way(c)) \in Nat /\ since[c] \in Nat
        /\ msg \in Discoveries /\ Len(log) \in Nat
    BY <1>types, WayFacts
  <1>3. /\ Len(Way(c)') = Len(Way(c)) + 1 /\ Way(c)'[Len(Way(c)) + 1] = msg
        /\ \A i \in 1 .. Len(Way(c)) : Way(c)'[i] = Way(c)[i]
    BY <1>1, <1>2, AppendProperties
  <1>4. Begun(c) /\ c \in clients
    BY DEF Channels, Begun
  <1>5. Piece(c) /\ Covered(c) = Len(log) - 1 /\ msg = log[Len(log)]
    BY <1>4 DEF Streams, Piece, Come
  <1>6. Piece(c)'
    <2>1. Covered(c)' = Len(log) /\ Come(c)' = Len(log)
      BY <1>2, <1>3, <1>5 DEF Covered, Come
    <2>2. since[c] + (Len(Way(c)) + 1) = Len(log)
      BY <1>2, <1>5 DEF Covered
    <2>3. ASSUME NEW i \in 1 .. Len(Way(c)') PROVE Way(c)'[i] = log[since[c] + i]
      <3>1. CASE i \in 1 .. Len(Way(c))
        BY <1>3, <1>5, <3>1 DEF Piece
      <3>2. CASE i = Len(Way(c)) + 1
        BY <1>3, <1>5, <2>2, <3>2
      <3> QED
        BY <1>2, <1>3, <2>3, <3>1, <3>2
    <2> QED
      BY <1>2, <2>1, <2>3 DEF Piece
  <1>7. ASSUME NEW b \in Clients, Begun(b)' PROVE Piece(b)'
    <2>1. CASE b # c
      <3>1. Piece(b) /\ Way(b)' = Way(b) /\ Covered(b)' = Covered(b) /\ Come(b)' = Come(b)
        BY <1>1, <1>7, <2>1 DEF Streams, Begun, Covered, Come
      <3> QED
        BY <3>1 DEF Piece
    <2> QED
      BY <1>6, <2>1
  <1>8. ASSUME NEW b \in Clients, ~Begun(b)' PROVE Way(b)' = <<>>
    BY <1>1, <1>4, <1>8 DEF Streams, Begun
  <1> QED
    BY <1>7, <1>8 DEF Streams

LEMMA StreamsNext == TypeOK /\ Channels /\ Streams /\ [Next]_vars => Streams'
  <1> SUFFICES ASSUME TypeOK, Channels, Streams, [Next]_vars PROVE Streams'
    OBVIOUS
  <1>types. /\ reader \in [Clients -> {"off", "reading", "leaving", "done"}]
            /\ got \in Queues /\ current \in Queues /\ send \in Queues
    BY DEF TypeOK, Queues
  <1>1. ASSUME UNCHANGED <<got, current, send>> PROVE \A b \in Clients : Way(b)' = Way(b)
    BY <1>1 DEF Way
  <1>2. ASSUME NEW d \in Discoveries, Save(d) \/ Announce(d) PROVE Streams'
    BY <1>1, <1>2, StreamsKept DEF Save, Announce, hubVars, pumpVars, chanVars, Begun
  <1>3. ASSUME NEW c \in Clients, Unregister(c) PROVE Streams'
    <2>1. \A b \in Clients : Begun(b)' = Begun(b)
      BY <1>3, <1>types DEF Unregister, Begun
    <2> QED
      BY <1>1, <1>3, <2>1, StreamsKept DEF Unregister
  <1>4. ASSUME NEW c \in Clients, Deliver(c) PROVE Streams'
    <2>1. CASE clients' = clients \ {c} /\ UNCHANGED send
      <3>1. clients' = clients \ {c} /\ todo' = todo \ {c} /\ UNCHANGED <<log, since, msg, pumpVars>>
        BY <1>4, <2>1 DEF Deliver
      <3> QED
        BY <1>1, <2>1, <3>1, StreamsKept DEF pumpVars, Begun
    <2>2. CASE send' = [send EXCEPT ![c] = Append(@, msg)] /\ UNCHANGED clients
      BY <1>4, <2>2, StreamsSend DEF Deliver, pumpVars
    <2> QED
      BY <1>4, <2>1, <2>2 DEF Deliver
  <1>5. ASSUME NEW c \in Clients, Take(c) \/ Flush(c) PROVE Streams'
    <2>1. \A b \in Clients : Way(b)' = Way(b)
      BY <1>5, <1>types, TakeFacts, FlushFacts
    <2> QED
      BY <1>5, <2>1, StreamsKept DEF Take, Flush, hubVars, Begun
  <1>6. ASSUME NEW c \in Clients, Connect(c) \/ Vanish(c) \/ FinishWriting(c) \/ ReadFails(c)
        PROVE  Streams'
    <2>1. \A b \in Clients : Begun(b)' = Begun(b)
      BY <1>6, <1>types DEF Connect, Vanish, FinishWriting, ReadFails, Begun
    <2> QED
      BY <1>1, <1>6, <2>1, StreamsKept
      DEF Connect, Vanish, FinishWriting, ReadFails, hubVars, chanVars
  <1>7. CASE UNCHANGED vars
    BY <1>1, <1>7, StreamsKept DEF vars, hubVars, pumpVars, chanVars, Begun
  <1> QED
    BY <1>2, <1>3, <1>4, <1>5, <1>6, <1>7, StreamsRegister, StreamsHandRound
    DEF Next, Hub, Writer
-----------------------------------------------------------------------------
LEMMA SavedInit == Init => Saved
  BY EmptySeq DEF Init, Saved, Among

LEMMA AppendAmong ==
    ASSUME NEW s \in Seq(Discoveries), NEW e \in Discoveries, NEW d,
           Among(Append(s, e), d)
    PROVE  d = e \/ Among(s, d)
  <1>1. /\ Len(s) \in Nat /\ Len(Append(s, e)) = Len(s) + 1
        /\ \A i \in 1 .. Len(s) : Append(s, e)[i] = s[i]
        /\ Append(s, e)[Len(s) + 1] = e
    BY AppendProperties
  <1> QED
    BY <1>1 DEF Among

LEMMA TailAmong ==
    ASSUME NEW s \in Seq(Discoveries), s # <<>>, NEW d
    PROVE  /\ Among(s, Head(s))
           /\ Among(Tail(s), d) => Among(s, d)
  <1>1. /\ Len(s) \in Nat /\ Len(s) >= 1 /\ Head(s) = s[1] /\ Len(Tail(s)) = Len(s) - 1
        /\ \A i \in 1 .. Len(Tail(s)) : Tail(s)[i] = s[i + 1]
    OBVIOUS
  <1>2. Among(s, Head(s))
    BY <1>1 DEF Among
  <1>3. ASSUME NEW i \in 1 .. Len(Tail(s)), Tail(s)[i] = d PROVE Among(s, d)
    <2>1. i + 1 \in 1 .. Len(s) /\ s[i + 1] = d
      BY <1>1, <1>3
    <2> QED
      BY <2>1 DEF Among
  <1> QED
    BY <1>2, <1>3 DEF Among

LEMMA SavedNext == TypeOK /\ Saved /\ [Next]_vars => Saved'
  <1> SUFFICES ASSUME TypeOK, Saved, [Next]_vars PROVE Saved'
    OBVIOUS
  <1>types. /\ handler \in [Discoveries -> {"fetching", "saved", "done"}]
            /\ broadcast \in Seq(Discoveries) /\ log \in Seq(Discoveries)
    BY DEF TypeOK
  <1>1. ASSUME UNCHANGED <<broadcast, log>>,
               \A d \in Discoveries : handler'[d] = "fetching" => handler[d] = "fetching"
        PROVE  Saved'
    BY <1>1 DEF Saved, Among
  <1>2. ASSUME NEW d \in Discoveries, Save(d) PROVE Saved'
    BY <1>1, <1>2, <1>types DEF Save, hubVars
  <1>3. ASSUME NEW d \in Discoveries, Announce(d) PROVE Saved'
    <2>1. /\ handler[d] = "saved" /\ handler' = [handler EXCEPT ![d] = "done"]
          /\ broadcast' = Append(broadcast, d) /\ log' = log
      BY <1>3 DEF Announce
    <2>2. ASSUME NEW e \in Discoveries, handler'[e] = "fetching"
          PROVE  ~Among(broadcast', e) /\ ~Among(log', e)
      <3>1. e # d /\ handler[e] = "fetching"
        BY <1>types, <2>1, <2>2
      <3>2. ~Among(broadcast, e) /\ ~Among(log, e)
        BY <3>1 DEF Saved
      <3> QED
        BY <1>types, <2>1, <3>1, <3>2, AppendAmong
    <2> QED
      BY <2>2 DEF Saved, Among
  <1>4. CASE HandRound
    <2>1. /\ broadcast # <<>> /\ broadcast' = Tail(broadcast) /\ handler' = handler
          /\ log' = Append(log, Head(broadcast))
      BY <1>4 DEF HandRound
    <2>2. Head(broadcast) \in Discoveries
      BY <1>types, <2>1
    <2>3. ASSUME NEW e \in Discoveries, handler'[e] = "fetching"
          PROVE  ~Among(broadcast', e) /\ ~Among(log', e)
      <3>1. ~Among(broadcast, e) /\ ~Among(log, e)
        BY <2>1, <2>3 DEF Saved
      <3>2. e # Head(broadcast)
        BY <1>types, <2>1, <3>1, TailAmong
      <3>3. ~Among(Tail(broadcast), e)
        BY <1>types, <2>1, <3>1, TailAmong
      <3>4. ~Among(Append(log, Head(broadcast)), e)
        BY <1>types, <2>2, <3>1, <3>2, AppendAmong
      <3> QED
        BY <2>1, <3>3, <3>4
    <2> QED
      BY <2>3 DEF Saved, Among
  <1>5. ASSUME NEW c \in Clients,
               \/ Register(c) \/ Unregister(c) \/ Deliver(c) \/ Connect(c) \/ Vanish(c)
               \/ Writer(c) \/ ReadFails(c)
        PROVE  Saved'
    <2>1. UNCHANGED <<broadcast, log, handler>>
      BY <1>5 DEF Register, Unregister, Deliver, Connect, Vanish, Writer, Take, Flush,
                  FinishWriting, ReadFails, hubVars
    <2> QED
      BY <1>1, <2>1
  <1>6. CASE UNCHANGED vars
    BY <1>1, <1>6 DEF vars, hubVars
  <1> QED
    BY <1>2, <1>3, <1>4, <1>5, <1>6 DEF Next, Hub
-----------------------------------------------------------------------------
LEMMA IInvAlways == Spec => []IInv
  <1>1. Init => IInv
    BY TypeInit, ChannelsInit, StreamsInit, SavedInit DEF IInv
  <1>2. IInv /\ [Next]_vars => IInv'
    BY TypeNext, ChannelsNext, StreamsNext, SavedNext DEF IInv
  <1> QED
    BY <1>1, <1>2, PTL DEF Spec

\* A stretch of the log is any sequence that agrees with it from there on.
LEMMA PieceOfLog ==
    ASSUME NEW l \in Seq(Discoveries), NEW s \in Seq(Discoveries), NEW n \in Nat,
           n + Len(s) <= Len(l), \A i \in 1 .. Len(s) : s[i] = l[n + i]
    PROVE  s = SubSeq(l, n + 1, n + Len(s))
  <1> DEFINE m == n + Len(s)
  <1>1. Len(s) \in Nat /\ Len(l) \in Nat /\ m \in Nat
    OBVIOUS
  <1>2. \A i \in n + 1 .. m : l[i] \in Discoveries
    BY <1>1
  <1>3. /\ SubSeq(l, n + 1, m) \in Seq(Discoveries)
        /\ Len(SubSeq(l, n + 1, m)) = IF n + 1 <= m THEN m - (n + 1) + 1 ELSE 0
        /\ \A i \in 1 .. m - (n + 1) + 1 : SubSeq(l, n + 1, m)[i] = l[n + 1 + i - 1]
    BY <1>1, <1>2, SubSeqProperties
  <1>4. Len(SubSeq(l, n + 1, m)) = Len(s)
    BY <1>1, <1>3
  <1>5. \A i \in 1 .. Len(s) : s[i] = SubSeq(l, n + 1, m)[i]
    BY <1>1, <1>3
  <1> HIDE DEF m
  <1>6. s = SubSeq(l, n + 1, m)
    BY <1>3, <1>4, <1>5, SeqEqual
  <1> QED
    BY <1>6 DEF m

\* What a browser has seen is the log from its registration on, without a gap; and
\* what a registered client has not seen is what its pump and its channel hold.
THEOREM StreamsHaveNoGap == Spec => []GaplessStream
  <1>1. IInv => GaplessStream
    <2> SUFFICES ASSUME IInv, NEW c \in Clients, Begun(c)
                 PROVE  /\ got[c] = Stream(c, since[c] + Len(got[c]))
                        /\ c \in clients => Way(c) = Stream(c, Come(c))
      BY DEF GaplessStream, Begun, Way, Come
    <2>1. /\ got \in Queues /\ current \in Queues /\ send \in Queues
          /\ log \in Seq(Discoveries) /\ since[c] \in Nat /\ Len(log) \in Nat
      BY DEF IInv, TypeOK, Queues
    <2>2. Piece(c)
      BY DEF IInv, Streams
    <2>3. /\ got[c] \in Seq(Discoveries) /\ Len(got[c]) \in Nat
          /\ Way(c) \in Seq(Discoveries) /\ Len(Way(c)) \in Nat
          /\ Len(got[c]) <= Len(Way(c))
          /\ \A i \in 1 .. Len(got[c]) : Way(c)[i] = got[c][i]
      BY <2>1, WayFacts
    <2>4. got[c] = Stream(c, since[c] + Len(got[c]))
      <3>1. since[c] + Len(got[c]) <= Len(log)
        BY <2>1, <2>2, <2>3 DEF Piece, Covered
      <3>2. \A i \in 1 .. Len(got[c]) : got[c][i] = log[since[c] + i]
        BY <2>2, <2>3 DEF Piece
      <3> QED
        BY <2>1, <2>3, <3>1, <3>2, PieceOfLog DEF Stream
    <2>5. Way(c) = Stream(c, Covered(c))
      BY <2>1, <2>2, <2>3, PieceOfLog DEF Stream, Piece, Covered
    <2> QED
      BY <2>2, <2>4, <2>5 DEF Piece
  <1> QED
    BY <1>1, IInvAlways, PTL

\* No browser ever sees an event of a discovery whose partner is not saved yet.
THEOREM EventsAreNotEarly == Spec => []EventsFollowTheTable
  <1>1. IInv => EventsFollowTheTable
    <2> SUFFICES ASSUME IInv, NEW d \in Discoveries, handler[d] = "fetching",
                        NEW c \in Clients, NEW i \in 1 .. Len(got[c])
                 PROVE  got[c][i] # d
      BY DEF EventsFollowTheTable
    <2>1. /\ got \in Queues /\ current \in Queues /\ send \in Queues
          /\ since[c] \in Nat /\ Len(log) \in Nat
      BY DEF IInv, TypeOK, Queues
    <2>2. /\ Len(got[c]) \in Nat /\ Len(Way(c)) \in Nat /\ Len(got[c]) <= Len(Way(c))
          /\ Way(c)[i] = got[c][i]
      BY <2>1, WayFacts
    <2>3. i \in 1 .. Len(Way(c))
      BY <2>2
    <2>4. Way(c) # <<>>
      BY <2>3
    <2>5. Piece(c)
      BY <2>4 DEF IInv, Streams
    <2>6. since[c] + i \in 1 .. Len(log) /\ log[since[c] + i] = got[c][i]
      BY <2>1, <2>2, <2>3, <2>5 DEF Piece, Covered
    <2>7. ~Among(log, d)
      BY DEF IInv, Saved
    <2> QED
      BY <2>6, <2>7 DEF Among
  <1> QED
    BY <1>1, IInvAlways, PTL
=============================================================================
