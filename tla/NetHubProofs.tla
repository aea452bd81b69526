---------------------------- MODULE NetHubProofs ----------------------------
(***************************************************************************)
(* For any number of bridges, streams and events, and any sizes of the     *)
(* ring, the channels and the connection, in one life of the hub: an event *)
(* crosses it once; what a bridge hears is in order and not twice; and of  *)
(* what it is to hear it misses only what the hub gave up for it.          *)
(*                                                                         *)
(* The first rests on where an event may be.  One that names no origin is  *)
(* on the bus of the one client that emitted it and has not been posted;   *)
(* whatever the hub holds, or has ever sent, names one.  The second rests  *)
(* on the number that a client remembers: it is not below any it heard.    *)
(* The third follows a missing event along the stream: wire, replay,       *)
(* channel, and the broadcast that is still to come.                       *)
(***************************************************************************)
EXTENDS NetHub, SequenceTheorems, TLAPS

Posted == [n : Nat, topic : Topics, origin : Clients \union {"external"}, id : Nat, epoch : {0}]
Emitted == [n : Nat, topic : Topics, origin : {"none"}, id : {0}, epoch : {0}]

HubTyped ==
    /\ seq \in Nat /\ emitted \in Nat /\ epoch = 0
    /\ ring \in Seq(Posted) /\ sending \in Seq(Posted) /\ log \in Seq(Posted)

StreamsTyped ==
    /\ replay \in [Streams -> Seq(Posted)]
    /\ chan \in [Streams -> Seq(Posted)]
    /\ wire \in [Streams -> Seq(Posted)]

BridgesTyped ==
    /\ at \in [Clients -> Streams \union {0}]
    /\ lastID \in [Clients -> Nat]
    /\ heard \in [Clients -> Seq(Posted)]
    /\ local \in [Clients -> Seq(Posted \union Emitted)]

\* The events of the application that its client's forwarder has yet to see.
Own(c) == {i \in 1 .. Len(local[c]) : local[c][i].origin = "none"}

OwnAreFresh ==
    /\ \A c \in Clients : \A i \in Own(c) :
          /\ local[c][i].n \in 1 .. emitted
          /\ \A j \in 1 .. Len(log) : log[j].n # local[c][i].n
    /\ \A c, d \in Clients : \A i \in Own(c), j \in Own(d) :
          local[c][i].n = local[d][j].n => c = d /\ i = j

LogIsOfEvents ==
    /\ \A i \in 1 .. Len(log) : log[i].n \in 1 .. emitted
    /\ \A i, j \in 1 .. Len(log) : log[i].n = log[j].n => i = j

NoEchoes == \A c \in Clients : \A i \in 1 .. Len(heard[c]) : heard[c][i].origin \notin {c, "none"}

Remembers ==
    \A c \in Clients :
        /\ \A i \in 1 .. Len(heard[c]) : heard[c][i].id <= lastID[c]
        /\ \A i, j \in 1 .. Len(heard[c]) : i < j => heard[c][i].id < heard[c][j].id

Typed == HubTyped /\ StreamsTyped /\ BridgesTyped

IInv == Typed /\ OwnAreFresh /\ LogIsOfEvents /\ NoEchoes /\ Remembers

-----------------------------------------------------------------------------
LEMMA InitIInv == Init => IInv
<1>. SUFFICES ASSUME Init PROVE IInv
  OBVIOUS
<1>1. /\ <<>> \in Seq(Posted) /\ <<>> \in Seq(Posted \union Emitted)
      /\ Len(<<>>) = 0
  BY EmptySeq
<1>2. Typed
  BY <1>1 DEF Init, Typed, HubTyped, StreamsTyped, BridgesTyped
<1>3. OwnAreFresh /\ LogIsOfEvents /\ NoEchoes /\ Remembers
  BY <1>1 DEF Init, OwnAreFresh, Own, LogIsOfEvents, NoEchoes, Remembers
<1>. QED
  BY <1>2, <1>3 DEF IInv

\* The ring keeps the end of what it was given.
LEMMA YoungestType ==
    ASSUME NEW S, NEW events \in Seq(S)
    PROVE  Youngest(events) \in Seq(S)
<1>. RingSize \in Nat \ {0}
  BY HubAssumption
<1>1. CASE Len(events) > RingSize
  <2>1. \A i \in Len(events) - RingSize + 1 .. Len(events) : events[i] \in S
    BY <1>1, LenProperties, ElementOfSeq
  <2>2. SubSeq(events, Len(events) - RingSize + 1, Len(events)) \in Seq(S)
    BY <2>1, LenProperties, SubSeqProperties
  <2>. QED
    BY <1>1, <2>2 DEF Youngest
<1>2. CASE ~(Len(events) > RingSize)
  BY <1>2 DEF Youngest
<1>. QED
  BY <1>1, <1>2

\* What the hub makes of an event that is posted to it.
LEMMA AcceptLogs ==
    ASSUME IInv, NEW n \in Nat, NEW topic \in Topics, NEW origin \in Clients \union {"none"},
           Accept(n, topic, origin),
           emitted' \in Nat, emitted <= emitted', 1 <= n, n <= emitted',
           \A i \in 1 .. Len(log) : log[i].n # n
    PROVE  /\ seq' \in Nat /\ epoch' = 0
           /\ ring' \in Seq(Posted) /\ sending' \in Seq(Posted) /\ log' \in Seq(Posted)
           /\ LogIsOfEvents'
           /\ \A i \in 1 .. Len(log') : log'[i].n = n \/ (i \in 1 .. Len(log) /\ log'[i].n = log[i].n)
<1>. DEFINE ev == [n |-> n, topic |-> topic, origin |-> Stamped(origin), id |-> seq + 1, epoch |-> epoch]
<1>1. Stamped(origin) \in Clients \union {"external"}
  BY DEF Stamped
<1>2. ev \in Posted
  BY <1>1 DEF Posted, IInv, Typed, HubTyped
<1>3. /\ seq' = seq + 1 /\ epoch' = epoch
      /\ ring' = Youngest(Append(ring, ev)) /\ sending' = <<ev>> /\ log' = Append(log, ev)
  BY DEF Accept
<1>4. ring \in Seq(Posted) /\ log \in Seq(Posted) /\ seq \in Nat /\ epoch = 0 /\ emitted \in Nat
  BY DEF IInv, Typed, HubTyped
<1>. HIDE DEF ev
<1>5. ring' \in Seq(Posted)
  BY <1>2, <1>3, <1>4, AppendProperties, YoungestType
<1>6. sending' \in Seq(Posted)
  BY <1>2, <1>3
<1>7. /\ log' \in Seq(Posted) /\ Len(log) \in Nat /\ Len(log') = Len(log) + 1
      /\ \A i \in 1 .. Len(log) : log'[i] = log[i]
      /\ log'[Len(log) + 1] = ev
  BY <1>2, <1>3, <1>4, AppendProperties, LenProperties
<1>8. ev.n = n
  BY DEF ev
<1>9. \A i \in 1 .. Len(log') : \/ i \in 1 .. Len(log) /\ log'[i].n = log[i].n
                                \/ i = Len(log) + 1 /\ log'[i].n = n
  BY <1>7, <1>8
<1>10. LogIsOfEvents'
  <2>1. /\ \A i \in 1 .. Len(log) : log[i].n \in 1 .. emitted
        /\ \A i, j \in 1 .. Len(log) : log[i].n = log[j].n => i = j
    BY DEF IInv, LogIsOfEvents
  <2>2. \A i \in 1 .. Len(log') : log'[i].n \in 1 .. emitted'
    BY <1>4, <1>9, <2>1
  <2>3. \A i, j \in 1 .. Len(log') : log'[i].n = log'[j].n => i = j
    BY <1>9, <2>1
  <2>. QED
    BY <2>2, <2>3 DEF LogIsOfEvents
<1>. QED
  BY <1>3, <1>4, <1>5, <1>6, <1>7, <1>9, <1>10

\* Events without an origin are only taken from the front of a bus, so that
\* those left are still fresh when the hub accepts one of another number.
LEMMA OwnStayFresh ==
    ASSUME IInv, NEW n,
           local' = local, emitted' \in Nat, emitted <= emitted',
           Len(log') \in Nat,
           \A i \in 1 .. Len(log') : log'[i].n = n \/ (i \in 1 .. Len(log) /\ log'[i].n = log[i].n),
           \A c \in Clients : \A i \in Own(c) : local[c][i].n # n
    PROVE  OwnAreFresh'
<1>1. \A c \in Clients : Own(c)' = Own(c)
  BY DEF Own
<1>2. \A c \in Clients : \A i \in Own(c) :
          /\ local'[c][i].n \in 1 .. emitted'
          /\ \A j \in 1 .. Len(log') : log'[j].n # local'[c][i].n
  BY DEF IInv, OwnAreFresh, Typed, HubTyped
<1>. QED
  BY <1>1, <1>2 DEF IInv, OwnAreFresh

LEMMA ExternalIInv ==
    ASSUME IInv, NEW topic \in Topics, External(topic)
    PROVE  IInv'
<1>1. /\ emitted \in Nat /\ emitted' = emitted + 1 /\ local' = local
      /\ Accept(emitted + 1, topic, "none")
  BY DEF External, IInv, Typed, HubTyped, bridges
<1>2. \A i \in 1 .. Len(log) : log[i].n # emitted + 1
  BY <1>1 DEF IInv, LogIsOfEvents
<1>3. /\ HubTyped'
      /\ LogIsOfEvents'
      /\ \A i \in 1 .. Len(log') : \/ log'[i].n = emitted + 1
                                   \/ i \in 1 .. Len(log) /\ log'[i].n = log[i].n
  <2>1. PICK n : n = emitted + 1
    OBVIOUS
  <2>2. /\ n \in Nat /\ 1 <= n /\ n <= emitted'
        /\ emitted' \in Nat /\ emitted <= emitted'
    BY <1>1, <2>1
  <2>3. Accept(n, topic, "none") /\ \A i \in 1 .. Len(log) : log[i].n # n
    BY <1>1, <1>2, <2>1
  <2>4. /\ seq' \in Nat /\ epoch' = 0
        /\ ring' \in Seq(Posted) /\ sending' \in Seq(Posted) /\ log' \in Seq(Posted)
        /\ LogIsOfEvents'
        /\ \A i \in 1 .. Len(log') : \/ log'[i].n = n
                                     \/ i \in 1 .. Len(log) /\ log'[i].n = log[i].n
    BY <2>2, <2>3, AcceptLogs
  <2>. QED
    BY <2>1, <2>2, <2>4 DEF HubTyped
<1>4. Len(log') \in Nat
  BY <1>3, LenProperties DEF HubTyped
<1>5. \A c \in Clients : \A i \in Own(c) : local[c][i].n # emitted + 1
  BY <1>1 DEF IInv, OwnAreFresh
<1>6. OwnAreFresh'
  <2>1. emitted' \in Nat /\ emitted <= emitted'
    BY <1>1
  <2>2. \E n : /\ \A i \in 1 .. Len(log') : \/ log'[i].n = n
                                            \/ i \in 1 .. Len(log) /\ log'[i].n = log[i].n
               /\ \A c \in Clients : \A i \in Own(c) : local[c][i].n # n
    BY <1>3, <1>5
  <2>. QED
    BY <1>1, <1>4, <2>1, <2>2, OwnStayFresh
<1>7. StreamsTyped' /\ BridgesTyped' /\ NoEchoes' /\ Remembers'
  BY DEF External, IInv, Typed, StreamsTyped, BridgesTyped, NoEchoes, Remembers, streams, bridges
<1>. QED
  BY <1>3, <1>6, <1>7 DEF IInv, Typed

\* Steps that move events between the hub and its streams.
LEMMA HubMoves ==
    ASSUME IInv, StreamsTyped',
           UNCHANGED <<bridges, emitted, log, epoch>>,
           seq' = seq, ring' = ring, sending' \in Seq(Posted)
    PROVE  IInv'
<1>1. HubTyped' /\ BridgesTyped'
  BY DEF IInv, Typed, HubTyped, BridgesTyped, bridges
<1>2. \A c : Own(c)' = Own(c)
  BY DEF Own, bridges
<1>3. OwnAreFresh'
  BY <1>2 DEF IInv, OwnAreFresh, bridges
<1>4. LogIsOfEvents' /\ NoEchoes' /\ Remembers'
  BY DEF IInv, LogIsOfEvents, NoEchoes, Remembers, bridges
<1>. QED
  BY <1>1, <1>3, <1>4 DEF IInv, Typed

LEMMA BroadcastIInv ==
    ASSUME IInv, Broadcast
    PROVE  IInv'
<1>1. sending \in Seq(Posted) /\ chan \in [Streams -> Seq(Posted)]
  BY DEF IInv, Typed, HubTyped, StreamsTyped
<1>2. Head(sending) \in Posted
  BY <1>1, HeadTailProperties DEF Broadcast
<1>3. \A k \in Streams : Append(chan[k], Head(sending)) \in Seq(Posted)
  BY <1>1, <1>2, AppendProperties
<1>4. chan' \in [Streams -> Seq(Posted)]
  BY <1>1, <1>3 DEF Broadcast
<1>5. sending' \in Seq(Posted)
  BY EmptySeq DEF Broadcast
<1>6. StreamsTyped'
  BY <1>4 DEF Broadcast, IInv, Typed, StreamsTyped
<1>. QED
  BY <1>5, <1>6, HubMoves DEF Broadcast

LEMMA WriteType ==
    ASSUME IInv, NEW k \in Streams, NEW ev \in Posted, Write(k, ev)
    PROVE  wire' \in [Streams -> Seq(Posted)]
<1>1. wire \in [Streams -> Seq(Posted)]
  BY DEF IInv, Typed, StreamsTyped
<1>2. Append(wire[k], ev) \in Seq(Posted)
  BY <1>1, AppendProperties
<1>. QED
  BY <1>1, <1>2 DEF Write

\* The tail of a history is a history.
LEMMA SubSeqTyped ==
    ASSUME NEW S, NEW r \in Seq(S), NEW f \in 1 .. Len(r) + 1
    PROVE  SubSeq(r, f, Len(r)) \in Seq(S)
<1>1. Len(r) \in Nat /\ \A i \in f .. Len(r) : r[i] \in S
  BY LenProperties, ElementOfSeq
<1>. QED
  BY ONLY <1>1, SubSeqProperties

LEMMA HandlerIInv ==
    ASSUME IInv, NEW k \in Streams, Handler(k)
    PROVE  IInv'
<1>1. /\ replay \in [Streams -> Seq(Posted)] /\ chan \in [Streams -> Seq(Posted)]
      /\ wire \in [Streams -> Seq(Posted)]
      /\ ring \in Seq(Posted) /\ sending \in Seq(Posted)
  BY DEF IInv, Typed, HubTyped, StreamsTyped
<1>2. CASE AddSub(k)
  <2>1. StreamsTyped'
    BY <1>1, <1>2 DEF AddSub, StreamsTyped
  <2>. QED
    BY <1>1, <1>2, <2>1, HubMoves DEF AddSub
<1>3. CASE Snapshot(k)
  <2>1. \A first \in 1 .. Len(ring) + 1 : SubSeq(ring, first, Len(ring)) \in Seq(Posted)
    <3>. SUFFICES ASSUME NEW first \in 1 .. Len(ring) + 1
                  PROVE  SubSeq(ring, first, Len(ring)) \in Seq(Posted)
      OBVIOUS
    <3>1. ring \in Seq(Posted) /\ first \in 1 .. Len(ring) + 1
      BY <1>1
    <3>. QED
      BY ONLY <3>1, SubSeqTyped
  <2>2. replay' \in [Streams -> Seq(Posted)]
    <3>1. \/ replay' = replay
          \/ \E first \in 1 .. Len(ring) + 1 :
                replay' = [replay EXCEPT ![k] = SubSeq(ring, first, Len(ring))]
      BY <1>3 DEF Snapshot
    <3>. SUFFICES ASSUME replay' # replay
                  PROVE  replay' \in [Streams -> Seq(Posted)]
      BY <1>1
    <3>2. PICK first \in 1 .. Len(ring) + 1 :
            replay' = [replay EXCEPT ![k] = SubSeq(ring, first, Len(ring))]
      BY <3>1
    <3>. DEFINE tail == SubSeq(ring, first, Len(ring))
    <3>3. tail \in Seq(Posted) /\ replay' = [replay EXCEPT ![k] = tail]
      BY ONLY <2>1, <3>2
    <3>. HIDE DEF tail
    <3>. QED
      BY ONLY <1>1, <3>3
  <2>3. StreamsTyped'
    BY <1>1, <1>3, <2>2 DEF Snapshot, StreamsTyped
  <2>. QED
    BY <1>1, <1>3, <2>3, HubMoves DEF Snapshot, hub
<1>4. CASE Replay(k)
  <2>1. Head(replay[k]) \in Posted /\ Tail(replay[k]) \in Seq(Posted)
    BY <1>1, <1>4, HeadTailProperties DEF Replay
  <2>2. replay' \in [Streams -> Seq(Posted)]
    BY <1>1, <1>4, <2>1 DEF Replay
  <2>3. wire' \in [Streams -> Seq(Posted)]
    BY <1>1, <1>4, <2>1, WriteType DEF Replay
  <2>4. StreamsTyped'
    BY <1>1, <1>4, <2>2, <2>3 DEF Replay, StreamsTyped
  <2>. QED
    BY <1>1, <1>4, <2>4, HubMoves DEF Replay, hub, history
<1>5. CASE Deliver(k)
  <2>1. Head(chan[k]) \in Posted /\ Tail(chan[k]) \in Seq(Posted)
    BY <1>1, <1>5, HeadTailProperties DEF Deliver
  <2>2. chan' \in [Streams -> Seq(Posted)]
    BY <1>1, <1>5, <2>1 DEF Deliver
  <2>3. wire' \in [Streams -> Seq(Posted)]
    BY <1>1, <1>5, <2>1, WriteType DEF Deliver
  <2>4. StreamsTyped'
    BY <1>1, <1>5, <2>2, <2>3 DEF Deliver, StreamsTyped
  <2>. QED
    BY <1>1, <1>5, <2>4, HubMoves DEF Deliver, hub, history
<1>6. CASE Leave(k)
  <2>1. StreamsTyped'
    BY <1>1, <1>6, EmptySeq DEF Leave, StreamsTyped
  <2>. QED
    BY <1>1, <1>6, <2>1, HubMoves DEF Leave, history
<1>. QED
  BY <1>2, <1>3, <1>4, <1>5, <1>6 DEF Handler

\* What a client does with its stream and not with an event.
LEMMA ConnectionIInv ==
    ASSUME IInv, NEW c \in Clients, Connect(c) \/ EndOfStream(c) \/ Break(c)
    PROVE  IInv'
<1>1. StreamsTyped'
  <2>1. wire \in [Streams -> Seq(Posted)] /\ <<>> \in Seq(Posted)
    BY EmptySeq DEF IInv, Typed, StreamsTyped
  <2>2. wire' \in [Streams -> Seq(Posted)]
    BY <2>1 DEF Connect, EndOfStream, Break, streams
  <2>. QED
    BY <2>2 DEF IInv, Typed, StreamsTyped, Connect, EndOfStream, Break, streams
<1>2. at' \in [Clients -> Streams \union {0}]
  BY DEF IInv, Typed, BridgesTyped, Connect, EndOfStream, Break
<1>3. UNCHANGED <<hub, lastID, local, heard, emitted, log>>
  BY DEF Connect, EndOfStream, Break, history
<1>4. HubTyped' /\ BridgesTyped'
  BY <1>2, <1>3 DEF IInv, Typed, HubTyped, BridgesTyped, hub
<1>5. \A d : Own(d)' = Own(d)
  BY <1>3 DEF Own
<1>6. OwnAreFresh'
  BY <1>3, <1>5 DEF IInv, OwnAreFresh
<1>7. LogIsOfEvents' /\ NoEchoes' /\ Remembers'
  BY <1>3 DEF IInv, LogIsOfEvents, NoEchoes, Remembers
<1>. QED
  BY <1>1, <1>4, <1>6, <1>7 DEF IInv, Typed

\* An event of the hub's on a local bus is none of the application's own.
LEMMA OwnAfterRead ==
    ASSUME IInv, NEW c \in Clients, NEW ev \in Posted,
           local' = [local EXCEPT ![c] = Append(@, ev)]
    PROVE  /\ local' \in [Clients -> Seq(Posted \union Emitted)]
           /\ \A d \in Clients : Own(d)' = Own(d) /\ \A i \in Own(d) : local'[d][i] = local[d][i]
<1>1. local \in [Clients -> Seq(Posted \union Emitted)]
  BY DEF IInv, Typed, BridgesTyped
<1>2. ev.origin # "none"
  BY HubAssumption DEF Posted
<1>3. /\ Append(local[c], ev) \in Seq(Posted \union Emitted)
      /\ Len(local[c]) \in Nat /\ Len(Append(local[c], ev)) = Len(local[c]) + 1
      /\ \A i \in 1 .. Len(local[c]) : Append(local[c], ev)[i] = local[c][i]
      /\ Append(local[c], ev)[Len(local[c]) + 1] = ev
  BY <1>1, AppendProperties, LenProperties
<1>4. local' \in [Clients -> Seq(Posted \union Emitted)]
  BY <1>1, <1>3
<1>5. /\ local'[c] = Append(local[c], ev)
      /\ \A d \in Clients \ {c} : local'[d] = local[d]
  BY <1>1
<1>6. Own(c)' = Own(c)
  BY <1>2, <1>3, <1>5 DEF Own
<1>7. \A d \in Clients \ {c} : Own(d)' = Own(d)
  BY <1>5 DEF Own
<1>. QED
  BY <1>3, <1>4, <1>5, <1>6, <1>7 DEF Own

LEMMA ReadIInv ==
    ASSUME IInv, NEW c \in Clients, Read(c)
    PROVE  IInv'
<1>. DEFINE ev == Head(wire[at[c]])
<1>1. /\ at[c] \in Streams
      /\ wire \in [Streams -> Seq(Posted)] /\ heard \in [Clients -> Seq(Posted)]
      /\ lastID \in [Clients -> Nat]
  BY DEF Read, IInv, Typed, StreamsTyped, BridgesTyped
<1>2. /\ ev \in Posted /\ Tail(wire[at[c]]) \in Seq(Posted)
      /\ ev.id \in Nat
  <2>1. ev \in Posted /\ Tail(wire[at[c]]) \in Seq(Posted)
    BY <1>1, HeadTailProperties DEF Read
  <2>. QED
    BY <2>1 DEF Posted
<1>3. ev.origin # "none"
  BY <1>2, HubAssumption DEF Posted
<1>4. /\ wire' = [wire EXCEPT ![at[c]] = Tail(@)]
      /\ lastID' = [lastID EXCEPT ![c] = IF ev.id > @ THEN ev.id ELSE @]
      /\ UNCHANGED <<hub, replay, chan, at, emitted, log>>
      /\ \/ /\ ev.id > lastID[c] /\ ev.origin # c
            /\ heard' = [heard EXCEPT ![c] = Append(@, ev)]
            /\ local' = [local EXCEPT ![c] = Append(@, ev)]
         \/ UNCHANGED <<heard, local>>
  BY DEF Read, history
<1>. HIDE DEF ev
<1>5. HubTyped' /\ StreamsTyped' /\ LogIsOfEvents'
  <2>1. wire' \in [Streams -> Seq(Posted)]
    BY <1>1, <1>2, <1>4
  <2>. QED
    BY <1>4, <2>1 DEF IInv, Typed, HubTyped, StreamsTyped, LogIsOfEvents, hub
<1>6. lastID' \in [Clients -> Nat] /\ \A d \in Clients : lastID[d] <= lastID'[d]
  BY <1>1, <1>2, <1>4
<1>7. /\ local' \in [Clients -> Seq(Posted \union Emitted)]
      /\ \A d \in Clients : Own(d)' = Own(d) /\ \A i \in Own(d) : local'[d][i] = local[d][i]
  <2>1. CASE local' = local
    BY <2>1 DEF Own, IInv, Typed, BridgesTyped
  <2>2. CASE local' = [local EXCEPT ![c] = Append(@, ev)]
    BY <1>2, <2>2, OwnAfterRead
  <2>. QED
    BY <1>4, <2>1, <2>2
<1>8. OwnAreFresh'
  <2>1. \A d \in Clients : \A i \in Own(d) :
          /\ local'[d][i].n \in 1 .. emitted'
          /\ \A j \in 1 .. Len(log') : log'[j].n # local'[d][i].n
    BY <1>4, <1>7 DEF IInv, OwnAreFresh
  <2>2. \A d, e \in Clients : \A i \in Own(d), j \in Own(e) :
          local'[d][i].n = local'[e][j].n => d = e /\ i = j
    BY <1>7 DEF IInv, OwnAreFresh
  <2>. QED
    BY <1>7, <2>1, <2>2 DEF OwnAreFresh
<1>9. /\ heard' \in [Clients -> Seq(Posted)]
      /\ NoEchoes' /\ Remembers'
  <2>1. CASE heard' = heard
    <3>1. Remembers'
      <4>1. \A d \in Clients : \A i \in 1 .. Len(heard[d]) : heard[d][i] \in Posted
        BY <1>1, ElementOfSeq
      <4>2. \A d \in Clients : \A i \in 1 .. Len(heard[d]) :
               /\ heard[d][i].id \in Nat
               /\ heard[d][i].id <= lastID[d]
        BY <4>1 DEF Posted, IInv, Remembers
      <4>3. \A d \in Clients : \A i \in 1 .. Len(heard[d]) : heard[d][i].id <= lastID'[d]
        BY <1>1, <1>6, <4>2
      <4>. QED
        BY <2>1, <4>3 DEF IInv, Remembers
    <3>. QED
      BY <1>1, <2>1, <3>1 DEF IInv, NoEchoes
  <2>2. CASE /\ ev.id > lastID[c] /\ ev.origin # c
             /\ heard' = [heard EXCEPT ![c] = Append(@, ev)]
    <3>1. /\ Append(heard[c], ev) \in Seq(Posted)
          /\ Len(heard[c]) \in Nat /\ Len(Append(heard[c], ev)) = Len(heard[c]) + 1
          /\ \A i \in 1 .. Len(heard[c]) : Append(heard[c], ev)[i] = heard[c][i]
          /\ Append(heard[c], ev)[Len(heard[c]) + 1] = ev
      BY <1>1, <1>2, AppendProperties, LenProperties
    <3>2. heard'[c] = Append(heard[c], ev) /\ \A d \in Clients \ {c} : heard'[d] = heard[d]
      BY <1>1, <2>2
    <3>3. heard' \in [Clients -> Seq(Posted)]
      BY <1>1, <2>2, <3>1
    <3>4. \A i \in 1 .. Len(heard'[c]) :
             \/ i \in 1 .. Len(heard[c]) /\ heard'[c][i] = heard[c][i]
             \/ i = Len(heard[c]) + 1 /\ heard'[c][i] = ev
      BY <3>1, <3>2
    <3>5. NoEchoes'
      BY <1>3, <2>2, <3>2, <3>4 DEF IInv, NoEchoes
    <3>6. lastID'[c] = ev.id /\ \A d \in Clients \ {c} : lastID'[d] = lastID[d]
      BY <1>1, <1>2, <1>4, <2>2
    <3>7. \A i \in 1 .. Len(heard[c]) : heard[c][i].id \in Nat /\ heard[c][i].id < ev.id
      <4>1. \A i \in 1 .. Len(heard[c]) : heard[c][i] \in Posted
        BY <1>1, ElementOfSeq
      <4>2. \A i \in 1 .. Len(heard[c]) : heard[c][i].id \in Nat /\ heard[c][i].id <= lastID[c]
        BY <4>1 DEF Posted, IInv, Remembers
      <4>3. lastID[c] \in Nat /\ ev.id > lastID[c]
        BY <1>1, <2>2
      <4>. QED
        BY <1>2, <4>2, <4>3
    <3>8. /\ \A i \in 1 .. Len(heard'[c]) : heard'[c][i].id <= lastID'[c]
          /\ \A i, j \in 1 .. Len(heard'[c]) : i < j => heard'[c][i].id < heard'[c][j].id
      <4>1. \A i \in 1 .. Len(heard'[c]) : heard'[c][i].id <= lastID'[c]
        BY <1>2, <3>4, <3>6, <3>7
      <4>2. \A i, j \in 1 .. Len(heard[c]) : i < j => heard[c][i].id < heard[c][j].id
        BY DEF IInv, Remembers
      <4>3. \A i, j \in 1 .. Len(heard'[c]) : i < j => i \in 1 .. Len(heard[c])
        BY <3>1, <3>2
      <4>4. \A i \in 1 .. Len(heard[c]) : heard'[c][i] = heard[c][i]
        BY <3>1, <3>2
      <4>5. \A i, j \in 1 .. Len(heard'[c]) : i < j => heard'[c][i].id < heard'[c][j].id
        BY <3>4, <3>7, <4>2, <4>3, <4>4
      <4>. QED
        BY <4>1, <4>5
    <3>9. Remembers'
      BY <3>2, <3>6, <3>8 DEF IInv, Remembers
    <3>. QED
      BY <3>3, <3>5, <3>9
  <2>. QED
    BY <1>4, <2>1, <2>2
<1>10. BridgesTyped'
  BY <1>4, <1>6, <1>7, <1>9 DEF IInv, Typed, BridgesTyped
<1>. QED
  BY <1>5, <1>8, <1>9, <1>10 DEF IInv, Typed

\* The application puts an event on a bus: one of its own, with a new name.
LEMMA EmitIInv ==
    ASSUME IInv, NEW c \in Clients, NEW topic \in Topics, Emit(c, topic)
    PROVE  IInv'
<1>. DEFINE ev == [n |-> emitted + 1, topic |-> topic, origin |-> "none", id |-> 0, epoch |-> 0]
<1>1. /\ emitted \in Nat /\ emitted' = emitted + 1
      /\ local \in [Clients -> Seq(Posted \union Emitted)]
      /\ local' = [local EXCEPT ![c] = Append(@, ev)]
      /\ UNCHANGED <<hub, streams, at, lastID, heard, log>>
  BY DEF Emit, IInv, Typed, HubTyped, BridgesTyped
<1>2. ev \in Emitted /\ ev.n = emitted + 1 /\ ev.origin = "none"
  BY <1>1 DEF Emitted
<1>. HIDE DEF ev
<1>0. emitted \in Nat /\ emitted' = emitted + 1 /\ log' = log
  BY <1>1
<1>3. /\ Append(local[c], ev) \in Seq(Posted \union Emitted)
      /\ Len(local[c]) \in Nat /\ Len(Append(local[c], ev)) = Len(local[c]) + 1
      /\ \A i \in 1 .. Len(local[c]) : Append(local[c], ev)[i] = local[c][i]
      /\ Append(local[c], ev)[Len(local[c]) + 1] = ev
  BY <1>1, <1>2, AppendProperties, LenProperties
<1>4. /\ local' \in [Clients -> Seq(Posted \union Emitted)]
      /\ local'[c] = Append(local[c], ev)
      /\ \A d \in Clients \ {c} : local'[d] = local[d]
  BY <1>1, <1>3
<1>5. \A d \in Clients : \A i \in Own(d)' :
         \/ i \in Own(d) /\ local'[d][i].n = local[d][i].n
         \/ d = c /\ i = Len(local[c]) + 1 /\ local'[d][i].n = emitted + 1
  <2>1. \A i \in Own(c)' : \/ i \in Own(c) /\ local'[c][i].n = local[c][i].n
                           \/ i = Len(local[c]) + 1 /\ local'[c][i].n = emitted + 1
    BY <1>2, <1>3, <1>4 DEF Own
  <2>2. \A d \in Clients \ {c} : \A i \in Own(d)' : i \in Own(d) /\ local'[d][i].n = local[d][i].n
    BY <1>4 DEF Own
  <2>. QED
    BY <2>1, <2>2
<1>6. /\ \A j \in 1 .. Len(log) : log[j].n \in 1 .. emitted
      /\ \A d \in Clients : \A i \in Own(d) :
            /\ local[d][i].n \in 1 .. emitted
            /\ \A j \in 1 .. Len(log) : log[j].n # local[d][i].n
      /\ \A d, e \in Clients : \A i \in Own(d), j \in Own(e) :
            local[d][i].n = local[e][j].n => d = e /\ i = j
  BY DEF IInv, LogIsOfEvents, OwnAreFresh
<1>7. \A d \in Clients : \A i \in Own(d)' :
         /\ local'[d][i].n \in 1 .. emitted'
         /\ \A j \in 1 .. Len(log') : log'[j].n # local'[d][i].n
  <2>. SUFFICES ASSUME NEW d \in Clients, NEW i \in Own(d)'
                PROVE  /\ local'[d][i].n \in 1 .. emitted'
                       /\ \A j \in 1 .. Len(log') : log'[j].n # local'[d][i].n
    OBVIOUS
  <2>1. CASE i \in Own(d) /\ local'[d][i].n = local[d][i].n
    <3>1. local[d][i].n \in 1 .. emitted /\ \A j \in 1 .. Len(log) : log[j].n # local[d][i].n
      BY <1>6, <2>1
    <3>. QED
      BY <1>0, <2>1, <3>1
  <2>2. CASE local'[d][i].n = emitted + 1
    <3>1. \A j \in 1 .. Len(log) : log[j].n # emitted + 1
      BY <1>0, <1>6
    <3>. QED
      BY <1>0, <2>2, <3>1
  <2>. QED
    BY <1>5, <2>1, <2>2
<1>8. \A d, e \in Clients : \A i \in Own(d)', j \in Own(e)' :
         local'[d][i].n = local'[e][j].n => d = e /\ i = j
  <2>. SUFFICES ASSUME NEW d \in Clients, NEW e \in Clients, NEW i \in Own(d)', NEW j \in Own(e)',
                       local'[d][i].n = local'[e][j].n
                PROVE  d = e /\ i = j
    OBVIOUS
  <2>1. \/ i \in Own(d) /\ local'[d][i].n = local[d][i].n
        \/ d = c /\ i = Len(local[c]) + 1 /\ local'[d][i].n = emitted + 1
    BY <1>5
  <2>2. \/ j \in Own(e) /\ local'[e][j].n = local[e][j].n
        \/ e = c /\ j = Len(local[c]) + 1 /\ local'[e][j].n = emitted + 1
    BY <1>5
  <2>3. /\ i \in Own(d) => local[d][i].n \in 1 .. emitted
        /\ j \in Own(e) => local[e][j].n \in 1 .. emitted
    BY <1>6
  <2>. QED
    <3>1. CASE i \in Own(d) /\ j \in Own(e) /\ local[d][i].n = local[e][j].n
      BY <1>6, <3>1
    <3>2. CASE d = c /\ i = Len(local[c]) + 1 /\ e = c /\ j = Len(local[c]) + 1
      BY <3>2
    <3>. QED
      BY <1>0, <2>1, <2>2, <2>3, <3>1, <3>2
<1>9. OwnAreFresh'
  BY <1>7, <1>8 DEF OwnAreFresh
<1>10. HubTyped' /\ StreamsTyped' /\ BridgesTyped'
  BY <1>1, <1>4 DEF IInv, Typed, HubTyped, StreamsTyped, BridgesTyped, hub, streams
<1>11. LogIsOfEvents' /\ NoEchoes' /\ Remembers'
  BY <1>1 DEF IInv, LogIsOfEvents, NoEchoes, Remembers
<1>. QED
  BY <1>9, <1>10, <1>11 DEF IInv, Typed

\* An event taken from the front of a bus is not among those left.
LEMMA OwnAfterTail ==
    ASSUME IInv, NEW c \in Clients, local[c] # <<>>, local' = [local EXCEPT ![c] = Tail(@)]
    PROVE  /\ local' \in [Clients -> Seq(Posted \union Emitted)]
           /\ \A d \in Clients : \A i \in Own(d)' :
                 LET k == IF d = c THEN i + 1 ELSE i
                 IN  k \in Own(d) /\ local'[d][i] = local[d][k] /\ (d = c => k # 1)
           /\ 1 \in 1 .. Len(local[c]) /\ Head(local[c]) = local[c][1]
<1>1. local \in [Clients -> Seq(Posted \union Emitted)]
  BY DEF IInv, Typed, BridgesTyped
<1>2. /\ Tail(local[c]) \in Seq(Posted \union Emitted)
      /\ Len(local[c]) \in Nat \ {0} /\ Len(Tail(local[c])) = Len(local[c]) - 1
      /\ \A i \in 1 .. Len(Tail(local[c])) : Tail(local[c])[i] = local[c][i + 1]
  BY <1>1, HeadTailProperties, EmptySeq
<1>3. /\ local' \in [Clients -> Seq(Posted \union Emitted)]
      /\ local'[c] = Tail(local[c])
      /\ \A d \in Clients \ {c} : local'[d] = local[d]
  BY <1>1, <1>2
<1>4. \A i \in Own(c)' : i + 1 \in Own(c) /\ local'[c][i] = local[c][i + 1] /\ i + 1 # 1
  BY <1>2, <1>3 DEF Own
<1>5. \A d \in Clients \ {c} : \A i \in Own(d)' : i \in Own(d) /\ local'[d][i] = local[d][i]
  BY <1>3 DEF Own
<1>6. \A d \in Clients : \A i \in Own(d)' :
         LET k == IF d = c THEN i + 1 ELSE i
         IN  k \in Own(d) /\ local'[d][i] = local[d][k] /\ (d = c => k # 1)
  BY <1>4, <1>5
<1>7. 1 \in 1 .. Len(local[c]) /\ Head(local[c]) = local[c][1]
  BY <1>1, <1>2
<1>. QED
  BY <1>3, <1>6, <1>7

LEMMA ForwardIInv ==
    ASSUME IInv, NEW c \in Clients, Forward(c)
    PROVE  IInv'
<1>. DEFINE ev == Head(local[c])
<1>1. /\ local[c] # <<>> /\ local' = [local EXCEPT ![c] = Tail(@)]
      /\ UNCHANGED <<streams, at, lastID, heard, emitted>>
      /\ \/ ev.origin = "none" /\ Accept(ev.n, ev.topic, c)
         \/ UNCHANGED <<hub, log>>
  BY DEF Forward
<1>2. /\ local' \in [Clients -> Seq(Posted \union Emitted)]
      /\ \A d \in Clients : \A i \in Own(d)' :
            LET k == IF d = c THEN i + 1 ELSE i
            IN  k \in Own(d) /\ local'[d][i] = local[d][k] /\ (d = c => k # 1)
      /\ 1 \in 1 .. Len(local[c]) /\ ev = local[c][1]
  BY <1>1, OwnAfterTail
<1>3. ev \in Posted \union Emitted
  BY <1>2, ElementOfSeq DEF IInv, Typed, BridgesTyped
<1>4. /\ \A d \in Clients : \A i \in Own(d) :
            /\ local[d][i].n \in 1 .. emitted
            /\ \A j \in 1 .. Len(log) : log[j].n # local[d][i].n
      /\ \A d, e \in Clients : \A i \in Own(d), j \in Own(e) :
            local[d][i].n = local[e][j].n => d = e /\ i = j
      /\ emitted \in Nat
  BY DEF IInv, OwnAreFresh, Typed, HubTyped
<1>5. /\ HubTyped' /\ LogIsOfEvents'
      /\ \/ log' = log
         \/ /\ 1 \in Own(c)
            /\ \A i \in 1 .. Len(log') : \/ log'[i].n = local[c][1].n
                                         \/ i \in 1 .. Len(log) /\ log'[i].n = log[i].n
  <2>1. CASE UNCHANGED <<hub, log>>
    BY <1>1, <2>1 DEF IInv, Typed, HubTyped, LogIsOfEvents, hub
  <2>2. CASE ev.origin = "none" /\ Accept(ev.n, ev.topic, c)
    <3>1. 1 \in Own(c)
      BY <1>2, <2>2 DEF Own
    <3>2. ev.n \in 1 .. emitted /\ \A i \in 1 .. Len(log) : log[i].n # ev.n
      BY <1>2, <1>4, <3>1
    <3>3. ev.topic \in Topics /\ ev.n \in Nat
      BY <1>3 DEF Posted, Emitted
    <3>. HIDE DEF ev
    <3>4. emitted' = emitted /\ c \in Clients \union {"none"}
      BY <1>1
    <3>5. /\ seq' \in Nat /\ epoch' = 0
          /\ ring' \in Seq(Posted) /\ sending' \in Seq(Posted) /\ log' \in Seq(Posted)
          /\ LogIsOfEvents'
          /\ \A i \in 1 .. Len(log') : log'[i].n = ev.n \/ (i \in 1 .. Len(log) /\ log'[i].n = log[i].n)
      BY <1>4, <2>2, <3>2, <3>3, <3>4, AcceptLogs
    <3>. QED
      BY <1>2, <1>4, <3>1, <3>4, <3>5 DEF HubTyped
  <2>. QED
    BY <1>1, <2>1, <2>2
<1>6. \A d \in Clients : \A i \in Own(d)' :
         /\ local'[d][i].n \in 1 .. emitted'
         /\ \A j \in 1 .. Len(log') : log'[j].n # local'[d][i].n
  <2>. SUFFICES ASSUME NEW d \in Clients, NEW i \in Own(d)'
                PROVE  /\ local'[d][i].n \in 1 .. emitted'
                       /\ \A j \in 1 .. Len(log') : log'[j].n # local'[d][i].n
    OBVIOUS
  <2>1. PICK k \in Own(d) : local'[d][i] = local[d][k] /\ (d = c => k # 1)
    BY <1>2
  <2>2. /\ local[d][k].n \in 1 .. emitted
        /\ \A j \in 1 .. Len(log) : log[j].n # local[d][k].n
        /\ 1 \in Own(c) => local[c][1].n # local[d][k].n
    BY <1>4, <2>1
  <2>. QED
    BY <1>1, <1>5, <2>1, <2>2
<1>7. \A d, e \in Clients : \A i \in Own(d)', j \in Own(e)' :
         local'[d][i].n = local'[e][j].n => d = e /\ i = j
  <2>. SUFFICES ASSUME NEW d \in Clients, NEW e \in Clients, NEW i \in Own(d)', NEW j \in Own(e)',
                       local'[d][i].n = local'[e][j].n
                PROVE  d = e /\ i = j
    OBVIOUS
  <2>. DEFINE k == IF d = c THEN i + 1 ELSE i
              l == IF e = c THEN j + 1 ELSE j
  <2>1. /\ k \in Own(d) /\ local'[d][i] = local[d][k]
        /\ l \in Own(e) /\ local'[e][j] = local[e][l]
    BY <1>2
  <2>2. d = e /\ k = l
    BY <1>4, <2>1
  <2>3. i \in Int /\ j \in Int
    BY DEF Own
  <2>. QED
    BY <2>2, <2>3
<1>8. OwnAreFresh'
  BY <1>6, <1>7 DEF OwnAreFresh
<1>9. StreamsTyped' /\ BridgesTyped' /\ NoEchoes' /\ Remembers'
  BY <1>1, <1>2 DEF IInv, Typed, StreamsTyped, BridgesTyped, NoEchoes, Remembers, streams
<1>. QED
  BY <1>5, <1>8, <1>9 DEF IInv, Typed

LEMMA StepIInv == IInv /\ [Next]_vars => IInv'
<1>. SUFFICES ASSUME IInv, [Next]_vars PROVE IInv'
  OBVIOUS
<1>1. CASE Broadcast
  BY <1>1, BroadcastIInv
<1>2. CASE CloseAll
  <2>1. StreamsTyped'
    BY <1>2 DEF CloseAll, IInv, Typed, StreamsTyped
  <2>2. sending \in Seq(Posted)
    BY DEF IInv, Typed, HubTyped
  <2>. QED
    BY <1>2, <2>1, <2>2, HubMoves DEF CloseAll, history
<1>3. ASSUME NEW topic \in Topics, External(topic) PROVE IInv'
  BY <1>3, ExternalIInv
<1>4. ASSUME NEW k \in Streams, Handler(k) PROVE IInv'
  BY <1>4, HandlerIInv
<1>5. ASSUME NEW c \in Clients, Receiver(c) \/ Break(c) PROVE IInv'
  BY <1>5, ConnectionIInv, ReadIInv DEF Receiver
<1>6. ASSUME NEW c \in Clients, Forward(c) PROVE IInv'
  BY <1>6, ForwardIInv
<1>7. ASSUME NEW c \in Clients, NEW topic \in Topics, Emit(c, topic) PROVE IInv'
  BY <1>7, EmitIInv
<1>8. CASE UNCHANGED vars
  <2>1. /\ StreamsTyped'
        /\ UNCHANGED <<bridges, emitted, log, epoch, seq, ring, sending>>
    BY <1>8 DEF vars, hub, streams, history, IInv, Typed, StreamsTyped
  <2>2. sending \in Seq(Posted)
    BY DEF IInv, Typed, HubTyped
  <2>. QED
    BY <2>1, <2>2, HubMoves
<1>. QED
  BY <1>1, <1>2, <1>3, <1>4, <1>5, <1>6, <1>7, <1>8 DEF Next

LEMMA SpecIInv == Spec => []IInv
BY InitIInv, StepIInv, PTL DEF Spec

-----------------------------------------------------------------------------
\* Whatever is replayed, broken off and posted again, no event is accepted by
\* the hub twice, and no bridge hears what it posted itself: the check of the
\* origin in Client.Bridge and that in Client.stream are enough.
THEOREM HubCrossesOnce == Spec => []CrossesOnce
<1>1. IInv => CrossesOnce
  <2>1. IInv => DOMAIN log = 1 .. Len(log) /\ \A c \in Clients : DOMAIN heard[c] = 1 .. Len(heard[c])
    BY LenProperties DEF IInv, Typed, HubTyped, BridgesTyped
  <2>. QED
    BY <2>1 DEF IInv, LogIsOfEvents, NoEchoes, CrossesOnce
<1>. QED
  BY <1>1, SpecIInv, PTL

\* In one life of the hub, a bridge puts events on its bus in the order of
\* their numbers and none twice, through any number of broken connections.
THEOREM HubHeardInOrder == Spec => []HeardInOrder
<1>1. IInv => HeardInOrder
  <2>. SUFFICES ASSUME IInv, NEW c \in Clients, NEW i \in DOMAIN heard[c], NEW j \in DOMAIN heard[c], i < j
                PROVE  heard[c][i].epoch = heard[c][j].epoch /\ heard[c][i].id < heard[c][j].id
    BY DEF HeardInOrder
  <2>1. heard[c] \in Seq(Posted)
    BY DEF IInv, Typed, BridgesTyped
  <2>2. i \in 1 .. Len(heard[c]) /\ j \in 1 .. Len(heard[c])
    BY <2>1, LenProperties
  <2>3. heard[c][i] \in Posted /\ heard[c][j] \in Posted
    BY <2>1, <2>2, ElementOfSeq
  <2>. QED
    BY <2>2, <2>3 DEF Posted, IInv, Remembers
<1>. QED
  BY <1>1, SpecIInv, PTL

-----------------------------------------------------------------------------
(* No event falls between.  One that a client is to hear, has not heard and *)
(* was not denied is above the number the client has reached; on the stream *)
(* it reads, no younger event is ahead of it, and once the stream is live   *)
(* the event is on it.                                                      *)

\* The events of a client's that it has neither heard nor been denied.
Missing(c) ==
    {i \in DOMAIN log : /\ Matches(log[i]) /\ log[i].origin # c
                        /\ log[i].n \notin Names(heard[c]) \union excused[c]}

\* Of a sequence of events, none above i comes before i, unless i has come.
Behind(i, got, s) ==
    \A j \in DOMAIN s : s[j].id > i => i \in got \/ \E m \in DOMAIN s : m < j /\ s[m].id = i

\* Where event i stands on a stream: w is what is on the wire, r what is left
\* to replay, rd what was, ch the channel.  The channel is read in order once
\* the stream is live, and is due to have i when its subscription is open.
Way(i, w, r, rd, ch, live, due) ==
    /\ Behind(i, {}, w) /\ Behind(i, IDs(w), r)
    /\ i \in rd => i \in IDs(w) \union IDs(r)
    /\ live => Behind(i, IDs(w) \union IDs(r), ch)
    /\ due => i \in IDs(w) \union IDs(r) \union IDs(ch)

Live(k) == phase[k] = "live" \/ (phase[k] = "added" /\ since[k] = 0)

Due(k, i) == Live(k) /\ k \in subs /\ i \notin IDs(sending)

Safe(c, i) ==
    /\ lastID[c] < i
    /\ at[c] # 0 => Way(i, wire[at[c]], replay[at[c]], replayed[at[c]], chan[at[c]], Live(at[c]), Due(at[c], i))

\* A sequence of events of the hub's log.
Logged(s, l) == \A j \in DOMAIN s : s[j].id \in DOMAIN l /\ s[j] = l[s[j].id]

Ascending(s) == \A i, j \in DOMAIN s : i < j => s[i].id < s[j].id

\* Nothing is held anywhere but what is in the log, where an event's number is
\* its place; the ring is in order and what is being sent is the youngest.
LogInv ==
    /\ seq = Len(log)
    /\ \A i \in DOMAIN log : log[i].id = i
    /\ \A j \in DOMAIN sending : sending[j].id = Len(log)
    /\ Logged(sending, log) /\ Logged(ring, log) /\ Ascending(ring)
    /\ \A k \in Streams : /\ Logged(wire[k], log) /\ Logged(replay[k], log) /\ Logged(chan[k], log)
                          /\ replayed[k] \subseteq DOMAIN log
    /\ \A c \in Clients : lastID[c] <= Len(log)

\* A stream is its client's own, begins empty and from the number its client
\* has reached.
StreamInv ==
    /\ \A c \in Clients : at[c] # 0 => owner[at[c]] = c /\ phase[at[c]] # "none"
    /\ \A k \in Streams :
          /\ phase[k] \in {"none", "requested"} => chan[k] = <<>> /\ k \notin subs
          /\ phase[k] \in {"none", "requested", "added"} =>
                wire[k] = <<>> /\ replay[k] = <<>> /\ replayed[k] = {}
    /\ \A c \in Clients : at[c] # 0 /\ phase[at[c]] \in {"requested", "added"} => since[at[c]] = lastID[c]

Shaped ==
    /\ phase = [k \in Streams |-> phase[k]] /\ owner = [k \in Streams |-> owner[k]]
    /\ since \in [Streams -> Nat]
    /\ replayed = [k \in Streams |-> replayed[k]] /\ written = [k \in Streams |-> written[k]]
    /\ excused = [c \in Clients |-> excused[c]]

MissInv == \A c \in Clients : \A i \in Missing(c) : Safe(c, i)

Held == IInv /\ Shaped /\ LogInv /\ StreamInv

-----------------------------------------------------------------------------
(* What sequences of events hold when they are appended to and read.       *)

LEMMA IDsAreNat ==
    ASSUME NEW s \in Seq(Posted), NEW j \in DOMAIN s
    PROVE  s[j] \in Posted /\ s[j].id \in Nat
<1>1. s[j] \in Posted
  BY LenProperties, ElementOfSeq
<1>. QED
  BY <1>1 DEF Posted

LEMMA IDsOfAppend ==
    ASSUME NEW s \in Seq(Posted), NEW ev \in Posted
    PROVE  /\ Append(s, ev) \in Seq(Posted)
           /\ IDs(Append(s, ev)) = IDs(s) \union {ev.id}
<1>1. /\ DOMAIN s = 1 .. Len(s) /\ Len(s) \in Nat
      /\ DOMAIN Append(s, ev) = 1 .. Len(s) + 1
      /\ \A j \in 1 .. Len(s) : Append(s, ev)[j] = s[j]
      /\ Append(s, ev)[Len(s) + 1] = ev
      /\ Append(s, ev) \in Seq(Posted)
  BY AppendProperties, LenProperties
<1>2. 1 .. Len(s) + 1 = 1 .. Len(s) \union {Len(s) + 1}
  BY <1>1
<1>. QED
  BY <1>1, <1>2 DEF IDs

LEMMA IDsOfTail ==
    ASSUME NEW s \in Seq(Posted), s # <<>>
    PROVE  /\ Tail(s) \in Seq(Posted) /\ Head(s) \in Posted
           /\ IDs(s) = {Head(s).id} \union IDs(Tail(s))
           /\ DOMAIN Tail(s) \subseteq Nat
           /\ \A j \in DOMAIN Tail(s) : j + 1 \in DOMAIN s /\ Tail(s)[j] = s[j + 1]
           /\ \A j \in DOMAIN s : j = 1 \/ (j - 1 \in DOMAIN Tail(s) /\ s[j] = Tail(s)[j - 1])
           /\ 1 \in DOMAIN s /\ Head(s) = s[1]
<1>1. /\ DOMAIN s = 1 .. Len(s) /\ Len(s) \in Nat \ {0} /\ Head(s) = s[1] /\ Head(s) \in Posted
      /\ DOMAIN Tail(s) = 1 .. Len(s) - 1 /\ Tail(s) \in Seq(Posted)
      /\ \A j \in 1 .. Len(s) - 1 : Tail(s)[j] = s[j + 1]
  BY HeadTailProperties, LenProperties, EmptySeq
<1>2. \A j \in DOMAIN Tail(s) : j + 1 \in DOMAIN s /\ Tail(s)[j] = s[j + 1]
  BY <1>1
<1>3. \A j \in DOMAIN s : j = 1 \/ (j - 1 \in DOMAIN Tail(s) /\ s[j] = Tail(s)[j - 1])
  BY <1>1
<1>4. 1 \in DOMAIN s
  BY <1>1
<1>5. IDs(s) = {Head(s).id} \union IDs(Tail(s))
  <2>. HIDE DEF IDs
  <2>1. ASSUME NEW x \in IDs(s) PROVE x \in {Head(s).id} \union IDs(Tail(s))
    <3>1. PICK j \in DOMAIN s : x = s[j].id
      BY DEF IDs
    <3>2. CASE j = 1
      BY <1>1, <3>1, <3>2
    <3>3. CASE j - 1 \in DOMAIN Tail(s) /\ s[j] = Tail(s)[j - 1]
      BY <3>1, <3>3 DEF IDs
    <3>. QED
      BY <1>3, <3>2, <3>3
  <2>2. ASSUME NEW x \in IDs(Tail(s)) PROVE x \in IDs(s)
    BY <1>2 DEF IDs
  <2>3. Head(s).id \in IDs(s)
    BY <1>1, <1>4 DEF IDs
  <2>. QED
    BY <2>1, <2>2, <2>3
<1>. QED
  BY <1>1, <1>2, <1>3, <1>4, <1>5

LEMMA BehindEmpty == ASSUME NEW i, NEW got PROVE Behind(i, got, <<>>) /\ IDs(<<>>) = {}
BY DEF Behind, IDs

LEMMA BehindOther ==
    ASSUME NEW i, NEW got, NEW more, NEW s, Behind(i, got, s), i \in got => i \in more
    PROVE  Behind(i, more, s)
BY DEF Behind

LEMMA BehindAppend ==
    ASSUME NEW i \in Nat, NEW got, NEW s \in Seq(Posted), NEW ev \in Posted,
           Behind(i, got, s), ev.id > i => i \in got \union IDs(s)
    PROVE  Behind(i, got, Append(s, ev))
<1>1. /\ DOMAIN s = 1 .. Len(s) /\ Len(s) \in Nat
      /\ DOMAIN Append(s, ev) = 1 .. Len(s) + 1
      /\ \A j \in 1 .. Len(s) : Append(s, ev)[j] = s[j]
      /\ Append(s, ev)[Len(s) + 1] = ev
  BY AppendProperties, LenProperties
<1>. SUFFICES ASSUME NEW j \in 1 .. Len(s) + 1, Append(s, ev)[j].id > i, i \notin got
              PROVE  \E m \in 1 .. Len(s) + 1 : m < j /\ Append(s, ev)[m].id = i
  BY <1>1 DEF Behind
<1>2. CASE j \in 1 .. Len(s)
  <2>1. PICK m \in 1 .. Len(s) : m < j /\ s[m].id = i
    BY <1>1, <1>2 DEF Behind
  <2>. QED
    BY <1>1, <2>1
<1>3. CASE j = Len(s) + 1
  <2>1. PICK m \in 1 .. Len(s) : s[m].id = i
    BY <1>1, <1>3 DEF IDs
  <2>. QED
    BY <1>1, <1>3, <2>1
<1>. QED
  BY <1>1, <1>2, <1>3

LEMMA BehindTail ==
    ASSUME NEW i \in Nat, NEW got, NEW s \in Seq(Posted), s # <<>>, Behind(i, got, s)
    PROVE  /\ Behind(i, got \union {Head(s).id}, Tail(s))
           /\ i \in got \/ Head(s).id <= i
<1>1. /\ Head(s) \in Posted /\ 1 \in DOMAIN s /\ Head(s) = s[1] /\ DOMAIN Tail(s) \subseteq Nat
      /\ \A j \in DOMAIN Tail(s) : j + 1 \in DOMAIN s /\ Tail(s)[j] = s[j + 1]
      /\ \A j \in DOMAIN s : j = 1 \/ (j - 1 \in DOMAIN Tail(s) /\ s[j] = Tail(s)[j - 1])
      /\ DOMAIN s \subseteq Nat
  BY IDsOfTail, LenProperties
<1>2. ASSUME NEW j \in DOMAIN Tail(s), Tail(s)[j].id > i, i \notin got \union {Head(s).id}
      PROVE  \E m \in DOMAIN Tail(s) : m < j /\ Tail(s)[m].id = i
  <2>1. PICK m \in DOMAIN s : m < j + 1 /\ s[m].id = i
    BY <1>1, <1>2 DEF Behind
  <2>2. m # 1
    BY <1>1, <1>2, <2>1
  <2>3. m - 1 \in DOMAIN Tail(s) /\ Tail(s)[m - 1].id = i
    BY <1>1, <2>1, <2>2
  <2>4. m \in Nat /\ j \in Nat /\ m - 1 < j
    BY <1>1, <2>1
  <2>. QED
    BY <2>3, <2>4
<1>3. i \notin got => ~(Head(s).id > i)
  <2>1. \A m \in DOMAIN s : m \in Nat \ {0}
    BY LenProperties
  <2>. QED
    BY <1>1, <2>1 DEF Behind
<1>4. Head(s).id \in Nat
  BY <1>1 DEF Posted
<1>. QED
  BY <1>2, <1>3, <1>4 DEF Behind

-----------------------------------------------------------------------------
(* The way of a missing event, step by step.                               *)

\* No event as young as i is on the stream.
LEMMA WayOfTheYoungest ==
    ASSUME NEW i \in Nat, NEW w \in Seq(Posted), NEW r \in Seq(Posted), NEW ch \in Seq(Posted),
           NEW rd, NEW live, i \notin rd,
           \A j \in DOMAIN w : w[j].id < i, \A j \in DOMAIN r : r[j].id < i, \A j \in DOMAIN ch : ch[j].id < i
    PROVE  Way(i, w, r, rd, ch, live, FALSE)
<1>1. ASSUME NEW s \in Seq(Posted), NEW got, \A j \in DOMAIN s : s[j].id < i
      PROVE  Behind(i, got, s)
  <2>1. \A j \in DOMAIN s : s[j].id \in Nat
    BY IDsAreNat
  <2>. QED
    BY <1>1, <2>1 DEF Behind
<1>. QED
  BY <1>1 DEF Way

LEMMA WayRead ==
    ASSUME NEW i \in Nat, NEW w \in Seq(Posted), NEW r, NEW rd, NEW ch, NEW live, NEW due,
           Way(i, w, r, rd, ch, live, due), w # <<>>
    PROVE  /\ Head(w).id <= i
           /\ Head(w).id # i => Way(i, Tail(w), r, rd, ch, live, due)
<1>1. Behind(i, {}, w)
  BY DEF Way
<1>2. Head(w).id <= i /\ Behind(i, {} \union {Head(w).id}, Tail(w))
  BY <1>1, BehindTail
<1>3. IDs(w) = {Head(w).id} \union IDs(Tail(w))
  BY IDsOfTail
<1>4. ASSUME Head(w).id # i PROVE Way(i, Tail(w), r, rd, ch, live, due)
  <2>1. Behind(i, {}, Tail(w))
    BY <1>2, <1>4, BehindOther
  <2>2. i \in IDs(w) => i \in IDs(Tail(w))
    BY <1>3, <1>4
  <2>3. Behind(i, IDs(w), r) => Behind(i, IDs(Tail(w)), r)
    BY <2>2, BehindOther
  <2>4. Behind(i, IDs(w) \union IDs(r), ch) => Behind(i, IDs(Tail(w)) \union IDs(r), ch)
    <3>1. i \in IDs(w) \union IDs(r) => i \in IDs(Tail(w)) \union IDs(r)
      BY <2>2
    <3>. QED
      BY <3>1, BehindOther
  <2>. QED
    BY <2>1, <2>2, <2>3, <2>4 DEF Way
<1>. QED
  BY <1>2, <1>4

LEMMA WayReplay ==
    ASSUME NEW i \in Nat, NEW w \in Seq(Posted), NEW r \in Seq(Posted), NEW rd, NEW ch, NEW live, NEW due,
           Way(i, w, r, rd, ch, live, due), r # <<>>, NEW x,
           x = Append(w, Head(r)) \/ (x = w /\ Head(r).id # i)
    PROVE  Way(i, x, Tail(r), rd, ch, live, due)
<1>1. Head(r) \in Posted /\ IDs(r) = {Head(r).id} \union IDs(Tail(r))
  BY IDsOfTail
<1>2. Behind(i, {}, w) /\ Behind(i, IDs(w), r)
  BY DEF Way
<1>3. Behind(i, IDs(w) \union {Head(r).id}, Tail(r)) /\ (i \in IDs(w) \/ Head(r).id <= i)
  BY <1>2, BehindTail
<1>4. Head(r).id \in Nat
  BY <1>1 DEF Posted
<1>5. Behind(i, {}, x) /\ (i \in IDs(w) \union {Head(r).id} => i \in IDs(x))
      /\ (i \in IDs(w) \union IDs(r) => i \in IDs(x) \union IDs(Tail(r)))
  <2>1. CASE x = Append(w, Head(r))
    <3>1. Head(r).id > i => i \in {} \union IDs(w)
      BY <1>3, <1>4
    <3>2. Behind(i, {}, Append(w, Head(r)))
      BY ONLY i \in Nat, w \in Seq(Posted), <1>1, <1>2, <3>1, BehindAppend
    <3>3. IDs(x) = IDs(w) \union {Head(r).id}
      BY <1>1, <2>1, IDsOfAppend
    <3>. QED
      BY <1>1, <2>1, <3>2, <3>3
  <2>2. CASE x = w /\ Head(r).id # i
    BY <1>1, <1>2, <2>2
  <2>. QED
    BY <2>1, <2>2
<1>6. Behind(i, IDs(x), Tail(r))
  BY <1>3, <1>5, BehindOther
<1>7. Behind(i, IDs(w) \union IDs(r), ch) => Behind(i, IDs(x) \union IDs(Tail(r)), ch)
  BY <1>5, BehindOther
<1>. QED
  BY <1>5, <1>6, <1>7 DEF Way

LEMMA WayDeliver ==
    ASSUME NEW i \in Nat, NEW w \in Seq(Posted), NEW rd, NEW ch \in Seq(Posted), NEW due,
           Way(i, w, <<>>, rd, ch, TRUE, due), ch # <<>>, NEW x, NEW rest,
           \/ Head(ch).id \in rd /\ x = w /\ rest = rd \ {Head(ch).id}
           \/ Head(ch).id \notin rd /\ x = Append(w, Head(ch)) /\ rest = rd
    PROVE  Way(i, x, <<>>, rest, Tail(ch), TRUE, due)
<1>1. Head(ch) \in Posted /\ IDs(ch) = {Head(ch).id} \union IDs(Tail(ch)) /\ Head(ch).id \in Nat
  BY IDsOfTail DEF Posted
<1>2. /\ Behind(i, {}, w) /\ (i \in rd => i \in IDs(w)) /\ Behind(i, IDs(w), ch)
      /\ (due => i \in IDs(w) \union IDs(ch))
  <2>1. IDs(<<>>) = {} /\ IDs(w) \union {} = IDs(w)
    BY BehindEmpty
  <2>. QED
    BY <2>1 DEF Way
<1>3. Behind(i, IDs(w) \union {Head(ch).id}, Tail(ch)) /\ (i \in IDs(w) \/ Head(ch).id <= i)
  BY <1>2, BehindTail
<1>4. /\ Behind(i, {}, x) /\ (i \in IDs(w) \union {Head(ch).id} => i \in IDs(x))
      /\ (i \in rest => i \in IDs(x))
  <2>1. CASE Head(ch).id \in rd /\ x = w /\ rest = rd \ {Head(ch).id}
    BY <1>2, <2>1
  <2>2. CASE x = Append(w, Head(ch)) /\ rest = rd
    <3>1. Head(ch).id > i => i \in {} \union IDs(w)
      BY <1>1, <1>3
    <3>2. Behind(i, {}, Append(w, Head(ch)))
      BY ONLY i \in Nat, w \in Seq(Posted), <1>1, <1>2, <3>1, BehindAppend
    <3>3. IDs(x) = IDs(w) \union {Head(ch).id}
      BY <1>1, <2>2, IDsOfAppend
    <3>. QED
      BY <1>2, <2>2, <3>2, <3>3
  <2>. QED
    BY <2>1, <2>2
<1>5. Behind(i, IDs(x), Tail(ch))
  BY <1>3, <1>4, BehindOther
<1>6. due => i \in IDs(x) \union IDs(Tail(ch))
  BY <1>1, <1>2, <1>4
<1>7. Behind(i, IDs(x), <<>>) /\ IDs(<<>>) = {} /\ IDs(x) \union {} = IDs(x)
  BY BehindEmpty
<1>. QED
  BY <1>4, <1>5, <1>6, <1>7 DEF Way

\* The channel is given an event that is not above the missing one's number, or
\* that comes after it.
LEMMA WayBroadcast ==
    ASSUME NEW i \in Nat, NEW w, NEW r, NEW rd, NEW ch \in Seq(Posted), NEW live, NEW due,
           Way(i, w, r, rd, ch, live, due), NEW ev \in Posted, NEW then,
           ev.id # i => due \/ ev.id <= i \/ ~live,
           then => ev.id = i \/ due
    PROVE  Way(i, w, r, rd, Append(ch, ev), live, then)
<1>1. IDs(Append(ch, ev)) = IDs(ch) \union {ev.id}
  BY IDsOfAppend
<1>2. ev.id \in Nat
  BY DEF Posted
<1>3. live => Behind(i, IDs(w) \union IDs(r), Append(ch, ev))
  <2>. SUFFICES ASSUME live PROVE Behind(i, IDs(w) \union IDs(r), Append(ch, ev))
    OBVIOUS
  <2>1. Behind(i, IDs(w) \union IDs(r), ch)
    BY DEF Way
  <2>2. ev.id > i => i \in (IDs(w) \union IDs(r)) \union IDs(ch)
    BY <1>2 DEF Way
  <2>. QED
    BY ONLY i \in Nat, ch \in Seq(Posted), ev \in Posted, <2>1, <2>2, BehindAppend
<1>4. then => i \in IDs(w) \union IDs(r) \union IDs(Append(ch, ev))
  BY <1>1 DEF Way
<1>. QED
  BY <1>3, <1>4 DEF Way

\* What the handler of a stream leaves behind is on the wire.
LEMMA WayLeave ==
    ASSUME NEW i, NEW w, NEW r, NEW rd, NEW ch, NEW live, NEW due, Way(i, w, r, rd, ch, live, due)
    PROVE  Way(i, w, <<>>, {}, <<>>, FALSE, FALSE)
BY BehindEmpty DEF Way

\* Less is asked where less is due.
LEMMA WayOther ==
    ASSUME NEW i, NEW w, NEW r, NEW rd, NEW ch, NEW live, NEW due, NEW liveNow, NEW dueNow,
           Way(i, w, r, rd, ch, live, due), liveNow => live, dueNow => due
    PROVE  Way(i, w, r, rd, ch, liveNow, dueNow)
BY DEF Way
-----------------------------------------------------------------------------
(* Sequences of events of the log.                                         *)

LEMMA LoggedAppend ==
    ASSUME NEW l, NEW s \in Seq(Posted), NEW ev \in Posted, Logged(s, l),
           ev.id \in DOMAIN l, ev = l[ev.id]
    PROVE  Logged(Append(s, ev), l)
<1>1. /\ DOMAIN s = 1 .. Len(s) /\ Len(s) \in Nat
      /\ DOMAIN Append(s, ev) = 1 .. Len(s) + 1
      /\ \A j \in 1 .. Len(s) : Append(s, ev)[j] = s[j]
      /\ Append(s, ev)[Len(s) + 1] = ev
  BY AppendProperties, LenProperties
<1>. SUFFICES ASSUME NEW j \in 1 .. Len(s) + 1
              PROVE  Append(s, ev)[j].id \in DOMAIN l /\ Append(s, ev)[j] = l[Append(s, ev)[j].id]
  BY <1>1 DEF Logged
<1>2. CASE j \in 1 .. Len(s)
  BY <1>1, <1>2 DEF Logged
<1>3. CASE j = Len(s) + 1
  BY <1>1, <1>3
<1>. QED
  BY <1>1, <1>2, <1>3

LEMMA LoggedTail ==
    ASSUME NEW l, NEW s \in Seq(Posted), s # <<>>, Logged(s, l)
    PROVE  Logged(Tail(s), l) /\ Head(s).id \in DOMAIN l /\ Head(s) = l[Head(s).id]
<1>1. /\ \A j \in DOMAIN Tail(s) : j + 1 \in DOMAIN s /\ Tail(s)[j] = s[j + 1]
      /\ 1 \in DOMAIN s /\ Head(s) = s[1]
  BY IDsOfTail
<1>. QED
  BY <1>1 DEF Logged

\* The end of a sequence of events.
LEMMA EndOf ==
    ASSUME NEW s \in Seq(Posted), NEW first \in 1 .. Len(s) + 1
    PROVE  LET e == SubSeq(s, first, Len(s))
           IN  /\ e \in Seq(Posted)
               /\ DOMAIN e \subseteq Nat
               /\ \A j \in DOMAIN e : first + j - 1 \in DOMAIN s /\ e[j] = s[first + j - 1]
               /\ \A j \in DOMAIN s : j >= first => j - first + 1 \in DOMAIN e /\ e[j - first + 1] = s[j]
<1> DEFINE e == SubSeq(s, first, Len(s))
<1>1. Len(s) \in Nat /\ DOMAIN s = 1 .. Len(s) /\ first \in Nat \ {0} /\ first <= Len(s) + 1
  BY LenProperties
<1>2. e \in Seq(Posted)
  BY SubSeqTyped
<1>3. /\ Len(e) = IF first <= Len(s) THEN Len(s) - first + 1 ELSE 0
      /\ \A j \in 1 .. Len(s) - first + 1 : e[j] = s[first + j - 1]
  <2>1. \A j \in first .. Len(s) : s[j] \in Posted
    BY <1>1, ElementOfSeq
  <2>2. first \in Int /\ Len(s) \in Int
    BY <1>1
  <2>. QED
    BY ONLY <2>1, <2>2, SubSeqProperties
<1>4. DOMAIN e = 1 .. Len(e)
  BY <1>2, LenProperties
<1>. HIDE DEF e
<1>5. DOMAIN e = 1 .. Len(s) - first + 1
  BY <1>1, <1>3, <1>4
<1>6. \A j \in DOMAIN e : first + j - 1 \in DOMAIN s /\ e[j] = s[first + j - 1]
  BY <1>1, <1>3, <1>5
<1>7. \A j \in DOMAIN s : j >= first => j - first + 1 \in DOMAIN e /\ e[j - first + 1] = s[j]
  <2>. TAKE j \in DOMAIN s
  <2>. HAVE j >= first
  <2>1. j - first + 1 \in 1 .. Len(s) - first + 1
    BY <1>1
  <2>2. first + (j - first + 1) - 1 = j
    BY <1>1
  <2>. QED
    BY <1>3, <1>5, <2>1, <2>2
<1>. QED
  BY <1>2, <1>5, <1>6, <1>7 DEF e

LEMMA LoggedEnd ==
    ASSUME NEW l, NEW s \in Seq(Posted), NEW first \in 1 .. Len(s) + 1, Logged(s, l), Ascending(s)
    PROVE  Logged(SubSeq(s, first, Len(s)), l) /\ Ascending(SubSeq(s, first, Len(s)))
<1> DEFINE e == SubSeq(s, first, Len(s))
<1>1. /\ DOMAIN e \subseteq Nat /\ first \in Nat
      /\ \A j \in DOMAIN e : first + j - 1 \in DOMAIN s /\ e[j] = s[first + j - 1]
  BY EndOf
<1>. HIDE DEF e
<1>2. Logged(e, l)
  BY <1>1 DEF Logged
<1>3. Ascending(e)
  <2>. SUFFICES ASSUME NEW i \in DOMAIN e, NEW j \in DOMAIN e, i < j PROVE e[i].id < e[j].id
    BY DEF Ascending
  <2>1. i \in Nat /\ j \in Nat
    BY <1>1
  <2>2. first + i - 1 < first + j - 1
    BY <1>1, <2>1
  <2>. QED
    BY <1>1, <2>2 DEF Ascending
<1>. QED
  BY <1>2, <1>3 DEF e

LEMMA LoggedLonger ==
    ASSUME NEW l \in Seq(Posted), NEW ev \in Posted, NEW s, Logged(s, l)
    PROVE  Logged(s, Append(l, ev))
<1>1. /\ DOMAIN l = 1 .. Len(l) /\ Len(l) \in Nat /\ DOMAIN Append(l, ev) = 1 .. Len(l) + 1
      /\ \A j \in 1 .. Len(l) : Append(l, ev)[j] = l[j]
  BY AppendProperties, LenProperties
<1>. QED
  BY <1>1 DEF Logged

LEMMA LoggedEmpty == ASSUME NEW l PROVE Logged(<<>>, l)
BY DEF Logged

-----------------------------------------------------------------------------
(* The invariant, step by step.                                            *)

\* What the invariant says of types.
LEMMA HeldTypes ==
    ASSUME Held
    PROVE  /\ seq \in Nat /\ ring \in Seq(Posted) /\ sending \in Seq(Posted) /\ log \in Seq(Posted)
           /\ DOMAIN log = 1 .. Len(log) /\ Len(log) \in Nat
           /\ replay \in [Streams -> Seq(Posted)] /\ chan \in [Streams -> Seq(Posted)]
           /\ wire \in [Streams -> Seq(Posted)]
           /\ at \in [Clients -> Streams \union {0}] /\ lastID \in [Clients -> Nat]
           /\ heard \in [Clients -> Seq(Posted)]
<1>1. log \in Seq(Posted)
  BY DEF Held, IInv, Typed, HubTyped
<1>2. DOMAIN log = 1 .. Len(log) /\ Len(log) \in Nat
  BY <1>1, LenProperties
<1>. QED
  BY <1>1, <1>2 DEF Held, IInv, Typed, HubTyped, StreamsTyped, BridgesTyped

\* An event of the log is known by its name.
LEMMA NamesAreUnique ==
    ASSUME Held, NEW s, Logged(s, log), NEW i \in DOMAIN log, log[i].n \in Names(s)
    PROVE  \E j \in DOMAIN s : s[j].id = i /\ s[j] = log[i]
<1>1. PICK j \in DOMAIN s : s[j].n = log[i].n
  BY DEF Names
<1>2. s[j].id \in DOMAIN log /\ s[j] = log[s[j].id]
  BY DEF Logged
<1>3. s[j].id = i
  BY <1>1, <1>2, HeldTypes DEF Held, IInv, LogIsOfEvents
<1>. QED
  BY <1>2, <1>3

LEMMA MissingLessens ==
    ASSUME NEW c, log' = log, \A x \in Names(heard[c]) \union excused[c] : x \in Names(heard'[c]) \union excused'[c]
    PROVE  Missing(c)' \subseteq Missing(c)
BY DEF Missing, Names, Matches

\* A client whose stream does not move has what it had.
LEMMA OthersSafe ==
    ASSUME NEW c, NEW i, Safe(c, i), at'[c] = at[c], lastID'[c] = lastID[c],
           at[c] # 0 => /\ UNCHANGED <<wire[at[c]], replay[at[c]], replayed[at[c]], chan[at[c]],
                                       phase[at[c]], since[at[c]]>>
                        /\ at[c] \in subs' => at[c] \in subs,
           i \notin IDs(sending') => i \notin IDs(sending)
    PROVE  Safe(c, i)'
<1>1. CASE at[c] = 0
  BY <1>1 DEF Safe
<1>2. CASE at[c] # 0
  <2> DEFINE k == at[c]
  <2>1. Way(i, wire[k], replay[k], replayed[k], chan[k], Live(k), Due(k, i))
    BY <1>2 DEF Safe
  <2>2. Live(k)' => Live(k)
    BY <1>2 DEF Live
  <2>3. Due(k, i)' => Due(k, i)
    BY <1>2, <2>2 DEF Due, IDs
  <2>4. Way(i, wire[k], replay[k], replayed[k], chan[k], Live(k)', Due(k, i)')
    BY <2>1, <2>2, <2>3, WayOther
  <2>5. Way(i, wire'[k], replay'[k], replayed'[k], chan'[k], Live(k)', Due(k, i)')
    BY <1>2, <2>4
  <2>. QED
    BY <2>5 DEF Safe
<1>. QED
  BY <1>1, <1>2

\* A step of one stream's: it is its own client that has to be looked at.
LEMMA StreamSafe ==
    ASSUME Held, MissInv, NEW k \in Streams,
           log' = log, sending' = sending, at' = at, lastID' = lastID, heard' = heard,
           \A c \in Clients : excused[c] \subseteq excused'[c],
           \A q \in Streams : q # k =>
               /\ UNCHANGED <<wire[q], replay[q], replayed[q], chan[q], phase[q], since[q]>>
               /\ q \in subs' => q \in subs,
           \A c \in Clients : at[c] = k => \A i \in Missing(c)' :
               Way(i, wire'[k], replay'[k], replayed'[k], chan'[k], Live(k)', Due(k, i)')
    PROVE  MissInv'
<1>. SUFFICES ASSUME NEW c \in Clients, NEW i \in Missing(c)' PROVE Safe(c, i)'
  BY DEF MissInv
<1>1. i \in Missing(c)
  BY MissingLessens
<1>2. Safe(c, i)
  BY <1>1 DEF MissInv
<1>3. CASE at[c] = k
  <2>1. lastID'[c] < i /\ at'[c] = k
    BY <1>2, <1>3 DEF Safe
  <2>. QED
    BY <1>3, <2>1 DEF Safe
<1>4. CASE at[c] # k
  <2>1. at[c] # 0 => at[c] \in Streams
    BY HeldTypes
  <2>2. at[c] # 0 => /\ UNCHANGED <<wire[at[c]], replay[at[c]], replayed[at[c]], chan[at[c]],
                                    phase[at[c]], since[at[c]]>>
                     /\ at[c] \in subs' => at[c] \in subs
    BY <1>4, <2>1
  <2>3. at'[c] = at[c] /\ lastID'[c] = lastID[c] /\ (i \notin IDs(sending') => i \notin IDs(sending))
    OBVIOUS
  <2>. QED
    BY ONLY <1>2, <2>2, <2>3, OthersSafe
<1>. QED
  BY <1>3, <1>4

\* What every step of a handler keeps, when it moves logged events about.
LEMMA StreamHeld ==
    ASSUME Held, IInv', NEW k \in Streams,
           UNCHANGED <<seq, ring, sending, log, at, lastID, heard, owner, since>>,
           phase' = [phase EXCEPT ![k] = phase'[k]],
           replayed' = [q \in Streams |-> replayed'[q]], written' = [q \in Streams |-> written'[q]],
           excused' = [c \in Clients |-> excused'[c]],
           \A q \in Streams : q # k =>
               /\ UNCHANGED <<wire[q], replay[q], replayed[q], chan[q]>>
               /\ q \in subs' => q \in subs,
           Logged(wire'[k], log), Logged(replay'[k], log), Logged(chan'[k], log), replayed'[k] \subseteq DOMAIN log,
           phase'[k] \in {"added", "live", "returned"},
           phase'[k] = "added" => wire'[k] = <<>> /\ replay'[k] = <<>> /\ replayed'[k] = {} /\ phase[k] = "requested"
    PROVE  Held'
<1>1. /\ phase' = [q \in Streams |-> phase'[q]]
      /\ \A q \in Streams : q # k => phase'[q] = phase[q]
  BY DEF Held, Shaped
<1>2. Shaped'
  BY <1>1 DEF Held, Shaped
<1>3. LogInv'
  <2>1. \A q \in Streams : /\ Logged(wire'[q], log) /\ Logged(replay'[q], log) /\ Logged(chan'[q], log)
                           /\ replayed'[q] \subseteq DOMAIN log
    BY DEF Held, LogInv
  <2>. QED
    BY <2>1 DEF Held, LogInv, Logged, Ascending
<1>4. StreamInv'
  <2>1. \A c \in Clients : at'[c] # 0 => owner'[at'[c]] = c /\ phase'[at'[c]] # "none"
    BY <1>1, HeldTypes DEF Held, StreamInv
  <2>2. ASSUME NEW q \in Streams
        PROVE  /\ phase'[q] \in {"none", "requested"} => chan'[q] = <<>> /\ q \notin subs'
               /\ phase'[q] \in {"none", "requested", "added"} =>
                      wire'[q] = <<>> /\ replay'[q] = <<>> /\ replayed'[q] = {}
    BY <1>1 DEF Held, StreamInv
  <2>3. ASSUME NEW c \in Clients, at'[c] # 0, phase'[at'[c]] \in {"requested", "added"}
        PROVE  since'[at'[c]] = lastID'[c]
    <3>1. at[c] # 0 /\ at[c] \in Streams
      BY <2>3, HeldTypes
    <3>2. phase[at[c]] \in {"requested", "added"}
      BY <1>1, <2>3, <3>1
    <3>. QED
      BY <3>1, <3>2 DEF Held, StreamInv
  <2>. QED
    BY <2>1, <2>2, <2>3 DEF StreamInv
<1>. QED
  BY <1>2, <1>3, <1>4 DEF Held

LEMMA AddSubSafe ==
    ASSUME Held, MissInv, NEW k \in Streams, AddSub(k)
    PROVE  Held' /\ MissInv'
<1>0. IInv'
  BY HandlerIInv DEF Handler, Held
<1>1. /\ UNCHANGED <<seq, ring, sending, log, at, lastID, heard, owner, since, replay, replayed, chan, wire, written>>
      /\ phase' = [phase EXCEPT ![k] = "added"] /\ phase[k] = "requested"
      /\ subs' \subseteq subs \union {k}
  BY DEF AddSub, bridges
<1>2. wire[k] = <<>> /\ replay[k] = <<>> /\ replayed[k] = {} /\ chan[k] = <<>>
  BY <1>1 DEF Held, StreamInv
<1>3. excused' = [c \in Clients |-> excused'[c]] /\ \A c \in Clients : excused[c] \subseteq excused'[c]
  BY DEF AddSub, Held, Shaped
<1>4. phase'[k] = "added" /\ phase' = [phase EXCEPT ![k] = phase'[k]]
      /\ \A q \in Streams : q # k => phase'[q] = phase[q]
  BY <1>1 DEF Held, Shaped
<1>5. Held'
  <2>1. /\ replayed' = [q \in Streams |-> replayed'[q]] /\ written' = [q \in Streams |-> written'[q]]
    BY <1>1 DEF Held, Shaped
  <2>2. \A q \in Streams : q # k => /\ UNCHANGED <<wire[q], replay[q], replayed[q], chan[q]>>
                                    /\ q \in subs' => q \in subs
    BY <1>1
  <2>3. Logged(wire'[k], log) /\ Logged(replay'[k], log) /\ Logged(chan'[k], log) /\ replayed'[k] \subseteq DOMAIN log
    BY <1>1, <1>2, LoggedEmpty
  <2>4. phase'[k] \in {"added", "live", "returned"}
    BY <1>4
  <2>5. wire'[k] = <<>> /\ replay'[k] = <<>> /\ replayed'[k] = {}
    BY <1>1, <1>2
  <2>. QED
    BY <1>0, <1>1, <1>3, <1>4, <2>1, <2>2, <2>3, <2>4, <2>5, StreamHeld
<1>6. ASSUME NEW c \in Clients, at[c] = k, NEW i \in Missing(c)'
      PROVE  Way(i, wire'[k], replay'[k], replayed'[k], chan'[k], Live(k)', Due(k, i)')
  <2>1. i \in Missing(c) /\ i \in DOMAIN log
    BY <1>1, <1>3, MissingLessens DEF Missing
  <2>2. owner[k] = c
    <3>1. k # 0
      BY HubAssumption DEF Streams
    <3>. QED
      BY <1>6, <3>1 DEF Held, StreamInv
  <2>3. ~Due(k, i)'
    <3>1. SUFFICES ASSUME since[k] = 0, i \notin IDs(sending) PROVE FALSE
      BY <1>1, <1>4 DEF Due, Live, IDs
    <3>2. excused'[c] = excused[c] \union (Names(log) \ Names(sending))
      BY <2>2, <3>1 DEF AddSub, Held, Shaped
    <3>3. log[i].n \in Names(log) /\ log[i].n \notin excused'[c]
      BY <1>1, <2>1, <1>6 DEF Missing, Names
    <3>4. log[i].n \in Names(sending)
      BY <3>2, <3>3
    <3>5. \E j \in DOMAIN sending : sending[j].id = i /\ sending[j] = log[i]
      BY <2>1, <3>4, NamesAreUnique DEF Held, LogInv
    <3>. QED
      BY <3>1, <3>5 DEF IDs
  <2>5. Way(i, <<>>, <<>>, {}, <<>>, Live(k)', Due(k, i)')
    BY ONLY <2>3, BehindEmpty DEF Way
  <2>6. wire'[k] = <<>> /\ replay'[k] = <<>> /\ replayed'[k] = {} /\ chan'[k] = <<>>
    BY <1>1, <1>2
  <2>. QED
    BY ONLY <2>5, <2>6
<1>7. MissInv'
  <2>1. \A q \in Streams : q # k =>
               /\ UNCHANGED <<wire[q], replay[q], replayed[q], chan[q], phase[q], since[q]>>
               /\ q \in subs' => q \in subs
    BY <1>1, <1>4
  <2>. QED
    BY <1>1, <1>3, <1>6, <2>1, StreamSafe
<1>. QED
  BY <1>5, <1>7

\* The snapshot has what the client has not seen, or it is given up.
LEMMA SnapshotSafe ==
    ASSUME Held, MissInv, NEW k \in Streams, Snapshot(k)
    PROVE  Held' /\ MissInv'
<1>0. IInv'
  BY HandlerIInv DEF Handler, Held
<1>1. /\ UNCHANGED <<seq, ring, sending, subs, log, at, lastID, heard, owner, since, chan, wire, written>>
      /\ phase' = [phase EXCEPT ![k] = "live"] /\ phase[k] = "added"
  BY DEF Snapshot, bridges, hub
<1>2. wire[k] = <<>> /\ replay[k] = <<>> /\ replayed[k] = {}
  BY <1>1 DEF Held, StreamInv
<1>3. phase'[k] = "live" /\ phase' = [phase EXCEPT ![k] = phase'[k]]
      /\ \A q \in Streams : q # k => phase'[q] = phase[q]
  BY <1>1 DEF Held, Shaped
<1>4. CASE since[k] = 0
  <2>1. UNCHANGED <<replay, replayed, excused>>
    BY <1>4 DEF Snapshot
  <2>2. Held'
    <3>1. /\ replayed' = [q \in Streams |-> replayed'[q]] /\ written' = [q \in Streams |-> written'[q]]
          /\ excused' = [c \in Clients |-> excused'[c]]
      BY <1>1, <2>1 DEF Held, Shaped
    <3>2. \A q \in Streams : q # k => /\ UNCHANGED <<wire[q], replay[q], replayed[q], chan[q]>>
                                      /\ q \in subs' => q \in subs
      BY <1>1, <2>1
    <3>3. Logged(wire'[k], log) /\ Logged(replay'[k], log) /\ Logged(chan'[k], log) /\ replayed'[k] \subseteq DOMAIN log
      BY <1>1, <2>1 DEF Held, LogInv
    <3>4. phase'[k] \in {"added", "live", "returned"} /\ phase'[k] # "added"
      BY <1>3
    <3>. QED
      BY <1>0, <1>1, <1>3, <3>1, <3>2, <3>3, <3>4, StreamHeld
  <2>3. ASSUME NEW c \in Clients, at[c] = k, NEW i \in Missing(c)'
        PROVE  Way(i, wire'[k], replay'[k], replayed'[k], chan'[k], Live(k)', Due(k, i)')
    <3>1. i \in Missing(c)
      BY <1>1, <2>1, MissingLessens
    <3>2. k # 0
      BY HubAssumption DEF Streams
    <3>3. Way(i, wire[k], replay[k], replayed[k], chan[k], Live(k), Due(k, i))
      BY <2>3, <3>1, <3>2 DEF MissInv, Safe
    <3>4. (Live(k)' => Live(k)) /\ (Due(k, i)' => Due(k, i))
      BY <1>1, <1>4 DEF Live, Due, IDs
    <3>5. Way(i, wire[k], replay[k], replayed[k], chan[k], Live(k)', Due(k, i)')
      BY <3>3, <3>4, WayOther
    <3>. QED
      BY <1>1, <2>1, <3>5
  <2>4. MissInv'
    <3>1. \A q \in Streams : q # k =>
               /\ UNCHANGED <<wire[q], replay[q], replayed[q], chan[q], phase[q], since[q]>>
               /\ q \in subs' => q \in subs
      BY <1>1, <1>3, <2>1
    <3>2. \A c \in Clients : excused[c] \subseteq excused'[c]
      BY <2>1
    <3>. QED
      BY <1>1, <2>3, <3>1, <3>2, StreamSafe
  <2>. QED
    BY <2>2, <2>4
<1>5. CASE since[k] > 0
  <2>1. PICK first \in 1 .. Len(ring) + 1 :
            /\ Younger(first, since[k])
            /\ replay' = [replay EXCEPT ![k] = SubSeq(ring, first, Len(ring))]
            /\ replayed' = [replayed EXCEPT ![k] = IDs(SubSeq(ring, first, Len(ring)))]
            /\ excused' = [excused EXCEPT ![owner[k]] = @ \union
                   ({log[i].n : i \in {j \in DOMAIN log : log[j].id > since[k]}} \ Names(ring))]
    BY <1>5 DEF Snapshot
  <2> DEFINE r == SubSeq(ring, first, Len(ring))
  <2>2. /\ ring \in Seq(Posted) /\ r \in Seq(Posted) /\ DOMAIN r \subseteq Nat /\ DOMAIN ring \subseteq Nat
        /\ first \in Nat
        /\ \A j \in DOMAIN r : first + j - 1 \in DOMAIN ring /\ r[j] = ring[first + j - 1]
        /\ \A j \in DOMAIN ring : j >= first => j - first + 1 \in DOMAIN r /\ r[j - first + 1] = ring[j]
        /\ Logged(r, log) /\ Ascending(r)
    <3>1. ring \in Seq(Posted) /\ Logged(ring, log) /\ Ascending(ring)
      BY HeldTypes DEF Held, LogInv
    <3>2. Logged(r, log) /\ Ascending(r)
      BY <3>1, LoggedEnd
    <3>3. DOMAIN ring \subseteq Nat
      BY <3>1, LenProperties
    <3>. QED
      BY <3>1, <3>2, <3>3, EndOf
  <2>3. replay'[k] = r /\ replayed'[k] = IDs(r) /\ \A q \in Streams : q # k => replay'[q] = replay[q] /\ replayed'[q] = replayed[q]
    BY <2>1, HeldTypes DEF Held, Shaped
  <2>. HIDE DEF r
  <2>4. /\ replayed' = [q \in Streams |-> replayed'[q]] /\ written' = [q \in Streams |-> written'[q]]
        /\ excused' = [c \in Clients |-> excused'[c]]
        /\ \A c \in Clients : excused[c] \subseteq excused'[c]
    BY <1>1, <2>1 DEF Held, Shaped
  <2>5. Held'
    <3>1. \A q \in Streams : q # k => /\ UNCHANGED <<wire[q], replay[q], replayed[q], chan[q]>>
                                      /\ q \in subs' => q \in subs
      BY <1>1, <2>3
    <3>2. Logged(wire'[k], log) /\ Logged(replay'[k], log) /\ Logged(chan'[k], log) /\ replayed'[k] \subseteq DOMAIN log
      BY <1>1, <2>2, <2>3 DEF Held, LogInv, Logged, IDs
    <3>3. phase'[k] \in {"added", "live", "returned"} /\ phase'[k] # "added"
      BY <1>3
    <3>. QED
      BY <1>0, <1>1, <1>3, <2>4, <3>1, <3>2, <3>3, StreamHeld
  <2>6. ASSUME NEW c \in Clients, at[c] = k, NEW i \in Missing(c)'
        PROVE  Way(i, wire'[k], replay'[k], replayed'[k], chan'[k], Live(k)', Due(k, i)')
    <3>1. i \in Missing(c) /\ i \in DOMAIN log /\ i \in Nat /\ log[i].id = i
      BY <1>1, <2>4, MissingLessens, HeldTypes DEF Missing, Held, LogInv
    <3>2. k # 0
      BY HubAssumption DEF Streams
    <3>3. owner[k] = c /\ since[k] = lastID[c] /\ since[k] \in Nat
      BY <1>1, <2>6, <3>2 DEF Held, StreamInv, Shaped
    <3>4. since[k] < i
      BY <3>1, <3>3 DEF MissInv, Safe
    <3>5. log[i].n \in Names(ring)
      <4>1. log[i].n \in {log[j].n : j \in {m \in DOMAIN log : log[m].id > since[k]}}
        BY <3>1, <3>3, <3>4
      <4>2. log[i].n \notin excused'[c]
        BY <1>1, <2>6 DEF Missing
      <4>3. {log[j].n : j \in {m \in DOMAIN log : log[m].id > since[k]}} \ Names(ring) \subseteq excused'[c]
        BY <2>1, <3>3 DEF Held, Shaped
      <4>. QED
        BY <4>1, <4>2, <4>3
    <3>6. PICK a \in DOMAIN ring : ring[a].id = i
      BY <3>1, <3>5, NamesAreUnique DEF Held, LogInv
    <3>7. a >= first
      BY <2>1, <3>1, <3>3, <3>4, <3>6 DEF Younger
    <3>8. PICK b \in DOMAIN r : r[b].id = i
      BY <2>2, <3>6, <3>7
    <3>9. i \in IDs(r)
      BY <3>8 DEF IDs
    <3>10. Behind(i, IDs(<<>>), r)
      <4>. SUFFICES ASSUME NEW j \in DOMAIN r, r[j].id > i PROVE b < j
        BY <3>8 DEF Behind
      <4>1. j \in Nat /\ b \in Nat /\ r[j].id \in Nat
        BY <2>2, IDsAreNat
      <4>2. j # b
        BY <3>1, <3>8, <4>1
      <4>3. ~(j < b)
        <5>1. j < b => r[j].id < r[b].id
          BY <2>2 DEF Ascending
        <5>. QED
          BY <3>1, <3>8, <4>1, <5>1
      <4>. QED
        BY <4>1, <4>2, <4>3
    <3>11. Way(i, <<>>, r, IDs(r), chan[k], Live(k)', Due(k, i)')
      BY <3>9, <3>10, BehindEmpty DEF Way, Behind
    <3>. QED
      BY <1>1, <1>2, <2>3, <3>11
  <2>7. MissInv'
    <3>1. \A q \in Streams : q # k =>
               /\ UNCHANGED <<wire[q], replay[q], replayed[q], chan[q], phase[q], since[q]>>
               /\ q \in subs' => q \in subs
      BY <1>1, <1>3, <2>3
    <3>. QED
      BY <1>1, <2>4, <2>6, <3>1, StreamSafe
  <2>. QED
    BY <2>5, <2>7
<1>. QED
  <2>1. since[k] \in Nat
    BY DEF Held, Shaped
  <2>. QED
    BY <1>4, <1>5, <2>1

\* The head of the replay is written, or is of a topic that is not wanted.
LEMMA ReplaySafe ==
    ASSUME Held, MissInv, NEW k \in Streams, Replay(k)
    PROVE  Held' /\ MissInv'
<1>0. IInv'
  BY HandlerIInv DEF Handler, Held
<1> DEFINE ev == Head(replay[k])
<1>1. /\ UNCHANGED <<seq, ring, sending, subs, log, at, lastID, heard, owner, since, chan, replayed, phase, excused>>
      /\ phase[k] = "live" /\ replay[k] # <<>> /\ replay' = [replay EXCEPT ![k] = Tail(@)]
  BY DEF Replay, bridges, hub, history
<1>2. /\ replay[k] \in Seq(Posted) /\ wire[k] \in Seq(Posted) /\ replay'[k] = Tail(replay[k])
      /\ \A q \in Streams : q # k => replay'[q] = replay[q]
  BY <1>1, HeldTypes
<1>3. /\ ev \in Posted /\ Logged(Tail(replay[k]), log) /\ ev.id \in DOMAIN log /\ ev = log[ev.id]
      /\ Logged(wire[k], log)
  <2>1. Logged(replay[k], log) /\ Logged(wire[k], log)
    BY DEF Held, LogInv
  <2>. QED
    BY <1>1, <1>2, <2>1, LoggedTail, IDsOfTail
<1>4. /\ \/ wire'[k] = Append(wire[k], ev)
         \/ wire'[k] = wire[k] /\ ~Matches(ev)
      /\ \A q \in Streams : q # k => wire'[q] = wire[q]
      /\ written' = [q \in Streams |-> written'[q]]
  <2>. wire \in [Streams -> Seq(Posted)]
    BY HeldTypes
  <2>1. CASE Matches(ev)
    BY <2>1 DEF Replay, Write, Held, Shaped
  <2>2. CASE ~Matches(ev)
    BY <2>2 DEF Replay, Held, Shaped
  <2>. QED
    BY <2>1, <2>2
<1>. HIDE DEF ev
<1>5. Logged(wire'[k], log)
  BY <1>2, <1>3, <1>4, LoggedAppend
<1>6. Held'
  <2>1. /\ replayed' = [q \in Streams |-> replayed'[q]] /\ excused' = [c \in Clients |-> excused'[c]]
        /\ phase' = [phase EXCEPT ![k] = phase'[k]]
    BY <1>1 DEF Held, Shaped
  <2>2. \A q \in Streams : q # k => /\ UNCHANGED <<wire[q], replay[q], replayed[q], chan[q]>>
                                    /\ q \in subs' => q \in subs
    BY <1>1, <1>2, <1>4
  <2>3. Logged(replay'[k], log) /\ Logged(chan'[k], log) /\ replayed'[k] \subseteq DOMAIN log
    BY <1>1, <1>2, <1>3 DEF Held, LogInv
  <2>4. phase'[k] \in {"added", "live", "returned"} /\ phase'[k] # "added"
    BY <1>1
  <2>. QED
    BY <1>0, <1>1, <1>4, <1>5, <2>1, <2>2, <2>3, <2>4, StreamHeld
<1>7. ASSUME NEW c \in Clients, at[c] = k, NEW i \in Missing(c)'
      PROVE  Way(i, wire'[k], replay'[k], replayed'[k], chan'[k], Live(k)', Due(k, i)')
  <2>1. i \in Missing(c) /\ i \in DOMAIN log /\ i \in Nat /\ Matches(log[i])
    BY <1>1, MissingLessens, HeldTypes DEF Missing
  <2>2. k # 0
    BY HubAssumption DEF Streams
  <2>3. Way(i, wire[k], replay[k], replayed[k], chan[k], Live(k), Due(k, i))
    BY <1>7, <2>1, <2>2 DEF MissInv, Safe
  <2>4. wire'[k] = Append(wire[k], ev) \/ (wire'[k] = wire[k] /\ ev.id # i)
    BY <1>3, <1>4, <2>1
  <2>5. Way(i, wire'[k], Tail(replay[k]), replayed[k], chan[k], Live(k), Due(k, i))
    BY <1>1, <1>2, <2>1, <2>3, <2>4, WayReplay DEF ev
  <2>6. (Live(k)' => Live(k)) /\ (Due(k, i)' => Due(k, i))
    BY <1>1 DEF Live, Due, IDs
  <2>7. Way(i, wire'[k], Tail(replay[k]), replayed[k], chan[k], Live(k)', Due(k, i)')
    BY <2>5, <2>6, WayOther
  <2>. QED
    BY <1>1, <1>2, <2>7
<1>8. MissInv'
  <2>1. \A q \in Streams : q # k =>
               /\ UNCHANGED <<wire[q], replay[q], replayed[q], chan[q], phase[q], since[q]>>
               /\ q \in subs' => q \in subs
    BY <1>1, <1>2, <1>4
  <2>2. \A c \in Clients : excused[c] \subseteq excused'[c]
    BY <1>1
  <2>. QED
    BY <1>1, <1>7, <2>1, <2>2, StreamSafe
<1>. QED
  BY <1>6, <1>8

\* The head of the channel is written, unless the replay has brought it.
LEMMA DeliverSafe ==
    ASSUME Held, MissInv, NEW k \in Streams, Deliver(k)
    PROVE  Held' /\ MissInv'
<1>0. IInv'
  BY HandlerIInv DEF Handler, Held
<1> DEFINE ev == Head(chan[k])
<1>1. /\ UNCHANGED <<seq, ring, sending, subs, log, at, lastID, heard, owner, since, replay, phase, excused>>
      /\ phase[k] = "live" /\ chan[k] # <<>> /\ replay[k] = <<>> /\ chan' = [chan EXCEPT ![k] = Tail(@)]
  BY DEF Deliver, bridges, hub, history
<1>2. /\ chan[k] \in Seq(Posted) /\ wire[k] \in Seq(Posted) /\ chan'[k] = Tail(chan[k])
      /\ \A q \in Streams : q # k => chan'[q] = chan[q]
  BY <1>1, HeldTypes
<1>3. /\ ev \in Posted /\ Logged(Tail(chan[k]), log) /\ ev.id \in DOMAIN log /\ ev = log[ev.id]
      /\ Logged(wire[k], log) /\ Logged(replay[k], log) /\ replayed[k] \subseteq DOMAIN log
  <2>1. Logged(chan[k], log) /\ Logged(wire[k], log) /\ Logged(replay[k], log) /\ replayed[k] \subseteq DOMAIN log
    BY DEF Held, LogInv
  <2>2. Head(chan[k]) \in Posted
    BY <1>1, <1>2, IDsOfTail
  <2>3. Logged(Tail(chan[k]), log) /\ ev.id \in DOMAIN log /\ ev = log[ev.id]
    BY ONLY <1>1, <1>2, <2>1, LoggedTail
  <2>. QED
    BY <2>1, <2>2, <2>3
<1>4. /\ \/ ev.id \in replayed[k] /\ wire'[k] = wire[k] /\ replayed'[k] = replayed[k] \ {ev.id}
         \/ ev.id \notin replayed[k] /\ wire'[k] = Append(wire[k], ev) /\ replayed'[k] = replayed[k]
      /\ \A q \in Streams : q # k => wire'[q] = wire[q] /\ replayed'[q] = replayed[q]
      /\ written' = [q \in Streams |-> written'[q]] /\ replayed' = [q \in Streams |-> replayed'[q]]
  <2>. wire \in [Streams -> Seq(Posted)]
    BY HeldTypes
  <2>1. CASE ev.id \in replayed[k]
    BY <2>1 DEF Deliver, Held, Shaped
  <2>2. CASE ev.id \notin replayed[k]
    BY <2>2 DEF Deliver, Write, Held, Shaped
  <2>. QED
    BY <2>1, <2>2
<1>. HIDE DEF ev
<1>5. Logged(wire'[k], log)
  BY <1>2, <1>3, <1>4, LoggedAppend
<1>6. Held'
  <2>1. excused' = [c \in Clients |-> excused'[c]] /\ phase' = [phase EXCEPT ![k] = phase'[k]]
    BY <1>1 DEF Held, Shaped
  <2>2. \A q \in Streams : q # k => /\ UNCHANGED <<wire[q], replay[q], replayed[q], chan[q]>>
                                    /\ q \in subs' => q \in subs
    BY <1>1, <1>2, <1>4
  <2>3. Logged(replay'[k], log) /\ Logged(chan'[k], log) /\ replayed'[k] \subseteq DOMAIN log
    BY <1>1, <1>2, <1>3, <1>4
  <2>4. phase'[k] \in {"added", "live", "returned"} /\ phase'[k] # "added"
    BY <1>1
  <2>. QED
    BY <1>0, <1>1, <1>4, <1>5, <2>1, <2>2, <2>3, <2>4, StreamHeld
<1>7. ASSUME NEW c \in Clients, at[c] = k, NEW i \in Missing(c)'
      PROVE  Way(i, wire'[k], replay'[k], replayed'[k], chan'[k], Live(k)', Due(k, i)')
  <2>1. i \in Missing(c) /\ i \in Nat
    BY <1>1, MissingLessens, HeldTypes DEF Missing
  <2>2. k # 0
    BY HubAssumption DEF Streams
  <2>3. Way(i, wire[k], <<>>, replayed[k], chan[k], Live(k), Due(k, i))
    BY <1>1, <1>7, <2>1, <2>2 DEF MissInv, Safe
  <2>4. Way(i, wire[k], <<>>, replayed[k], chan[k], TRUE, Due(k, i))
    BY <1>1, <2>3 DEF Live, Way
  <2>5. Way(i, wire'[k], <<>>, replayed'[k], Tail(chan[k]), TRUE, Due(k, i))
    BY <1>1, <1>2, <1>4, <2>1, <2>4, WayDeliver DEF ev
  <2>6. Due(k, i)' => Due(k, i)
    BY <1>1 DEF Live, Due, IDs
  <2>7. Way(i, wire'[k], <<>>, replayed'[k], Tail(chan[k]), Live(k)', Due(k, i)')
    BY ONLY <2>5, <2>6 DEF Way
  <2>. QED
    BY <1>1, <1>2, <2>7
<1>8. MissInv'
  <2>1. \A q \in Streams : q # k =>
               /\ UNCHANGED <<wire[q], replay[q], replayed[q], chan[q], phase[q], since[q]>>
               /\ q \in subs' => q \in subs
    BY <1>1, <1>2, <1>4
  <2>2. \A c \in Clients : excused[c] \subseteq excused'[c]
    BY <1>1
  <2>. QED
    BY <1>1, <1>7, <2>1, <2>2, StreamSafe
<1>. QED
  BY <1>6, <1>8

LEMMA LeaveSafe ==
    ASSUME Held, MissInv, NEW k \in Streams, Leave(k)
    PROVE  Held' /\ MissInv'
<1>0. IInv'
  BY HandlerIInv DEF Handler, Held
<1>1. /\ UNCHANGED <<seq, ring, sending, log, at, lastID, heard, owner, since, wire, written, excused>>
      /\ subs' = subs \ {k} /\ phase' = [phase EXCEPT ![k] = "returned"]
      /\ replay' = [replay EXCEPT ![k] = <<>>] /\ replayed' = [replayed EXCEPT ![k] = {}]
      /\ chan' = [chan EXCEPT ![k] = <<>>]
  BY DEF Leave, bridges, history
<1>2. /\ phase'[k] = "returned" /\ phase' = [phase EXCEPT ![k] = phase'[k]]
      /\ replay'[k] = <<>> /\ replayed'[k] = {} /\ chan'[k] = <<>> /\ wire'[k] = wire[k]
      /\ \A q \in Streams : q # k =>
             UNCHANGED <<wire[q], replay[q], replayed[q], chan[q], phase[q], since[q]>>
      /\ \A q \in subs' : q \in subs /\ q # k
      /\ replayed' = [q \in Streams |-> replayed'[q]]
  BY <1>1, HeldTypes DEF Held, Shaped
<1>3. Held'
  <2>1. /\ excused' = [c \in Clients |-> excused'[c]] /\ written' = [q \in Streams |-> written'[q]]
    BY <1>1 DEF Held, Shaped
  <2>2. \A q \in Streams : q # k => /\ UNCHANGED <<wire[q], replay[q], replayed[q], chan[q]>>
                                    /\ q \in subs' => q \in subs
    BY <1>2
  <2>3. Logged(wire'[k], log) /\ Logged(replay'[k], log) /\ Logged(chan'[k], log) /\ replayed'[k] \subseteq DOMAIN log
    BY <1>2, LoggedEmpty DEF Held, LogInv
  <2>4. phase'[k] \in {"added", "live", "returned"} /\ phase'[k] # "added"
    BY <1>2
  <2>. QED
    BY <1>0, <1>1, <1>2, <2>1, <2>2, <2>3, <2>4, StreamHeld
<1>4. ASSUME NEW c \in Clients, at[c] = k, NEW i \in Missing(c)'
      PROVE  Way(i, wire'[k], replay'[k], replayed'[k], chan'[k], Live(k)', Due(k, i)')
  <2>1. i \in Missing(c)
    BY <1>1, MissingLessens
  <2>2. k # 0
    BY HubAssumption DEF Streams
  <2>3. Way(i, wire[k], replay[k], replayed[k], chan[k], Live(k), Due(k, i))
    BY <1>4, <2>1, <2>2 DEF MissInv, Safe
  <2>4. Way(i, wire[k], <<>>, {}, <<>>, FALSE, FALSE)
    BY <2>3, WayLeave
  <2>5. ~Live(k)' /\ ~Due(k, i)'
    BY <1>2 DEF Live, Due
  <2>6. Way(i, wire[k], <<>>, {}, <<>>, Live(k)', Due(k, i)')
    BY ONLY <2>4, <2>5 DEF Way
  <2>. QED
    BY ONLY <1>2, <2>6
<1>5. MissInv'
  <2>1. \A q \in Streams : q # k =>
               /\ UNCHANGED <<wire[q], replay[q], replayed[q], chan[q], phase[q], since[q]>>
               /\ q \in subs' => q \in subs
    BY <1>2
  <2>2. \A c \in Clients : excused[c] \subseteq excused'[c]
    BY <1>1
  <2>. QED
    BY <1>1, <1>4, <2>1, <2>2, StreamSafe
<1>. QED
  BY <1>3, <1>5

LEMMA NamesOfAppend ==
    ASSUME NEW s \in Seq(Posted), NEW ev \in Posted
    PROVE  ev.n \in Names(Append(s, ev)) /\ Names(s) \subseteq Names(Append(s, ev))
<1>1. /\ DOMAIN s = 1 .. Len(s) /\ Len(s) \in Nat
      /\ DOMAIN Append(s, ev) = 1 .. Len(s) + 1
      /\ \A j \in 1 .. Len(s) : Append(s, ev)[j] = s[j]
      /\ Append(s, ev)[Len(s) + 1] = ev
  BY AppendProperties, LenProperties
<1>2. Len(s) + 1 \in 1 .. Len(s) + 1 /\ \A j \in 1 .. Len(s) : j \in 1 .. Len(s) + 1
  BY <1>1
<1>. QED
  BY <1>1, <1>2 DEF Names

\* A step that moves no event and opens no stream.
LEMMA QuietSafe ==
    ASSUME Held, MissInv, IInv',
           UNCHANGED <<seq, ring, sending, log, at, lastID, heard, excused, phase, owner, since,
                       replay, replayed, chan, wire, written>>,
           subs' \subseteq subs
    PROVE  Held' /\ MissInv'
<1>1. Held'
  <2>1. Shaped'
    BY DEF Held, Shaped
  <2>2. LogInv'
    BY DEF Held, LogInv, Logged, Ascending
  <2>3. StreamInv'
    BY DEF Held, StreamInv
  <2>. QED
    BY <2>1, <2>2, <2>3 DEF Held
<1>2. ASSUME NEW c \in Clients, NEW i \in Missing(c)' PROVE Safe(c, i)'
  <2>1. Safe(c, i)
    BY <1>2, MissingLessens DEF MissInv
  <2>. QED
    BY <2>1, OthersSafe
<1>. QED
  BY <1>1, <1>2 DEF MissInv

\* The youngest of the ring and of an event above them all.
LEMMA RingHeld ==
    ASSUME NEW l, NEW r \in Seq(Posted), NEW ev \in Posted, Logged(r, l), Ascending(r),
           ev.id \in DOMAIN l, ev = l[ev.id], \A j \in DOMAIN r : r[j].id < ev.id
    PROVE  Logged(Youngest(Append(r, ev)), l) /\ Ascending(Youngest(Append(r, ev)))
<1> DEFINE s == Append(r, ev)
<1>1. /\ DOMAIN r = 1 .. Len(r) /\ Len(r) \in Nat
      /\ DOMAIN s = 1 .. Len(r) + 1 /\ Len(s) = Len(r) + 1 /\ s \in Seq(Posted)
      /\ \A j \in 1 .. Len(r) : s[j] = r[j]
      /\ s[Len(r) + 1] = ev
  BY AppendProperties, LenProperties
<1>2. Logged(s, l)
  BY LoggedAppend
<1>. HIDE DEF s
<1>3. Ascending(s)
  <2>. SUFFICES ASSUME NEW i \in 1 .. Len(r) + 1, NEW j \in 1 .. Len(r) + 1, i < j PROVE s[i].id < s[j].id
    BY <1>1 DEF Ascending
  <2>1. i \in 1 .. Len(r)
    BY <1>1
  <2>2. CASE j \in 1 .. Len(r)
    BY <1>1, <2>1, <2>2 DEF Ascending
  <2>3. CASE j = Len(r) + 1
    BY <1>1, <2>1, <2>3
  <2>. QED
    BY <1>1, <2>2, <2>3
<1>4. RingSize \in Nat \ {0}
  BY HubAssumption
<1>5. CASE Len(s) > RingSize
  <2>1. Len(s) - RingSize + 1 \in 1 .. Len(s) + 1
    BY <1>1, <1>4, <1>5
  <2>2. Logged(SubSeq(s, Len(s) - RingSize + 1, Len(s)), l) /\ Ascending(SubSeq(s, Len(s) - RingSize + 1, Len(s)))
    BY <1>1, <1>2, <1>3, <2>1, LoggedEnd
  <2>. QED
    BY <1>5, <2>2 DEF Youngest, s
<1>6. CASE ~(Len(s) > RingSize)
  BY <1>2, <1>3, <1>6 DEF Youngest, s
<1>. QED
  BY <1>5, <1>6

\* An event that is accepted is above every number a client has seen, and is
\* being sent.
LEMMA AcceptSafe ==
    ASSUME Held, MissInv, IInv', NEW n \in Nat, NEW topic \in Topics, NEW origin \in Clients \union {"none"},
           Accept(n, topic, origin), UNCHANGED <<streams, at, lastID, heard, excused>>
    PROVE  Held' /\ MissInv'
<1>. DEFINE ev == [n |-> n, topic |-> topic, origin |-> Stamped(origin), id |-> seq + 1, epoch |-> epoch]
<1>1. ev \in Posted /\ ev.id = Len(log) + 1
  <2>1. Stamped(origin) \in Clients \union {"external"}
    BY DEF Stamped
  <2>2. seq \in Nat /\ epoch = 0 /\ seq = Len(log)
    BY DEF Held, IInv, Typed, HubTyped, LogInv
  <2>. QED
    BY <2>1, <2>2 DEF Posted
<1>2. /\ sending = <<>> /\ seq' = seq + 1 /\ subs' = subs
      /\ ring' = Youngest(Append(ring, ev)) /\ sending' = <<ev>> /\ log' = Append(log, ev)
      /\ UNCHANGED <<phase, owner, since, replay, replayed, chan, wire, written>>
  BY DEF Accept, streams
<1>. HIDE DEF ev
<1>3. /\ log \in Seq(Posted) /\ Len(log) \in Nat /\ DOMAIN log = 1 .. Len(log)
      /\ DOMAIN log' = 1 .. Len(log) + 1 /\ Len(log') = Len(log) + 1
      /\ \A i \in 1 .. Len(log) : log'[i] = log[i]
      /\ log'[Len(log) + 1] = ev
  BY <1>1, <1>2, HeldTypes, AppendProperties
<1>4. ASSUME NEW s, Logged(s, log)
      PROVE  Logged(s, log') /\ \A j \in DOMAIN s : s[j].id < Len(log) + 1
  <2>1. Logged(s, log')
    BY <1>1, <1>2, <1>3, <1>4, LoggedLonger
  <2>2. \A j \in DOMAIN s : s[j].id < Len(log) + 1
    BY <1>3, <1>4 DEF Logged
  <2>. QED
    BY <2>1, <2>2
<1>5. Logged(ring', log') /\ Ascending(ring')
  <2>1. ring \in Seq(Posted) /\ Logged(ring, log) /\ Ascending(ring)
    BY HeldTypes DEF Held, LogInv
  <2>2. Logged(ring, log') /\ \A j \in DOMAIN ring : ring[j].id < ev.id
    BY <1>1, <1>4, <2>1
  <2>3. ev.id \in DOMAIN log' /\ ev = log'[ev.id]
    BY <1>1, <1>3
  <2>. QED
    BY ONLY <1>1, <1>2, <2>1, <2>2, <2>3, RingHeld
<1>6. Held'
  <2>1. Shaped'
    BY <1>2 DEF Held, Shaped
  <2>2. LogInv'
    <3>1. seq' = Len(log')
      BY <1>2, <1>3 DEF Held, LogInv
    <3>2. \A i \in DOMAIN log' : log'[i].id = i
      BY <1>1, <1>3 DEF Held, LogInv
    <3>3. DOMAIN sending' = {1} /\ sending'[1] = ev
      BY <1>2
    <3>4. (\A j \in DOMAIN sending' : sending'[j].id = Len(log')) /\ Logged(sending', log')
      BY <1>1, <1>3, <3>3 DEF Logged
    <3>5. ASSUME NEW k \in Streams
          PROVE  /\ Logged(wire'[k], log') /\ Logged(replay'[k], log') /\ Logged(chan'[k], log')
                 /\ replayed'[k] \subseteq DOMAIN log'
      <4>1. /\ Logged(wire[k], log) /\ Logged(replay[k], log) /\ Logged(chan[k], log)
            /\ replayed[k] \subseteq DOMAIN log
        BY DEF Held, LogInv
      <4>2. DOMAIN log \subseteq DOMAIN log'
        BY <1>3
      <4>. QED
        BY <1>2, <1>4, <4>1, <4>2
    <3>6. \A c \in Clients : lastID'[c] <= Len(log')
      BY <1>3, HeldTypes DEF Held, LogInv
    <3>. QED
      BY <1>5, <3>1, <3>2, <3>4, <3>5, <3>6 DEF LogInv
  <2>3. StreamInv'
    BY <1>2 DEF Held, StreamInv
  <2>. QED
    BY <2>1, <2>2, <2>3 DEF Held
<1>7. ASSUME NEW c \in Clients, NEW i \in Missing(c)' PROVE Safe(c, i)'
  <2>1. i \in 1 .. Len(log) + 1
    BY <1>3, <1>7 DEF Missing
  <2>2. CASE i \in 1 .. Len(log)
    <3>1. i \in Missing(c)
      BY <1>3, <1>7, <2>2 DEF Missing, Matches
    <3>2. Safe(c, i)
      BY <3>1 DEF MissInv
    <3>3. i \notin IDs(sending)
      BY <1>2, BehindEmpty
    <3>. QED
      BY <1>2, <3>2, <3>3, OthersSafe
  <2>3. CASE i = Len(log) + 1
    <3>1. lastID'[c] < i
      BY <1>3, <2>3, HeldTypes DEF Held, LogInv
    <3>2. ASSUME at[c] # 0
          PROVE  Way(i, wire'[at[c]], replay'[at[c]], replayed'[at[c]], chan'[at[c]], Live(at[c])', Due(at[c], i)')
      <4> DEFINE k == at[c]
      <4>1. k \in Streams
        BY <3>2, HeldTypes
      <4>. HIDE DEF k
      <4>2. /\ Logged(wire[k], log) /\ Logged(replay[k], log) /\ Logged(chan[k], log)
            /\ replayed[k] \subseteq DOMAIN log
        BY <4>1 DEF Held, LogInv
      <4>3. /\ \A j \in DOMAIN wire[k] : wire[k][j].id < i
            /\ \A j \in DOMAIN replay[k] : replay[k][j].id < i
            /\ \A j \in DOMAIN chan[k] : chan[k][j].id < i
            /\ i \notin replayed[k] /\ i \in Nat
        BY <1>3, <1>4, <2>3, <4>2
      <4>4. wire[k] \in Seq(Posted) /\ replay[k] \in Seq(Posted) /\ chan[k] \in Seq(Posted)
        BY <4>1, HeldTypes
      <4>5. Way(i, wire[k], replay[k], replayed[k], chan[k], Live(k)', FALSE)
        BY ONLY <4>3, <4>4, WayOfTheYoungest
      <4>6. ~Due(k, i)'
        <5>1. DOMAIN sending' = {1} /\ sending'[1].id = i
          BY <1>1, <1>2, <2>3
        <5>. QED
          BY <5>1 DEF Due, IDs
      <4>7. Way(i, wire[k], replay[k], replayed[k], chan[k], Live(k)', Due(k, i)')
        BY ONLY <4>5, <4>6 DEF Way
      <4>. QED
        BY <1>2, <4>7 DEF k
    <3>. QED
      BY <3>1, <3>2 DEF Safe
  <2>. QED
    BY <2>1, <2>2, <2>3, <1>3
<1>. QED
  BY <1>6, <1>7 DEF MissInv

\* A subscription that is open gets the event, or it is given up.
LEMMA BroadcastSafe ==
    ASSUME Held, MissInv, Broadcast
    PROVE  Held' /\ MissInv'
<1>0. IInv'
  BY BroadcastIInv DEF Held
<1> DEFINE ev == Head(sending)
           meant == {k \in subs : Matches(ev)}
           full == {k \in meant : Len(chan[k]) = ChanCap}
<1>1. /\ sending # <<>> /\ sending' = <<>>
      /\ UNCHANGED <<seq, ring, subs, log, at, lastID, heard, phase, owner, since, replay, replayed, wire, written>>
      /\ chan' = [k \in Streams |-> IF k \in meant \ full THEN Append(chan[k], ev) ELSE chan[k]]
      /\ excused' = [c \in Clients |-> IF \E k \in full : owner[k] = c THEN excused[c] \union {ev.n} ELSE excused[c]]
  BY DEF Broadcast, bridges
<1>2. /\ ev \in Posted /\ ev.id = Len(log) /\ ev.id \in DOMAIN log /\ ev = log[ev.id]
      /\ \A j \in IDs(sending) : j = ev.id
  <2>1. sending \in Seq(Posted) /\ Logged(sending, log) /\ \A j \in DOMAIN sending : sending[j].id = Len(log)
    BY HeldTypes DEF Held, LogInv
  <2>2. ev \in Posted /\ 1 \in DOMAIN sending /\ ev = sending[1]
    BY <1>1, <2>1, IDsOfTail
  <2>3. ev.id \in DOMAIN log /\ ev = log[ev.id]
    BY <2>1, <2>2 DEF Logged
  <2>4. ev.id = Len(log)
    BY <2>1, <2>2
  <2>5. \A j \in IDs(sending) : j = Len(log)
    BY <2>1 DEF IDs
  <2>. QED
    BY <2>2, <2>3, <2>4, <2>5
<1>3. meant \subseteq subs /\ full \subseteq meant /\ (Matches(ev) => meant = subs)
  OBVIOUS
<1>. HIDE DEF ev, meant, full
<1>4. Held'
  <2>1. Shaped'
    BY <1>1 DEF Held, Shaped
  <2>2. LogInv'
    <3>1. ASSUME NEW k \in Streams PROVE Logged(chan'[k], log)
      <4>1. Logged(chan[k], log) /\ chan[k] \in Seq(Posted)
        BY HeldTypes DEF Held, LogInv
      <4>2. chan'[k] = chan[k] \/ chan'[k] = Append(chan[k], ev)
        BY <1>1
      <4>3. Logged(Append(chan[k], ev), log)
        BY <1>2, <4>1, LoggedAppend
      <4>. QED
        BY <4>1, <4>2, <4>3
    <3>2. Logged(sending', log') /\ DOMAIN sending' = {}
      BY <1>1, LoggedEmpty
    <3>3. Logged(ring', log') /\ Ascending(ring')
      BY <1>1 DEF Held, LogInv
    <3>4. \A k \in Streams : /\ Logged(wire'[k], log') /\ Logged(replay'[k], log') /\ Logged(chan'[k], log')
                             /\ replayed'[k] \subseteq DOMAIN log'
      BY <1>1, <3>1 DEF Held, LogInv
    <3>5. /\ seq' = Len(log') /\ \A i \in DOMAIN log' : log'[i].id = i
          /\ \A c \in Clients : lastID'[c] <= Len(log')
      BY <1>1 DEF Held, LogInv
    <3>. QED
      BY <3>2, <3>3, <3>4, <3>5 DEF LogInv
  <2>3. StreamInv'
    <3>1. \A k \in Streams : k \notin subs => chan'[k] = chan[k]
      BY <1>1, <1>3
    <3>. QED
      BY <1>1, <3>1 DEF Held, StreamInv
  <2>. QED
    BY <1>0, <2>1, <2>2, <2>3 DEF Held
<1>5. ASSUME NEW c \in Clients, NEW i \in Missing(c)' PROVE Safe(c, i)'
  <2>1. i \in Missing(c) /\ i \in DOMAIN log /\ i \in Nat /\ i <= ev.id /\ Matches(log[i]) /\ log[i].n \notin excused'[c]
    <3>1. \A x \in Names(heard[c]) \union excused[c] : x \in Names(heard'[c]) \union excused'[c]
      BY <1>1
    <3>2. i \in Missing(c)
      BY <1>1, <3>1, MissingLessens
    <3>3. i \in DOMAIN log /\ Matches(log[i]) /\ log[i].n \notin excused'[c]
      BY <1>1, <1>5 DEF Missing, Matches
    <3>. QED
      BY <1>2, <3>2, <3>3, HeldTypes
  <2>2. Safe(c, i)
    BY <2>1 DEF MissInv
  <2>3. ASSUME at[c] # 0
        PROVE  Way(i, wire[at[c]], replay[at[c]], replayed[at[c]], chan'[at[c]], Live(at[c])', Due(at[c], i)')
    <3> DEFINE k == at[c]
    <3>1. k \in Streams /\ owner[k] = c
      BY <2>3, HeldTypes DEF Held, StreamInv
    <3>2. Way(i, wire[k], replay[k], replayed[k], chan[k], Live(k), Due(k, i))
      BY <2>2, <2>3 DEF Safe
    <3>3. Live(k)' = Live(k)
      BY <1>1 DEF Live
    <3>4. Due(k, i)' => Live(k) /\ k \in subs
      BY <1>1, <3>3 DEF Due
    <3>5. chan[k] \in Seq(Posted)
      BY <3>1, HeldTypes
    <3>. HIDE DEF k
    <3>6. CASE k \in meant \ full
      <4>1. chan'[k] = Append(chan[k], ev)
        BY <1>1, <3>1, <3>6
      <4>2. ev.id # i => i \notin IDs(sending)
        BY <1>2
      <4>3. ev.id # i => Due(k, i) \/ ~Live(k)
        BY <1>3, <3>6, <4>2 DEF Due
      <4>4. Due(k, i)' => ev.id = i \/ Due(k, i)
        BY <3>4, <4>3
      <4>5. Way(i, wire[k], replay[k], replayed[k], Append(chan[k], ev), Live(k), Due(k, i)')
        BY <1>2, <2>1, <3>2, <3>5, <4>3, <4>4, WayBroadcast
      <4>. QED
        BY ONLY <3>3, <4>1, <4>5 DEF Way, k
    <3>7. CASE k \notin meant \ full
      <4>1. chan'[k] = chan[k]
        BY <1>1, <3>1, <3>7
      <4>2. Due(k, i)' => Due(k, i)
        <5>. SUFFICES ASSUME Due(k, i)' PROVE i \notin IDs(sending)
          BY <3>4 DEF Due
        <5>. SUFFICES ASSUME i = ev.id PROVE FALSE
          BY <1>2
        <5>1. k \in full
          BY <1>2, <1>3, <2>1, <3>4, <3>7
        <5>2. ev.n \in excused'[c]
          BY <1>1, <3>1, <5>1
        <5>. QED
          BY <1>2, <2>1, <5>2
      <4>3. Way(i, wire[k], replay[k], replayed[k], chan[k], Live(k), Due(k, i)')
        BY ONLY <3>2, <4>2 DEF Way
      <4>. QED
        BY ONLY <3>3, <4>1, <4>3 DEF Way, k
    <3>. QED
      BY <3>6, <3>7
  <2>4. lastID[c] < i
    BY <2>2 DEF Safe
  <2>. QED
    BY <1>1, <2>3, <2>4 DEF Safe
<1>. QED
  BY <1>4, <1>5 DEF MissInv

\* A new stream has nothing of anyone's.
LEMMA ConnectSafe ==
    ASSUME Held, MissInv, NEW c \in Clients, Connect(c)
    PROVE  Held' /\ MissInv'
<1>0. IInv'
  BY ConnectionIInv DEF Held
<1>1. PICK k \in Streams :
          /\ phase[k] = "none"
          /\ at' = [at EXCEPT ![c] = k]
          /\ phase' = [phase EXCEPT ![k] = "requested"]
          /\ owner' = [owner EXCEPT ![k] = c]
          /\ since' = [since EXCEPT ![k] = lastID[c]]
  BY DEF Connect, Fresh
<1>2. UNCHANGED <<seq, ring, sending, subs, log, lastID, heard, excused, replay, replayed, chan, wire, written>>
  BY DEF Connect, hub, history
<1>3. /\ at'[c] = k /\ \A d \in Clients : d # c => at'[d] = at[d]
      /\ phase'[k] = "requested" /\ owner'[k] = c /\ since'[k] = lastID[c] /\ lastID[c] \in Nat
      /\ \A q \in Streams : q # k => phase'[q] = phase[q] /\ owner'[q] = owner[q] /\ since'[q] = since[q]
  BY <1>1, HeldTypes DEF Held, Shaped
<1>4. \A d \in Clients : at[d] # k /\ (at[d] # 0 => at[d] \in Streams)
  <2>1. k # 0
    BY HubAssumption DEF Streams
  <2>. QED
    BY <1>1, <2>1, HeldTypes DEF Held, StreamInv
<1>5. wire[k] = <<>> /\ replay[k] = <<>> /\ replayed[k] = {} /\ chan[k] = <<>> /\ k \notin subs
  BY <1>1 DEF Held, StreamInv
<1>6. Held'
  <2>1. Shaped'
    <3>1. since' \in [Streams -> Nat]
      BY <1>1, <1>3 DEF Held, Shaped
    <3>2. phase' = [q \in Streams |-> phase'[q]] /\ owner' = [q \in Streams |-> owner'[q]]
      BY <1>1 DEF Held, Shaped
    <3>. QED
      BY <1>2, <3>1, <3>2 DEF Held, Shaped
  <2>2. LogInv'
    BY <1>2 DEF Held, LogInv, Logged, Ascending
  <2>3. StreamInv'
    <3>1. ASSUME NEW d \in Clients, at'[d] # 0
          PROVE  /\ owner'[at'[d]] = d /\ phase'[at'[d]] # "none"
                 /\ phase'[at'[d]] \in {"requested", "added"} => since'[at'[d]] = lastID'[d]
      <4>1. CASE d = c
        BY <1>2, <1>3, <4>1
      <4>2. CASE d # c
        <5>1. at'[d] = at[d] /\ at[d] # 0 /\ at[d] \in Streams /\ at[d] # k
          BY <1>3, <1>4, <3>1, <4>2
        <5>2. /\ owner[at[d]] = d /\ phase[at[d]] # "none"
              /\ phase[at[d]] \in {"requested", "added"} => since[at[d]] = lastID[d]
          BY <5>1 DEF Held, StreamInv
        <5>. QED
          BY <1>2, <1>3, <5>1, <5>2
      <4>. QED
        BY <4>1, <4>2
    <3>2. ASSUME NEW q \in Streams
          PROVE  /\ phase'[q] \in {"none", "requested"} => chan'[q] = <<>> /\ q \notin subs'
                 /\ phase'[q] \in {"none", "requested", "added"} =>
                        wire'[q] = <<>> /\ replay'[q] = <<>> /\ replayed'[q] = {}
      <4>1. CASE q = k
        BY <1>2, <1>5, <4>1
      <4>2. CASE q # k
        BY <1>2, <1>3, <4>2 DEF Held, StreamInv
      <4>. QED
        BY <4>1, <4>2
    <3>. QED
      BY <3>1, <3>2 DEF StreamInv
  <2>. QED
    BY <1>0, <2>1, <2>2, <2>3 DEF Held
<1>7. ASSUME NEW d \in Clients, NEW i \in Missing(d)' PROVE Safe(d, i)'
  <2>1. Safe(d, i)
    BY <1>2, <1>7, MissingLessens DEF MissInv
  <2>2. CASE d = c
    <3>1. lastID'[c] < i
      BY <1>2, <2>1, <2>2 DEF Safe
    <3>2. ~Live(k)' /\ ~Due(k, i)'
      BY <1>3 DEF Live, Due
    <3>3. Way(i, <<>>, <<>>, {}, <<>>, Live(k)', Due(k, i)')
      BY ONLY <3>2, BehindEmpty DEF Way
    <3>4. Way(i, wire'[k], replay'[k], replayed'[k], chan'[k], Live(k)', Due(k, i)')
      BY ONLY <1>2, <1>5, <3>3
    <3>. QED
      BY <1>3, <2>2, <3>1, <3>4 DEF Safe
  <2>3. CASE d # c
    <3>1. at[d] # 0 => /\ UNCHANGED <<wire[at[d]], replay[at[d]], replayed[at[d]], chan[at[d]],
                                      phase[at[d]], since[at[d]]>>
                       /\ at[d] \in subs' => at[d] \in subs
      <4>1. at[d] # 0 => at[d] \in Streams /\ at[d] # k
        BY <1>4
      <4>2. at[d] # 0 => phase'[at[d]] = phase[at[d]] /\ since'[at[d]] = since[at[d]]
        BY ONLY <1>3, <4>1
      <4>3. at'[d] = at[d]
        BY <1>3, <2>3
      <4>. QED
        BY ONLY <1>2, <4>2, <4>3
    <3>2. at'[d] = at[d] /\ lastID'[d] = lastID[d] /\ (i \notin IDs(sending') => i \notin IDs(sending))
      BY <1>2, <1>3, <2>3
    <3>. QED
      BY ONLY <2>1, <3>1, <3>2, OthersSafe
  <2>. QED
    BY <2>2, <2>3
<1>. QED
  BY <1>6, <1>7 DEF MissInv

\* What a client leaves, it asks for again.
LEMMA PartSafe ==
    ASSUME Held, MissInv, NEW c \in Clients, EndOfStream(c) \/ Break(c)
    PROVE  Held' /\ MissInv'
<1>0. IInv'
  BY ConnectionIInv DEF Held
<1>1. /\ UNCHANGED <<seq, ring, sending, subs, log, lastID, heard, excused, phase, owner, since,
                     replay, replayed, chan, written>>
      /\ at[c] # 0 /\ at' = [at EXCEPT ![c] = 0]
      /\ wire' = wire \/ wire' = [wire EXCEPT ![at[c]] = <<>>]
  BY DEF EndOfStream, Break, hub, streams, history
<1>2. at'[c] = 0 /\ (\A d \in Clients : d # c => at'[d] = at[d]) /\ at[c] \in Streams
  BY <1>1, HeldTypes
<1>3. /\ \A q \in Streams : q # at[c] => wire'[q] = wire[q]
      /\ \A q \in Streams : wire'[q] = wire[q] \/ wire'[q] = <<>>
  BY <1>1, HeldTypes
<1>4. Held'
  <2>1. Shaped'
    BY <1>1 DEF Held, Shaped
  <2>2. LogInv'
    <3>1. \A q \in Streams : Logged(wire'[q], log)
      BY <1>3, LoggedEmpty DEF Held, LogInv
    <3>2. \A q \in Streams : /\ Logged(replay'[q], log') /\ Logged(chan'[q], log')
                             /\ replayed'[q] \subseteq DOMAIN log'
      BY <1>1 DEF Held, LogInv
    <3>3. \A d \in Clients : lastID'[d] <= Len(log')
      BY <1>1 DEF Held, LogInv
    <3>5. /\ seq' = Len(log') /\ \A i \in DOMAIN log' : log'[i].id = i
          /\ \A j \in DOMAIN sending' : sending'[j].id = Len(log')
          /\ Logged(sending', log') /\ Logged(ring', log') /\ Ascending(ring')
      BY <1>1 DEF Held, LogInv
    <3>. QED
      BY <1>1, <3>1, <3>2, <3>3, <3>5 DEF LogInv
  <2>3. StreamInv'
    <3>1. \A d \in Clients : at'[d] # 0 => d # c /\ at'[d] = at[d]
      BY <1>2
    <3>. QED
      BY <1>1, <1>3, <3>1 DEF Held, StreamInv
  <2>. QED
    BY <1>0, <2>1, <2>2, <2>3 DEF Held
<1>5. ASSUME NEW d \in Clients, NEW i \in Missing(d)' PROVE Safe(d, i)'
  <2>1. Safe(d, i)
    BY <1>1, <1>5, MissingLessens DEF MissInv
  <2>2. CASE d = c
    BY <1>1, <1>2, <2>1, <2>2 DEF Safe
  <2>3. CASE d # c
    <3>1. at[d] # 0 => at[d] # at[c] /\ at[d] \in Streams
      <4>1. owner[at[c]] = c /\ (at[d] # 0 => owner[at[d]] = d)
        BY <1>1 DEF Held, StreamInv
      <4>2. at[d] # 0 => at[d] \in Streams
        BY HeldTypes
      <4>. QED
        BY <2>3, <4>1, <4>2
    <3>2. at[d] # 0 => /\ UNCHANGED <<wire[at[d]], replay[at[d]], replayed[at[d]], chan[at[d]],
                                      phase[at[d]], since[at[d]]>>
                       /\ at[d] \in subs' => at[d] \in subs
      BY <1>1, <1>3, <3>1
    <3>3. at'[d] = at[d] /\ lastID'[d] = lastID[d] /\ (i \notin IDs(sending') => i \notin IDs(sending))
      BY <1>1, <1>2, <2>3
    <3>. QED
      BY ONLY <2>1, <3>2, <3>3, OthersSafe
  <2>. QED
    BY <2>2, <2>3
<1>. QED
  BY <1>4, <1>5 DEF MissInv

\* The event that is read is the missing one, or below it.
LEMMA ReadSafe ==
    ASSUME Held, MissInv, NEW c \in Clients, Read(c)
    PROVE  Held' /\ MissInv'
<1>0. IInv'
  BY ReadIInv DEF Held
<1>9. PICK k : k = at[c]
  OBVIOUS
<1> DEFINE ev == Head(wire[k])
<1>1. /\ UNCHANGED <<seq, ring, sending, subs, log, at, excused, phase, owner, since,
                     replay, replayed, chan, written>>
      /\ k # 0 /\ wire[k] # <<>>
      /\ wire' = [wire EXCEPT ![k] = Tail(@)]
      /\ lastID' = [lastID EXCEPT ![c] = IF ev.id > @ THEN ev.id ELSE @]
      /\ \/ ev.id > lastID[c] /\ ev.origin # c /\ heard' = [heard EXCEPT ![c] = Append(@, ev)]
         \/ ~(ev.id > lastID[c] /\ ev.origin # c) /\ heard' = heard
  BY <1>9 DEF Read, hub, history
<1>2. /\ k \in Streams /\ wire[k] \in Seq(Posted) /\ lastID[c] \in Nat /\ heard[c] \in Seq(Posted)
      /\ owner[k] = c
  BY <1>1, <1>9, HeldTypes DEF Held, StreamInv
<1>3. /\ ev \in Posted /\ ev.id \in Nat /\ ev.id \in DOMAIN log /\ ev = log[ev.id]
      /\ Logged(Tail(wire[k]), log)
  <2>1. Logged(wire[k], log)
    BY <1>2 DEF Held, LogInv
  <2>2. ev \in Posted
    BY <1>1, <1>2, IDsOfTail
  <2>3. ev.id \in Nat
    BY <2>2 DEF Posted
  <2>4. Logged(Tail(wire[k]), log) /\ ev.id \in DOMAIN log /\ ev = log[ev.id]
    BY ONLY <1>1, <1>2, <2>1, LoggedTail
  <2>. QED
    BY ONLY <2>2, <2>3, <2>4
<1>4. /\ wire'[k] = Tail(wire[k]) /\ \A q \in Streams : q # k => wire'[q] = wire[q]
      /\ lastID'[c] = IF ev.id > lastID[c] THEN ev.id ELSE lastID[c]
      /\ \A d \in Clients : d # c => lastID'[d] = lastID[d]
  BY <1>1, <1>2, HeldTypes
<1>. HIDE DEF ev
<1>5. /\ \A d \in Clients : Names(heard[d]) \subseteq Names(heard'[d])
      /\ ev.id > lastID[c] /\ ev.origin # c => ev.n \in Names(heard'[c])
  <2>1. CASE heard' = heard /\ ~(ev.id > lastID[c] /\ ev.origin # c)
    BY <2>1
  <2>2. CASE heard' = [heard EXCEPT ![c] = Append(@, ev)]
    <3>1. heard'[c] = Append(heard[c], ev) /\ \A d \in Clients : d # c => heard'[d] = heard[d]
      BY <2>2, HeldTypes
    <3>2. ev.n \in Names(Append(heard[c], ev)) /\ Names(heard[c]) \subseteq Names(Append(heard[c], ev))
      BY <1>2, <1>3, NamesOfAppend
    <3>3. \A d \in Clients : Names(heard[d]) \subseteq Names(heard'[d])
      BY ONLY <3>1, <3>2
    <3>. QED
      BY ONLY <3>1, <3>2, <3>3
  <2>. QED
    BY <1>1, <2>1, <2>2
<1>6. Held'
  <2>1. Shaped'
    BY <1>1 DEF Held, Shaped
  <2>2. LogInv'
    <3>1. \A q \in Streams : Logged(wire'[q], log)
      BY <1>3, <1>4 DEF Held, LogInv
    <3>2. \A q \in Streams : /\ Logged(replay'[q], log') /\ Logged(chan'[q], log')
                             /\ replayed'[q] \subseteq DOMAIN log'
      BY <1>1 DEF Held, LogInv
    <3>3. \A d \in Clients : lastID'[d] <= Len(log)
      <4>1. \A d \in Clients : lastID[d] <= Len(log)
        BY DEF Held, LogInv
      <4>2. ev.id <= Len(log)
        BY <1>3, HeldTypes
      <4>. QED
        BY <1>4, <4>1, <4>2
    <3>4. /\ seq' = Len(log') /\ \A i \in DOMAIN log' : log'[i].id = i
          /\ \A j \in DOMAIN sending' : sending'[j].id = Len(log')
          /\ Logged(sending', log') /\ Logged(ring', log') /\ Ascending(ring')
      BY <1>1 DEF Held, LogInv
    <3>. QED
      BY <1>1, <3>1, <3>2, <3>3, <3>4 DEF LogInv
  <2>3. StreamInv'
    <3>1. phase[k] \notin {"none", "requested", "added"}
      BY <1>1, <1>2 DEF Held, StreamInv
    <3>2. ASSUME NEW d \in Clients, at'[d] # 0, phase'[at'[d]] \in {"requested", "added"}
          PROVE  since'[at'[d]] = lastID'[d]
      <4>1. d # c
        BY <1>1, <1>9, <3>1, <3>2
      <4>. QED
        BY <1>1, <1>4, <3>2, <4>1 DEF Held, StreamInv
    <3>3. \A d \in Clients : at'[d] # 0 => owner'[at'[d]] = d /\ phase'[at'[d]] # "none"
      BY <1>1 DEF Held, StreamInv
    <3>4. ASSUME NEW q \in Streams
          PROVE  /\ phase'[q] \in {"none", "requested"} => chan'[q] = <<>> /\ q \notin subs'
                 /\ phase'[q] \in {"none", "requested", "added"} =>
                        wire'[q] = <<>> /\ replay'[q] = <<>> /\ replayed'[q] = {}
      <4>1. phase'[q] \in {"none", "requested", "added"} => q # k
        BY <1>1, <3>1
      <4>. QED
        BY <1>1, <1>4, <4>1 DEF Held, StreamInv
    <3>. QED
      BY <3>2, <3>3, <3>4 DEF StreamInv
  <2>. QED
    BY <1>0, <2>1, <2>2, <2>3 DEF Held
<1>7. ASSUME NEW d \in Clients, NEW i \in Missing(d)' PROVE Safe(d, i)'
  <2>1. i \in Missing(d)
    BY <1>1, <1>5, <1>7, MissingLessens
  <2>2. Safe(d, i)
    BY <2>1 DEF MissInv
  <2>3. CASE d = c
    <3>1. Way(i, wire[k], replay[k], replayed[k], chan[k], Live(k), Due(k, i)) /\ lastID[c] < i
      BY <1>1, <1>9, <2>2, <2>3 DEF Safe
    <3>2. i \in DOMAIN log /\ i \in Nat /\ log[i].origin # c /\ log[i].n \notin Names(heard'[c])
      BY <1>1, <1>7, <2>3, HeldTypes DEF Missing
    <3>3. /\ ev.id <= i
          /\ ev.id # i => Way(i, Tail(wire[k]), replay[k], replayed[k], chan[k], Live(k), Due(k, i))
      BY <1>1, <1>2, <3>1, <3>2, WayRead DEF ev
    <3>4. ev.id # i
      BY <1>3, <1>5, <3>1, <3>2
    <3>5. lastID'[c] < i
      BY <1>2, <1>3, <1>4, <3>1, <3>2, <3>3, <3>4
    <3>6. (Live(k)' <=> Live(k)) /\ (Due(k, i)' <=> Due(k, i))
      BY <1>1 DEF Live, Due, IDs
    <3>7. Way(i, wire'[k], replay'[k], replayed'[k], chan'[k], Live(k)', Due(k, i)')
      BY ONLY <1>1, <1>4, <3>3, <3>4, <3>6 DEF Way
    <3>8. at'[c] = k
      BY <1>1, <1>9
    <3>. QED
      BY ONLY <2>3, <3>5, <3>7, <3>8 DEF Safe
  <2>4. CASE d # c
    <3>1. at[d] # 0 => at[d] # k /\ at[d] \in Streams
      <4>1. at[d] # 0 => owner[at[d]] = d /\ at[d] \in Streams
        BY HeldTypes DEF Held, StreamInv
      <4>. QED
        BY <1>2, <2>4, <4>1
    <3>2. at[d] # 0 => /\ UNCHANGED <<wire[at[d]], replay[at[d]], replayed[at[d]], chan[at[d]],
                                      phase[at[d]], since[at[d]]>>
                       /\ at[d] \in subs' => at[d] \in subs
      BY <1>1, <1>4, <3>1
    <3>3. at'[d] = at[d] /\ lastID'[d] = lastID[d] /\ (i \notin IDs(sending') => i \notin IDs(sending))
      BY <1>1, <1>4, <2>4
    <3>. QED
      BY ONLY <2>2, <3>2, <3>3, OthersSafe
  <2>. QED
    BY <2>3, <2>4
<1>. QED
  BY <1>6, <1>7 DEF MissInv

LEMMA InitSafe == Init => Held /\ MissInv
<1>. SUFFICES ASSUME Init PROVE Held /\ MissInv
  OBVIOUS
<1>1. log = <<>> /\ DOMAIN log = {} /\ Len(log) = 0
  BY DEF Init
<1>2. Shaped
  <2>1. since \in [Streams -> Nat]
    BY DEF Init
  <2>2. phase = [k \in Streams |-> phase[k]]
    BY DEF Init
  <2>5. owner = [k \in Streams |-> owner[k]]
    <3>1. PICK c : owner = [k \in Streams |-> c]
      BY DEF Init
    <3>. QED
      BY ONLY <3>1
  <2>3. replayed = [k \in Streams |-> replayed[k]] /\ written = [k \in Streams |-> written[k]]
    BY DEF Init
  <2>4. excused = [c \in Clients |-> excused[c]]
    BY DEF Init
  <2>. QED
    BY <2>1, <2>2, <2>3, <2>4, <2>5 DEF Shaped
<1>3. LogInv
  BY <1>1 DEF Init, LogInv, Logged, Ascending
<1>4. StreamInv
  BY DEF Init, StreamInv
<1>5. MissInv
  BY <1>1 DEF MissInv, Missing
<1>. QED
  BY <1>2, <1>3, <1>4, <1>5, InitIInv DEF Held

LEMMA ForwardSafe ==
    ASSUME Held, MissInv, NEW c \in Clients, Forward(c)
    PROVE  Held' /\ MissInv'
<1>0. IInv'
  BY ForwardIInv DEF Held
<1> DEFINE ev == Head(local[c])
<1>1. /\ local[c] # <<>> /\ UNCHANGED <<streams, at, lastID, heard, excused>>
      /\ Accept(ev.n, ev.topic, c) \/ UNCHANGED <<hub, log>>
  BY DEF Forward
<1>2. ev.n \in Nat /\ ev.topic \in Topics
  <2>1. local[c] \in Seq(Posted \union Emitted)
    BY DEF Held, IInv, Typed, BridgesTyped
  <2>2. ev \in Posted \union Emitted
    BY <1>1, <2>1, HeadTailProperties
  <2>. QED
    BY <2>2 DEF Posted, Emitted
<1>. HIDE DEF ev
<1>3. CASE Accept(ev.n, ev.topic, c)
  BY <1>0, <1>1, <1>2, <1>3, AcceptSafe
<1>4. CASE UNCHANGED <<hub, log>>
  BY <1>0, <1>1, <1>4, QuietSafe DEF hub, streams
<1>. QED
  BY <1>1, <1>3, <1>4

LEMMA StepSafe == Held /\ MissInv /\ [Next]_vars => Held' /\ MissInv'
<1>. SUFFICES ASSUME Held, MissInv, [Next]_vars PROVE Held' /\ MissInv'
  OBVIOUS
<1>0. IInv'
  BY StepIInv DEF Held
<1>1. CASE Broadcast
  BY <1>1, BroadcastSafe
<1>2. CASE CloseAll
  BY <1>0, <1>2, QuietSafe DEF CloseAll, bridges, history
<1>3. ASSUME NEW topic \in Topics, External(topic) PROVE Held' /\ MissInv'
  <2>1. emitted + 1 \in Nat
    BY DEF Held, IInv, Typed, HubTyped
  <2>2. Accept(emitted + 1, topic, "none") /\ UNCHANGED <<streams, at, lastID, heard, excused>>
    BY <1>3 DEF External, bridges
  <2>. QED
    BY <1>0, <2>1, <2>2, AcceptSafe
<1>4. ASSUME NEW k \in Streams, Handler(k) PROVE Held' /\ MissInv'
  BY <1>4, AddSubSafe, SnapshotSafe, ReplaySafe, DeliverSafe, LeaveSafe DEF Handler
<1>5. ASSUME NEW c \in Clients, Receiver(c) \/ Break(c) PROVE Held' /\ MissInv'
  BY <1>5, ConnectSafe, ReadSafe, PartSafe DEF Receiver
<1>6. ASSUME NEW c \in Clients, Forward(c) PROVE Held' /\ MissInv'
  BY <1>6, ForwardSafe
<1>7. ASSUME NEW c \in Clients, NEW topic \in Topics, Emit(c, topic) PROVE Held' /\ MissInv'
  BY <1>0, <1>7, QuietSafe DEF Emit, hub, streams
<1>8. CASE UNCHANGED vars
  BY <1>0, <1>8, QuietSafe DEF vars, hub, streams, bridges, history
<1>. QED
  BY <1>1, <1>2, <1>3, <1>4, <1>5, <1>6, <1>7, <1>8 DEF Next

\* In one life of the hub, a client has heard all it was meant to up to the
\* number it has reached, but for what the hub gave up on its account: nothing
\* falls between the subscription and the snapshot of the ring, nor between a
\* replay and the channel.
THEOREM HubOnlyExcusedAreMissed == Spec => []OnlyExcusedAreMissed
<1>1. Held /\ MissInv => OnlyExcusedAreMissed
  <2>. SUFFICES ASSUME Held, MissInv, NEW c \in Clients, NEW i \in DOMAIN log,
                       log[i].id <= lastID[c], Matches(log[i]), log[i].origin # c,
                       log[i].n \notin Names(heard[c]) \union excused[c]
                PROVE  FALSE
    BY DEF OnlyExcusedAreMissed
  <2>1. i \in Missing(c)
    BY DEF Missing
  <2>2. lastID[c] < i
    BY <2>1 DEF MissInv, Safe
  <2>3. log[i].id = i
    BY DEF Held, LogInv
  <2>4. i \in Nat /\ lastID[c] \in Nat
    BY HeldTypes
  <2>. QED
    BY <2>2, <2>3, <2>4
<1>. QED
  BY <1>1, InitSafe, StepSafe, PTL DEF Spec
=============================================================================
