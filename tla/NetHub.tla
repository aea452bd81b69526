-------------------------------- MODULE NetHub --------------------------------
(***************************************************************************)
(* The network event bus: the hub (netbus/hub.go) and the clients that     *)
(* bridge a local bus to it (netbus/client.go).                            *)
(*                                                                         *)
(* The hub numbers the events posted to it, keeps the last RingSize in a   *)
(* ring and offers each to a bounded channel per subscriber.  A client     *)
(* reads one event stream at a time and, when it ends, opens another with  *)
(* the last number it saw, for the hub to replay what the ring still has.  *)
(*                                                                         *)
(* Hub.pub serialises handlePublish, but ring.mu and Hub.mu are taken one  *)
(* after the other inside it, so a subscription falls between the two, and *)
(* handleSubscribe takes them in the other order.                          *)
(***************************************************************************)
EXTENDS Naturals, Sequences

CONSTANTS
    Clients,        \* the bridges; a client stands for its origin too
    Topics,         \* the topics of events
    Wanted,         \* the topics bridged; empty for all of them
    RingSize,       \* defaultRingSize
    ChanCap,        \* capacity of a subscriber's channel (64 in the code)
    WireCap,        \* events the connection to a client holds before writes stall
    MaxEvents,      \* bound: events emitted
    MaxConns,       \* bound: event streams opened
    MaxRestarts     \* bound: restarts of the hub

ASSUME HubAssumption ==
    /\ Wanted \subseteq Topics
    /\ "none" \notin Clients
    /\ RingSize \in Nat \ {0} /\ ChanCap \in Nat \ {0} /\ WireCap \in Nat \ {0}
    /\ MaxEvents \in Nat /\ MaxConns \in Nat /\ MaxRestarts \in Nat

VARIABLES
    \* the hub
    seq,        \* ring.seq
    ring,       \* ring.buf
    sending,    \* the event of the handlePublish that holds Hub.pub: none or one
    subs,       \* the streams registered in Hub.subs
    shutdown,   \* Hub.shutdown
    epoch,      \* how often the hub has been restarted
    \* its event streams, one handleSubscribe each
    phase,      \* where the handler stands
    owner,      \* the client that opened it
    since,      \* its Last-Event-ID
    replay,     \* what is left of the snapshot of the ring
    replayed,   \* numbers in the snapshot and not since met in the channel
    chan,       \* subscriber.ch
    shut,       \* the streams whose channel CloseAll, or addSub after it, closed
    wire,       \* events written and not yet read by the client
    written,    \* the highest number written (history)
    \* the clients
    at,         \* the stream a client reads, 0 for none
    lastID,     \* lastID of receive
    local,      \* events of its bus that its forwarder has not looked at
    heard,      \* events it has put on its bus
    \* history
    emitted,    \* how many events there have been
    log,        \* events the hub has accepted, in order
    excused     \* events the hub gave up for a client: channel full, left the
                \* ring, or from before the client had a number to resume from

hub == <<seq, ring, sending, subs, shutdown, epoch>>
streams == <<phase, owner, since, replay, replayed, chan, shut, wire, written>>
bridges == <<at, lastID, local, heard>>
history == <<emitted, log, excused>>
vars == <<hub, streams, bridges, history>>

Streams == 1 .. MaxConns

\* The numbers of a sequence of events.
Names(events) == {events[i].n : i \in DOMAIN events}
IDs(events) == {events[i].id : i \in DOMAIN events}

Matches(ev) == Wanted = {} \/ ev.topic \in Wanted

Init ==
    /\ seq = 0 /\ ring = <<>> /\ sending = <<>> /\ subs = {}
    /\ shutdown = FALSE /\ epoch = 0
    /\ phase = [k \in Streams |-> "none"]
    /\ owner = [k \in Streams |-> CHOOSE c \in Clients : TRUE]
    /\ since = [k \in Streams |-> 0]
    /\ replay = [k \in Streams |-> <<>>]
    /\ replayed = [k \in Streams |-> {}]
    /\ chan = [k \in Streams |-> <<>>]
    /\ shut = {}
    /\ wire = [k \in Streams |-> <<>>]
    /\ written = [k \in Streams |-> 0]
    /\ at = [c \in Clients |-> 0]
    /\ lastID = [c \in Clients |-> 0]
    /\ local = [c \in Clients |-> <<>>]
    /\ heard = [c \in Clients |-> <<>>]
    /\ emitted = 0
    /\ log = <<>>
    /\ excused = [c \in Clients |-> {}]

-----------------------------------------------------------------------------
(* handlePublish.                                                          *)

\* Mutant of Stamped: an event posted without an origin keeps none.
Unstamped(origin) == origin

\* The origin of an event that names none, the empty string, is "none" here.
Stamped(origin) == IF origin = "none" THEN "external" ELSE origin

Youngest(events) ==
    IF Len(events) > RingSize THEN SubSeq(events, Len(events) - RingSize + 1, Len(events))
    ELSE events

\* ring.add: the number and the place in the ring under one lock.
Accept(n, topic, origin) ==
    LET ev == [n |-> n, topic |-> topic, origin |-> Stamped(origin),
               id |-> seq + 1, epoch |-> epoch]
    IN  /\ sending = <<>>
        /\ seq' = seq + 1
        /\ ring' = Youngest(Append(ring, ev))
        /\ sending' = <<ev>>
        /\ log' = Append(log, ev)
        /\ UNCHANGED <<subs, shutdown, epoch>>

\* Mutant of Broadcast: a stream that is still to read its replay is passed over.
BroadcastLive ==
    /\ sending # <<>>
    /\ chan' = [k \in Streams |->
                  IF k \in subs /\ phase[k] = "live" /\ Matches(Head(sending))
                     /\ Len(chan[k]) < ChanCap
                  THEN Append(chan[k], Head(sending)) ELSE chan[k]]
    /\ sending' = <<>>
    /\ UNCHANGED <<seq, ring, subs, shutdown, epoch, phase, owner, since, replay, replayed,
                   shut, wire, written, bridges, history>>

\* A subscriber whose channel is full misses the event.
Broadcast ==
    /\ sending # <<>>
    /\ LET ev   == Head(sending)
           meant == {k \in subs : Matches(ev)}
           full  == {k \in meant : Len(chan[k]) = ChanCap}
       IN  /\ chan' = [k \in Streams |->
                         IF k \in meant \ full THEN Append(chan[k], ev) ELSE chan[k]]
           /\ excused' = [c \in Clients |->
                            IF \E k \in full : owner[k] = c THEN excused[c] \union {ev.n}
                            ELSE excused[c]]
    /\ sending' = <<>>
    /\ UNCHANGED <<seq, ring, subs, shutdown, epoch, phase, owner, since, replay, replayed,
                   shut, wire, written, bridges, emitted, log>>

\* Someone posts an event that names no origin.
External(topic) ==
    /\ emitted < MaxEvents
    /\ emitted' = emitted + 1
    /\ Accept(emitted + 1, topic, "none")
    /\ UNCHANGED <<streams, bridges, excused>>

-----------------------------------------------------------------------------
(* handleSubscribe.                                                        *)

\* Mutant of AddSub: a stream is registered after CloseAll all the same.
AddSubAlways(k) ==
    /\ phase[k] = "requested"
    /\ phase' = [phase EXCEPT ![k] = "added"]
    /\ subs' = subs \union {k}
    /\ UNCHANGED <<seq, ring, sending, shutdown, epoch, owner, since, replay, replayed, chan,
                   shut, wire, written, bridges, history>>

\* addSub.  Without a number to resume from, the client begins here.
AddSub(k) ==
    /\ phase[k] = "requested"
    /\ phase' = [phase EXCEPT ![k] = "added"]
    /\ IF shutdown
       THEN shut' = shut \union {k} /\ UNCHANGED subs
       ELSE subs' = subs \union {k} /\ UNCHANGED shut
    /\ excused' = IF since[k] = 0
                  THEN [excused EXCEPT ![owner[k]] = @ \union (Names(log) \ Names(sending))]
                  ELSE excused
    /\ UNCHANGED <<seq, ring, sending, shutdown, epoch, owner, since, replay, replayed, chan,
                   wire, written, bridges, emitted, log>>

\* Mutant of Younger: the first event past the number is taken for seen.
YoungerByTwo(first, id) == \A i \in DOMAIN ring : ring[i].id > id + 1 <=> i >= first

\* The ring is in the order of its numbers: those above id begin at first.
Younger(first, id) == \A i \in DOMAIN ring : ring[i].id > id <=> i >= first

\* ring.after, with a number to resume from: a copy of the younger events.
Snapshot(k) ==
    /\ phase[k] = "added"
    /\ phase' = [phase EXCEPT ![k] = "live"]
    /\ IF since[k] > 0
       THEN \E first \in 1 .. Len(ring) + 1 :
            LET younger == SubSeq(ring, first, Len(ring))
                gone    == {log[i].n : i \in {j \in DOMAIN log : log[j].id > since[k]}} \ Names(ring)
            IN  /\ Younger(first, since[k])
                /\ replay' = [replay EXCEPT ![k] = younger]
                /\ replayed' = [replayed EXCEPT ![k] = IDs(younger)]
                /\ excused' = [excused EXCEPT ![owner[k]] = @ \union gone]
       ELSE UNCHANGED <<replay, replayed, excused>>
    /\ UNCHANGED <<hub, owner, since, chan, shut, wire, written, bridges, emitted, log>>

\* A write goes through while the connection stands and has room.
Write(k, ev) ==
    /\ at[owner[k]] = k
    /\ Len(wire[k]) < WireCap
    /\ wire' = [wire EXCEPT ![k] = Append(@, ev)]
    /\ written' = [written EXCEPT ![k] = IF ev.id > @ THEN ev.id ELSE @]

Replay(k) ==
    /\ phase[k] = "live"
    /\ replay[k] # <<>>
    /\ replay' = [replay EXCEPT ![k] = Tail(@)]
    /\ IF Matches(Head(replay[k]))
       THEN Write(k, Head(replay[k]))
       ELSE UNCHANGED <<wire, written>>
    /\ UNCHANGED <<hub, phase, owner, since, replayed, chan, shut, bridges, history>>

\* An event of the channel, unless the replay has delivered it already.
Deliver(k) ==
    /\ phase[k] = "live"
    /\ replay[k] = <<>>
    /\ chan[k] # <<>>
    /\ chan' = [chan EXCEPT ![k] = Tail(@)]
    /\ LET ev == Head(chan[k])
       IN  IF ev.id \in replayed[k]
           THEN /\ replayed' = [replayed EXCEPT ![k] = @ \ {ev.id}]
                /\ UNCHANGED <<wire, written>>
           ELSE Write(k, ev) /\ UNCHANGED replayed
    /\ UNCHANGED <<hub, phase, owner, since, replay, shut, bridges, history>>

\* The handler returns and the deferred removeSub runs: its channel was closed
\* and is empty; or the client is gone, which the next write or the request's
\* context tells; or a write stalled past its deadline.
Leave(k) ==
    /\ phase[k] \in {"requested", "added", "live"}
    /\ \/ phase[k] = "live" /\ replay[k] = <<>> /\ chan[k] = <<>> /\ k \in shut
       \/ at[owner[k]] # k
       \/ /\ phase[k] = "live" /\ replay[k] \o chan[k] # <<>>
          /\ Len(wire[k]) = WireCap
          /\ phase[MaxConns] = "none"       \* bound: the client can come back
    /\ phase' = [phase EXCEPT ![k] = "returned"]
    /\ subs' = subs \ {k}
    /\ replay' = [replay EXCEPT ![k] = <<>>]
    /\ replayed' = [replayed EXCEPT ![k] = {}]
    /\ chan' = [chan EXCEPT ![k] = <<>>]
    /\ UNCHANGED <<seq, ring, sending, shutdown, epoch, owner, since, shut, wire, written,
                   bridges, history>>

CloseAll ==
    /\ ~shutdown
    /\ shutdown' = TRUE
    /\ shut' = shut \union subs
    /\ subs' = {}
    /\ UNCHANGED <<seq, ring, sending, epoch, phase, owner, since, replay, replayed, chan,
                   wire, written, bridges, history>>

\* The process of the hub ends and another takes its place: NewHub.
Restart ==
    /\ epoch < MaxRestarts
    /\ epoch' = epoch + 1
    /\ seq' = 0 /\ ring' = <<>> /\ sending' = <<>> /\ subs' = {} /\ shutdown' = FALSE
    /\ phase' = [k \in Streams |-> IF phase[k] = "none" THEN "none" ELSE "returned"]
    /\ replay' = [k \in Streams |-> <<>>]
    /\ replayed' = [k \in Streams |-> {}]
    /\ chan' = [k \in Streams |-> <<>>]
    /\ shut' = {}
    /\ excused' = [c \in Clients |-> Names(log)]
    /\ UNCHANGED <<owner, since, wire, written, bridges, emitted, log>>

-----------------------------------------------------------------------------
(* A client: receive and stream, and the outbound loop of Bridge.          *)

Fresh(k) == phase[k] = "none" /\ \A j \in 1 .. k - 1 : phase[j] # "none"

\* stream sends its request, with the last number seen if there is one.
Connect(c) ==
    /\ at[c] = 0
    /\ \E k \in Streams :
         /\ Fresh(k)
         /\ at' = [at EXCEPT ![c] = k]
         /\ phase' = [phase EXCEPT ![k] = "requested"]
         /\ owner' = [owner EXCEPT ![k] = c]
         /\ since' = [since EXCEPT ![k] = lastID[c]]
    /\ UNCHANGED <<hub, replay, replayed, chan, shut, wire, written, lastID, local, heard,
                   history>>

\* Mutant of Read: the check of the number is left out.
ReadTwice(c) ==
    /\ at[c] # 0
    /\ wire[at[c]] # <<>>
    /\ LET ev == Head(wire[at[c]])
       IN  /\ wire' = [wire EXCEPT ![at[c]] = Tail(@)]
           /\ lastID' = [lastID EXCEPT ![c] = IF ev.id > @ THEN ev.id ELSE @]
           /\ IF ev.origin # c
              THEN /\ heard' = [heard EXCEPT ![c] = Append(@, ev)]
                   /\ local' = [local EXCEPT ![c] = Append(@, ev)]
              ELSE UNCHANGED <<heard, local>>
    /\ UNCHANGED <<hub, phase, owner, since, replay, replayed, chan, shut, written, at, history>>

\* stream takes the next event: one not above the last number is a duplicate,
\* one of its own origin an echo, and any other goes on the local bus.
Read(c) ==
    /\ at[c] # 0
    /\ wire[at[c]] # <<>>
    /\ LET ev == Head(wire[at[c]])
       IN  /\ wire' = [wire EXCEPT ![at[c]] = Tail(@)]
           /\ lastID' = [lastID EXCEPT ![c] = IF ev.id > @ THEN ev.id ELSE @]
           /\ IF ev.id > lastID[c] /\ ev.origin # c
              THEN /\ heard' = [heard EXCEPT ![c] = Append(@, ev)]
                   /\ local' = [local EXCEPT ![c] = Append(@, ev)]
              ELSE UNCHANGED <<heard, local>>
    /\ UNCHANGED <<hub, phase, owner, since, replay, replayed, chan, shut, written, at, history>>

\* The stream ends: the handler has returned and all it wrote has been read.
EndOfStream(c) ==
    /\ at[c] # 0
    /\ phase[at[c]] = "returned" /\ wire[at[c]] = <<>>
    /\ at' = [at EXCEPT ![c] = 0]
    /\ UNCHANGED <<hub, streams, lastID, local, heard, history>>

\* The connection breaks, and with it goes what was under way.
Break(c) ==
    /\ at[c] # 0
    /\ phase[MaxConns] = "none"             \* bound: the client can come back
    /\ at' = [at EXCEPT ![c] = 0]
    /\ wire' = [wire EXCEPT ![at[c]] = <<>>]
    /\ UNCHANGED <<hub, phase, owner, since, replay, replayed, chan, shut, written,
                   lastID, local, heard, history>>

\* The application puts an event of its own on the bus of c: it has no origin.
Emit(c, topic) ==
    /\ emitted < MaxEvents
    /\ emitted' = emitted + 1
    /\ local' = [local EXCEPT ![c] =
                   Append(@, [n |-> emitted + 1, topic |-> topic, origin |-> "none",
                              id |-> 0, epoch |-> 0])]
    /\ UNCHANGED <<hub, streams, at, lastID, heard, log, excused>>

\* The forwarder posts what has no origin, if it is of a topic that is bridged;
\* a post that fails is only counted.
Forward(c) ==
    /\ local[c] # <<>>
    /\ local' = [local EXCEPT ![c] = Tail(@)]
    /\ LET ev == Head(local[c])
       IN  IF ev.origin = "none" /\ Matches(ev)
           THEN \/ Accept(ev.n, ev.topic, c)
                \/ UNCHANGED <<hub, log>>
           ELSE UNCHANGED <<hub, log>>
    /\ UNCHANGED <<streams, at, lastID, heard, emitted, excused>>

-----------------------------------------------------------------------------
Handler(k) == AddSub(k) \/ Snapshot(k) \/ Replay(k) \/ Deliver(k) \/ Leave(k)
Receiver(c) == Connect(c) \/ Read(c) \/ EndOfStream(c)

Next ==
    \/ Broadcast \/ CloseAll
    \/ \E topic \in Topics : External(topic)
    \/ \E k \in Streams : Handler(k)
    \/ \E c \in Clients :
         \/ Receiver(c) \/ Break(c) \/ Forward(c)
         \/ \E topic \in Topics : Emit(c, topic)

Spec == Init /\ [][Next]_vars

\* The hub's handlers and the clients' loops keep running; nothing has to be
\* emitted, and nothing has to fail.
Fairness ==
    /\ WF_vars(Broadcast)
    /\ \A k \in Streams : WF_vars(Handler(k))
    /\ \A c \in Clients : WF_vars(Receiver(c))

FairSpec == Spec /\ Fairness

\* The same with a hub that is restarted now and then.
RestartSpec == Init /\ [][Next \/ Restart]_vars /\ Fairness

-----------------------------------------------------------------------------
\* What a client puts on its bus comes in the order in which the hub accepted
\* it, and no event comes twice, whatever is replayed on reconnection.
HeardInOrder ==
    \A c \in Clients : \A i, j \in DOMAIN heard[c] : i < j =>
        \/ heard[c][i].epoch < heard[c][j].epoch
        \/ heard[c][i].epoch = heard[c][j].epoch /\ heard[c][i].id < heard[c][j].id

\* An event crosses the hub once, however many bridges it meets: what a bridge
\* injected is not posted again, and no bridge hears its own events.
CrossesOnce ==
    /\ \A i, j \in DOMAIN log : log[i].n = log[j].n => i = j
    /\ \A c \in Clients : \A i \in DOMAIN heard[c] : heard[c][i].origin \notin {c, "none"}

\* An event below the number a client has reached was heard by it, unless it
\* is one of its own, not asked for, or one the hub gave up for this client:
\* the registration before the snapshot leaves nothing between them.
OnlyExcusedAreMissed ==
    \A c \in Clients : \A i \in DOMAIN log :
        log[i].id <= lastID[c] /\ Matches(log[i]) /\ log[i].origin # c
            => log[i].n \in Names(heard[c]) \union excused[c]

\* The hub delivers in the order of its numbers on every stream.
DeliversInIDOrder ==
    [][\A k \in Streams : Len(wire'[k]) > Len(wire[k]) =>
          wire'[k][Len(wire'[k])].id > written[k]]_vars

\* A client that discards an event for its number has heard it before.
DiscardsOnlyDuplicates ==
    [][\A c \in Clients :
          at[c] # 0 /\ at'[c] = at[c] /\ Len(wire'[at[c]]) < Len(wire[at[c]])
              /\ heard'[c] = heard[c]
          => LET ev == Head(wire[at[c]])
             IN ev.origin = c \/ ev.n \in Names(heard[c])]_vars

\* An event the hub accepts reaches every client it is meant for, through any
\* number of broken connections, unless the hub gives it up or is closed.
EventuallyHeard ==
    \A c \in Clients, n \in 1 .. MaxEvents :
        (\E i \in DOMAIN log : log[i].n = n /\ log[i].origin # c /\ Matches(log[i]))
            ~> (n \in Names(heard[c]) \union excused[c] \/ shutdown)

\* CloseAll ends every stream, those included that were asked for while it ran.
ShutdownEndsStreams ==
    \A k \in Streams : (shutdown /\ phase[k] # "none") ~> (phase[k] = "returned" \/ ~shutdown)

=============================================================================
