----------------------------- MODULE TaskBroker -----------------------------
(***************************************************************************)
(* The event broker of one asynchronous A2A task (a2a/taskstore.go).       *)
(*                                                                         *)
(* The task's goroutine (SendAsync, runStream) publishes lifecycle events; *)
(* any number of Subscribe calls replay the bounded buffer and then follow *)
(* a bounded channel of their own.  publish never waits: a subscriber      *)
(* whose channel is full is dropped, and ends by replaying the buffer's    *)
(* latest artifact and status (emitFinal).                                 *)
(*                                                                         *)
(* taskBroker.mu makes publish, close, subscribe, the unsubscribe function *)
(* and the scan in emitFinal one step each; everything between two of them *)
(* interleaves.                                                            *)
(***************************************************************************)
EXTENDS Naturals, Sequences

CONSTANTS
    Subs,       \* the Subscribe calls made for the task
    MaxBuf,     \* TaskStore.MaxBrokerEvents, after its default is applied
    ChanCap,    \* capacity of a subscriber's channel (64 in the code)
    MaxDeltas   \* bound: chunks the handler emits

ASSUME BrokerAssumption ==
    /\ MaxBuf \in Nat \ {0}
    /\ ChanCap \in Nat \ {0}
    /\ MaxDeltas \in Nat

VARIABLES
    phase,      \* how far the task's goroutine has come
    log,        \* every event published so far (history)
    buf,        \* taskBroker.buf
    live,       \* the keys of taskBroker.subs
    done,       \* taskBroker.done
    listed,     \* the broker is in TaskStore.brokers
    pc,         \* where each Subscribe call stands
    why,        \* why it stopped reading
    from,       \* position in log of the first event of its replay (history)
    todo,       \* replayed events it has still to emit
    chan,       \* its brokerSub.ch
    shut,       \* the subscribers whose channel is closed
    overflow,   \* the subscribers whose brokerSub.overflow is set
    got,        \* events handed to its sink from the replay and the channel
    coda        \* events emitFinal has handed to it

broker == <<phase, log, buf, live, done, listed>>
reader == <<pc, why, from, todo, chan, shut, overflow, got, coda>>
vars == <<broker, reader>>

-----------------------------------------------------------------------------
\* taskEvent: a status (end = final) or an artifact (end = lastChunk); n, its
\* position, stands for the text it carries.
Event == [n : Nat, kind : {"status", "artifact"}, end : BOOLEAN, append : BOOLEAN]

Status(final) ==
    [n |-> Len(log) + 1, kind |-> "status", end |-> final, append |-> FALSE]

Artifact(appendChunk, lastChunk) ==
    [n |-> Len(log) + 1, kind |-> "artifact", end |-> lastChunk, append |-> appendChunk]

IsFinal(ev) == ev.kind = "status" /\ ev.end
IsLastChunk(ev) == ev.kind = "artifact" /\ ev.end

Trim(b) == IF Len(b) > MaxBuf THEN SubSeq(b, Len(b) - MaxBuf + 1, Len(b)) ELSE b

\* What emitFinal replays: the latest artifact of the buffer, then its latest
\* status, each if there is one.
Latest(b, kind) ==
    LET at == {i \in DOMAIN b : b[i].kind = kind}
    IN  IF at = {} THEN <<>>
        ELSE << b[CHOOSE i \in at : \A j \in at : j <= i] >>

\* Mutant of Summary: the status goes out before the artifact.
SummaryReversed(b) == Latest(b, "status") \o Latest(b, "artifact")

Summary(b) == Latest(b, "artifact") \o Latest(b, "status")

-----------------------------------------------------------------------------
Init ==
    /\ phase = "begun"
    /\ log = <<>> /\ buf = <<>>
    /\ live = {}
    /\ done = FALSE
    /\ listed = TRUE
    /\ pc = [s \in Subs |-> "idle"]
    /\ why = [s \in Subs |-> "none"]
    /\ from = [s \in Subs |-> 1]
    /\ todo = [s \in Subs |-> <<>>]
    /\ chan = [s \in Subs |-> <<>>]
    /\ shut = {}
    /\ overflow = {}
    /\ got = [s \in Subs |-> <<>>]
    /\ coda = [s \in Subs |-> <<>>]

-----------------------------------------------------------------------------
(* The task's goroutine.                                                   *)

\* Mutant of Full: one place of the channel is never used.
NearlyFull == {s \in live : Len(chan[s]) + 1 >= ChanCap}

Full == {s \in live : Len(chan[s]) = ChanCap}

\* Mutant of Publish: an event that does not fit is skipped, the subscriber kept.
PublishSkipping(ev) ==
    /\ log' = Append(log, ev)
    /\ buf' = Trim(Append(buf, ev))
    /\ chan' = [s \in Subs |-> IF s \in live \ Full THEN Append(chan[s], ev) ELSE chan[s]]
    /\ UNCHANGED <<live, done, listed, pc, why, from, todo, shut, overflow, got, coda>>

\* Mutant of Publish: the dropped subscriber stays in taskBroker.subs.
PublishKeeping(ev) ==
    /\ log' = Append(log, ev)
    /\ buf' = Trim(Append(buf, ev))
    /\ chan' = [s \in Subs |-> IF s \in live \ Full THEN Append(chan[s], ev) ELSE chan[s]]
    /\ overflow' = overflow \union Full
    /\ shut' = shut \union Full
    /\ UNCHANGED <<live, done, listed, pc, why, from, todo, got, coda>>

Publish(ev) ==
    /\ log' = Append(log, ev)
    /\ buf' = Trim(Append(buf, ev))
    /\ chan' = [s \in Subs |-> IF s \in live \ Full THEN Append(chan[s], ev) ELSE chan[s]]
    /\ overflow' = overflow \union Full
    /\ shut' = shut \union Full
    /\ live' = live \ Full
    /\ UNCHANGED <<done, listed, pc, why, from, todo, got, coda>>

AnnounceWorking ==
    /\ phase = "begun"
    /\ Publish(Status(FALSE))
    /\ phase' = "running"

\* The first chunk of the handler establishes the artifact, later ones append.
EmitDelta ==
    /\ phase = "running"
    /\ Len(log) <= MaxDeltas
    /\ Publish(Artifact(Len(log) > 1, FALSE))
    /\ UNCHANGED phase

\* The handler failed, or Cancel came first: no artifact, straight to final.
FinishWithout ==
    /\ phase = "running"
    /\ Publish(Status(TRUE))
    /\ phase' = "finished"

EmitLastChunk ==
    /\ phase = "running"
    /\ Publish(Artifact(FALSE, TRUE))
    /\ phase' = "completed"

AnnounceCompleted ==
    /\ phase = "completed"
    /\ Publish(Status(TRUE))
    /\ phase' = "finished"

Close ==
    /\ phase = "finished"
    /\ phase' = "closed"
    /\ done' = TRUE
    /\ shut' = shut \union live
    /\ live' = {}
    /\ UNCHANGED <<log, buf, listed, pc, why, from, todo, chan, overflow, got, coda>>

FinishAsync ==
    /\ phase = "closed"
    /\ phase' = "retired"
    /\ listed' = FALSE
    /\ UNCHANGED <<log, buf, live, done, reader>>

Publisher ==
    \/ AnnounceWorking \/ EmitDelta \/ FinishWithout
    \/ EmitLastChunk \/ AnnounceCompleted \/ Close \/ FinishAsync

-----------------------------------------------------------------------------
(* One Subscribe call.                                                     *)

\* Reads TaskStore.brokers under the store's lock; without a broker Subscribe
\* returns false.
Lookup(s) ==
    /\ pc[s] = "idle"
    /\ pc' = [pc EXCEPT ![s] = IF listed THEN "found" ELSE "refused"]
    /\ UNCHANGED <<broker, why, from, todo, chan, shut, overflow, got, coda>>

\* Mutant of Attach: a subscriber of a closed broker is registered all the same.
AttachUnchecked(s) ==
    /\ pc[s] = "found"
    /\ pc' = [pc EXCEPT ![s] = "attached"]
    /\ todo' = [todo EXCEPT ![s] = buf]
    /\ from' = [from EXCEPT ![s] = Len(log) - Len(buf) + 1]
    /\ live' = live \union {s}
    /\ UNCHANGED <<phase, log, buf, done, listed, why, chan, shut, overflow, got, coda>>

\* taskBroker.subscribe: the replay copy and the registration are one step, and
\* the broker may have been closed, or retired, since Lookup.
Attach(s) ==
    /\ pc[s] = "found"
    /\ pc' = [pc EXCEPT ![s] = "attached"]
    /\ todo' = [todo EXCEPT ![s] = buf]
    /\ from' = [from EXCEPT ![s] = Len(log) - Len(buf) + 1]
    /\ IF done
       THEN shut' = shut \union {s} /\ UNCHANGED live
       ELSE live' = live \union {s} /\ UNCHANGED shut
    /\ UNCHANGED <<phase, log, buf, done, listed, why, chan, overflow, got, coda>>

Replay(s) ==
    /\ pc[s] = "attached"
    /\ todo[s] # <<>>
    /\ got' = [got EXCEPT ![s] = Append(@, Head(todo[s]))]
    /\ todo' = [todo EXCEPT ![s] = Tail(@)]
    /\ UNCHANGED <<broker, pc, why, from, chan, shut, overflow, coda>>

Receive(s) ==
    /\ pc[s] = "attached"
    /\ todo[s] = <<>>
    /\ chan[s] # <<>>
    /\ got' = [got EXCEPT ![s] = Append(@, Head(chan[s]))]
    /\ chan' = [chan EXCEPT ![s] = Tail(@)]
    /\ UNCHANGED <<broker, pc, why, from, todo, shut, overflow, coda>>

Stop(s, reason) ==
    /\ pc' = [pc EXCEPT ![s] = "leaving"]
    /\ why' = [why EXCEPT ![s] = reason]

\* Mutant of Finish: a closed channel ends the stream without a look at overflow.
FinishBlindly(s) ==
    /\ pc[s] = "attached"
    /\ todo[s] = <<>> /\ chan[s] = <<>>
    /\ s \in shut
    /\ Stop(s, "closed")
    /\ UNCHANGED <<broker, from, todo, chan, shut, overflow, got, coda>>

\* The channel is drained and closed.
Finish(s) ==
    /\ pc[s] = "attached"
    /\ todo[s] = <<>> /\ chan[s] = <<>>
    /\ s \in shut \ overflow
    /\ Stop(s, "closed")
    /\ UNCHANGED <<broker, from, todo, chan, shut, overflow, got, coda>>

FinishSlow(s) ==
    /\ pc[s] = "attached"
    /\ todo[s] = <<>> /\ chan[s] = <<>>
    /\ s \in shut \intersect overflow
    /\ Stop(s, "slow")
    /\ coda' = [coda EXCEPT ![s] = Summary(buf)]
    /\ UNCHANGED <<broker, from, todo, chan, shut, overflow, got>>

\* The sink refuses the event handed to it: the receiver is gone.  In
\* emitFinal that ends the summary, of which nothing arrives.
SinkFails(s) ==
    /\ pc[s] = "attached"
    /\ \/ /\ todo[s] # <<>>
          /\ got' = [got EXCEPT ![s] = Append(@, Head(todo[s]))]
          /\ todo' = [todo EXCEPT ![s] = Tail(@)]
          /\ UNCHANGED chan
       \/ /\ todo[s] = <<>> /\ chan[s] # <<>>
          /\ got' = [got EXCEPT ![s] = Append(@, Head(chan[s]))]
          /\ chan' = [chan EXCEPT ![s] = Tail(@)]
          /\ UNCHANGED todo
       \/ /\ todo[s] = <<>> /\ chan[s] = <<>>
          /\ s \in shut \intersect overflow
          /\ Summary(buf) # <<>>
          /\ UNCHANGED <<got, todo, chan>>
    /\ Stop(s, "sink")
    /\ UNCHANGED <<broker, from, shut, overflow, coda>>

\* ctx.Done is watched only once the replay has been emitted.
ContextDone(s) ==
    /\ pc[s] = "attached"
    /\ todo[s] = <<>>
    /\ Stop(s, "ctx")
    /\ UNCHANGED <<broker, from, todo, chan, shut, overflow, got, coda>>

\* The deferred unsub: closes the channel only while it is still registered.
Unsubscribe(s) ==
    /\ pc[s] = "leaving"
    /\ pc' = [pc EXCEPT ![s] = "returned"]
    /\ shut' = shut \union (live \intersect {s})
    /\ live' = live \ {s}
    /\ UNCHANGED <<phase, log, buf, done, listed, why, from, todo, chan, overflow, got, coda>>

Proceed(s) ==
    \/ Attach(s) \/ Replay(s) \/ Receive(s)
    \/ Finish(s) \/ FinishSlow(s) \/ Unsubscribe(s)

Subscriber(s) == Lookup(s) \/ Proceed(s) \/ SinkFails(s) \/ ContextDone(s)

Next == Publisher \/ \E s \in Subs : Subscriber(s)

Spec == Init /\ [][Next]_vars

\* The goroutine runs to its end (the handler returns); a Subscribe call that
\* has been made keeps running.  Nothing forces a caller to subscribe, a sink
\* to fail or a context to end.
Fairness ==
    /\ WF_vars(Publisher)
    /\ \A s \in Subs : WF_vars(Proceed(s))

FairSpec == Spec /\ Fairness

-----------------------------------------------------------------------------
\* The events a subscriber has, or has waiting for it, in order.
Stream(s) == got[s] \o todo[s] \o chan[s]

\* The log position of the last of them.
Reached(s) == from[s] + Len(Stream(s)) - 1

Joined(s) == pc[s] \in {"attached", "leaving", "returned"}

TypeOK ==
    /\ phase \in {"begun", "running", "completed", "finished", "closed", "retired"}
    /\ log \in Seq(Event)
    /\ buf \in Seq(Event) /\ Len(buf) <= MaxBuf
    /\ live \in SUBSET Subs
    /\ done \in BOOLEAN /\ listed \in BOOLEAN
    /\ pc \in [Subs -> {"idle", "refused", "found", "attached", "leaving", "returned"}]
    /\ why \in [Subs -> {"none", "closed", "slow", "sink", "ctx"}]
    /\ from \in [Subs -> Nat \ {0}]
    /\ todo \in [Subs -> Seq(Event)]
    /\ chan \in [Subs -> Seq(Event)]
    /\ \A s \in Subs : Len(chan[s]) <= ChanCap
    /\ shut \in SUBSET Subs /\ overflow \in SUBSET Subs
    /\ got \in [Subs -> Seq(Event)]
    /\ coda \in [Subs -> Seq(Event)]

\* What subscribers receive from the replay and the channel together is one
\* gapless, duplicate-free stretch of the published events in their order: the
\* copy of the buffer and the registration in subscribe leave no event between
\* them, and none is delivered twice.
Gapless ==
    \A s \in Subs :
        /\ Reached(s) <= Len(log)
        /\ \A i \in 1 .. Len(Stream(s)) : Stream(s)[i] = log[from[s] + i - 1]

\* A subscriber is registered exactly while its channel is open; a registered
\* one, and one whose channel was closed by the end of the task, has every
\* event up to the last one published in hand or waiting.  So publish never
\* sends on a closed channel, close and unsub never close one twice, and only
\* the overflow flag marks a subscriber that lost events.
NothingMissed ==
    \A s \in Subs :
        /\ s \in live => Joined(s) /\ s \notin shut
        /\ Joined(s) => s \in live \union shut
        /\ s \in live \/ (pc[s] = "attached" /\ s \notin overflow) => Reached(s) = Len(log)

\* A stream that ends because the task's broker was closed has delivered the
\* final status last, and right before it the lastChunk artifact when the task
\* completed.
ClosedStreamIsComplete ==
    \A s \in Subs : why[s] = "closed" =>
        /\ got[s] # <<>>
        /\ IsFinal(got[s][Len(got[s])])
        /\ Len(log) > 1 /\ IsLastChunk(log[Len(log) - 1]) /\ MaxBuf > 1 =>
             Len(got[s]) > 1 /\ IsLastChunk(got[s][Len(got[s]) - 1])

\* A dropped subscriber that asks for its summary after the broker was closed
\* is given the end of the log: the final status, after the lastChunk artifact
\* when there is one.
SummaryAfterCloseIsFinal ==
    [][\A s \in Subs : why[s] = "none" /\ why'[s] = "slow" /\ done =>
          /\ coda'[s] # <<>>
          /\ coda'[s][Len(coda'[s])] = log[Len(log)]
          /\ IsLastChunk(log[Len(log) - 1]) /\ MaxBuf > 1 =>
               coda'[s][1] = log[Len(log) - 1]]_vars

\* Every subscriber is told an outcome: a stream that the broker ends, also one
\* it dropped for being slow, ends on the final status.
EndedStreamIsFinal ==
    \A s \in Subs : why[s] \in {"closed", "slow"} =>
        LET all == got[s] \o coda[s] IN all # <<>> /\ IsFinal(all[Len(all)])

\* A Subscribe call that found the broker returns: whatever the other
\* subscribers do, close or the drop ends its wait.
SubscribersReturn == \A s \in Subs : pc[s] = "found" ~> pc[s] = "returned"

\* The abstract promise, read off the broker's state.
Feed == INSTANCE TaskFeed WITH
    Readers <- Subs,
    Lag <- ChanCap,
    feed <- log,
    sealed <- done,
    start <- from,
    seen <- got,
    cutAt <- [s \in Subs |-> IF s \in overflow THEN Reached(s) ELSE 0],
    state <- [s \in Subs |->
                IF ~Joined(s) THEN "out"
                ELSE IF why[s] = "none" THEN "in"
                ELSE IF why[s] \in {"closed", "slow"} THEN "ended" ELSE "left"]

\* Every behaviour of the broker is one of the feed.
ImplementsFeed == Feed!FeedSpec

=============================================================================
