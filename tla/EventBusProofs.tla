--------------------------- MODULE EventBusProofs ---------------------------
(***************************************************************************)
(* A send on a closed channel panics in Go.  That Publish never makes one, *)
(* for any number of agents, rests on the lock: whoever closes a channel   *)
(* takes it alone, and a Publish that holds it has only registered         *)
(* subscribers left.                                                       *)
(*                                                                         *)
(* That the exit tells of every event rests on following each from Publish *)
(* to the reader: at every moment it is pending, in the reader's channel,  *)
(* in hand, told, or one of at most as many as were counted lost.  At the  *)
(* exit nothing is pending and no channel holds anything, so what remains  *)
(* is what was told and what was counted.                                  *)
(***************************************************************************)
EXTENDS EventBus, FiniteSetTheorems, SequenceTheorems, TLAPS

\* Each of the two readers subscribes once, so that a channel once closed is
\* never registered again.
IInv ==
    /\ left = [a \in Sources |-> left[a]]
    /\ \A a \in Sources : left[a] \subseteq subs
    /\ \A a \in Sources : a \notin holding => left[a] = {}
    /\ holding \subseteq Sources
    /\ subs \cap closed = {}
    /\ main = "new" => "printer" \notin subs \cup closed
    /\ bridge \in {"new", "begun"} => "bridge" \notin subs \cup closed

LEMMA InitIInv == BusInit => IInv
BY DEF BusInit, IInv

LEMMA SourceIInv ==
    ASSUME IInv, NEW a \in Sources, Source(a)
    PROVE  IInv'
<1>. USE DEF IInv
<1>1. CASE Publish(a)
  BY <1>1 DEF Publish, runVars
<1>2. CASE Unlock(a)
  BY <1>2 DEF Unlock, runVars
<1>3. ASSUME NEW s \in Readers, Offer(a, s)
      PROVE  IInv'
  BY <1>3 DEF Offer, runVars
<1>. QED
  BY <1>1, <1>2, <1>3 DEF Source

LEMMA CommandIInv ==
    ASSUME IInv, Command \/ Trace \/ Signal
    PROVE  IInv'
<1>. USE DEF IInv
<1>1. CASE Observe
  BY <1>1 DEF Observe, Subscribe, Locked
<1>2. CASE Build
  BY <1>2 DEF Build, CloseBus, Locked, busVars
<1>3. CASE CloseAfterRun
  BY <1>3 DEF CloseAfterRun, CloseBus, Locked
<1>4. CASE RunEnds \/ Printed \/ Exit \/ Trace \/ Signal
  BY <1>4 DEF RunEnds, Printed, Exit, Trace, Signal, busVars
<1>. QED
  BY <1>1, <1>2, <1>3, <1>4 DEF Command

LEMMA BridgeIInv ==
    ASSUME IInv, Bridge
    PROVE  IInv'
<1>. USE DEF IInv, Bridged
<1>1. CASE BridgeSubscribes
  BY <1>1 DEF BridgeSubscribes, Subscribe, Locked
<1>2. CASE BridgeEnds
  BY <1>2 DEF BridgeEnds, Unsubscribe, Locked
<1>3. CASE BridgeBegins \/ BridgeTakes \/ BridgePosts
  BY <1>3 DEF BridgeBegins, BridgeTakes, BridgePosts, busVars
<1>. QED
  BY <1>1, <1>2, <1>3 DEF Bridge

LEMMA NextIInv == IInv /\ [BusNext]_allBusVars => IInv'
<1>. SUFFICES ASSUME IInv, [BusNext]_allBusVars
              PROVE  IInv'
  OBVIOUS
<1>1. CASE UNCHANGED allBusVars
  BY <1>1 DEF IInv, allBusVars, busVars, runVars
<1>. QED
  BY <1>1, SourceIInv, CommandIInv, BridgeIInv DEF BusNext

\* Publish never sends on a channel that Close or an unsubscribe has closed.
THEOREM BusSendsOnlyOnOpen == BusSpec => []SendsOnlyOnOpen
<1>1. IInv => SendsOnlyOnOpen
  BY DEF IInv, SendsOnlyOnOpen
<1>. QED
  BY <1>1, InitIInv, NextIInv, PTL DEF BusSpec

-----------------------------------------------------------------------------
(* The account of a run.  An event is printed, or in the printer's channel, *)
(* or still to be offered to it, or lost; and so for the bridge, with what  *)
(* it has in hand and what it failed to post.                               *)

Event == Sources \X Nat

\* The events that Publish calls have still to offer to a reader.
Pending(s) == {<<a, sent[a]>> : a \in {b \in Sources : s \in left[b]}}

Hand == IF bridge = "posting" THEN {posting} ELSE {}

Nothing == [a \in Sources |-> 0]

Unprinted == Emitted(Agents, Nothing) \ (Range(printed) \cup Range(mail["printer"]) \cup Pending("printer"))

Unposted == Emitted(Agents, since) \ (Range(posted) \cup Hand \cup Range(mail["bridge"]) \cup Pending("bridge"))

Earlier(S, T) == \A d \in S, e \in T : d[1] = e[1] => d[2] < e[2]

\* What a reader has had comes before what waits for it, in its order.
Orderly(had, waiting, pending) ==
    /\ InOrder(had) /\ InOrder(waiting)
    /\ Earlier(Range(had), Range(waiting) \cup pending)
    /\ Earlier(Range(waiting), pending)

RunTyped ==
    /\ sent \in [Sources -> Nat] /\ since \in [Sources -> Nat]
    /\ \A a \in Agents : sent[a] <= NEvents
    /\ lost \in Nat /\ failures \in Nat
    /\ mail \in [Readers -> Seq(Event)] /\ printed \in Seq(Event) /\ posted \in Seq(Event)
    /\ bridge = "posting" => posting \in Event

\* Where the command and the bridge stand, and what is open.
Stands ==
    /\ shut => main \in {"draining", "flushing", "exited"}
    /\ main \in {"building", "running", "ended"} => "printer" \in subs
    /\ main \in {"flushing", "exited"} => "printer" \in closed /\ mail["printer"] = <<>>
    /\ main = "exited" /\ ~hurried => bridge = "returned"
    /\ bridge \in {"new", "begun"} => posted = <<>> /\ mail["bridge"] = <<>>
    /\ bridge \in {"selecting", "posting"} => "bridge" \in subs \/ shut
    /\ bridge = "returned" => "bridge" \notin subs
    /\ bridge = "returned" /\ ~stopped => shut /\ mail["bridge"] = <<>>

PrinterInv ==
    /\ Orderly(printed, mail["printer"], Pending("printer"))
    /\ \A e \in Range(printed) \cup Range(mail["printer"]) : e[2] <= sent[e[1]]
    /\ Cardinality(Unprinted) <= lost

BridgeInv ==
    /\ Orderly(posted, mail["bridge"], Pending("bridge"))
    /\ Earlier(Range(posted), Hand) /\ Earlier(Hand, Range(mail["bridge"]) \cup Pending("bridge"))
    /\ \A e \in Range(posted) \cup Hand : e[1] \in Agents
    /\ \A e \in Range(posted) \cup Hand \cup Range(mail["bridge"]) : since[e[1]] < e[2] /\ e[2] <= sent[e[1]]
    /\ \A e \in Pending("bridge") : since[e[1]] < e[2]
    /\ \A a \in Sources : since[a] <= sent[a]
    /\ bridge \in {"selecting", "posting"} \/ (bridge = "returned" /\ ~stopped) =>
          Cardinality(Unposted) <= failures + lost

Account == IInv /\ RunTyped /\ Stands /\ PrinterInv /\ BridgeInv

-----------------------------------------------------------------------------
(* Sequences and sets of events.                                           *)

LEMMA SeqOfEvents ==
    ASSUME NEW s \in Seq(Event)
    PROVE  /\ DOMAIN s = 1 .. Len(s) /\ Len(s) \in Nat
           /\ Range(s) = {s[i] : i \in 1 .. Len(s)} /\ Range(s) \subseteq Event
<1>1. DOMAIN s = 1 .. Len(s) /\ Len(s) \in Nat
  BY LenProperties
<1>2. \A i \in 1 .. Len(s) : s[i] \in Event
  BY ElementOfSeq
<1>. QED
  BY <1>1, <1>2 DEF Range

LEMMA EventsAppended ==
    ASSUME NEW s \in Seq(Event), NEW e \in Event
    PROVE  /\ Append(s, e) \in Seq(Event)
           /\ Range(Append(s, e)) = Range(s) \cup {e}
           /\ InOrder(s) /\ (\A d \in Range(s) : d[1] = e[1] => d[2] < e[2]) => InOrder(Append(s, e))
<1> DEFINE t == Append(s, e)
<1>1. /\ t \in Seq(Event) /\ Len(t) = Len(s) + 1 /\ Len(s) \in Nat
      /\ \A i \in 1 .. Len(s) : t[i] = s[i]
      /\ t[Len(s) + 1] = e
  BY AppendProperties, LenProperties
<1>2. Range(s) = {s[i] : i \in 1 .. Len(s)} /\ Range(t) = {t[i] : i \in 1 .. Len(t)}
  BY <1>1, SeqOfEvents
<1>. HIDE DEF t
<1>3. Range(t) = Range(s) \cup {e}
  <2>1. 1 .. Len(t) = 1 .. Len(s) \cup {Len(s) + 1}
    BY <1>1
  <2>. QED
    BY <1>1, <1>2, <2>1
<1>4. ASSUME InOrder(s), \A d \in Range(s) : d[1] = e[1] => d[2] < e[2]
      PROVE  InOrder(t)
  <2>. SUFFICES ASSUME NEW i \in 1 .. Len(t), NEW j \in 1 .. Len(t), i < j, t[i][1] = t[j][1]
                PROVE  t[i][2] < t[j][2]
    BY DEF InOrder
  <2>1. i \in 1 .. Len(s)
    BY <1>1
  <2>2. CASE j \in 1 .. Len(s)
    BY <1>1, <1>4, <2>1, <2>2 DEF InOrder
  <2>3. CASE j = Len(s) + 1
    <3>1. s[i] \in Range(s)
      BY <1>2, <2>1
    <3>. QED
      BY <1>1, <1>4, <2>1, <2>3, <3>1
  <2>. QED
    BY <1>1, <2>2, <2>3
<1>. QED
  BY <1>1, <1>3, <1>4 DEF t

LEMMA EventsTaken ==
    ASSUME NEW s \in Seq(Event), s # <<>>
    PROVE  /\ Head(s) \in Event /\ Tail(s) \in Seq(Event)
           /\ Range(s) = {Head(s)} \cup Range(Tail(s))
           /\ InOrder(s) => InOrder(Tail(s)) /\ Earlier({Head(s)}, Range(Tail(s)))
<1> DEFINE t == Tail(s)
<1>1. /\ Head(s) \in Event /\ t \in Seq(Event) /\ Len(t) = Len(s) - 1 /\ Len(s) \in Nat \ {0}
      /\ \A i \in 1 .. Len(t) : t[i] = s[i + 1]
      /\ Head(s) = s[1]
  BY HeadTailProperties, LenProperties, EmptySeq
<1>2. Range(s) = {s[i] : i \in 1 .. Len(s)} /\ Range(t) = {t[i] : i \in 1 .. Len(t)}
  BY <1>1, SeqOfEvents
<1>. HIDE DEF t
<1>3. Range(s) = {Head(s)} \cup Range(t)
  <2>1. \A i \in 1 .. Len(s) : i = 1 \/ (i - 1 \in 1 .. Len(t) /\ s[i] = t[i - 1])
    BY <1>1
  <2>2. \A i \in 1 .. Len(t) : i + 1 \in 1 .. Len(s) /\ t[i] = s[i + 1]
    BY <1>1
  <2>3. 1 \in 1 .. Len(s)
    BY <1>1
  <2>. QED
    BY <1>1, <1>2, <2>1, <2>2, <2>3
<1>4. ASSUME InOrder(s) PROVE InOrder(t) /\ Earlier({Head(s)}, Range(t))
  <2>1. ASSUME NEW i \in 1 .. Len(t), NEW j \in 1 .. Len(t), i < j, t[i][1] = t[j][1]
        PROVE  t[i][2] < t[j][2]
    <3>1. i + 1 \in 1 .. Len(s) /\ j + 1 \in 1 .. Len(s) /\ i + 1 < j + 1
      BY <1>1, <2>1
    <3>. QED
      BY <1>1, <1>4, <2>1, <3>1 DEF InOrder
  <2>2. ASSUME NEW j \in 1 .. Len(t), s[1][1] = t[j][1] PROVE s[1][2] < t[j][2]
    <3>1. 1 \in 1 .. Len(s) /\ j + 1 \in 1 .. Len(s) /\ 1 < j + 1
      BY <1>1, <2>2
    <3>. QED
      BY <1>1, <1>4, <2>2, <3>1 DEF InOrder
  <2>. QED
    BY <1>1, <1>2, <2>1, <2>2 DEF InOrder, Earlier
<1>. QED
  BY <1>1, <1>3, <1>4 DEF t

\* An event that was pending joins what waits.
LEMMA OrderlyOffer ==
    ASSUME NEW had, NEW waiting \in Seq(Event), NEW pending, NEW left_, NEW e \in Event, e \in pending,
           Orderly(had, waiting, pending), left_ \subseteq pending, \A d \in left_ : d[1] # e[1]
    PROVE  Orderly(had, Append(waiting, e), left_)
<1>1. /\ Range(Append(waiting, e)) = Range(waiting) \cup {e}
      /\ \A d \in Range(waiting) : d[1] = e[1] => d[2] < e[2]
  BY EventsAppended DEF Orderly, Earlier
<1>2. InOrder(Append(waiting, e))
  BY <1>1, EventsAppended DEF Orderly
<1>. QED
  BY <1>1, <1>2 DEF Orderly, Earlier

\* The first that waits is had, or passed over.
LEMMA OrderlyTake ==
    ASSUME NEW had \in Seq(Event), NEW waiting \in Seq(Event), NEW pending, waiting # <<>>,
           Orderly(had, waiting, pending)
    PROVE  /\ Orderly(Append(had, Head(waiting)), Tail(waiting), pending)
           /\ Orderly(had, Tail(waiting), pending)
           /\ Earlier(Range(had), {Head(waiting)})
           /\ Earlier({Head(waiting)}, Range(Tail(waiting)) \cup pending)
<1> DEFINE e == Head(waiting)
           t == Tail(waiting)
<1>1. /\ e \in Event /\ t \in Seq(Event) /\ Range(waiting) = {e} \cup Range(t)
      /\ InOrder(t) /\ Earlier({e}, Range(t))
  BY EventsTaken DEF Orderly
<1>. HIDE DEF e, t
<1>2. Earlier(Range(had), {e}) /\ Earlier({e}, Range(t) \cup pending)
  BY <1>1 DEF Orderly, Earlier
<1>3. InOrder(Append(had, e)) /\ Range(Append(had, e)) = Range(had) \cup {e}
  BY <1>1, <1>2, EventsAppended DEF Orderly, Earlier
<1>4. Orderly(Append(had, e), t, pending)
  BY <1>1, <1>2, <1>3 DEF Orderly, Earlier
<1>5. Orderly(had, t, pending)
  BY <1>1 DEF Orderly, Earlier
<1>. QED
  BY <1>2, <1>4, <1>5 DEF e, t

\* Pending events go, or come above all there are.
LEMMA OrderlyPending ==
    ASSUME NEW had, NEW waiting, NEW pending, NEW now, Orderly(had, waiting, pending),
           \A e \in now : e \in pending \/ \A d \in Range(had) \cup Range(waiting) : d[1] = e[1] => d[2] < e[2]
    PROVE  Orderly(had, waiting, now)
BY DEF Orderly, Earlier

\* One more is lost, or none.
LEMMA OneMore ==
    ASSUME NEW S, IsFiniteSet(S), NEW n \in Nat, Cardinality(S) <= n, NEW x, NEW T
    PROVE  /\ T \subseteq S => Cardinality(T) <= n
           /\ T \subseteq S \cup {x} => Cardinality(T) <= n + 1
<1>1. /\ IsFiniteSet(S \cup {x}) /\ Cardinality(S) \in Nat
      /\ Cardinality(S \cup {x}) <= n + 1 /\ Cardinality(S \cup {x}) \in Nat
  BY FS_AddElement, FS_CardinalityType
<1>2. ASSUME T \subseteq S PROVE Cardinality(T) <= n
  <2>1. IsFiniteSet(T) /\ Cardinality(T) <= Cardinality(S)
    BY <1>2, FS_Subset
  <2>. QED
    BY <1>1, <2>1, FS_CardinalityType
<1>3. ASSUME T \subseteq S \cup {x} PROVE Cardinality(T) <= n + 1
  <2>1. IsFiniteSet(T) /\ Cardinality(T) <= Cardinality(S \cup {x})
    BY <1>1, <1>3, FS_Subset
  <2>2. Cardinality(T) \in Nat
    BY <2>1, FS_CardinalityType
  <2>. QED
    BY <1>1, <2>1, <2>2
<1>. QED
  BY <1>2, <1>3

LEMMA EmittedIsFinite ==
    ASSUME NEW from
    PROVE  /\ IsFiniteSet(Emitted(Agents, from))
           /\ \A U : IsFiniteSet(Emitted(Agents, from) \ U)
<1>1. IsFiniteSet(1 .. NEvents)
  BY BusAssumption, FS_Interval
<1>2. IsFiniteSet(Agents \X (1 .. NEvents))
  BY <1>1, BusAssumption, FS_Product
<1>3. Emitted(Agents, from) \subseteq Agents \X (1 .. NEvents)
  BY DEF Emitted
<1>4. \A U : Emitted(Agents, from) \ U \subseteq Agents \X (1 .. NEvents)
  BY <1>3
<1>. QED
  BY <1>2, <1>3, <1>4, FS_Subset

-----------------------------------------------------------------------------
(* What is pending, step by step.                                          *)

LEMMA PendingKept ==
    ASSUME NEW s, left' = left, sent' = sent
    PROVE  Pending(s)' = Pending(s)
BY DEF Pending

LEMMA PendingOffered ==
    ASSUME IInv, NEW a \in Sources, NEW s \in Readers, Offer(a, s)
    PROVE  /\ <<a, sent[a]>> \in Pending(s)
           /\ \A e \in Pending(s)' : e \in Pending(s) /\ e[1] # a
           /\ \A e \in Pending(s) : e = <<a, sent[a]>> \/ e \in Pending(s)'
           /\ \A q \in Readers : q # s => Pending(q)' = Pending(q)
<1>1. /\ s \in left[a] /\ sent' = sent
      /\ left'[a] = left[a] \ {s} /\ \A b \in Sources : b # a => left'[b] = left[b]
  BY DEF Offer, IInv
<1>2. ASSUME NEW e \in Pending(s)' PROVE e \in Pending(s) /\ e[1] # a
  <2>1. PICK b \in Sources : s \in left'[b] /\ e = <<b, sent[b]>>
    BY <1>1 DEF Pending
  <2>2. b # a
    BY <1>1, <2>1
  <2>. QED
    BY <1>1, <2>1, <2>2 DEF Pending
<1>3. ASSUME NEW e \in Pending(s) PROVE e = <<a, sent[a]>> \/ e \in Pending(s)'
  <2>1. PICK b \in Sources : s \in left[b] /\ e = <<b, sent[b]>>
    BY DEF Pending
  <2>. QED
    BY <1>1, <2>1 DEF Pending
<1>4. ASSUME NEW q \in Readers, q # s PROVE Pending(q)' = Pending(q)
  <2>1. \A b \in Sources : q \in left'[b] <=> q \in left[b]
    BY <1>1, <1>4
  <2>. QED
    BY <1>1, <2>1 DEF Pending
<1>5. <<a, sent[a]>> \in Pending(s)
  BY <1>1 DEF Pending
<1>. QED
  BY <1>2, <1>3, <1>4, <1>5

\* The event of a Publish that begins is pending for whoever is registered.
LEMMA PendingPublished ==
    ASSUME IInv, RunTyped, NEW a \in Sources, Publish(a), NEW s \in Readers
    PROVE  /\ \A e \in Pending(s)' : e \in Pending(s) \/ e = <<a, sent[a] + 1>>
           /\ Pending(s) \subseteq Pending(s)'
           /\ s \in subs => <<a, sent[a] + 1>> \in Pending(s)'
<1>1. /\ left[a] = {} /\ left'[a] = subs /\ sent'[a] = sent[a] + 1
      /\ \A b \in Sources : b # a => left'[b] = left[b] /\ sent'[b] = sent[b]
  BY DEF Publish, IInv, RunTyped
<1>2. ASSUME NEW e \in Pending(s)' PROVE e \in Pending(s) \/ e = <<a, sent[a] + 1>>
  <2>1. PICK b \in Sources : s \in left'[b] /\ e = <<b, sent'[b]>>
    BY <1>1 DEF Pending
  <2>. QED
    BY <1>1, <2>1 DEF Pending
<1>3. ASSUME NEW e \in Pending(s) PROVE e \in Pending(s)'
  <2>1. PICK b \in Sources : s \in left[b] /\ e = <<b, sent[b]>>
    BY DEF Pending
  <2>2. b # a
    BY <1>1, <2>1
  <2>3. s \in left'[b] /\ e = <<b, sent'[b]>>
    BY <1>1, <2>1, <2>2
  <2>. QED
    BY <2>3 DEF Pending
<1>4. ASSUME s \in subs PROVE <<a, sent[a] + 1>> \in Pending(s)'
  <2>1. s \in left'[a] /\ <<a, sent[a] + 1>> = <<a, sent'[a]>>
    BY <1>1, <1>4
  <2>. QED
    BY <2>1 DEF Pending
<1>. QED
  BY <1>2, <1>3, <1>4

LEMMA EmittedPublished ==
    ASSUME RunTyped, NEW a \in Sources, Publish(a), NEW from \in [Sources -> Nat]
    PROVE  /\ \A e \in {x \in Agents \X (1 .. NEvents) : from[x[1]] < x[2] /\ x[2] <= sent'[x[1]]} :
                 e \in Emitted(Agents, from) \/ (a \in Agents /\ e = <<a, sent[a] + 1>>)
<1>1. /\ sent'[a] = sent[a] + 1 /\ sent[a] \in Nat
      /\ \A b \in Sources : b # a => sent'[b] = sent[b]
  BY DEF Publish, RunTyped
<1>. SUFFICES ASSUME NEW b \in Agents, NEW n \in 1 .. NEvents, from[b] < n, n <= sent'[b]
              PROVE  <<b, n>> \in Emitted(Agents, from) \/ (a \in Agents /\ <<b, n>> = <<a, sent[a] + 1>>)
  OBVIOUS
<1>2. b \in Sources
  BY DEF Sources
<1>3. CASE b # a
  BY <1>1, <1>2, <1>3 DEF Emitted
<1>4. CASE b = a /\ n <= sent[a]
  BY <1>4 DEF Emitted
<1>5. CASE b = a /\ ~(n <= sent[a])
  <2>1. n = sent[a] + 1
    BY <1>1, <1>5, BusAssumption
  <2>. QED
    BY <1>5, <2>1
<1>. QED
  BY <1>3, <1>4, <1>5

-----------------------------------------------------------------------------
(* The account, step by step.                                              *)

Accounted == bridge \in {"selecting", "posting"} \/ (bridge = "returned" /\ ~stopped)

LEMMA UnfinishedAreFinite == IsFiniteSet(Unprinted) /\ IsFiniteSet(Unposted)
BY EmittedIsFinite DEF Unprinted, Unposted

LEMMA PrinterKept ==
    ASSUME PrinterInv, RunTyped, RunTyped', sent' = sent, printed' = printed,
           mail'["printer"] = mail["printer"], Pending("printer")' = Pending("printer"), lost <= lost'
    PROVE  PrinterInv'
<1>1. Unprinted' = Unprinted
  BY DEF Unprinted, Emitted, Nothing
<1>2. Cardinality(Unprinted) \in Nat /\ lost \in Nat /\ lost' \in Nat
  BY UnfinishedAreFinite, FS_CardinalityType DEF RunTyped
<1>3. Cardinality(Unprinted') <= lost'
  BY <1>1, <1>2 DEF PrinterInv
<1>4. Orderly(printed', mail'["printer"], Pending("printer")')
  BY DEF PrinterInv
<1>. QED
  BY <1>3, <1>4 DEF PrinterInv

LEMMA BridgeKept ==
    ASSUME BridgeInv, RunTyped, RunTyped',
           sent' = sent, since' = since, posted' = posted, mail'["bridge"] = mail["bridge"],
           Pending("bridge")' = Pending("bridge"), Hand' = Hand, lost <= lost', failures' = failures,
           Accounted' => Accounted
    PROVE  BridgeInv'
<1>1. Unposted' = Unposted
  BY DEF Unposted, Emitted
<1>2. Cardinality(Unposted) \in Nat /\ lost \in Nat /\ lost' \in Nat /\ failures \in Nat
  BY UnfinishedAreFinite, FS_CardinalityType DEF RunTyped
<1>3. Accounted' => Cardinality(Unposted') <= failures' + lost'
  BY <1>1, <1>2 DEF BridgeInv, Accounted
<1>4. Orderly(posted', mail'["bridge"], Pending("bridge")')
  BY DEF BridgeInv
<1>. QED
  BY <1>3, <1>4 DEF BridgeInv, Accounted

\* A reader's channel takes a pending event, or the event is lost.
LEMMA OfferAccount ==
    ASSUME Account, NEW a \in Sources, NEW s \in Readers, Offer(a, s)
    PROVE  RunTyped' /\ Stands' /\ PrinterInv' /\ BridgeInv'
<1> DEFINE e == <<a, sent[a]>>
<1>1. /\ UNCHANGED <<subs, shut, closed, holding, sent, runVars>> /\ s \in left[a]
      /\ \/ mail' = [mail EXCEPT ![s] = Append(@, e)] /\ lost' = lost
         \/ lost' = lost + 1 /\ mail' = mail
  BY DEF Offer
<1>2. e \in Event /\ e \in Pending(s)
  BY PendingOffered DEF Account, RunTyped, Event
<1>3. /\ mail \in [Readers -> Seq(Event)] /\ sent \in [Sources -> Nat] /\ lost \in Nat /\ failures \in Nat
      /\ s \in subs
  BY <1>1 DEF Account, RunTyped, IInv
<1>4. e[1] = a /\ e[2] = sent[a]
  OBVIOUS
<1>. HIDE DEF e
<1>5. /\ \/ mail'[s] = Append(mail[s], e) /\ lost' = lost
         \/ mail'[s] = mail[s] /\ lost' = lost + 1
      /\ \A q \in Readers : q # s => mail'[q] = mail[q]
  BY <1>1, <1>3
<1>6. RunTyped'
  <2>1. Append(mail[s], e) \in Seq(Event)
    BY <1>2, <1>3, EventsAppended
  <2>2. mail' \in [Readers -> Seq(Event)]
    BY <1>1, <1>3, <2>1
  <2>3. lost' \in Nat
    BY <1>1, <1>3
  <2>. QED
    BY <1>1, <2>2, <2>3 DEF Account, RunTyped, runVars
<1>7. Stands'
  <2>1. s = "bridge" => bridge \notin {"new", "begun", "returned"}
    BY <1>3 DEF Account, Stands, IInv
  <2>2. s = "printer" => main \notin {"flushing", "exited"}
    BY <1>3 DEF Account, Stands, IInv
  <2>. QED
    BY <1>1, <1>5, <2>1, <2>2 DEF Account, Stands, runVars, Readers
<1>8. /\ \A d \in Pending(s)' : d \in Pending(s) /\ d[1] # a
      /\ \A d \in Pending(s) : d = e \/ d \in Pending(s)'
      /\ \A q \in Readers : q # s => Pending(q)' = Pending(q)
  BY PendingOffered DEF Account, e
<1>9. mail[s] \in Seq(Event) /\ Range(Append(mail[s], e)) = Range(mail[s]) \cup {e}
  BY <1>2, <1>3, EventsAppended
<1>10. ASSUME NEW had, Orderly(had, mail[s], Pending(s))
       PROVE  Orderly(had, mail'[s], Pending(s)')
  <2>1. Orderly(had, Append(mail[s], e), Pending(s)')
    BY <1>2, <1>4, <1>8, <1>9, <1>10, OrderlyOffer
  <2>2. Orderly(had, mail[s], Pending(s)')
    BY <1>8, <1>10, OrderlyPending
  <2>. QED
    BY <1>5, <2>1, <2>2
<1>11. lost <= lost' /\ lost' \in Nat
  BY <1>1, <1>3
<1>12. CASE s = "printer"
  <2>1. PrinterInv'
    <3>1. Orderly(printed', mail'["printer"], Pending("printer")')
      BY <1>1, <1>10, <1>12 DEF Account, PrinterInv, runVars
    <3>2. \A d \in Range(printed') \cup Range(mail'["printer"]) : d[2] <= sent'[d[1]]
      <4>1. Range(mail'[s]) \subseteq Range(mail[s]) \cup {e} /\ printed' = printed /\ sent' = sent
        BY <1>1, <1>5, <1>9 DEF runVars
      <4>2. e[2] <= sent[e[1]]
        BY <1>3, <1>4
      <4>3. \A d \in Range(printed) \cup Range(mail[s]) : d[2] <= sent[d[1]]
        BY <1>12 DEF Account, PrinterInv
      <4>. QED
        BY ONLY <1>12, <4>1, <4>2, <4>3
    <3>3. /\ mail'[s] = Append(mail[s], e) => Unprinted' \subseteq Unprinted
          /\ Unprinted' \subseteq Unprinted \cup {e}
      <4>1. Emitted(Agents, Nothing)' = Emitted(Agents, Nothing) /\ printed' = printed
        BY <1>1 DEF Emitted, Nothing, runVars
      <4>2. Unprinted' = Emitted(Agents, Nothing) \ (Range(printed) \cup Range(mail'["printer"]) \cup Pending("printer")')
        BY <4>1 DEF Unprinted
      <4>3. Range(mail[s]) \subseteq Range(mail'[s]) /\ (mail'[s] = Append(mail[s], e) => e \in Range(mail'[s]))
        BY <1>5, <1>9
      <4>. QED
        BY ONLY <1>8, <1>12, <4>2, <4>3 DEF Unprinted
    <3>4. Cardinality(Unprinted') <= lost'
      <4>1. Cardinality(Unprinted) <= lost
        BY DEF Account, PrinterInv
      <4>2. /\ Unprinted' \subseteq Unprinted => Cardinality(Unprinted') <= lost
            /\ Unprinted' \subseteq Unprinted \cup {e} => Cardinality(Unprinted') <= lost + 1
        BY <1>3, <4>1, OneMore, UnfinishedAreFinite
      <4>. QED
        BY ONLY <1>5, <3>3, <4>2
    <3>. QED
      BY <3>1, <3>2, <3>4 DEF PrinterInv
  <2>2. BridgeInv'
    <3>1. mail'["bridge"] = mail["bridge"] /\ Pending("bridge")' = Pending("bridge")
      BY <1>5, <1>8, <1>12 DEF Readers
    <3>. QED
      BY <1>1, <1>6, <1>11, <3>1, BridgeKept DEF Account, Hand, Accounted, runVars
  <2>. QED
    BY <1>6, <1>7, <2>1, <2>2
<1>13. CASE s = "bridge"
  <2>1. BridgeInv'
    <3>1. Orderly(posted', mail'["bridge"], Pending("bridge")')
      BY <1>1, <1>10, <1>13 DEF Account, BridgeInv, runVars
    <3>2. Hand' = Hand /\ posted' = posted /\ since' = since /\ sent' = sent /\ failures' = failures
      BY <1>1 DEF Hand, runVars
    <3>3. Range(mail[s]) \subseteq Range(mail'[s]) /\ Range(mail'[s]) \subseteq Range(mail[s]) \cup {e}
          /\ (mail'[s] = Append(mail[s], e) => e \in Range(mail'[s]))
      BY <1>5, <1>9
    <3>4. Earlier(Range(posted'), Hand') /\ Earlier(Hand', Range(mail'["bridge"]) \cup Pending("bridge")')
      BY <1>2, <1>8, <1>13, <3>2, <3>3 DEF Account, BridgeInv, Earlier
    <3>5. \A d \in Range(posted') \cup Hand' : d[1] \in Agents
      BY <3>2 DEF Account, BridgeInv
    <3>6. since[a] < sent[a]
      BY <1>2, <1>4, <1>13 DEF Account, BridgeInv
    <3>7. \A d \in Range(posted') \cup Hand' \cup Range(mail'["bridge"]) : since'[d[1]] < d[2] /\ d[2] <= sent'[d[1]]
      BY <1>3, <1>4, <1>13, <3>2, <3>3, <3>6 DEF Account, BridgeInv
    <3>8. \A d \in Pending("bridge")' : since'[d[1]] < d[2]
      BY <1>8, <1>13, <3>2 DEF Account, BridgeInv
    <3>9. /\ mail'[s] = Append(mail[s], e) => Unposted' \subseteq Unposted
          /\ Unposted' \subseteq Unposted \cup {e}
      <4>1. Emitted(Agents, since)' = Emitted(Agents, since)
        BY <3>2 DEF Emitted
      <4>2. Unposted' = Emitted(Agents, since) \
               (Range(posted) \cup Hand \cup Range(mail'["bridge"]) \cup Pending("bridge")')
        BY <3>2, <4>1 DEF Unposted
      <4>. QED
        BY ONLY <1>8, <1>13, <3>3, <4>2 DEF Unposted
    <3>10. Accounted' => Cardinality(Unposted') <= failures' + lost'
      <4>1. Accounted' => Cardinality(Unposted) <= failures + lost
        BY <1>1 DEF Account, BridgeInv, Accounted, runVars
      <4>2. PICK n : n = failures + lost
        OBVIOUS
      <4>3. n \in Nat
        BY <1>3, <4>2
      <4>4. Cardinality(Unposted) <= n =>
                /\ Unposted' \subseteq Unposted => Cardinality(Unposted') <= n
                /\ Unposted' \subseteq Unposted \cup {e} => Cardinality(Unposted') <= n + 1
        BY <4>3, OneMore, UnfinishedAreFinite
      <4>5. (mail'[s] = Append(mail[s], e) /\ lost' = lost) \/ lost' = lost + 1
        BY <1>5
      <4>6. /\ lost' = lost => n = failures' + lost'
            /\ lost' = lost + 1 => n + 1 = failures' + lost'
        BY <1>3, <3>2, <4>2
      <4>. QED
        BY ONLY <3>9, <4>1, <4>2, <4>4, <4>5, <4>6
    <3>11. \A b \in Sources : since'[b] <= sent'[b]
      BY <3>2 DEF Account, BridgeInv
    <3>. QED
      BY <3>1, <3>4, <3>5, <3>7, <3>8, <3>10, <3>11 DEF BridgeInv, Accounted
  <2>2. PrinterInv'
    <3>1. mail'["printer"] = mail["printer"] /\ Pending("printer")' = Pending("printer")
      BY <1>5, <1>8, <1>13 DEF Readers
    <3>. QED
      BY <1>1, <1>6, <1>11, <3>1, PrinterKept DEF Account, runVars
  <2>. QED
    BY <1>6, <1>7, <2>1, <2>2
<1>. QED
  BY <1>12, <1>13 DEF Readers

\* An event that is published waits for whoever is registered, the printer
\* among them as long as agents run, and the bridge from when it subscribed.
LEMMA PublishAccount ==
    ASSUME Account, NEW a \in Sources, Publish(a)
    PROVE  RunTyped' /\ Stands' /\ PrinterInv' /\ BridgeInv'
<1> DEFINE e == <<a, sent[a] + 1>>
<1>1. /\ UNCHANGED <<subs, shut, mail, closed, lost, runVars>> /\ ~shut
      /\ sent' = [sent EXCEPT ![a] = @ + 1] /\ sent \in [Sources -> Nat]
      /\ a \in Agents => main = "running" /\ sent[a] < NEvents
  BY BusAssumption DEF Publish, Publishing, Account, RunTyped
<1>2. /\ e \in Event /\ e[1] = a /\ e[2] = sent[a] + 1 /\ sent'[a] = sent[a] + 1
      /\ \A b \in Sources : sent[b] <= sent'[b] /\ (b # a => sent'[b] = sent[b])
  BY <1>1 DEF Event
<1>3. \A s \in Readers : /\ \A d \in Pending(s)' : d \in Pending(s) \/ d = e
                         /\ Pending(s) \subseteq Pending(s)'
                         /\ s \in subs => e \in Pending(s)'
  BY PendingPublished DEF Account
<1>4. \A from \in [Sources -> Nat] :
          \A x \in {y \in Agents \X (1 .. NEvents) : from[y[1]] < y[2] /\ y[2] <= sent'[y[1]]} :
              x \in Emitted(Agents, from) \/ (a \in Agents /\ x = e)
  BY EmittedPublished DEF Account
<1>. HIDE DEF e
<1>5. RunTyped'
  <2>1. sent' \in [Sources -> Nat]
    BY <1>1
  <2>2. \A b \in Agents : sent'[b] <= NEvents
    <3>1. \A b \in Agents : b \in Sources /\ sent[b] <= NEvents
      BY DEF Account, RunTyped, Sources
    <3>2. a \in Agents => sent[a] + 1 <= NEvents
      BY <1>1, BusAssumption
    <3>. QED
      BY <1>2, <3>1, <3>2
  <2>. QED
    BY <1>1, <2>1, <2>2 DEF Account, RunTyped, runVars
<1>6. Stands'
  BY <1>1 DEF Account, Stands, runVars
<1>7. ASSUME NEW d \in Event, NEW n \in Nat, d[2] <= sent[d[1]]
      PROVE  d[2] <= sent'[d[1]] /\ (d[1] = e[1] => d[2] < e[2])
  <2>1. d[1] \in Sources /\ d[2] \in Nat
    BY DEF Event
  <2>2. sent[d[1]] \in Nat /\ sent'[d[1]] \in Nat /\ sent[d[1]] <= sent'[d[1]]
    BY <1>1, <1>2, <2>1
  <2>. QED
    BY <1>2, <1>7, <2>1, <2>2
<1>8. PrinterInv'
  <2>1. mail["printer"] \in Seq(Event) /\ printed \in Seq(Event)
    BY DEF Account, RunTyped, Readers
  <2>2. \A d \in Range(printed) \cup Range(mail["printer"]) : d \in Event /\ d[2] <= sent[d[1]]
    BY <2>1, SeqOfEvents DEF Account, PrinterInv
  <2>3. Orderly(printed, mail["printer"], Pending("printer")')
    BY <1>3, <1>7, <2>2, OrderlyPending DEF Account, PrinterInv, Readers
  <2>4. Unprinted' \subseteq Unprinted
    <3>1. Nothing \in [Sources -> Nat]
      BY DEF Nothing
    <3>2. \A x \in Emitted(Agents, Nothing)' : x \in Emitted(Agents, Nothing) \/ (a \in Agents /\ x = e)
      <4>1. Emitted(Agents, Nothing)' =
               {y \in Agents \X (1 .. NEvents) : Nothing[y[1]] < y[2] /\ y[2] <= sent'[y[1]]}
        BY DEF Emitted, Nothing
      <4>. QED
        BY <1>4, <3>1, <4>1
    <3>3. a \in Agents => e \in Pending("printer")'
      BY <1>1, <1>3 DEF Account, Stands, Readers
    <3>4. printed' = printed /\ mail' = mail /\ Pending("printer") \subseteq Pending("printer")'
      BY <1>1, <1>3 DEF runVars, Readers
    <3>. QED
      BY ONLY <3>2, <3>3, <3>4 DEF Unprinted
  <2>5. Cardinality(Unprinted') <= lost
    BY <2>4, OneMore, UnfinishedAreFinite DEF Account, PrinterInv, RunTyped
  <2>6. printed' = printed /\ mail' = mail /\ lost' = lost
    BY <1>1 DEF runVars
  <2>7. \A d \in Range(printed) \cup Range(mail["printer"]) : d[2] <= sent'[d[1]]
    BY <1>7, <2>2
  <2>. QED
    BY <2>3, <2>5, <2>6, <2>7 DEF PrinterInv
<1>9. BridgeInv'
  <2>1. mail["bridge"] \in Seq(Event) /\ posted \in Seq(Event) /\ Hand \subseteq Event
    BY DEF Account, RunTyped, Readers, Hand
  <2>2. \A d \in Range(posted) \cup Hand \cup Range(mail["bridge"]) :
            d \in Event /\ since[d[1]] < d[2] /\ d[2] <= sent[d[1]]
    BY <2>1, SeqOfEvents DEF Account, BridgeInv
  <2>3. Orderly(posted, mail["bridge"], Pending("bridge")')
    BY <1>3, <1>7, <2>2, OrderlyPending DEF Account, BridgeInv, Readers
  <2>4. /\ posted' = posted /\ mail' = mail /\ lost' = lost /\ since' = since /\ failures' = failures
        /\ Hand' = Hand /\ Accounted' = Accounted
    BY <1>1 DEF runVars, Hand, Accounted
  <2>5. Earlier(Hand, Range(mail["bridge"]) \cup Pending("bridge")')
    <3>1. \A d \in Hand : d[1] = e[1] => d[2] < e[2]
      BY <1>7, <2>2
    <3>2. Earlier(Hand, Range(mail["bridge"]) \cup Pending("bridge"))
      BY DEF Account, BridgeInv
    <3>. QED
      BY <1>3, <3>1, <3>2 DEF Earlier, Readers
  <2>6. \A d \in Range(posted) \cup Hand \cup Range(mail["bridge"]) : since[d[1]] < d[2] /\ d[2] <= sent'[d[1]]
    BY <1>7, <2>2
  <2>7. \A d \in Pending("bridge")' : since[d[1]] < d[2]
    <3>1. since[a] < sent[a] + 1
      <4>1. since[a] <= sent[a] /\ since[a] \in Nat /\ sent[a] \in Nat
        BY DEF Account, BridgeInv, RunTyped
      <4>. QED
        BY <4>1
    <3>. QED
      BY <1>2, <1>3, <3>1 DEF Account, BridgeInv, Readers
  <2>8. Accounted => Unposted' \subseteq Unposted
    <3>1. \A x \in Emitted(Agents, since)' : x \in Emitted(Agents, since) \/ (a \in Agents /\ x = e)
      <4>1. Emitted(Agents, since)' =
               {y \in Agents \X (1 .. NEvents) : since[y[1]] < y[2] /\ y[2] <= sent'[y[1]]}
        BY <2>4 DEF Emitted
      <4>2. since \in [Sources -> Nat]
        BY DEF Account, RunTyped
      <4>. QED
        BY <1>4, <4>1, <4>2
    <3>2. Accounted => e \in Pending("bridge")'
      BY <1>1, <1>3 DEF Account, Stands, Accounted, Readers
    <3>3. Pending("bridge") \subseteq Pending("bridge")'
      BY <1>3 DEF Readers
    <3>. QED
      BY ONLY <2>4, <3>1, <3>2, <3>3 DEF Unposted
  <2>9. Accounted => Cardinality(Unposted') <= failures + lost
    <3>1. failures + lost \in Nat
      BY DEF Account, RunTyped
    <3>2. Accounted => Cardinality(Unposted) <= failures + lost
      BY DEF Account, BridgeInv, Accounted
    <3>. QED
      BY <2>8, <3>1, <3>2, OneMore, UnfinishedAreFinite
  <2>10. Earlier(Range(posted), Hand) /\ \A d \in Range(posted) \cup Hand : d[1] \in Agents
    BY DEF Account, BridgeInv
  <2>11. \A b \in Sources : since[b] <= sent'[b]
    <3>1. \A b \in Sources : since[b] \in Nat /\ sent[b] \in Nat /\ sent'[b] \in Nat /\ since[b] <= sent[b]
      BY <1>1, <1>2 DEF Account, BridgeInv, RunTyped
    <3>. QED
      BY <1>2, <3>1
  <2>. QED
    BY <2>3, <2>4, <2>5, <2>6, <2>7, <2>9, <2>10, <2>11 DEF BridgeInv, Accounted
<1>. QED
  BY <1>5, <1>6, <1>8, <1>9

LEMMA TraceAccount ==
    ASSUME Account, Trace
    PROVE  RunTyped' /\ Stands' /\ PrinterInv' /\ BridgeInv'
<1> DEFINE m == mail["printer"]
           e == Head(m)
<1>1. /\ m # <<>> /\ printed' = Append(printed, e)
      /\ mail' = [mail EXCEPT !["printer"] = Tail(@)]
      /\ UNCHANGED <<subs, shut, closed, lost, holding, left, sent, main, hurried, stopped,
                     bridge, posting, posted, failures, since>>
  BY DEF Trace
<1>2. m \in Seq(Event) /\ printed \in Seq(Event) /\ mail \in [Readers -> Seq(Event)]
  BY DEF Account, RunTyped, Readers
<1>3. /\ e \in Event /\ Tail(m) \in Seq(Event) /\ Range(m) = {e} \cup Range(Tail(m))
      /\ Append(printed, e) \in Seq(Event) /\ Range(Append(printed, e)) = Range(printed) \cup {e}
  BY <1>1, <1>2, EventsTaken, EventsAppended
<1>4. mail'["printer"] = Tail(m) /\ mail'["bridge"] = mail["bridge"] /\ mail' \in [Readers -> Seq(Event)]
  BY <1>1, <1>2, <1>3 DEF Readers
<1>5. Orderly(Append(printed, e), Tail(m), Pending("printer"))
  BY <1>1, <1>2, OrderlyTake DEF Account, PrinterInv
<1>6. Pending("printer")' = Pending("printer") /\ Pending("bridge")' = Pending("bridge")
  BY <1>1, PendingKept
<1>. HIDE DEF e
<1>7. RunTyped'
  BY <1>1, <1>3, <1>4 DEF Account, RunTyped
<1>8. Stands'
  <2>1. main \notin {"flushing", "exited"}
    BY <1>1 DEF Account, Stands
  <2>. QED
    BY <1>1, <1>4, <2>1 DEF Account, Stands
<1>9. PrinterInv'
  <2>1. Unprinted' = Unprinted
    <3>1. Emitted(Agents, Nothing)' = Emitted(Agents, Nothing)
      BY <1>1 DEF Emitted, Nothing
    <3>2. Range(printed') \cup Range(mail'["printer"]) = Range(printed) \cup Range(mail["printer"])
      BY <1>1, <1>3, <1>4
    <3>. QED
      BY ONLY <1>6, <3>1, <3>2 DEF Unprinted
  <2>2. Cardinality(Unprinted') <= lost'
    BY <1>1, <2>1 DEF Account, PrinterInv
  <2>3. \A d \in Range(printed') \cup Range(mail'["printer"]) : d[2] <= sent'[d[1]]
    BY <1>1, <1>3, <1>4 DEF Account, PrinterInv
  <2>. QED
    BY <1>1, <1>4, <1>5, <1>6, <2>2, <2>3 DEF PrinterInv
<1>10. BridgeInv'
  <2>1. lost <= lost'
    BY <1>1 DEF Account, RunTyped
  <2>. QED
    BY <1>1, <1>4, <1>6, <1>7, <2>1, BridgeKept DEF Account, Hand, Accounted
<1>. QED
  BY <1>7, <1>8, <1>9, <1>10

\* The bridge begins its account where the others stand when it subscribes.
LEMMA SubscribesAccount ==
    ASSUME Account, BridgeSubscribes
    PROVE  RunTyped' /\ Stands' /\ PrinterInv' /\ BridgeInv'
<1>1. /\ UNCHANGED <<shut, mail, lost, holding, left, sent, main, hurried, stopped, printed,
                     posting, posted, failures>>
      /\ holding = {} /\ bridge = "begun" /\ since' = sent /\ bridge' = "selecting"
      /\ \/ shut /\ closed' = closed \cup {"bridge"} /\ subs' = subs
         \/ ~shut /\ subs' = subs \cup {"bridge"} /\ closed' = closed
  BY DEF BridgeSubscribes, Subscribe, Locked, Bridged
<1>2. RunTyped' /\ Stands'
  BY <1>1 DEF Account, RunTyped, Stands
<1>3. posted = <<>> /\ mail["bridge"] = <<>> /\ Hand = {} /\ Hand' = {}
  BY <1>1 DEF Account, Stands, Hand
<1>4. Pending("bridge") = {} /\ Pending("bridge")' = {} /\ Pending("printer")' = Pending("printer")
  <2>1. \A a \in Sources : left[a] = {}
    BY <1>1 DEF Account, IInv
  <2>. QED
    BY <1>1, <2>1 DEF Pending
<1>5. PrinterInv'
  <2>1. lost <= lost'
    BY <1>1 DEF Account, RunTyped
  <2>. QED
    BY <1>1, <1>2, <1>4, <2>1, PrinterKept DEF Account
<1>6. BridgeInv'
  <2>1. Unposted' = {}
    <3>1. Emitted(Agents, since)' = {}
      <4>1. \A a \in Agents : \A n \in 1 .. NEvents : ~(sent[a] < n /\ n <= sent[a])
        BY BusAssumption DEF Account, RunTyped, Sources
      <4>. QED
        BY <1>1, <4>1 DEF Emitted
    <3>. QED
      BY <3>1 DEF Unposted
  <2>2. Cardinality(Unposted') <= failures' + lost'
    BY <1>1, <2>1, FS_EmptySet DEF Account, RunTyped
  <2>3. Range(<<>>) = {}
    BY DEF Range
  <2>4. \A a \in Sources : since'[a] <= sent'[a]
    BY <1>1 DEF Account, RunTyped
  <2>5. Orderly(<<>>, <<>>, {})
    BY <2>3 DEF Orderly, InOrder, Earlier
  <2>6. posted' = <<>> /\ mail'["bridge"] = <<>>
    BY <1>1, <1>3
  <2>. QED
    BY <1>3, <1>4, <2>2, <2>3, <2>4, <2>5, <2>6 DEF BridgeInv, Earlier
<1>. QED
  BY <1>2, <1>5, <1>6

\* It takes an event in hand, or passes over one of the hub's.
LEMMA TakesAccount ==
    ASSUME Account, BridgeTakes
    PROVE  RunTyped' /\ Stands' /\ PrinterInv' /\ BridgeInv'
<1> DEFINE m == mail["bridge"]
           e == Head(m)
<1>1. /\ bridge = "selecting" /\ m # <<>>
      /\ mail' = [mail EXCEPT !["bridge"] = Tail(@)]
      /\ \/ e[1] = "hub" /\ bridge' = "selecting"
         \/ e[1] # "hub" /\ bridge' = "posting" /\ posting' = e
      /\ UNCHANGED <<subs, shut, closed, lost, holding, left, sent, main, hurried, stopped, printed,
                     posted, failures, since>>
  BY DEF BridgeTakes, Bridged
<1>2. m \in Seq(Event) /\ posted \in Seq(Event) /\ mail \in [Readers -> Seq(Event)]
  BY DEF Account, RunTyped, Readers
<1>3. e \in Event /\ Tail(m) \in Seq(Event) /\ Range(m) = {e} \cup Range(Tail(m))
  BY <1>1, <1>2, EventsTaken
<1>4. mail'["bridge"] = Tail(m) /\ mail'["printer"] = mail["printer"] /\ mail' \in [Readers -> Seq(Event)]
  BY <1>1, <1>2, <1>3 DEF Readers
<1>5. /\ Orderly(posted, Tail(m), Pending("bridge")) /\ Earlier(Range(posted), {e})
      /\ Earlier({e}, Range(Tail(m)) \cup Pending("bridge"))
  BY <1>1, <1>2, OrderlyTake DEF Account, BridgeInv
<1>6. Pending("printer")' = Pending("printer") /\ Pending("bridge")' = Pending("bridge")
  BY <1>1, PendingKept
<1>. HIDE DEF e
<1>7. RunTyped'
  BY <1>1, <1>3, <1>4 DEF Account, RunTyped
<1>8. Stands'
  BY <1>1, <1>4 DEF Account, Stands
<1>9. PrinterInv'
  <2>1. lost <= lost'
    BY <1>1 DEF Account, RunTyped
  <2>. QED
    BY <1>1, <1>4, <1>6, <1>7, <2>1, PrinterKept DEF Account
<1>10. BridgeInv'
  <2>1. /\ Hand = {} /\ Hand' \subseteq {e}
        /\ e \notin Hand' => e[1] = "hub"
        /\ \A d \in Hand' : d[1] # "hub"
    BY <1>1 DEF Hand
  <2>2. Unposted' \subseteq Unposted
    <3>1. Emitted(Agents, since)' = Emitted(Agents, since) /\ \A x \in Emitted(Agents, since) : x[1] # "hub"
      BY <1>1, BusAssumption DEF Emitted
    <3>2. posted' = posted /\ Range(mail'["bridge"]) = Range(Tail(m)) /\ Range(mail["bridge"]) = {e} \cup Range(Tail(m))
      BY <1>1, <1>3, <1>4
    <3>. QED
      BY ONLY <1>6, <2>1, <3>1, <3>2 DEF Unposted
  <2>3. Cardinality(Unposted') <= failures' + lost'
    <3>1. Cardinality(Unposted) <= failures + lost /\ failures + lost \in Nat
      BY <1>1 DEF Account, BridgeInv, RunTyped
    <3>2. failures' + lost' = failures + lost
      BY <1>1
    <3>. QED
      BY <2>2, <3>1, <3>2, OneMore, UnfinishedAreFinite
  <2>4. \A d \in Range(posted') \cup Hand' : d[1] \in Agents
    <3>1. \A d \in Hand' : d[1] \in Agents
      BY <1>3, <2>1 DEF Event, Sources
    <3>. QED
      BY <1>1, <3>1 DEF Account, BridgeInv
  <2>5. \A d \in Range(posted') \cup Hand' \cup Range(mail'["bridge"]) : since'[d[1]] < d[2] /\ d[2] <= sent'[d[1]]
    <3>1. \A d \in Range(posted) \cup Range(m) : since[d[1]] < d[2] /\ d[2] <= sent[d[1]]
      BY DEF Account, BridgeInv
    <3>. QED
      BY <1>1, <1>3, <1>4, <2>1, <3>1
  <2>6. Earlier(Range(posted'), Hand') /\ Earlier(Hand', Range(mail'["bridge"]) \cup Pending("bridge")')
    BY <1>1, <1>4, <1>5, <1>6, <2>1 DEF Earlier
  <2>7. Orderly(posted', mail'["bridge"], Pending("bridge")')
    BY <1>1, <1>4, <1>5, <1>6
  <2>8. /\ \A d \in Pending("bridge")' : since'[d[1]] < d[2]
        /\ \A a \in Sources : since'[a] <= sent'[a]
    BY <1>1, <1>6 DEF Account, BridgeInv
  <2>. QED
    BY <2>3, <2>4, <2>5, <2>6, <2>7, <2>8 DEF BridgeInv
<1>. QED
  BY <1>7, <1>8, <1>9, <1>10

\* What it has in hand is posted, or a failure.
LEMMA PostsAccount ==
    ASSUME Account, BridgePosts
    PROVE  RunTyped' /\ Stands' /\ PrinterInv' /\ BridgeInv'
<1>1. /\ bridge = "posting" /\ bridge' = "selecting"
      /\ \/ posted' = Append(posted, posting) /\ failures' = failures
         \/ failures' = failures + 1 /\ posted' = posted
      /\ UNCHANGED <<subs, shut, mail, closed, lost, holding, left, sent, main, hurried, stopped,
                     printed, since>>
  BY DEF BridgePosts, Bridged, busVars
<1>2. posting \in Event /\ posted \in Seq(Event) /\ Hand = {posting} /\ Hand' = {}
  BY <1>1 DEF Account, RunTyped, Hand
<1>3. /\ Append(posted, posting) \in Seq(Event) /\ Range(Append(posted, posting)) = Range(posted) \cup {posting}
      /\ InOrder(Append(posted, posting))
  BY <1>2, EventsAppended DEF Account, BridgeInv, Orderly, Earlier
<1>4. Pending("printer")' = Pending("printer") /\ Pending("bridge")' = Pending("bridge")
  BY <1>1, PendingKept
<1>5. RunTyped'
  <2>1. posted' \in Seq(Event)
    BY <1>1, <1>2, <1>3
  <2>2. failures' \in Nat
    <3>1. failures \in Nat
      BY DEF Account, RunTyped
    <3>. QED
      BY <1>1, <3>1
  <2>. QED
    BY <1>1, <2>1, <2>2 DEF Account, RunTyped
<1>6. Stands'
  BY <1>1 DEF Account, Stands
<1>7. PrinterInv'
  <2>1. lost <= lost'
    BY <1>1 DEF Account, RunTyped
  <2>. QED
    BY <1>1, <1>4, <1>5, <2>1, PrinterKept DEF Account
<1>8. BridgeInv'
  <2>1. Range(posted') \subseteq Range(posted) \cup Hand /\ InOrder(posted')
        /\ Range(posted) \subseteq Range(posted') /\ (failures' = failures + 1 \/ posting \in Range(posted'))
    BY <1>1, <1>2, <1>3 DEF Account, BridgeInv, Orderly
  <2>2. Orderly(posted', mail'["bridge"], Pending("bridge")')
    <3>1. Earlier(Range(posted) \cup Hand, Range(mail["bridge"]) \cup Pending("bridge"))
      BY DEF Account, BridgeInv, Orderly, Earlier
    <3>2. Earlier(Range(posted'), Range(mail["bridge"]) \cup Pending("bridge"))
      BY <2>1, <3>1 DEF Earlier
    <3>3. InOrder(mail["bridge"]) /\ Earlier(Range(mail["bridge"]), Pending("bridge"))
      BY DEF Account, BridgeInv, Orderly
    <3>4. mail'["bridge"] = mail["bridge"]
      BY <1>1
    <3>. QED
      BY ONLY <1>4, <2>1, <3>2, <3>3, <3>4 DEF Orderly
  <2>3. \A d \in Range(posted') \cup Hand' : d[1] \in Agents
    BY <1>2, <2>1 DEF Account, BridgeInv
  <2>4. \A d \in Range(posted') \cup Hand' \cup Range(mail'["bridge"]) : since'[d[1]] < d[2] /\ d[2] <= sent'[d[1]]
    <3>1. \A d \in Range(posted) \cup Hand \cup Range(mail["bridge"]) : since[d[1]] < d[2] /\ d[2] <= sent[d[1]]
      BY DEF Account, BridgeInv
    <3>. QED
      BY <1>1, <1>2, <2>1, <3>1
  <2>5. /\ \A d \in Pending("bridge")' : since'[d[1]] < d[2]
        /\ \A a \in Sources : since'[a] <= sent'[a]
    BY <1>1, <1>4 DEF Account, BridgeInv
  <2>6. /\ posting \in Range(posted') => Unposted' \subseteq Unposted
        /\ Unposted' \subseteq Unposted \cup {posting}
    <3>1. Emitted(Agents, since)' = Emitted(Agents, since) /\ mail'["bridge"] = mail["bridge"]
      BY <1>1 DEF Emitted
    <3>. QED
      BY ONLY <1>2, <1>4, <2>1, <3>1 DEF Unposted
  <2>7. Cardinality(Unposted') <= failures' + lost'
    <3>1. PICK n : n = failures + lost
      OBVIOUS
    <3>2. Cardinality(Unposted) <= n /\ n \in Nat
      BY <1>1, <3>1 DEF Account, BridgeInv, RunTyped
    <3>3. /\ Unposted' \subseteq Unposted => Cardinality(Unposted') <= n
          /\ Unposted' \subseteq Unposted \cup {posting} => Cardinality(Unposted') <= n + 1
      BY <3>2, OneMore, UnfinishedAreFinite
    <3>4. (failures' = failures /\ posting \in Range(posted')) \/ failures' = failures + 1
      BY <1>1, <1>3
    <3>5. /\ failures' = failures => n = failures' + lost'
          /\ failures' = failures + 1 => n + 1 = failures' + lost'
      <4>1. failures \in Nat /\ lost \in Nat
        BY DEF Account, RunTyped
      <4>2. lost' = lost
        BY <1>1
      <4>. QED
        BY ONLY <3>1, <4>1, <4>2
    <3>. QED
      BY ONLY <2>6, <3>3, <3>4, <3>5
  <2>8. Earlier(Range(posted'), Hand') /\ Earlier(Hand', Range(mail'["bridge"]) \cup Pending("bridge")')
    BY <1>2 DEF Earlier
  <2>. QED
    BY <2>2, <2>3, <2>4, <2>5, <2>7, <2>8 DEF BridgeInv
<1>. QED
  BY <1>5, <1>6, <1>7, <1>8

\* A step that moves no event keeps the account.
LEMMA QuietAccount ==
    ASSUME Account, UNCHANGED <<mail, lost, left, sent, printed, posting, posted, failures, since>>,
           Hand' = Hand, Accounted' => Accounted, bridge' = "posting" => bridge = "posting"
    PROVE  RunTyped' /\ PrinterInv' /\ BridgeInv'
<1>1. RunTyped'
  BY DEF Account, RunTyped
<1>2. Pending("printer")' = Pending("printer") /\ Pending("bridge")' = Pending("bridge")
  BY PendingKept
<1>3. lost <= lost'
  BY DEF Account, RunTyped
<1>4. PrinterInv'
  BY <1>1, <1>2, <1>3, PrinterKept DEF Account
<1>5. BridgeInv'
  BY <1>1, <1>2, <1>3, BridgeKept DEF Account
<1>. QED
  BY <1>1, <1>4, <1>5

\* The bridge ends when its channel is closed and empty, or is interrupted.
LEMMA EndsAccount ==
    ASSUME Account, BridgeEnds
    PROVE  RunTyped' /\ Stands' /\ PrinterInv' /\ BridgeInv'
<1>1. /\ bridge = "selecting" /\ bridge' = "returned"
      /\ stopped \/ ("bridge" \in closed /\ mail["bridge"] = <<>>)
      /\ closed' = (IF "bridge" \in subs THEN closed \cup {"bridge"} ELSE closed)
      /\ subs' = subs \ {"bridge"}
      /\ UNCHANGED <<shut, mail, lost, holding, left, sent, main, hurried, stopped, printed,
                     posting, posted, failures, since>>
  BY DEF BridgeEnds, Unsubscribe, Bridged
<1>2. Stands'
  <2>1. ~stopped => shut
    BY <1>1 DEF Account, Stands, IInv
  <2>. QED
    BY <1>1, <2>1 DEF Account, Stands
<1>3. Hand' = Hand /\ (Accounted' => Accounted)
  BY <1>1 DEF Hand, Accounted
<1>. QED
  BY <1>1, <1>2, <1>3, QuietAccount

LEMMA BridgeAccount ==
    ASSUME Account, Bridge
    PROVE  RunTyped' /\ Stands' /\ PrinterInv' /\ BridgeInv'
<1>1. CASE BridgeBegins
  <2>1. /\ bridge = "new" /\ bridge' = "begun"
        /\ UNCHANGED <<busVars, main, hurried, stopped, printed, posting, posted, failures, since>>
    BY <1>1 DEF BridgeBegins, Bridged
  <2>2. Stands'
    BY <2>1 DEF Account, Stands, busVars
  <2>3. Hand' = Hand /\ (Accounted' => Accounted)
    BY <2>1 DEF Hand, Accounted
  <2>. QED
    BY <2>1, <2>2, <2>3, QuietAccount DEF busVars
<1>. QED
  BY <1>1, SubscribesAccount, TakesAccount, PostsAccount, EndsAccount DEF Bridge

LEMMA CommandAccount ==
    ASSUME Account, Command \/ Signal
    PROVE  RunTyped' /\ Stands' /\ PrinterInv' /\ BridgeInv'
<1>1. /\ UNCHANGED <<mail, lost, left, sent, printed, bridge, posting, posted, failures, since>>
      /\ ~stopped' => ~stopped
  BY DEF Command, Signal, Observe, Build, RunEnds, CloseAfterRun, Printed, Exit, CloseBus, busVars
<1>2. Hand' = Hand /\ (Accounted' => Accounted)
  BY <1>1 DEF Hand, Accounted
<1>3. RunTyped' /\ PrinterInv' /\ BridgeInv'
  BY <1>1, <1>2, QuietAccount
<1>4. Stands'
  <2>. USE DEF Stands
  <2>. SUFFICES ASSUME Stands, IInv
                PROVE  Stands'
    BY DEF Account
  <2>1. CASE Observe
    BY <2>1 DEF Observe, Subscribe
  <2>2. CASE Build
    <3>1. CASE main' = "running" /\ UNCHANGED <<busVars, hurried>>
      BY <2>2, <3>1 DEF Build, busVars
    <3>2. CASE CloseBus /\ main' = "draining" /\ hurried' = TRUE
      BY <2>2, <3>2, <1>1 DEF Build, CloseBus
    <3>. QED
      BY <2>2, <3>1, <3>2 DEF Build
  <2>3. CASE CloseAfterRun
    BY <2>3 DEF CloseAfterRun, CloseBus
  <2>4. CASE RunEnds
    BY <2>4 DEF RunEnds, busVars
  <2>5. CASE Printed
    BY <2>5 DEF Printed, busVars
  <2>6. CASE Exit
    BY <2>6 DEF Exit, busVars
  <2>7. CASE Signal
    BY <2>7 DEF Signal, busVars
  <2>. QED
    BY <2>1, <2>2, <2>3, <2>4, <2>5, <2>6, <2>7 DEF Command
<1>. QED
  BY <1>3, <1>4

LEMMA SourceAccount ==
    ASSUME Account, NEW a \in Sources, Source(a)
    PROVE  RunTyped' /\ Stands' /\ PrinterInv' /\ BridgeInv'
<1>1. CASE Unlock(a)
  <2>1. UNCHANGED <<subs, shut, mail, closed, lost, left, sent, runVars>>
    BY <1>1 DEF Unlock
  <2>2. Stands' /\ Hand' = Hand /\ (Accounted' => Accounted)
    BY <2>1 DEF Account, Stands, Hand, Accounted, runVars
  <2>. QED
    BY <2>1, <2>2, QuietAccount DEF runVars
<1>. QED
  BY <1>1, PublishAccount, OfferAccount DEF Source

LEMMA NextAccount == Account /\ [BusNext]_allBusVars => Account'
<1>. SUFFICES ASSUME Account, [BusNext]_allBusVars
              PROVE  Account'
  OBVIOUS
<1>1. IInv'
  BY NextIInv DEF Account
<1>2. CASE UNCHANGED allBusVars
  <2>1. Stands' /\ Hand' = Hand /\ (Accounted' => Accounted)
    BY <1>2 DEF Account, Stands, Hand, Accounted, allBusVars, busVars, runVars
  <2>2. RunTyped' /\ PrinterInv' /\ BridgeInv'
    BY <1>2, <2>1, QuietAccount DEF allBusVars, busVars, runVars
  <2>. QED
    BY <1>1, <2>1, <2>2 DEF Account
<1>3. BusNext => RunTyped' /\ Stands' /\ PrinterInv' /\ BridgeInv'
  BY SourceAccount, CommandAccount, TraceAccount, BridgeAccount DEF BusNext
<1>. QED
  BY <1>1, <1>2, <1>3 DEF Account

LEMMA InitAccount == BusInit => Account
<1>. SUFFICES ASSUME BusInit
              PROVE  Account
  OBVIOUS
<1>1. IInv /\ Stands
  BY InitIInv DEF BusInit, Stands, Readers
<1>2. <<>> \in Seq(Event) /\ Range(<<>>) = {}
  BY DEF Range
<1>3. RunTyped
  <2>1. mail \in [Readers -> Seq(Event)] /\ printed \in Seq(Event) /\ posted \in Seq(Event)
    BY <1>2 DEF BusInit
  <2>2. \A a \in Agents : sent[a] <= NEvents
    BY BusAssumption DEF BusInit, Sources
  <2>. QED
    BY <2>1, <2>2 DEF BusInit, RunTyped
<1>4. printed = <<>> /\ posted = <<>> /\ mail["printer"] = <<>> /\ mail["bridge"] = <<>> /\ Hand = {}
  BY DEF BusInit, Readers, Hand
<1>5. Pending("printer") = {} /\ Pending("bridge") = {}
  BY DEF BusInit, Pending
<1>6. Orderly(<<>>, <<>>, {})
  BY <1>2 DEF Orderly, InOrder, Earlier
<1>7. PrinterInv
  <2>1. Emitted(Agents, Nothing) = {}
    <3>1. \A a \in Agents : sent[a] = 0 /\ Nothing[a] = 0
      BY DEF BusInit, Nothing, Sources
    <3>. QED
      BY <3>1, BusAssumption DEF Emitted
  <2>2. Unprinted = {}
    BY <2>1 DEF Unprinted
  <2>3. Cardinality(Unprinted) <= lost
    BY <2>2, FS_EmptySet DEF BusInit
  <2>. QED
    BY <1>2, <1>4, <1>5, <1>6, <2>3 DEF PrinterInv
<1>8. BridgeInv
  <2>1. \A a \in Sources : since[a] <= sent[a]
    BY DEF BusInit
  <2>2. bridge = "new"
    BY DEF BusInit
  <2>. QED
    BY <1>2, <1>4, <1>5, <1>6, <2>1, <2>2 DEF BridgeInv, Earlier
<1>. QED
  BY <1>1, <1>3, <1>7, <1>8 DEF Account

-----------------------------------------------------------------------------
(* What the account says at the exit.                                      *)

LEMMA CountTo ==
    ASSUME NEW n \in Nat
    PROVE  IsFiniteSet(1 .. n) /\ Cardinality(1 .. n) = n
<1>1. 1 \in Int /\ n \in Int
  OBVIOUS
<1>2. IsFiniteSet(1 .. n) /\ Cardinality(1 .. n) = (IF 1 > n THEN 0 ELSE n - 1 + 1)
  BY ONLY <1>1, FS_Interval
<1>3. (IF 1 > n THEN 0 ELSE n - 1 + 1) = n
  OBVIOUS
<1>. QED
  BY <1>2, <1>3

\* What is accounted for is outside a set that is no larger than the losses,
\* or at one of the places where the run tells of it.
LEMMA CountOfTold ==
    ASSUME NEW E, IsFiniteSet(E), NEW s \in Seq(Event), NEW I \in SUBSET (1 .. Len(s)), NEW n \in Nat,
           Cardinality(E \ {s[i] : i \in I}) <= n
    PROVE  Cardinality(E) <= Cardinality(I) + n
<1> DEFINE T == {s[i] : i \in I}
           f == [i \in I |-> s[i]]
           U == E \ T
<1>1. IsFiniteSet(I)
  <2>1. Len(s) \in Nat
    BY LenProperties
  <2>2. IsFiniteSet(1 .. Len(s))
    BY <2>1, CountTo
  <2>. QED
    BY <2>2, FS_Subset
<1>2. f \in Surjection(I, T)
  BY DEF Surjection
<1>3. IsFiniteSet(T) /\ Cardinality(T) <= Cardinality(I)
  BY <1>1, <1>2, FS_Surjection
<1>4. IsFiniteSet(U)
  BY FS_Subset
<1>5. /\ IsFiniteSet(U \cup T)
      /\ Cardinality(U \cup T) = Cardinality(U) + Cardinality(T) - Cardinality(U \cap T)
  BY <1>3, <1>4, FS_Union
<1>6. U \cap T = {} /\ Cardinality(U \cap T) = 0
  BY FS_EmptySet
<1>7. Cardinality(E) <= Cardinality(U \cup T)
  BY <1>5, FS_Subset
<1>8. /\ Cardinality(E) \in Nat /\ Cardinality(U \cup T) \in Nat /\ Cardinality(U) \in Nat
      /\ Cardinality(T) \in Nat /\ Cardinality(I) \in Nat /\ Cardinality(U) <= n
  BY <1>1, <1>3, <1>4, <1>5, FS_CardinalityType
<1>. HIDE DEF U, T
<1>. QED
  BY <1>3, <1>5, <1>6, <1>7, <1>8

LEMMA NonePending ==
    ASSUME IInv, NEW s \in Readers, s \notin subs
    PROVE  Pending(s) = {}
BY DEF IInv, Pending

LEMMA PrintedAccount ==
    ASSUME Account, main = "exited"
    PROVE  LET traced == {i \in DOMAIN printed : printed[i][1] \in Agents} IN
           Cardinality(Emitted(Agents, Nothing)) <= Cardinality(traced) + lost
<1> DEFINE traced == {i \in DOMAIN printed : printed[i][1] \in Agents}
           E == Emitted(Agents, Nothing)
<1>1. mail["printer"] = <<>> /\ Pending("printer") = {}
  BY NonePending DEF Account, Stands, IInv, Readers
<1>2. /\ printed \in Seq(Event) /\ lost \in Nat /\ DOMAIN printed = 1 .. Len(printed)
      /\ Range(printed) = {printed[i] : i \in 1 .. Len(printed)}
  BY SeqOfEvents DEF Account, RunTyped
<1>3. Range(<<>>) = {}
  BY DEF Range
<1>4. Unprinted = E \ Range(printed)
  BY <1>1, <1>3 DEF Unprinted
<1>5. \A e \in E : e[1] \in Agents
  BY DEF Emitted
<1>6. traced \in SUBSET (1 .. Len(printed))
  BY <1>2
<1>7. E \ {printed[i] : i \in traced} = Unprinted
  <2>. HIDE DEF E
  <2>1. \A e \in E : e \in Range(printed) <=> e \in {printed[i] : i \in traced}
    BY <1>2, <1>5
  <2>. QED
    BY <1>4, <2>1
<1>8. IsFiniteSet(E)
  BY EmittedIsFinite
<1>9. Cardinality(E \ {printed[i] : i \in traced}) <= lost
  BY <1>7 DEF Account, PrinterInv
<1>. HIDE DEF traced, E
<1>10. Cardinality(E) <= Cardinality(traced) + lost
  BY <1>2, <1>6, <1>8, <1>9, CountOfTold
<1>. QED
  BY <1>10 DEF traced, E

LEMMA PostedAccount ==
    ASSUME Account, main = "exited", ~hurried, ~stopped
    PROVE  Cardinality(Emitted(Agents, since)) <= Len(posted) + failures + lost
<1> DEFINE E == Emitted(Agents, since)
<1>1. bridge = "returned" /\ mail["bridge"] = <<>> /\ "bridge" \notin subs
  BY DEF Account, Stands
<1>2. Pending("bridge") = {} /\ Hand = {} /\ Range(<<>>) = {}
  BY <1>1, NonePending DEF Account, Readers, Hand, Range
<1>3. /\ posted \in Seq(Event) /\ failures \in Nat /\ lost \in Nat /\ Len(posted) \in Nat
      /\ Range(posted) = {posted[i] : i \in 1 .. Len(posted)}
  BY SeqOfEvents DEF Account, RunTyped
<1>4. Unposted = E \ {posted[i] : i \in 1 .. Len(posted)}
  BY <1>1, <1>2, <1>3 DEF Unposted
<1>5. Cardinality(Unposted) <= failures + lost
  BY <1>1 DEF Account, BridgeInv
<1>6. IsFiniteSet(E) /\ failures + lost \in Nat
  BY <1>3, EmittedIsFinite
<1>7. 1 .. Len(posted) \in SUBSET (1 .. Len(posted)) /\ Cardinality(1 .. Len(posted)) = Len(posted)
  BY <1>3, CountTo
<1>. HIDE DEF E
<1>8. Cardinality(E) <= Len(posted) + (failures + lost)
  BY <1>3, <1>4, <1>5, <1>6, <1>7, CountOfTold
<1>. QED
  BY <1>3, <1>6, <1>8, FS_CardinalityType DEF E

LEMMA PostedIsEmitted ==
    ASSUME Account, NEW i \in 1 .. Len(posted)
    PROVE  posted[i] \in Emitted(Agents, since)
<1>1. posted[i] \in Event /\ posted[i] \in Range(posted)
  BY SeqOfEvents DEF Account, RunTyped
<1>2. PICK a \in Sources, n \in Nat : posted[i] = <<a, n>>
  BY <1>1 DEF Event
<1>3. a \in Agents /\ since[a] < n /\ n <= sent[a]
  BY <1>1, <1>2 DEF Account, BridgeInv
<1>4. n \in 1 .. NEvents
  <2>1. since[a] \in Nat /\ sent[a] \in Nat /\ sent[a] <= NEvents
    BY <1>3 DEF Account, RunTyped
  <2>. QED
    BY <1>3, <2>1, BusAssumption
<1>. QED
  BY <1>2, <1>3, <1>4 DEF Emitted

LEMMA AccountTells == Account => RunIsAccounted
<1>. SUFFICES ASSUME Account
              PROVE  RunIsAccounted
  OBVIOUS
<1>1. InOrder(printed) /\ InOrder(posted)
  BY DEF Account, PrinterInv, BridgeInv, Orderly
<1>. QED
  BY <1>1, PrintedAccount, PostedAccount, PostedIsEmitted DEF RunIsAccounted, Nothing

\* What the agents of a run published was printed or counted as dropped, in
\* order and once; and what they published while the bridge was subscribed was
\* posted, or counted as failed or dropped, unless the exit left it behind.
THEOREM BusRunIsAccounted == BusSpec => []RunIsAccounted
BY InitAccount, NextAccount, AccountTells, PTL DEF BusSpec
=============================================================================
