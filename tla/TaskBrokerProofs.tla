-------------------------- MODULE TaskBrokerProofs --------------------------
(***************************************************************************)
(* The broker loses and repeats nothing, for any number of subscribers,    *)
(* any buffer, any channel and any number of events.                       *)
(*                                                                         *)
(* Gapless and NothingMissed are statements about what a subscriber holds; *)
(* they are kept by publish because the buffer is always the tail of the   *)
(* log (what subscribe copies joins on to what publish sends next), and    *)
(* because a channel is closed without the overflow flag only by the end   *)
(* of the task, after which nothing is published.                          *)
(***************************************************************************)
EXTENDS SubscribeClient, SequenceTheorems, WellFoundedInduction, TLAPS

\* The buffer is the tail of the log.
BufIsTail ==
    /\ Len(buf) <= Len(log)
    /\ \A i \in 1 .. Len(buf) : buf[i] = log[Len(log) - Len(buf) + i]

\* A Subscribe call that has not joined holds nothing.
Outside ==
    \A s \in Subs : ~Joined(s) =>
        /\ got[s] = <<>> /\ todo[s] = <<>> /\ chan[s] = <<>>
        /\ s \notin shut /\ s \notin overflow
        /\ from[s] = 1

\* Why a channel can be closed.
Closings ==
    /\ done <=> phase \in {"closed", "retired"}
    /\ done => live = {}
    /\ overflow \subseteq shut
    /\ \A s \in shut \ overflow : done \/ pc[s] = "returned"

IInv == TypeOK /\ BufIsTail /\ Outside /\ Closings /\ Gapless /\ NothingMissed

-----------------------------------------------------------------------------
(* Sequences.                                                              *)

\* A bounded, nonempty set of positions has a last one.
LEMMA LastPosition ==
    ASSUME NEW n \in Nat, NEW T \in SUBSET (1 .. n), T # {}
    PROVE  \E i \in T : \A j \in T : j <= i
<1> DEFINE below == {n - i : i \in T}
           R == OpToRel(<, Nat)
<1>1. below \subseteq Nat /\ below # {}
  <2>1. \A i \in T : n - i \in Nat
    OBVIOUS
  <2>. QED
    BY <2>1
<1>2. \E x \in below : \A y \in below : ~(<<y, x>> \in R)
  <2>. HIDE DEF below
  <2>. QED
    BY <1>1, NatLessThanWellFounded, WFMin
<1>3. PICK x \in below : \A y \in below : ~(<<y, x>> \in R)
  BY <1>2
<1>4. \A y \in below : ~(y < x)
  BY <1>1, <1>3 DEF OpToRel
<1>5. PICK i \in T : x = n - i
  BY <1>3
<1>6. \A j \in T : j <= i
  <2>. TAKE j \in T
  <2>1. n - j \in below
    OBVIOUS
  <2>. QED
    BY <1>4, <1>5, <2>1
<1>. QED
  BY <1>6

LEMMA LatestType ==
    ASSUME NEW b \in Seq(Event), NEW k
    PROVE  /\ Latest(b, k) \in Seq(Event)
           /\ Latest(b, k) = <<>> \/ \E m \in 1 .. Len(b) : Latest(b, k) = << b[m] >>
<1> DEFINE at == {i \in DOMAIN b : b[i].kind = k}
<1>1. CASE at = {}
  BY <1>1 DEF Latest
<1>2. CASE at # {}
  <2>1. Len(b) \in Nat /\ at \in SUBSET (1 .. Len(b))
    OBVIOUS
  <2>2. \E i \in at : \A j \in at : j <= i
    <3>. HIDE DEF at
    <3>. QED
      BY <1>2, <2>1, LastPosition
  <2> DEFINE m == CHOOSE i \in at : \A j \in at : j <= i
  <2>3. m \in at
    <3>. HIDE DEF at
    <3>. QED
      BY <2>2
  <2>4. Latest(b, k) = << b[m] >>
    BY <1>2 DEF Latest
  <2>5. << b[m] >> \in Seq(Event)
    <3>. HIDE DEF m, at
    <3>. QED
      BY <2>1, <2>3
  <2>6. m \in 1 .. Len(b)
    BY ONLY <2>1, <2>3
  <2>. QED
    BY ONLY <2>4, <2>5, <2>6
<1>. QED
  BY <1>1, <1>2

LEMMA SummaryType ==
    ASSUME NEW b \in Seq(Event)
    PROVE  /\ Summary(b) \in Seq(Event)
           /\ \A i \in 1 .. Len(Summary(b)) : \E m \in 1 .. Len(b) : Summary(b)[i] = b[m]
<1> DEFINE x == Latest(b, "artifact")
           y == Latest(b, "status")
<1>1. /\ x \in Seq(Event) /\ (x = <<>> \/ \E m \in 1 .. Len(b) : x = << b[m] >>)
      /\ y \in Seq(Event) /\ (y = <<>> \/ \E m \in 1 .. Len(b) : y = << b[m] >>)
  BY LatestType
<1>. HIDE DEF x, y
<1>2. \A e, f : /\ Len(<<e>>) = 1 /\ <<e>>[1] = e
               /\ Len(<<e>> \o <<f>>) = 2 /\ (<<e>> \o <<f>>)[1] = e /\ (<<e>> \o <<f>>)[2] = f
  OBVIOUS
<1>3. /\ x \o y \in Seq(Event)
      /\ \A i \in 1 .. Len(x \o y) : \E m \in 1 .. Len(b) : (x \o y)[i] = b[m]
  BY <1>1
<1>. QED
  BY ONLY <1>3 DEF Summary, x, y

\* Moving the head of the rest to the end of what was read changes nothing.
LEMMA Shift ==
    ASSUME NEW S, NEW g \in Seq(S), NEW t \in Seq(S), t # <<>>
    PROVE  /\ Append(g, Head(t)) \in Seq(S) /\ Tail(t) \in Seq(S)
           /\ Len(Tail(t)) = Len(t) - 1
           /\ Append(g, Head(t)) \o Tail(t) = g \o t
OBVIOUS

LEMMA AppendRight ==
    ASSUME NEW S, NEW g \in Seq(S), NEW t \in Seq(S), NEW e \in S
    PROVE  g \o Append(t, e) = Append(g \o t, e)
OBVIOUS

\* Trim keeps the tail.
LEMMA TrimTail ==
    ASSUME NEW b \in Seq(Event)
    PROVE  /\ Trim(b) \in Seq(Event)
           /\ Len(Trim(b)) = (IF Len(b) > MaxBuf THEN MaxBuf ELSE Len(b))
           /\ \A i \in 1 .. Len(Trim(b)) : Trim(b)[i] = b[Len(b) - Len(Trim(b)) + i]
<1>1. MaxBuf \in Nat
  BY BrokerAssumption DEF BrokerAssumption
<1>2. CASE Len(b) > MaxBuf
  <2> DEFINE c == SubSeq(b, Len(b) - MaxBuf + 1, Len(b))
  <2>1. /\ c \in Seq(Event) /\ Len(c) = MaxBuf
        /\ \A i \in 1 .. MaxBuf : c[i] = b[Len(b) - MaxBuf + i]
    BY <1>1, <1>2
  <2>2. Trim(b) = c
    BY <1>2 DEF Trim
  <2>. QED
    <3>. HIDE DEF c
    <3>. QED
      BY <1>2, <2>1, <2>2
<1>3. CASE ~(Len(b) > MaxBuf)
  BY <1>1, <1>3 DEF Trim
<1>. QED
  BY <1>2, <1>3

-----------------------------------------------------------------------------
(* Streams.                                                                *)

LEMMA StreamType ==
    ASSUME TypeOK, NEW s \in Subs
    PROVE  /\ got[s] \in Seq(Event) /\ todo[s] \in Seq(Event) /\ chan[s] \in Seq(Event)
           /\ got[s] \o todo[s] \in Seq(Event)
           /\ Stream(s) \in Seq(Event) /\ Len(Stream(s)) \in Nat
           /\ from[s] \in Nat /\ Len(log) \in Nat
BY DEF TypeOK, Stream

\* What only moves events from the replay or the channel to the sink.
LEMMA StreamsKept ==
    ASSUME Gapless, NothingMissed,
           UNCHANGED <<log, from, live, shut, overflow>>,
           \A s \in Subs : /\ Stream(s)' = Stream(s)
                           /\ Joined(s)' <=> Joined(s)
                           /\ pc'[s] = "attached" => pc[s] = "attached"
    PROVE  Gapless' /\ NothingMissed'
<1>1. \A s \in Subs : Reached(s)' = Reached(s)
  BY DEF Reached
<1>2. Gapless'
  BY <1>1 DEF Gapless
<1>3. NothingMissed'
  BY <1>1 DEF NothingMissed
<1>. QED
  BY <1>2, <1>3

LEMMA InitIInv == Init => IInv
<1>. SUFFICES ASSUME Init PROVE IInv
  OBVIOUS
<1>0. <<>> \in Seq(Event) /\ Len(<<>>) = 0 /\ <<>> \o <<>> \o <<>> = <<>>
  OBVIOUS
<1>1. TypeOK
  <2>1. MaxBuf \in Nat /\ ChanCap \in Nat
    BY BrokerAssumption DEF BrokerAssumption
  <2> DEFINE nothing == [s \in Subs |-> <<>>]
  <2>2. nothing \in [Subs -> Seq(Event)]
    BY <1>0
  <2>3. todo = nothing /\ chan = nothing /\ got = nothing /\ coda = nothing
    BY DEF Init
  <2>4. \A s \in Subs : Len(chan[s]) <= ChanCap
    <3>. TAKE s \in Subs
    <3>1. chan[s] = <<>>
      BY <2>3
    <3>. QED
      BY <1>0, <2>1, <3>1
  <2>5. /\ todo \in [Subs -> Seq(Event)] /\ chan \in [Subs -> Seq(Event)]
        /\ got \in [Subs -> Seq(Event)] /\ coda \in [Subs -> Seq(Event)]
    <3>. HIDE DEF nothing
    <3>. QED
      BY <2>2, <2>3
  <2>6. /\ log \in Seq(Event) /\ buf \in Seq(Event) /\ Len(buf) <= MaxBuf
    BY <1>0, <2>1 DEF Init
  <2>7. phase = "begun" /\ live = {} /\ done = FALSE /\ listed = TRUE
        /\ shut = {} /\ overflow = {}
    BY DEF Init
  <2>8. pc \in [Subs -> {"idle", "refused", "found", "attached", "leaving", "returned"}]
    BY DEF Init
  <2>9. why \in [Subs -> {"none", "closed", "slow", "sink", "ctx"}]
    BY DEF Init
  <2>10. from \in [Subs -> Nat \ {0}]
    BY DEF Init
  <2>. QED
    BY <2>4, <2>5, <2>6, <2>7, <2>8, <2>9, <2>10 DEF TypeOK
<1>2. BufIsTail /\ Outside /\ Closings
  BY DEF Init, BufIsTail, Outside, Closings, Joined
<1>3. \A s \in Subs : Stream(s) = <<>> /\ Reached(s) = 0
  <2>. TAKE s \in Subs
  <2>1. got[s] = <<>> /\ todo[s] = <<>> /\ chan[s] = <<>> /\ from[s] = 1
    BY DEF Init
  <2>2. Stream(s) = <<>>
    BY <1>0, <2>1 DEF Stream
  <2>. QED
    BY <1>0, <2>1, <2>2 DEF Reached
<1>4. Gapless /\ NothingMissed
  BY <1>3 DEF Init, Gapless, NothingMissed, Joined
<1>. QED
  BY <1>1, <1>2, <1>4 DEF IInv

-----------------------------------------------------------------------------
(* The task's goroutine.                                                   *)

LEMMA EventType ==
    ASSUME TypeOK, NEW b \in BOOLEAN, NEW c \in BOOLEAN
    PROVE  Status(b) \in Event /\ Artifact(b, c) \in Event
BY DEF TypeOK, Status, Artifact, Event

LEMMA PublishIInv ==
    ASSUME IInv, ~done, NEW ev \in Event, Publish(ev),
           phase' \in {"begun", "running", "completed", "finished"}
    PROVE  IInv'
<1>. USE DEF IInv
<1>0. Len(log) \in Nat /\ Len(buf) \in Nat /\ log \in Seq(Event) /\ buf \in Seq(Event)
  BY DEF TypeOK
<1>1. /\ log' \in Seq(Event) /\ Len(log') = Len(log) + 1
      /\ \A i \in 1 .. Len(log) : log'[i] = log[i]
      /\ log'[Len(log) + 1] = ev
  BY <1>0 DEF Publish
<1> DEFINE b == Append(buf, ev)
<1>2. /\ b \in Seq(Event) /\ Len(b) = Len(buf) + 1
      /\ \A i \in 1 .. Len(buf) : b[i] = buf[i]
      /\ b[Len(buf) + 1] = ev
  BY <1>0
<1>3. /\ buf' \in Seq(Event)
      /\ Len(buf') = (IF Len(b) > MaxBuf THEN MaxBuf ELSE Len(b))
      /\ \A i \in 1 .. Len(buf') : buf'[i] = b[Len(b) - Len(buf') + i]
  <2>. HIDE DEF b
  <2>1. buf' = Trim(b)
    BY DEF Publish, b
  <2>. QED
    BY <1>2, <2>1, TrimTail
<1>4. \A s \in Subs : chan'[s] = IF s \in live \ Full THEN Append(chan[s], ev) ELSE chan[s]
  BY DEF Publish
<1>5. TypeOK'
  <2>1. chan' \in [Subs -> Seq(Event)]
    BY <1>4 DEF TypeOK, Publish
  <2>2. \A s \in Subs : Len(chan'[s]) <= ChanCap
    <3>. SUFFICES ASSUME NEW s \in Subs PROVE Len(chan'[s]) <= ChanCap
      OBVIOUS
    <3>1. chan[s] \in Seq(Event) /\ Len(chan[s]) \in Nat /\ Len(chan[s]) <= ChanCap
      BY DEF TypeOK
    <3>2. Len(Append(chan[s], ev)) = Len(chan[s]) + 1
      BY <3>1
    <3>3. ChanCap \in Nat /\ (s \in live \ Full => Len(chan[s]) # ChanCap)
      BY BrokerAssumption DEF BrokerAssumption, Full
    <3>4. CASE s \in live \ Full
      <4>1. chan'[s] = Append(chan[s], ev)
        BY <1>4, <3>4
      <4>. QED
        BY <3>1, <3>2, <3>3, <3>4, <4>1
    <3>5. CASE s \notin live \ Full
      BY <1>4, <3>1, <3>5
    <3>. QED
      BY <3>4, <3>5
  <2>3. Len(buf') <= MaxBuf
    BY <1>2, <1>3, <1>0, BrokerAssumption DEF BrokerAssumption
  <2>. QED
    BY <1>1, <1>3, <2>1, <2>2, <2>3 DEF TypeOK, Publish, Full
<1>6. BufIsTail'
  <2>. HIDE DEF b
  <2>1. MaxBuf \in Nat \ {0}
    BY BrokerAssumption DEF BrokerAssumption
  <2>2. Len(b) <= Len(log') /\ Len(buf') <= Len(b) /\ Len(buf') \in Nat /\ Len(b) \in Nat
    BY <1>0, <1>1, <1>2, <1>3, <2>1 DEF BufIsTail
  <2>3. \A i \in 1 .. Len(b) : b[i] = log'[Len(log') - Len(b) + i]
    <3>. SUFFICES ASSUME NEW i \in 1 .. Len(b)
                  PROVE  b[i] = log'[Len(log') - Len(b) + i]
      OBVIOUS
    <3>1. CASE i \in 1 .. Len(buf)
      <4> DEFINE k == Len(log) - Len(buf) + i
      <4>1. k \in 1 .. Len(log) /\ k = Len(log') - Len(b) + i
        BY <1>0, <1>1, <1>2, <3>1 DEF BufIsTail
      <4>2. b[i] = log[k]
        BY <1>2, <3>1 DEF BufIsTail
      <4>. HIDE DEF k
      <4>. QED
        BY <1>1, <4>1, <4>2
    <3>2. CASE i = Len(buf) + 1
      BY <1>0, <1>1, <1>2, <3>2
    <3>. QED
      BY <1>0, <1>2, <3>1, <3>2
  <2>4. ASSUME NEW i \in 1 .. Len(buf')
        PROVE  buf'[i] = log'[Len(log') - Len(buf') + i]
    <3> DEFINE k == Len(b) - Len(buf') + i
    <3>1. /\ k \in 1 .. Len(b)
          /\ Len(log') - Len(b) + k = Len(log') - Len(buf') + i
      BY <1>0, <1>1, <2>2
    <3>2. buf'[i] = b[k]
      BY <1>3
    <3>. HIDE DEF k
    <3>. QED
      BY <2>3, <3>1, <3>2
  <2>. QED
    BY <1>0, <1>1, <2>2, <2>4 DEF BufIsTail
<1>7. Outside'
  BY <1>4 DEF Outside, NothingMissed, Joined, Publish, Full
<1>8. Closings'
  BY DEF Closings, Publish, Full, TypeOK
<1>9. ASSUME NEW s \in Subs
      PROVE  Stream(s)' = IF s \in live \ Full THEN Append(Stream(s), ev) ELSE Stream(s)
  <2>1. /\ got[s] \in Seq(Event) /\ todo[s] \in Seq(Event) /\ chan[s] \in Seq(Event)
        /\ got[s] \o todo[s] \in Seq(Event)
    BY StreamType
  <2>2. CASE s \in live \ Full
    <3>1. Stream(s)' = (got[s] \o todo[s]) \o Append(chan[s], ev)
      BY <1>4, <2>2 DEF Stream, Publish
    <3> DEFINE read == got[s] \o todo[s]
    <3>2. read \o Append(chan[s], ev) = Append(read \o chan[s], ev)
      <4>. HIDE DEF read
      <4>1. read \in Seq(Event)
        BY <2>1 DEF read
      <4>. QED
        BY <2>1, <4>1, AppendRight
    <3>. QED
      BY <2>2, <3>1, <3>2 DEF Stream
  <2>3. CASE s \notin live \ Full
    <3>1. chan'[s] = chan[s] /\ todo'[s] = todo[s] /\ got'[s] = got[s]
      BY <1>4, <2>3 DEF Publish
    <3>. QED
      BY ONLY <2>3, <3>1 DEF Stream
  <2>. QED
    BY <2>2, <2>3
<1>10. ASSUME NEW s \in Subs
       PROVE  /\ Stream(s) \in Seq(Event) /\ Len(Stream(s)) \in Nat /\ from[s] \in Nat
              /\ from'[s] = from[s]
              /\ Reached(s) = from[s] + Len(Stream(s)) - 1
              /\ Reached(s)' = IF s \in live \ Full THEN Reached(s) + 1 ELSE Reached(s)
  <2>1. Stream(s) \in Seq(Event) /\ Len(Stream(s)) \in Nat /\ from[s] \in Nat /\ from' = from
    BY StreamType DEF Publish
  <2>2. Len(Stream(s)') = IF s \in live \ Full THEN Len(Stream(s)) + 1 ELSE Len(Stream(s))
    <3>. DEFINE now == Stream(s)
                next == Stream(s)'
    <3>1. next = IF s \in live \ Full THEN Append(now, ev) ELSE now
      BY <1>9
    <3>2. now \in Seq(Event)
      BY <2>1
    <3>. HIDE DEF now, next
    <3>3. Len(next) = IF s \in live \ Full THEN Len(now) + 1 ELSE Len(now)
      BY ONLY <3>1, <3>2
    <3>. QED
      BY ONLY <3>3 DEF now, next
  <2>3. /\ Reached(s) = from[s] + Len(Stream(s)) - 1
        /\ Reached(s)' = from'[s] + Len(Stream(s)') - 1
    BY DEF Reached
  <2>4. ASSUME NEW f \in Nat, NEW n \in Nat
        PROVE  f + (n + 1) - 1 = (f + n - 1) + 1
    OBVIOUS
  <2>. QED
    BY ONLY <2>1, <2>2, <2>3, <2>4
<1>11. Gapless'
  <2>1. ASSUME NEW s \in Subs
        PROVE  /\ Reached(s)' <= Len(log')
               /\ \A i \in 1 .. Len(Stream(s)') : Stream(s)'[i] = log'[from'[s] + i - 1]
    <3>0. /\ Reached(s) <= Len(log)
          /\ \A i \in 1 .. Len(Stream(s)) :
                /\ from[s] + i - 1 \in 1 .. Len(log)
                /\ Stream(s)[i] = log[from[s] + i - 1]
      <4>1. from[s] \in Nat \ {0} /\ Len(Stream(s)) \in Nat /\ Len(log) \in Nat
        BY <1>0, <1>10 DEF TypeOK
      <4>2. /\ from[s] + Len(Stream(s)) - 1 <= Len(log)
            /\ Reached(s) <= Len(log)
            /\ \A i \in 1 .. Len(Stream(s)) : Stream(s)[i] = log[from[s] + i - 1]
        BY <1>10 DEF Gapless
      <4>3. ASSUME NEW f \in Nat \ {0}, NEW a \in Nat, NEW l \in Nat, f + a - 1 <= l,
                   NEW i \in 1 .. a
            PROVE  f + i - 1 \in 1 .. l
        BY <4>3
      <4>. QED
        BY ONLY <4>1, <4>2, <4>3
    <3>1. CASE s \in live \ Full
      <4>1. Stream(s)' = Append(Stream(s), ev)
        BY <1>9, <3>1
      <4>2. Reached(s) = Len(log)
        BY <3>1 DEF NothingMissed
      <4>3. Reached(s)' <= Len(log')
        BY <1>0, <1>1, <1>10, <3>1, <4>2
      <4>4. ASSUME NEW i \in 1 .. Len(Stream(s)')
            PROVE  Stream(s)'[i] = log'[from'[s] + i - 1]
        <5>1. CASE i \in 1 .. Len(Stream(s))
          <6> DEFINE k == from[s] + i - 1
          <6>1. k \in 1 .. Len(log) /\ Stream(s)[i] = log[k]
            BY <3>0, <5>1
          <6>2. Stream(s)'[i] = Stream(s)[i]
            BY <1>10, <4>1, <5>1
          <6>3. log'[k] = log[k]
            <7>. HIDE DEF k
            <7>. QED
              BY <1>1, <6>1
          <6>. QED
            BY <1>10, <6>1, <6>2, <6>3
        <5>2. CASE i = Len(Stream(s)) + 1
          BY <1>0, <1>1, <1>10, <4>1, <4>2, <5>2
        <5>. QED
          BY <1>10, <4>1, <5>1, <5>2
      <4>. QED
        BY <4>3, <4>4
    <3>2. CASE s \notin live \ Full
      <4>1. /\ Stream(s)' = Stream(s) /\ Reached(s)' = Reached(s) /\ from'[s] = from[s]
        BY <1>9, <1>10, <3>2
      <4>2. Reached(s)' <= Len(log')
        <5>1. Reached(s) \in Int
          BY <1>10
        <5>. QED
          BY ONLY <1>0, <1>1, <3>0, <4>1, <5>1
      <4>3. ASSUME NEW i \in 1 .. Len(Stream(s)')
            PROVE  Stream(s)'[i] = log'[from'[s] + i - 1]
        <5>1. i \in 1 .. Len(Stream(s))
          BY <4>1
        <5> DEFINE k == from[s] + i - 1
        <5>2. k \in 1 .. Len(log) /\ Stream(s)[i] = log[k]
          BY <3>0, <5>1
        <5>3. Stream(s)'[i] = log[k] /\ from'[s] + i - 1 = k
          BY <4>1, <5>2
        <5>. HIDE DEF k
        <5>. QED
          BY <1>1, <5>2, <5>3
      <4>. QED
        BY <4>2, <4>3
    <3>. QED
      BY <3>1, <3>2
  <2>. QED
    BY <2>1 DEF Gapless
<1>12. NothingMissed'
  <2>1. ASSUME NEW s \in Subs, s \in live' \/ (pc'[s] = "attached" /\ s \notin overflow')
        PROVE  Reached(s)' = Len(log')
    <3>1. s \in live \ Full
      BY <2>1 DEF Publish, NothingMissed, Closings, Joined, Full
    <3>. QED
      BY <1>0, <1>1, <1>10, <3>1 DEF NothingMissed
  <2>. QED
    BY <2>1 DEF NothingMissed, Publish, Joined, Full
<1>. QED
  BY <1>5, <1>6, <1>7, <1>8, <1>11, <1>12

\* The five steps that publish.
LEMMA PublishingIInv ==
    ASSUME IInv,
           \/ AnnounceWorking \/ EmitDelta \/ FinishWithout
           \/ EmitLastChunk \/ AnnounceCompleted
    PROVE  IInv'
<1>1. TypeOK /\ (done <=> phase \in {"closed", "retired"})
  BY DEF IInv, Closings
<1>2. CASE AnnounceWorking
  <2>1. Status(FALSE) \in Event
    BY <1>1, EventType
  <2>2. ~done /\ Publish(Status(FALSE)) /\ phase' = "running"
    BY <1>1, <1>2 DEF AnnounceWorking
  <2>. QED
    BY <2>1, <2>2, PublishIInv
<1>3. CASE EmitDelta
  <2> DEFINE c == Len(log) > 1
  <2>1. c \in BOOLEAN
    OBVIOUS
  <2>2. Artifact(c, FALSE) \in Event
    <3>. HIDE DEF c
    <3>. QED
      BY <1>1, <2>1, EventType
  <2>3. ~done /\ Publish(Artifact(c, FALSE)) /\ phase' = "running"
    BY <1>1, <1>3 DEF EmitDelta
  <2>. QED
    BY <2>2, <2>3, PublishIInv
<1>4. CASE FinishWithout
  <2>1. Status(TRUE) \in Event
    BY <1>1, EventType
  <2>2. ~done /\ Publish(Status(TRUE)) /\ phase' = "finished"
    BY <1>1, <1>4 DEF FinishWithout
  <2>. QED
    BY <2>1, <2>2, PublishIInv
<1>5. CASE EmitLastChunk
  <2>1. Artifact(FALSE, TRUE) \in Event
    BY <1>1, EventType
  <2>2. ~done /\ Publish(Artifact(FALSE, TRUE)) /\ phase' = "completed"
    BY <1>1, <1>5 DEF EmitLastChunk
  <2>. QED
    BY <2>1, <2>2, PublishIInv
<1>6. CASE AnnounceCompleted
  <2>1. Status(TRUE) \in Event
    BY <1>1, EventType
  <2>2. ~done /\ Publish(Status(TRUE)) /\ phase' = "finished"
    BY <1>1, <1>6 DEF AnnounceCompleted
  <2>. QED
    BY <2>1, <2>2, PublishIInv
<1>. QED
  BY <1>2, <1>3, <1>4, <1>5, <1>6

\* Closing the broker and taking it off the store's list.
LEMMA ClosingIInv ==
    ASSUME IInv, Close \/ FinishAsync
    PROVE  IInv'
<1>. USE DEF IInv
<1>1. /\ log' = log /\ buf' = buf /\ from' = from /\ pc' = pc /\ overflow' = overflow
      /\ got' = got /\ todo' = todo /\ chan' = chan /\ coda' = coda /\ why' = why
  BY DEF Close, FinishAsync, reader
<1>2. /\ phase' \in {"closed", "retired"} /\ done'
      /\ live' = {} /\ shut' = shut \union live
  BY DEF Close, FinishAsync, reader, Closings
<1>3. TypeOK'
  <2>1. done' \in BOOLEAN /\ listed' \in BOOLEAN
    BY DEF TypeOK, Close, FinishAsync
  <2>. QED
    BY <1>1, <1>2, <2>1 DEF TypeOK
<1>4. BufIsTail'
  BY <1>1 DEF BufIsTail
<1>5. Outside'
  BY <1>1, <1>2 DEF Outside, Joined, NothingMissed
<1>6. Closings'
  BY <1>1, <1>2 DEF Closings
<1>7. \A s \in Subs : Stream(s)' = Stream(s) /\ Reached(s)' = Reached(s)
  BY <1>1 DEF Stream, Reached
<1>8. Gapless'
  BY <1>1, <1>7 DEF Gapless
<1>9. NothingMissed'
  BY <1>1, <1>2, <1>7 DEF NothingMissed, Joined
<1>. QED
  BY <1>3, <1>4, <1>5, <1>6, <1>8, <1>9

-----------------------------------------------------------------------------
(* One Subscribe call.                                                     *)

LEMMA LookupIInv ==
    ASSUME IInv, NEW s \in Subs, Lookup(s)
    PROVE  IInv'
<1>. USE DEF IInv
<1>1. /\ phase' = phase /\ log' = log /\ buf' = buf /\ live' = live /\ done' = done
      /\ listed' = listed /\ why' = why /\ from' = from /\ shut' = shut
      /\ overflow' = overflow /\ got' = got /\ todo' = todo /\ chan' = chan /\ coda' = coda
  BY DEF Lookup, broker
<1>2. \A r \in Subs : /\ Joined(r)' <=> Joined(r)
                      /\ pc'[r] = "attached" <=> pc[r] = "attached"
                      /\ pc'[r] = "returned" <=> pc[r] = "returned"
  BY DEF TypeOK, Lookup, Joined
<1>3. TypeOK'
  <2>1. pc' \in [Subs -> {"idle", "refused", "found", "attached", "leaving", "returned"}]
    BY DEF TypeOK, Lookup
  <2>. QED
    BY <1>1, <2>1 DEF TypeOK
<1>4. BufIsTail' /\ Outside' /\ Closings'
  <2>1. BufIsTail'
    BY <1>1 DEF BufIsTail
  <2>2. Outside'
    BY <1>1, <1>2 DEF Outside
  <2>3. Closings'
    BY <1>1, <1>2 DEF Closings, TypeOK
  <2>. QED
    BY <2>1, <2>2, <2>3
<1>5. \A r \in Subs : Stream(r)' = Stream(r)
  BY <1>1 DEF Stream
<1>. QED
  BY <1>1, <1>2, <1>3, <1>4, <1>5, StreamsKept

LEMMA AttachIInv ==
    ASSUME IInv, NEW s \in Subs, Attach(s)
    PROVE  IInv'
<1>. USE DEF IInv
<1>1. /\ phase' = phase /\ log' = log /\ buf' = buf /\ done' = done /\ listed' = listed
      /\ why' = why /\ overflow' = overflow /\ got' = got /\ chan' = chan /\ coda' = coda
  BY DEF Attach
<1>2. /\ ~Joined(s) /\ got[s] = <<>> /\ chan[s] = <<>> /\ s \notin shut /\ s \notin overflow
      /\ s \notin live
  BY DEF Attach, Joined, Outside, NothingMissed
<1>3. /\ pc'[s] = "attached" /\ todo'[s] = buf /\ from'[s] = Len(log) - Len(buf) + 1
      /\ \A r \in Subs \ {s} : pc'[r] = pc[r] /\ todo'[r] = todo[r] /\ from'[r] = from[r]
  BY DEF TypeOK, Attach
<1>4. /\ live' \subseteq live \union {s} /\ shut' \subseteq shut \union {s}
      /\ live \subseteq live' /\ shut \subseteq shut'
      /\ done => live' = live
      /\ ~done => shut' = shut
      /\ s \in live' \union shut' /\ ~(s \in live' /\ s \in shut')
  BY <1>2 DEF Attach
<1>5. Len(log) \in Nat /\ Len(buf) \in Nat /\ Len(buf) <= Len(log) /\ buf \in Seq(Event)
  BY DEF TypeOK, BufIsTail
<1>6. TypeOK'
  <2>1. pc' \in [Subs -> {"idle", "refused", "found", "attached", "leaving", "returned"}]
    BY DEF TypeOK, Attach
  <2>2. todo' \in [Subs -> Seq(Event)]
    BY DEF TypeOK, Attach
  <2>3. from' \in [Subs -> Nat \ {0}]
    <3>1. Len(log) - Len(buf) + 1 \in Nat \ {0}
      BY <1>5
    <3>. QED
      BY <3>1 DEF TypeOK, Attach
  <2>4. live' \in SUBSET Subs /\ shut' \in SUBSET Subs
    BY <1>4 DEF TypeOK
  <2>. QED
    BY <1>1, <2>1, <2>2, <2>3, <2>4 DEF TypeOK
<1>7. BufIsTail'
  BY <1>1 DEF BufIsTail
<1>8. Outside'
  BY <1>1, <1>3, <1>4 DEF Outside, Joined
<1>9. Closings'
  BY <1>1, <1>2, <1>3, <1>4 DEF Closings, TypeOK
<1>10. ASSUME NEW r \in Subs \ {s}
       PROVE  Stream(r)' = Stream(r) /\ Reached(r)' = Reached(r)
  BY <1>1, <1>3 DEF Stream, Reached
<1>11. Stream(s)' = buf /\ Reached(s)' = Len(log)
  <2>1. <<>> \o buf \o <<>> = buf
    BY <1>5
  <2>2. Stream(s)' = buf
    BY <1>1, <1>2, <1>3, <2>1 DEF Stream
  <2>. QED
    BY <1>3, <1>5, <2>2 DEF Reached
<1>12. Gapless'
  <2>1. ASSUME NEW i \in 1 .. Len(buf) PROVE buf[i] = log[from'[s] + i - 1]
    <3>1. from'[s] + i - 1 = Len(log) - Len(buf) + i
      BY <1>3, <1>5
    <3>. QED
      BY <3>1 DEF BufIsTail
  <2>2. ASSUME NEW r \in Subs
        PROVE  /\ Reached(r)' <= Len(log')
               /\ \A i \in 1 .. Len(Stream(r)') : Stream(r)'[i] = log'[from'[r] + i - 1]
    <3>1. CASE r = s
      BY <1>1, <1>5, <1>11, <2>1, <3>1
    <3>2. CASE r # s
      BY <1>1, <1>3, <1>10, <3>2 DEF Gapless
    <3>. QED
      BY <3>1, <3>2
  <2>. QED
    BY <2>2 DEF Gapless
<1>13. NothingMissed'
  <2>1. ASSUME NEW r \in Subs \ {s}
        PROVE  /\ r \in live' => Joined(r)' /\ r \notin shut'
               /\ Joined(r)' => r \in live' \union shut'
               /\ r \in live' \/ (pc'[r] = "attached" /\ r \notin overflow')
                    => Reached(r)' = Len(log')
    BY <1>1, <1>3, <1>4, <1>10 DEF NothingMissed, Joined
  <2>2. /\ Joined(s)' /\ s \in live' \union shut' /\ (s \in live' => s \notin shut')
        /\ Reached(s)' = Len(log')
    BY <1>1, <1>3, <1>4, <1>11 DEF Joined
  <2>. QED
    BY <2>1, <2>2 DEF NothingMissed
<1>. QED
  BY <1>6, <1>7, <1>8, <1>9, <1>12, <1>13

\* Reading: the stream of s stays what it is, and s may decide to stop.
LEMMA ReadingIInv ==
    ASSUME IInv, NEW s \in Subs, pc[s] = "attached",
           UNCHANGED <<broker, from, shut, overflow>>,
           pc' = pc \/ pc' = [pc EXCEPT ![s] = "leaving"],
           why' \in [Subs -> {"none", "closed", "slow", "sink", "ctx"}],
           got' \in [Subs -> Seq(Event)], todo' \in [Subs -> Seq(Event)],
           chan' \in [Subs -> Seq(Event)], coda' \in [Subs -> Seq(Event)],
           \A r \in Subs \ {s} : got'[r] = got[r] /\ todo'[r] = todo[r] /\ chan'[r] = chan[r],
           Len(chan'[s]) <= Len(chan[s]),
           Stream(s)' = Stream(s)
    PROVE  IInv'
<1>. USE DEF IInv
<1>1. /\ phase' = phase /\ log' = log /\ buf' = buf /\ live' = live /\ done' = done
      /\ listed' = listed /\ from' = from /\ shut' = shut /\ overflow' = overflow
  BY DEF broker
<1>2. \A r \in Subs : /\ Joined(r)' <=> Joined(r)
                      /\ pc'[r] = "attached" => pc[r] = "attached"
                      /\ pc'[r] = "returned" <=> pc[r] = "returned"
  BY DEF TypeOK, Joined
<1>3. Joined(s)
  BY DEF Joined
<1>4. TypeOK'
  <2>1. pc' \in [Subs -> {"idle", "refused", "found", "attached", "leaving", "returned"}]
    BY DEF TypeOK
  <2>2. \A r \in Subs : Len(chan'[r]) <= ChanCap
    <3>. SUFFICES ASSUME NEW r \in Subs PROVE Len(chan'[r]) <= ChanCap
      OBVIOUS
    <3>1. Len(chan'[r]) <= Len(chan[r]) /\ Len(chan[r]) <= ChanCap
      <4>1. chan[r] \in Seq(Event) /\ Len(chan[r]) \in Nat
        BY DEF TypeOK
      <4>2. CASE r = s
        BY <4>2 DEF TypeOK
      <4>3. CASE r # s
        BY <4>1, <4>3 DEF TypeOK
      <4>. QED
        BY <4>2, <4>3
    <3>2. Len(chan'[r]) \in Nat /\ Len(chan[r]) \in Nat /\ ChanCap \in Nat
      <4>1. chan'[r] \in Seq(Event) /\ chan[r] \in Seq(Event)
        BY DEF TypeOK
      <4>. QED
        BY <4>1, BrokerAssumption DEF BrokerAssumption
    <3>. QED
      BY <3>1, <3>2
  <2>. QED
    BY <1>1, <2>1, <2>2 DEF TypeOK
<1>5. BufIsTail' /\ Closings'
  <2>1. BufIsTail'
    BY <1>1 DEF BufIsTail
  <2>2. Closings'
    BY <1>1, <1>2 DEF Closings, TypeOK
  <2>. QED
    BY <2>1, <2>2
<1>6. Outside'
  BY <1>1, <1>2, <1>3 DEF Outside
<1>7. \A r \in Subs : Stream(r)' = Stream(r)
  BY DEF Stream
<1>. QED
  BY <1>1, <1>2, <1>4, <1>5, <1>6, <1>7, StreamsKept

LEMMA SubscriberIInv ==
    ASSUME IInv, NEW s \in Subs, Subscriber(s)
    PROVE  IInv'
<1>. USE DEF IInv
<1>0. TypeOK
  OBVIOUS
<1>1. CASE Lookup(s)
  BY <1>1, LookupIInv
<1>2. CASE Attach(s)
  BY <1>2, AttachIInv
<1>3. /\ got[s] \in Seq(Event) /\ todo[s] \in Seq(Event) /\ chan[s] \in Seq(Event)
      /\ got \in [Subs -> Seq(Event)] /\ todo \in [Subs -> Seq(Event)]
      /\ chan \in [Subs -> Seq(Event)] /\ coda \in [Subs -> Seq(Event)]
      /\ pc \in [Subs -> {"idle", "refused", "found", "attached", "leaving", "returned"}]
      /\ why \in [Subs -> {"none", "closed", "slow", "sink", "ctx"}]
  BY DEF TypeOK
<1>4. ASSUME pc[s] = "attached", todo[s] # <<>>,
             got' = [got EXCEPT ![s] = Append(@, Head(todo[s]))],
             todo' = [todo EXCEPT ![s] = Tail(@)],
             UNCHANGED <<broker, from, chan, shut, overflow, coda>>,
             pc' = pc \/ pc' = [pc EXCEPT ![s] = "leaving"],
             why' \in [Subs -> {"none", "closed", "slow", "sink", "ctx"}]
      PROVE  IInv'
  <2>1. /\ Append(got[s], Head(todo[s])) \in Seq(Event) /\ Tail(todo[s]) \in Seq(Event)
        /\ Append(got[s], Head(todo[s])) \o Tail(todo[s]) = got[s] \o todo[s]
    <3>1. got[s] \in Seq(Event) /\ todo[s] \in Seq(Event) /\ todo[s] # <<>>
      BY <1>3, <1>4
    <3>. QED
      BY ONLY <3>1, Shift
  <2>2. got'[s] = Append(got[s], Head(todo[s])) /\ todo'[s] = Tail(todo[s]) /\ chan' = chan
    BY <1>3, <1>4
  <2>3. Stream(s)' = Stream(s)
    BY <2>1, <2>2 DEF Stream
  <2>4. got' \in [Subs -> Seq(Event)] /\ todo' \in [Subs -> Seq(Event)]
    BY <1>3, <1>4, <2>1
  <2>5. /\ \A r \in Subs \ {s} : got'[r] = got[r] /\ todo'[r] = todo[r] /\ chan'[r] = chan[r]
        /\ chan' \in [Subs -> Seq(Event)] /\ coda' \in [Subs -> Seq(Event)]
    BY <1>3, <1>4
  <2>6. Len(chan'[s]) <= Len(chan[s])
    <3>1. Len(chan[s]) \in Nat
      BY <1>3
    <3>. QED
      BY <2>2, <3>1
  <2>. QED
    BY <1>4, <2>3, <2>4, <2>5, <2>6, ReadingIInv
<1>5. ASSUME pc[s] = "attached", todo[s] = <<>>, chan[s] # <<>>,
             got' = [got EXCEPT ![s] = Append(@, Head(chan[s]))],
             chan' = [chan EXCEPT ![s] = Tail(@)],
             UNCHANGED <<broker, from, todo, shut, overflow, coda>>,
             pc' = pc \/ pc' = [pc EXCEPT ![s] = "leaving"],
             why' \in [Subs -> {"none", "closed", "slow", "sink", "ctx"}]
      PROVE  IInv'
  <2>1. /\ Append(got[s], Head(chan[s])) \in Seq(Event) /\ Tail(chan[s]) \in Seq(Event)
        /\ Len(Tail(chan[s])) = Len(chan[s]) - 1
        /\ Append(got[s], Head(chan[s])) \o Tail(chan[s]) = got[s] \o chan[s]
    <3>1. got[s] \in Seq(Event) /\ chan[s] \in Seq(Event) /\ chan[s] # <<>>
      BY <1>3, <1>5
    <3>. QED
      BY ONLY <3>1, Shift
  <2>2. got'[s] = Append(got[s], Head(chan[s])) /\ chan'[s] = Tail(chan[s]) /\ todo' = todo
    BY <1>3, <1>5
  <2>3. Stream(s)' = Stream(s)
    <3>1. Stream(s) = got[s] \o chan[s]
      <4>1. got[s] \o <<>> = got[s]
        BY <1>3
      <4>. QED
        BY <1>5, <4>1 DEF Stream
    <3>2. Stream(s)' = got'[s] \o chan'[s]
      <4>1. Append(got[s], Head(chan[s])) \o <<>> = Append(got[s], Head(chan[s]))
        BY <2>1
      <4>. QED
        BY <1>5, <2>2, <4>1 DEF Stream
    <3>. QED
      BY <2>1, <2>2, <3>1, <3>2
  <2>4. got' \in [Subs -> Seq(Event)] /\ chan' \in [Subs -> Seq(Event)]
    BY <1>3, <1>5, <2>1
  <2>5. /\ \A r \in Subs \ {s} : got'[r] = got[r] /\ todo'[r] = todo[r] /\ chan'[r] = chan[r]
        /\ todo' \in [Subs -> Seq(Event)] /\ coda' \in [Subs -> Seq(Event)]
    BY <1>3, <1>5
  <2>6. Len(chan'[s]) <= Len(chan[s])
    <3>1. Len(chan[s]) \in Nat
      BY <1>3
    <3>. QED
      BY <2>1, <2>2, <3>1
  <2>. QED
    BY <1>5, <2>3, <2>4, <2>5, <2>6, ReadingIInv
<1>6. ASSUME pc[s] = "attached", UNCHANGED <<broker, from, shut, overflow, got, todo, chan>>,
             pc' = [pc EXCEPT ![s] = "leaving"],
             NEW reason \in {"closed", "slow", "sink", "ctx"},
             why' = [why EXCEPT ![s] = reason],
             coda' \in [Subs -> Seq(Event)]
      PROVE  IInv'
  <2>1. Stream(s)' = Stream(s)
    BY <1>6 DEF Stream
  <2>2. /\ \A r \in Subs \ {s} : got'[r] = got[r] /\ todo'[r] = todo[r] /\ chan'[r] = chan[r]
        /\ got' \in [Subs -> Seq(Event)] /\ todo' \in [Subs -> Seq(Event)]
        /\ chan' \in [Subs -> Seq(Event)]
        /\ why' \in [Subs -> {"none", "closed", "slow", "sink", "ctx"}]
    BY <1>3, <1>6
  <2>3. Len(chan'[s]) <= Len(chan[s])
    <3>1. Len(chan[s]) \in Nat
      BY <1>3
    <3>. QED
      BY <1>6, <3>1
  <2>. QED
    BY <1>6, <2>1, <2>2, <2>3, ReadingIInv
<1>7. CASE Replay(s)
  BY <1>3, <1>4, <1>7 DEF Replay
<1>8. CASE Receive(s)
  BY <1>3, <1>5, <1>8 DEF Receive
<1>9. CASE Finish(s)
  BY <1>3, <1>6, <1>9 DEF Finish, Stop
<1>10. CASE FinishSlow(s)
  <2>1. Summary(buf) \in Seq(Event)
    BY SummaryType DEF TypeOK
  <2>2. coda' \in [Subs -> Seq(Event)]
    BY <1>3, <1>10, <2>1 DEF FinishSlow
  <2>. QED
    BY <1>6, <1>10, <2>2 DEF FinishSlow, Stop
<1>11. CASE SinkFails(s)
  <2>1. why' \in [Subs -> {"none", "closed", "slow", "sink", "ctx"}]
    BY <1>3, <1>11 DEF SinkFails, Stop
  <2>2. /\ pc[s] = "attached" /\ pc' = [pc EXCEPT ![s] = "leaving"]
        /\ why' = [why EXCEPT ![s] = "sink"]
        /\ UNCHANGED <<broker, from, shut, overflow, coda>>
    BY <1>11 DEF SinkFails, Stop
  <2>3. CASE /\ todo[s] # <<>>
             /\ got' = [got EXCEPT ![s] = Append(@, Head(todo[s]))]
             /\ todo' = [todo EXCEPT ![s] = Tail(@)]
             /\ UNCHANGED chan
    BY <1>4, <2>1, <2>2, <2>3
  <2>4. CASE /\ todo[s] = <<>> /\ chan[s] # <<>>
             /\ got' = [got EXCEPT ![s] = Append(@, Head(chan[s]))]
             /\ chan' = [chan EXCEPT ![s] = Tail(@)]
             /\ UNCHANGED todo
    BY <1>5, <2>1, <2>2, <2>4
  <2>5. CASE UNCHANGED <<got, todo, chan>>
    BY <1>3, <1>6, <2>2, <2>5
  <2>. QED
    BY <1>11, <2>3, <2>4, <2>5 DEF SinkFails
<1>12. CASE ContextDone(s)
  BY <1>3, <1>6, <1>12 DEF ContextDone, Stop
<1>13. CASE Unsubscribe(s)
  <2>1. /\ phase' = phase /\ log' = log /\ buf' = buf /\ done' = done /\ listed' = listed
        /\ why' = why /\ from' = from /\ overflow' = overflow /\ got' = got
        /\ todo' = todo /\ chan' = chan /\ coda' = coda
        /\ shut' = shut \union (live \intersect {s}) /\ live' = live \ {s}
    BY <1>13 DEF Unsubscribe
  <2>2. /\ pc[s] = "leaving" /\ pc'[s] = "returned"
        /\ \A r \in Subs \ {s} : pc'[r] = pc[r]
        /\ pc' \in [Subs -> {"idle", "refused", "found", "attached", "leaving", "returned"}]
    BY <1>3, <1>13 DEF Unsubscribe
  <2>3. \A r \in Subs : Joined(r)' <=> Joined(r)
    BY <2>2 DEF Joined
  <2>4. TypeOK'
    BY <2>1, <2>2 DEF TypeOK
  <2>5. BufIsTail'
    BY <2>1 DEF BufIsTail
  <2>6. Outside'
    BY <2>1, <2>3, <2>2 DEF Outside, Joined
  <2>7. Closings'
    BY <2>1, <2>2 DEF Closings, TypeOK
  <2>8. \A r \in Subs : Stream(r)' = Stream(r) /\ Reached(r)' = Reached(r)
    BY <2>1 DEF Stream, Reached
  <2>9. Gapless'
    BY <2>1, <2>8 DEF Gapless
  <2>10. NothingMissed'
    BY <2>1, <2>2, <2>3, <2>8 DEF NothingMissed
  <2>. QED
    BY <2>4, <2>5, <2>6, <2>7, <2>9, <2>10
<1>. QED
  BY <1>1, <1>2, <1>7, <1>8, <1>9, <1>10, <1>11, <1>12, <1>13 DEF Subscriber, Proceed

LEMMA StutterIInv ==
    ASSUME IInv, UNCHANGED vars
    PROVE  IInv'
<1>. USE DEF IInv
<1>1. /\ phase' = phase /\ log' = log /\ buf' = buf /\ live' = live /\ done' = done
      /\ listed' = listed /\ pc' = pc /\ why' = why /\ from' = from /\ todo' = todo
      /\ chan' = chan /\ shut' = shut /\ overflow' = overflow /\ got' = got /\ coda' = coda
  BY DEF vars, broker, reader
<1>2. \A r \in Subs : Stream(r)' = Stream(r) /\ Reached(r)' = Reached(r)
                      /\ (Joined(r)' <=> Joined(r))
  BY <1>1 DEF Stream, Reached, Joined
<1>3. TypeOK'
  BY <1>1 DEF TypeOK
<1>4. BufIsTail'
  BY <1>1 DEF BufIsTail
<1>5. Outside' /\ Closings'
  BY <1>1, <1>2 DEF Outside, Closings
<1>6. Gapless' /\ NothingMissed'
  BY <1>1, <1>2 DEF Gapless, NothingMissed
<1>. QED
  BY <1>3, <1>4, <1>5, <1>6

-----------------------------------------------------------------------------
LEMMA SpecIInv == Spec => []IInv
<1>1. Init => IInv
  BY InitIInv
<1>2. IInv /\ [Next]_vars => IInv'
  <2>. SUFFICES ASSUME IInv, [Next]_vars PROVE IInv'
    OBVIOUS
  <2>1. CASE Publisher
    BY <2>1, PublishingIInv, ClosingIInv DEF Publisher
  <2>2. CASE \E s \in Subs : Subscriber(s)
    BY <2>2, SubscriberIInv
  <2>3. CASE UNCHANGED vars
    BY <2>3, StutterIInv
  <2>. QED
    BY <2>1, <2>2, <2>3 DEF Next
<1>. QED
  BY <1>1, <1>2, PTL DEF Spec

\* The broker's state has the shape the code gives it; in particular the buffer
\* and every channel stay within their bounds, so that a send in publish, which
\* is made after the check for a full channel, never blocks.
THEOREM BrokerTypeOK == Spec => []TypeOK
<1>1. IInv => TypeOK
  BY DEF IInv
<1>. QED
  BY <1>1, SpecIInv, PTL

\* Replay and channel together give every subscriber one gapless stretch of the
\* published events, in order and without duplicates (publish and subscribe of
\* taskBroker).
THEOREM BrokerGapless == Spec => []Gapless
<1>1. IInv => Gapless
  BY DEF IInv
<1>. QED
  BY <1>1, SpecIInv, PTL

\* A subscriber is registered exactly while its channel is open, and one that
\* was not dropped as slow has every published event in hand or waiting.
THEOREM BrokerNothingMissed == Spec => []NothingMissed
<1>1. IInv => NothingMissed
  BY DEF IInv
<1>. QED
  BY <1>1, SpecIInv, PTL

-----------------------------------------------------------------------------
(* Complete streams.                                                       *)

\* Where a subscriber joins, it is given the last event there is, and the last
\* two if the buffer holds as many.
Early(s) ==
    from[s] = 1 \/ (from[s] <= Len(log) /\ (MaxBuf > 1 => from[s] < Len(log)))

\* A stream that ended because its channel was closed has the whole log to its end.
Whole(s) == done /\ todo[s] = <<>> /\ chan[s] = <<>> /\ Reached(s) = Len(log)

Stopped(s) == pc[s] \in {"leaving", "returned"}

CompleteInv ==
    /\ Len(buf) = IF Len(log) > MaxBuf THEN MaxBuf ELSE Len(log)
    /\ phase \in {"finished", "closed", "retired"} => Len(log) > 0 /\ IsFinal(log[Len(log)])
    /\ \A s \in Subs : Joined(s) => Early(s)
    /\ \A s \in Subs : ~Stopped(s) => why[s] = "none"
    /\ \A s \in Subs : why[s] = "closed" => Whole(s)

LEMMA InitCompleteInv == Init => CompleteInv
<1>1. MaxBuf \in Nat
  BY BrokerAssumption DEF BrokerAssumption
<1>. QED
  BY <1>1 DEF Init, CompleteInv, Joined, Stopped

LEMMA PublishCompleteInv ==
    ASSUME IInv, CompleteInv, ~done, NEW ev \in Event, Publish(ev),
           phase' \in {"finished"} => IsFinal(ev),
           phase' \notin {"closed", "retired"}
    PROVE  CompleteInv'
<1>1. MaxBuf \in Nat \ {0}
  BY BrokerAssumption DEF BrokerAssumption
<1>2. /\ log \in Seq(Event) /\ buf \in Seq(Event) /\ from \in [Subs -> Nat \ {0}]
  BY DEF IInv, TypeOK
<1>3. /\ log' = Append(log, ev) /\ buf' = Trim(Append(buf, ev))
      /\ UNCHANGED <<pc, why, from>>
  BY DEF Publish
<1>4. /\ Len(log) \in Nat /\ Len(log') = Len(log) + 1 /\ log'[Len(log')] = ev
      /\ Len(buf) \in Nat /\ Append(buf, ev) \in Seq(Event) /\ Len(Append(buf, ev)) = Len(buf) + 1
  BY <1>2, <1>3
<1>5. Len(buf') = IF Len(log') > MaxBuf THEN MaxBuf ELSE Len(log')
  <2>1. Len(buf') = IF Len(buf) + 1 > MaxBuf THEN MaxBuf ELSE Len(buf) + 1
    BY <1>3, <1>4, TrimTail
  <2>. QED
    BY <1>1, <1>4, <2>1 DEF CompleteInv
<1>6. phase' \in {"finished", "closed", "retired"} => Len(log') > 0 /\ IsFinal(log'[Len(log')])
  BY <1>4
<1>7. \A s \in Subs : Joined(s)' => Early(s)'
  <2>1. \A s \in Subs : Early(s) => Early(s)'
    BY <1>2, <1>3, <1>4 DEF Early
  <2>. QED
    BY <1>3, <2>1 DEF CompleteInv, Joined
<1>8. \A s \in Subs : why[s] # "closed"
  BY DEF CompleteInv, Whole
<1>. QED
  BY <1>3, <1>5, <1>6, <1>7, <1>8 DEF CompleteInv, Stopped

LEMMA PublisherCompleteInv ==
    ASSUME IInv, CompleteInv, Publisher
    PROVE  CompleteInv'
<1>1. TypeOK /\ (done <=> phase \in {"closed", "retired"})
  BY DEF IInv, Closings
<1>2. CASE AnnounceWorking \/ EmitDelta \/ EmitLastChunk
  <2>1. /\ Status(FALSE) \in Event
        /\ \A c \in BOOLEAN : Artifact(c, FALSE) \in Event /\ Artifact(c, TRUE) \in Event
    BY <1>1, EventType
  <2>2. PICK ev \in Event : Publish(ev) /\ phase' \in {"running", "completed"} /\ ~done
    <3>1. (Len(log) > 1) \in BOOLEAN
      OBVIOUS
    <3>2. CASE AnnounceWorking
      BY <1>1, <2>1, <3>2 DEF AnnounceWorking
    <3>3. CASE EmitDelta
      BY <1>1, <2>1, <3>1, <3>3 DEF EmitDelta
    <3>4. CASE EmitLastChunk
      BY <1>1, <2>1, <3>4 DEF EmitLastChunk
    <3>. QED
      BY <1>2, <3>2, <3>3, <3>4
  <2>. QED
    BY <2>2, PublishCompleteInv
<1>3. CASE FinishWithout \/ AnnounceCompleted
  <2>1. Status(TRUE) \in Event
    BY <1>1, EventType
  <2>2. IsFinal(Status(TRUE))
    BY DEF IsFinal, Status
  <2>3. Publish(Status(TRUE)) /\ phase' = "finished" /\ ~done
    BY <1>1, <1>3 DEF FinishWithout, AnnounceCompleted
  <2>. QED
    BY <2>1, <2>2, <2>3, PublishCompleteInv
<1>4. CASE Close \/ FinishAsync
  <2>1. /\ phase \in {"finished", "closed"} /\ (done => done')
        /\ UNCHANGED <<log, buf, pc, why, from, todo, chan, got>>
    BY <1>4 DEF Close, FinishAsync, reader
  <2>2. \A s \in Subs : Reached(s)' = Reached(s)
    BY <2>1 DEF Reached, Stream
  <2>3. Len(buf') = IF Len(log') > MaxBuf THEN MaxBuf ELSE Len(log')
    BY <2>1 DEF CompleteInv
  <2>4. Len(log') > 0 /\ IsFinal(log'[Len(log')])
    BY <2>1 DEF CompleteInv
  <2>5. \A s \in Subs : Joined(s)' => Early(s)'
    BY <2>1 DEF CompleteInv, Joined, Early
  <2>6. \A s \in Subs : ~Stopped(s)' => why'[s] = "none"
    BY <2>1 DEF CompleteInv, Stopped
  <2>7. \A s \in Subs : why'[s] = "closed" => Whole(s)'
    BY <2>1, <2>2 DEF CompleteInv, Whole
  <2>. QED
    BY <2>3, <2>4, <2>5, <2>6, <2>7 DEF CompleteInv
<1>. QED
  BY <1>2, <1>3, <1>4 DEF Publisher

\* A step of one Subscribe call leaves the others as they are.
LEMMA OneSubscriberMoves ==
    ASSUME CompleteInv, NEW s \in Subs, UNCHANGED <<phase, log, buf, done>>,
           \A r \in Subs \ {s} : /\ pc'[r] = pc[r] /\ why'[r] = why[r] /\ from'[r] = from[r]
                                 /\ todo'[r] = todo[r] /\ chan'[r] = chan[r] /\ got'[r] = got[r],
           Joined(s)' => Early(s)',
           ~Stopped(s)' => why'[s] = "none",
           why'[s] = "closed" => Whole(s)'
    PROVE  CompleteInv'
<1>1. \A r \in Subs \ {s} : Whole(r)' <=> Whole(r)
  BY DEF Whole, Reached, Stream
<1>2. \A r \in Subs \ {s} : (Joined(r)' <=> Joined(r)) /\ (Early(r)' <=> Early(r)) /\ (Stopped(r)' <=> Stopped(r))
  BY DEF Joined, Early, Stopped
<1>3. \A r \in Subs : (Joined(r)' => Early(r)') /\ (~Stopped(r)' => why'[r] = "none") /\ (why'[r] = "closed" => Whole(r)')
  BY <1>1, <1>2 DEF CompleteInv
<1>. QED
  BY <1>3 DEF CompleteInv

LEMMA SubscriberCompleteInv ==
    ASSUME IInv, CompleteInv, NEW s \in Subs, Subscriber(s)
    PROVE  CompleteInv'
<1>1. /\ pc \in [Subs -> {"idle", "refused", "found", "attached", "leaving", "returned"}]
      /\ why \in [Subs -> {"none", "closed", "slow", "sink", "ctx"}]
      /\ got \in [Subs -> Seq(Event)] /\ todo \in [Subs -> Seq(Event)]
      /\ chan \in [Subs -> Seq(Event)] /\ from \in [Subs -> Nat \ {0}]
      /\ log \in Seq(Event) /\ buf \in Seq(Event)
  BY DEF IInv, TypeOK
<1>2. MaxBuf \in Nat \ {0}
  BY BrokerAssumption DEF BrokerAssumption
<1>3. /\ UNCHANGED <<phase, log, buf, done>>
      /\ \A r \in Subs \ {s} : /\ pc'[r] = pc[r] /\ why'[r] = why[r] /\ from'[r] = from[r]
                               /\ todo'[r] = todo[r] /\ chan'[r] = chan[r] /\ got'[r] = got[r]
  <2>1. CASE Lookup(s) \/ Attach(s)
    BY <1>1, <2>1 DEF Lookup, Attach, broker
  <2>2. CASE Replay(s) \/ Receive(s)
    BY <1>1, <2>2 DEF Replay, Receive, broker
  <2>3. CASE Finish(s) \/ FinishSlow(s) \/ ContextDone(s) \/ Unsubscribe(s)
    BY <1>1, <2>3 DEF Finish, FinishSlow, ContextDone, Unsubscribe, Stop, broker
  <2>4. CASE SinkFails(s)
    BY <1>1, <2>4 DEF SinkFails, Stop, broker
  <2>. QED
    BY <2>1, <2>2, <2>3, <2>4 DEF Subscriber, Proceed
<1>4. CASE Lookup(s)
  BY <1>1, <1>3, <1>4, OneSubscriberMoves DEF Lookup, Joined, Stopped, CompleteInv
<1>5. CASE Attach(s)
  <2>1. pc[s] = "found" /\ pc'[s] = "attached" /\ why'[s] = why[s] /\ from'[s] = Len(log) - Len(buf) + 1
    BY <1>1, <1>5 DEF Attach
  <2>2. why'[s] = "none"
    BY <2>1 DEF CompleteInv, Stopped
  <2>3. Early(s)'
    <3>1. Len(log) \in Nat /\ Len(buf) = IF Len(log) > MaxBuf THEN MaxBuf ELSE Len(log)
      BY <1>1 DEF CompleteInv
    <3>2. \/ Len(log) - Len(buf) + 1 = 1
          \/ /\ Len(log) - Len(buf) + 1 <= Len(log)
             /\ MaxBuf > 1 => Len(log) - Len(buf) + 1 < Len(log)
      <4>1. CASE Len(log) > MaxBuf
        <5>1. Len(buf) = MaxBuf
          BY <3>1, <4>1
        <5>2. /\ Len(log) - MaxBuf + 1 <= Len(log)
              /\ MaxBuf > 1 => Len(log) - MaxBuf + 1 < Len(log)
          BY <1>2, <3>1
        <5>. QED
          BY <5>1, <5>2
      <4>2. CASE ~(Len(log) > MaxBuf)
        <5>1. Len(buf) = Len(log)
          BY <3>1, <4>2
        <5>2. Len(log) - Len(log) + 1 = 1
          BY <3>1
        <5>. QED
          BY <5>1, <5>2
      <4>. QED
        BY <4>1, <4>2
    <3>3. log' = log
      BY <1>3
    <3>. QED
      BY <2>1, <3>2, <3>3 DEF Early
  <2>. QED
    BY <1>3, <2>2, <2>3, OneSubscriberMoves
<1>6. CASE Replay(s) \/ Receive(s)
  <2>1. pc[s] = "attached" /\ pc' = pc /\ why' = why /\ from' = from
    BY <1>6 DEF Replay, Receive
  <2>2. why'[s] = "none" /\ Early(s)'
    BY <1>3, <2>1 DEF CompleteInv, Stopped, Joined, Early
  <2>. QED
    BY <1>3, <2>2, OneSubscriberMoves
<1>7. CASE FinishSlow(s) \/ ContextDone(s) \/ SinkFails(s)
  <2>1. /\ pc[s] = "attached" /\ pc'[s] = "leaving" /\ from' = from
        /\ why'[s] \in {"slow", "ctx", "sink"}
    BY <1>1, <1>7 DEF FinishSlow, ContextDone, SinkFails, Stop
  <2>2. Early(s)' /\ Stopped(s)'
    BY <1>3, <2>1 DEF CompleteInv, Joined, Early, Stopped
  <2>. QED
    BY <1>3, <2>1, <2>2, OneSubscriberMoves
<1>8. CASE Finish(s)
  <2>1. /\ pc[s] = "attached" /\ pc'[s] = "leaving" /\ why'[s] = "closed"
        /\ todo[s] = <<>> /\ chan[s] = <<>> /\ s \in shut \ overflow
        /\ UNCHANGED <<from, todo, chan, got>>
    BY <1>1, <1>8 DEF Finish, Stop
  <2>2. done /\ Reached(s) = Len(log)
    BY <2>1 DEF IInv, Closings, NothingMissed
  <2>3. Whole(s)'
    BY <1>3, <2>1, <2>2 DEF Whole, Reached, Stream
  <2>4. Early(s)' /\ Stopped(s)'
    BY <1>3, <2>1 DEF CompleteInv, Joined, Early, Stopped
  <2>. QED
    BY <1>3, <2>3, <2>4, OneSubscriberMoves
<1>9. CASE Unsubscribe(s)
  <2>1. /\ pc[s] = "leaving" /\ pc'[s] = "returned"
        /\ UNCHANGED <<why, from, todo, chan, got>>
    BY <1>1, <1>9 DEF Unsubscribe
  <2>2. Early(s)' /\ Stopped(s)'
    BY <1>3, <2>1 DEF CompleteInv, Joined, Early, Stopped
  <2>3. why'[s] = "closed" => Whole(s)'
    BY <1>3, <2>1 DEF CompleteInv, Whole, Reached, Stream
  <2>. QED
    BY <1>3, <2>2, <2>3, OneSubscriberMoves
<1>. QED
  BY <1>4, <1>5, <1>6, <1>7, <1>8, <1>9 DEF Subscriber, Proceed

LEMMA NextCompleteInv == IInv /\ CompleteInv /\ [Next]_vars => CompleteInv'
<1>. SUFFICES ASSUME IInv, CompleteInv, [Next]_vars PROVE CompleteInv'
  OBVIOUS
<1>1. CASE Publisher
  BY <1>1, PublisherCompleteInv
<1>2. CASE \E s \in Subs : Subscriber(s)
  BY <1>2, SubscriberCompleteInv
<1>3. CASE UNCHANGED vars
  BY <1>3 DEF vars, broker, reader, CompleteInv, Joined, Early, Stopped, Whole, Reached, Stream
<1>. QED
  BY <1>1, <1>2, <1>3 DEF Next

\* What a stream closed by the broker's end has read ends where the log does.
LEMMA ClosedIsComplete ==
    ASSUME IInv, CompleteInv
    PROVE  ClosedStreamIsComplete
<1>. SUFFICES ASSUME NEW s \in Subs, why[s] = "closed"
              PROVE  /\ got[s] # <<>>
                     /\ IsFinal(got[s][Len(got[s])])
                     /\ Len(log) > 1 /\ IsLastChunk(log[Len(log) - 1]) /\ MaxBuf > 1 =>
                          Len(got[s]) > 1 /\ IsLastChunk(got[s][Len(got[s]) - 1])
  BY DEF ClosedStreamIsComplete
<1>1. /\ got[s] \in Seq(Event) /\ from[s] \in Nat \ {0} /\ log \in Seq(Event)
  BY DEF IInv, TypeOK
<1>2. done /\ todo[s] = <<>> /\ chan[s] = <<>> /\ Reached(s) = Len(log)
  BY DEF CompleteInv, Whole
<1>3. Stream(s) = got[s]
  BY <1>1, <1>2 DEF Stream
<1>4. from[s] + Len(got[s]) - 1 = Len(log)
  BY <1>2, <1>3 DEF Reached
<1>5. \A i \in 1 .. Len(got[s]) : got[s][i] = log[from[s] + i - 1]
  BY <1>3 DEF IInv, Gapless
<1>6. Len(log) > 0 /\ IsFinal(log[Len(log)])
  BY <1>2 DEF IInv, Closings, CompleteInv
<1>7. Early(s)
  BY DEF CompleteInv, Stopped, Joined
<1>8. Len(got[s]) \in Nat /\ Len(log) \in Nat
  BY <1>1
<1>9. Len(got[s]) > 0 /\ got[s][Len(got[s])] = log[Len(log)]
  BY <1>1, <1>4, <1>5, <1>6, <1>7, <1>8 DEF Early
<1>10. ASSUME Len(log) > 1, IsLastChunk(log[Len(log) - 1]), MaxBuf > 1
       PROVE  Len(got[s]) > 1 /\ IsLastChunk(got[s][Len(got[s]) - 1])
  <2>1. Len(got[s]) > 1
    BY <1>1, <1>4, <1>7, <1>8, <1>10 DEF Early
  <2>2. got[s][Len(got[s]) - 1] = log[Len(log) - 1]
    <3>1. Len(got[s]) - 1 \in 1 .. Len(got[s])
      BY <1>8, <2>1
    <3>2. from[s] + (Len(got[s]) - 1) - 1 = Len(log) - 1
      BY <1>1, <1>4, <1>8
    <3>. QED
      BY <1>5, <3>1, <3>2
  <2>. QED
    BY <1>10, <2>1, <2>2
<1>. QED
  BY <1>6, <1>9, <1>10

LEMMA SpecCompleteInv == Spec => []CompleteInv
BY InitCompleteInv, NextCompleteInv, SpecIInv, PTL DEF Spec

\* A stream that ends because the broker was closed has delivered the final
\* status last and, if the buffer holds two events, the lastChunk artifact of a
\* completed task right before it - wherever it joined.
THEOREM BrokerClosedStreamIsComplete == Spec => []ClosedStreamIsComplete
BY ClosedIsComplete, SpecIInv, SpecCompleteInv, PTL

-----------------------------------------------------------------------------
(* The broker implements TaskFeed.                                         *)

\* A subscriber that was dropped had a full channel: it is cut off at a place
\* of the log.
DroppedHoldEvents == \A s \in overflow : s \in Subs /\ Stream(s) # <<>>

FInv == IInv /\ CompleteInv /\ DroppedHoldEvents

\* What TaskFeed's cutAt and state stand for.
Cut == [s \in Subs |-> IF s \in overflow THEN Reached(s) ELSE 0]

Standing ==
    [s \in Subs |->
        IF ~Joined(s) THEN "out"
        ELSE IF why[s] = "none" THEN "in"
        ELSE IF why[s] \in {"closed", "slow"} THEN "ended" ELSE "left"]

LEMMA NonEmptyRight ==
    ASSUME NEW S, NEW a \in Seq(S), NEW c \in Seq(S), Len(c) > 0
    PROVE  a \o c # <<>>
OBVIOUS

\* The parts of a stream add up to the place it has reached.
LEMMA ReachedParts ==
    ASSUME IInv, NEW s \in Subs
    PROVE  /\ from[s] \in Nat \ {0} /\ Len(got[s]) \in Nat /\ Len(todo[s]) \in Nat
           /\ Len(chan[s]) \in Nat /\ Len(log) \in Nat
           /\ Reached(s) = from[s] + Len(got[s]) + Len(todo[s]) + Len(chan[s]) - 1
           /\ Reached(s) <= Len(log)
<1>1. /\ got[s] \in Seq(Event) /\ todo[s] \in Seq(Event) /\ chan[s] \in Seq(Event)
      /\ from[s] \in Nat \ {0} /\ Len(log) \in Nat
  BY DEF IInv, TypeOK
<1>2. Len(got[s] \o todo[s] \o chan[s]) = Len(got[s]) + Len(todo[s]) + Len(chan[s])
  BY <1>1
<1>3. Len(got[s]) \in Nat /\ Len(todo[s]) \in Nat /\ Len(chan[s]) \in Nat
  BY <1>1
<1>4. Reached(s) = from[s] + (Len(got[s]) + Len(todo[s]) + Len(chan[s])) - 1
  BY <1>2 DEF Reached, Stream
<1>5. Reached(s) <= Len(log)
  BY DEF IInv, Gapless
<1>7. Reached(s) = from[s] + Len(got[s]) + Len(todo[s]) + Len(chan[s]) - 1
  <2>. DEFINE f == from[s]
              a == Len(got[s])
              b == Len(todo[s])
              c == Len(chan[s])
  <2>1. f \in Nat /\ a \in Nat /\ b \in Nat /\ c \in Nat /\ Reached(s) = f + (a + b + c) - 1
    BY <1>1, <1>3, <1>4
  <2>. HIDE DEF f, a, b, c
  <2>2. Reached(s) = f + a + b + c - 1
    BY ONLY <2>1
  <2>. QED
    BY ONLY <2>2 DEF f, a, b, c
<1>. QED
  BY <1>1, <1>3, <1>5, <1>7

\* Publishing writes the feed and cuts off the subscribers that were full.
LEMMA PublishWrites ==
    ASSUME FInv, ~done, NEW ev \in Event, Publish(ev)
    PROVE  Feed!Write /\ DroppedHoldEvents'
<1>. USE DEF FInv
<1>1. ChanCap \in Nat \ {0}
  BY BrokerAssumption DEF BrokerAssumption
<1>2. /\ log' = Append(log, ev) /\ log \in Seq(Event)
      /\ overflow' = overflow \union Full
      /\ UNCHANGED <<done, from, got, todo, pc, why>>
  BY DEF Publish, IInv, TypeOK
<1>3. ASSUME NEW s \in Full
      PROVE  /\ s \in Subs /\ s \notin overflow /\ Joined(s)
             /\ chan'[s] = chan[s] /\ Len(chan[s]) = ChanCap
             /\ Reached(s) = Len(log)
  BY <1>3 DEF Publish, Full, IInv, TypeOK, NothingMissed, Closings
<1>4. \A s \in overflow : chan'[s] = chan[s] /\ s \in Subs
  <2>1. \A s \in overflow : s \in Subs /\ s \in shut
    BY DEF IInv, TypeOK, Closings
  <2>2. \A s \in overflow : s \notin live
    BY <2>1 DEF IInv, NothingMissed
  <2>. QED
    BY <2>1, <2>2 DEF Publish
<1>5. \A s \in overflow' : s \in Subs /\ Stream(s)' = Stream(s) /\ Reached(s)' = Reached(s)
  BY <1>2, <1>3, <1>4 DEF Stream, Reached
<1>6. DroppedHoldEvents'
  <2>1. ASSUME NEW s \in Full PROVE Stream(s) # <<>>
    <3>1. s \in Subs /\ chan[s] \in Seq(Event) /\ got[s] \o todo[s] \in Seq(Event)
      BY <1>3, StreamType DEF IInv
    <3>2. Len(chan[s]) > 0
      BY <1>1, <1>3
    <3>. QED
      BY <3>1, <3>2, NonEmptyRight DEF Stream
  <2>. QED
    BY <1>2, <1>5, <2>1 DEF DroppedHoldEvents
<1>7. Cut' = [s \in Subs |-> IF s \in Full THEN Len(log) ELSE Cut[s]]
  BY <1>2, <1>3, <1>5 DEF Cut
<1>8. Standing' = Standing
  BY <1>2 DEF Standing, Joined
<1>9. Full \in SUBSET {s \in Subs : Standing[s] # "out" /\ Cut[s] = 0}
  BY <1>3 DEF Standing, Cut
<1>10. \A s \in Full : Len(log) + 1 >= from[s] + Len(got[s]) + ChanCap
  <2>. TAKE s \in Full
  <2>1. s \in Subs /\ Reached(s) = Len(log) /\ Len(chan[s]) = ChanCap
    BY <1>3
  <2>2. /\ from[s] \in Nat /\ Len(got[s]) \in Nat /\ Len(todo[s]) \in Nat
        /\ Reached(s) = from[s] + Len(got[s]) + Len(todo[s]) + Len(chan[s]) - 1
    BY <2>1, ReachedParts
  <2>. QED
    BY <1>1, <2>1, <2>2
<1>11. log' \in Seq(Feed!Entry) /\ Len(log') = Len(log) + 1 /\ SubSeq(log', 1, Len(log)) = log
  <2>1. Feed!Entry = Event
    BY DEF Feed!Entry, Event
  <2>2. /\ Append(log, ev) \in Seq(Event) /\ Len(Append(log, ev)) = Len(log) + 1
        /\ SubSeq(Append(log, ev), 1, Len(log)) = log
    BY <1>2
  <2>. QED
    BY <1>2, <2>1, <2>2
<1>12. Feed!Write
  BY <1>2, <1>7, <1>8, <1>9, <1>10, <1>11 DEF Feed!Write, Feed!Position, Cut, Standing
<1>. QED
  BY <1>6, <1>12

LEMMA PublisherFeeds ==
    ASSUME FInv, Publisher
    PROVE  [Feed!FeedNext]_(Feed!feedVars) /\ DroppedHoldEvents'
<1>. USE DEF FInv
<1>1. TypeOK /\ (done <=> phase \in {"closed", "retired"})
  BY DEF IInv, Closings
<1>2. CASE AnnounceWorking \/ EmitDelta \/ FinishWithout \/ EmitLastChunk \/ AnnounceCompleted
  <2>1. /\ \A c \in BOOLEAN : Status(c) \in Event
        /\ \A c, d \in BOOLEAN : Artifact(c, d) \in Event
    BY <1>1, EventType
  <2>2. ~done
    BY <1>1, <1>2 DEF AnnounceWorking, EmitDelta, FinishWithout, EmitLastChunk, AnnounceCompleted
  <2>3. \E ev \in Event : Publish(ev)
    <3>1. (Len(log) > 1) \in BOOLEAN
      OBVIOUS
    <3>. QED
      BY <1>2, <2>1, <3>1
      DEF AnnounceWorking, EmitDelta, FinishWithout, EmitLastChunk, AnnounceCompleted
  <2>. QED
    BY <2>2, <2>3, PublishWrites DEF Feed!FeedNext
<1>3. ASSUME UNCHANGED <<log, from, got, todo, chan, overflow, pc, why>>
      PROVE  UNCHANGED <<log, from, got, Cut, Standing>> /\ DroppedHoldEvents'
  BY <1>3 DEF Cut, Standing, Joined, Reached, Stream, DroppedHoldEvents
<1>4. CASE Close
  BY <1>1, <1>3, <1>4 DEF Close, Feed!FeedNext, Feed!Seal, Cut, Standing
<1>5. CASE FinishAsync
  BY <1>3, <1>5 DEF FinishAsync, reader, Feed!feedVars, Cut, Standing
<1>. QED
  BY <1>2, <1>4, <1>5 DEF Publisher

\* A step of one Subscribe call that leaves the streams of the dropped as they
\* are moves no place at which one was cut off.
LEMMA CutsKept ==
    ASSUME DroppedHoldEvents, overflow' = overflow,
           \A r \in overflow : Stream(r)' = Stream(r) /\ from'[r] = from[r]
    PROVE  Cut' = Cut /\ DroppedHoldEvents'
BY DEF Cut, Reached, DroppedHoldEvents

\* Taking the next event, from the replay or from the channel, reads the feed.
LEMMA TakingReads ==
    ASSUME FInv, NEW s \in Subs, pc[s] = "attached", why[s] = "none",
           UNCHANGED <<log, done, from, overflow>>,
           \A r \in Subs \ {s} : /\ pc'[r] = pc[r] /\ why'[r] = why[r]
                                 /\ todo'[r] = todo[r] /\ chan'[r] = chan[r],
           NEW e, got' = [got EXCEPT ![s] = Append(@, e)],
           Stream(s)' = Stream(s), Stream(s) # <<>>,
           Len(got[s]) + 1 <= Len(Stream(s)), e = Stream(s)[Len(got[s]) + 1],
           \/ pc' = pc /\ why' = why
           \/ pc'[s] = "leaving" /\ why'[s] = "sink"
    PROVE  Feed!Read(s) /\ DroppedHoldEvents'
<1>. USE DEF FInv
<1>1. /\ from[s] \in Nat \ {0} /\ Len(got[s]) \in Nat /\ Len(log) \in Nat
      /\ Len(Stream(s)) \in Nat /\ got \in [Subs -> Seq(Event)]
  BY ReachedParts, StreamType DEF IInv, TypeOK
<1>2. Cut' = Cut /\ DroppedHoldEvents'
  <2>1. \A r \in Subs : Stream(r)' = Stream(r)
    BY <1>1 DEF Stream
  <2>. QED
    BY <2>1, CutsKept DEF DroppedHoldEvents
<1>3. e = log[from[s] + Len(got[s])]
  <2>1. Len(got[s]) + 1 \in 1 .. Len(Stream(s))
    BY <1>1
  <2>2. from[s] + (Len(got[s]) + 1) - 1 = from[s] + Len(got[s])
    BY <1>1
  <2>. QED
    BY <2>1, <2>2 DEF IInv, Gapless
<1>4. from[s] + Len(got[s]) <= Reached(s) /\ Reached(s) <= Len(log)
  BY <1>1 DEF Reached, IInv, Gapless
<1>5. from[s] + Len(got[s]) <= IF Cut[s] = 0 THEN Len(log) ELSE Cut[s]
  BY <1>1, <1>4 DEF Cut, Reached
<1>6. Standing[s] = "in" /\ \E after \in {"in", "left"} : Standing' = [Standing EXCEPT ![s] = after]
  <2>1. Standing[s] = "in"
    BY DEF Standing, Joined
  <2>2. \A r \in Subs \ {s} : Standing'[r] = Standing[r]
    BY DEF Standing, Joined
  <2>3. Standing'[s] \in {"in", "left"}
    BY DEF Standing, Joined
  <2>4. Standing' = [Standing EXCEPT ![s] = Standing'[s]]
    BY <2>2 DEF Standing
  <2>. QED
    BY <2>1, <2>3, <2>4
<1>7. Feed!Read(s)
  BY <1>2, <1>3, <1>5, <1>6 DEF Feed!Read, Feed!Position, Feed!Limit, Cut, Standing
<1>. QED
  BY <1>2, <1>7

LEMMA SubscriberFeeds ==
    ASSUME FInv, NEW s \in Subs, Subscriber(s)
    PROVE  [Feed!FeedNext]_(Feed!feedVars) /\ DroppedHoldEvents'
<1>. USE DEF FInv
<1>1. /\ pc \in [Subs -> {"idle", "refused", "found", "attached", "leaving", "returned"}]
      /\ why \in [Subs -> {"none", "closed", "slow", "sink", "ctx"}]
      /\ got \in [Subs -> Seq(Event)] /\ todo \in [Subs -> Seq(Event)]
      /\ chan \in [Subs -> Seq(Event)] /\ from \in [Subs -> Nat \ {0}]
      /\ overflow \subseteq Subs
  BY DEF IInv, TypeOK
<1>2. \A r \in Subs : pc[r] = "attached" => why[r] = "none" /\ Standing[r] = "in"
  BY DEF CompleteInv, Stopped, Standing, Joined
<1>3. ASSUME UNCHANGED <<from, got, todo, chan, overflow>>
      PROVE  Cut' = Cut /\ DroppedHoldEvents'
  BY <1>3, CutsKept DEF Stream
\* Taking an event, first of the replay, then of the channel.
<1>4. ASSUME pc[s] = "attached", UNCHANGED <<broker, from, overflow>>,
             \/ pc' = pc /\ why' = why
             \/ Stop(s, "sink"),
             \/ /\ todo[s] # <<>>
                /\ got' = [got EXCEPT ![s] = Append(@, Head(todo[s]))]
                /\ todo' = [todo EXCEPT ![s] = Tail(@)]
                /\ UNCHANGED chan
             \/ /\ todo[s] = <<>> /\ chan[s] # <<>>
                /\ got' = [got EXCEPT ![s] = Append(@, Head(chan[s]))]
                /\ chan' = [chan EXCEPT ![s] = Tail(@)]
                /\ UNCHANGED todo
      PROVE  Feed!Read(s) /\ DroppedHoldEvents'
  <2>1. /\ \A r \in Subs \ {s} : /\ pc'[r] = pc[r] /\ why'[r] = why[r]
                                 /\ todo'[r] = todo[r] /\ chan'[r] = chan[r]
        /\ UNCHANGED <<log, done>>
        /\ \/ pc' = pc /\ why' = why
           \/ pc'[s] = "leaving" /\ why'[s] = "sink"
    BY <1>1, <1>4 DEF Stop, broker
  <2>2. \E e : /\ got' = [got EXCEPT ![s] = Append(@, e)]
               /\ Stream(s)' = Stream(s) /\ Stream(s) # <<>>
               /\ Len(got[s]) + 1 <= Len(Stream(s)) /\ e = Stream(s)[Len(got[s]) + 1]
    <3>1. CASE todo[s] # <<>>
      <4> DEFINE g == got[s]
                 t == todo[s]
                 c == chan[s]
      <4>1. /\ g \in Seq(Event) /\ t \in Seq(Event) /\ c \in Seq(Event) /\ t # <<>>
            /\ Stream(s) = g \o t \o c
        BY <1>1, <3>1 DEF Stream
      <4>2. Stream(s)' = Append(g, Head(t)) \o Tail(t) \o c
        BY <1>1, <1>4, <3>1 DEF Stream
      <4>3. got' = [got EXCEPT ![s] = Append(@, Head(t))]
        BY <1>4, <3>1
      <4>. HIDE DEF g, t, c
      <4>4. Append(g, Head(t)) \o Tail(t) = g \o t
        BY <4>1, Shift
      <4>5. /\ Len(g) + 1 <= Len(g \o t \o c) /\ (g \o t \o c)[Len(g) + 1] = Head(t)
            /\ g \o t \o c # <<>>
        BY <4>1
      <4>. QED
        BY <4>1, <4>2, <4>3, <4>4, <4>5 DEF g
    <3>2. CASE todo[s] = <<>>
      <4> DEFINE g == got[s]
                 c == chan[s]
      <4>1. /\ g \in Seq(Event) /\ c \in Seq(Event) /\ c # <<>>
            /\ Stream(s) = g \o <<>> \o c
        BY <1>1, <1>4, <3>2 DEF Stream
      <4>2. Stream(s)' = Append(g, Head(c)) \o <<>> \o Tail(c)
        BY <1>1, <1>4, <3>2 DEF Stream
      <4>3. got' = [got EXCEPT ![s] = Append(@, Head(c))]
        BY <1>4, <3>2
      <4>. HIDE DEF g, c
      <4>4. Append(g, Head(c)) \o Tail(c) = g \o c /\ Append(g, Head(c)) \in Seq(Event)
        BY <4>1, Shift
      <4>5. /\ Len(g) + 1 <= Len(g \o c) /\ (g \o c)[Len(g) + 1] = Head(c)
            /\ g \o c # <<>>
        BY <4>1
      <4>6. g \o <<>> = g /\ Append(g, Head(c)) \o <<>> = Append(g, Head(c))
        BY <4>1, <4>4
      <4>. QED
        BY <4>1, <4>2, <4>3, <4>4, <4>5, <4>6 DEF g
    <3>. QED
      BY <3>1, <3>2
  <2>. QED
    BY <1>2, <1>4, <2>1, <2>2, TakingReads
<1>5. ASSUME pc[s] = "attached", UNCHANGED <<broker, from, todo, chan, overflow, got>>,
             NEW reason \in {"sink", "ctx"}, Stop(s, reason)
      PROVE  Feed!Leave(s) /\ DroppedHoldEvents'
  <2>1. Standing' = [Standing EXCEPT ![s] = "left"]
    BY <1>1, <1>5 DEF Stop, Standing, Joined
  <2>. QED
    BY <1>2, <1>3, <1>5, <2>1 DEF Feed!Leave, broker, Cut, Standing
<1>6. ASSUME pc[s] = "attached", UNCHANGED <<broker, from, todo, chan, overflow, got>>,
             NEW reason \in {"closed", "slow"}, Stop(s, reason),
             todo[s] = <<>>, chan[s] = <<>>, done \/ s \in overflow,
             s \in shut
      PROVE  Feed!SendAway(s) /\ DroppedHoldEvents'
  <2>1. Standing' = [Standing EXCEPT ![s] = "ended"]
    BY <1>1, <1>6 DEF Stop, Standing, Joined
  <2>2. /\ from[s] \in Nat \ {0} /\ Len(got[s]) \in Nat /\ Len(log) \in Nat
        /\ Reached(s) = from[s] + Len(got[s]) - 1
    <3>1. Len(todo[s]) = 0 /\ Len(chan[s]) = 0
      BY <1>6
    <3>2. \A f, a \in Nat : f + a + 0 + 0 - 1 = f + a - 1
      OBVIOUS
    <3>3. /\ from[s] \in Nat \ {0} /\ Len(got[s]) \in Nat /\ Len(log) \in Nat
          /\ Reached(s) = from[s] + Len(got[s]) + Len(todo[s]) + Len(chan[s]) - 1
      BY ReachedParts
    <3>. QED
      BY <3>1, <3>2, <3>3
  <2>3. CASE s \in overflow
    <3>1. Stream(s) = got[s] /\ got[s] # <<>>
      BY <1>1, <1>6, <2>3 DEF Stream, DroppedHoldEvents
    <3>2. Len(got[s]) > 0
      BY <1>1, <3>1
    <3>3. Cut[s] = Reached(s) /\ Cut[s] # 0
      BY <2>2, <2>3, <3>2 DEF Cut
    <3>4. from[s] + Len(got[s]) = (IF Cut[s] = 0 THEN Len(log) ELSE Cut[s]) + 1
      BY <2>2, <3>3
    <3>. QED
      BY <1>2, <1>3, <1>6, <2>1, <3>3, <3>4
      DEF Feed!SendAway, Feed!Position, Feed!Limit, broker, Cut, Standing
  <2>4. CASE s \notin overflow
    <3>1. Reached(s) = Len(log)
      BY <1>6, <2>4 DEF IInv, NothingMissed
    <3>2. Cut[s] = 0
      BY <2>4 DEF Cut
    <3>3. from[s] + Len(got[s]) = (IF Cut[s] = 0 THEN Len(log) ELSE Cut[s]) + 1
      BY <2>2, <3>1, <3>2
    <3>. QED
      BY <1>2, <1>3, <1>6, <2>1, <2>4, <3>3
      DEF Feed!SendAway, Feed!Position, Feed!Limit, broker, Cut, Standing
  <2>. QED
    BY <2>3, <2>4
<1>7. CASE Lookup(s)
  <2>1. Standing' = Standing
    BY <1>1, <1>7 DEF Lookup, Standing, Joined
  <2>. QED
    BY <1>3, <1>7, <2>1 DEF Lookup, Feed!feedVars, broker, Cut, Standing
<1>8. CASE Attach(s)
  <2>1. /\ ~Joined(s) /\ s \notin overflow /\ why[s] = "none"
        /\ pc' = [pc EXCEPT ![s] = "attached"]
        /\ UNCHANGED <<log, done, why, chan, overflow, got>>
        /\ from' = [from EXCEPT ![s] = Len(log) - Len(buf) + 1]
        /\ \A r \in Subs \ {s} : todo'[r] = todo[r] /\ from'[r] = from[r]
    BY <1>1, <1>8 DEF Attach, Joined, IInv, Outside, CompleteInv, Stopped
  <2>2. Standing[s] = "out" /\ Standing' = [Standing EXCEPT ![s] = "in"]
    BY <1>1, <2>1 DEF Standing, Joined
  <2>3. Len(log) - Len(buf) + 1 \in 1 .. Len(log) + 1
    BY DEF IInv, TypeOK, BufIsTail
  <2>4. Cut' = Cut /\ DroppedHoldEvents'
    BY <1>1, <2>1, CutsKept DEF Stream
  <2>5. Feed!Join(s)
    BY <2>1, <2>2, <2>3, <2>4 DEF Feed!Join, Cut, Standing
  <2>. QED
    BY <2>4, <2>5 DEF Feed!FeedNext
<1>9. CASE Replay(s) \/ Receive(s)
  <2>1. Feed!Read(s) /\ DroppedHoldEvents'
    BY <1>4, <1>9 DEF Replay, Receive
  <2>. QED
    BY <2>1 DEF Feed!FeedNext
<1>10. CASE SinkFails(s)
  <2>1. CASE todo[s] # <<>> \/ chan[s] # <<>>
    <3>1. Feed!Read(s) /\ DroppedHoldEvents'
      BY <1>4, <1>10, <2>1 DEF SinkFails
    <3>. QED
      BY <3>1 DEF Feed!FeedNext
  <2>2. CASE todo[s] = <<>> /\ chan[s] = <<>>
    <3>1. Feed!Leave(s) /\ DroppedHoldEvents'
      BY <1>5, <1>10, <2>2 DEF SinkFails
    <3>. QED
      BY <3>1 DEF Feed!FeedNext
  <2>. QED
    BY <2>1, <2>2
<1>11. CASE ContextDone(s)
  <2>1. Feed!Leave(s) /\ DroppedHoldEvents'
    BY <1>5, <1>11 DEF ContextDone
  <2>. QED
    BY <2>1 DEF Feed!FeedNext
<1>12. CASE Finish(s)
  <2>1. done
    BY <1>12 DEF Finish, IInv, Closings
  <2>2. Feed!SendAway(s) /\ DroppedHoldEvents'
    BY <1>6, <1>12, <2>1 DEF Finish
  <2>. QED
    BY <2>2 DEF Feed!FeedNext
<1>13. CASE FinishSlow(s)
  <2>1. Feed!SendAway(s) /\ DroppedHoldEvents'
    BY <1>6, <1>13 DEF FinishSlow
  <2>. QED
    BY <2>1 DEF Feed!FeedNext
<1>14. CASE Unsubscribe(s)
  <2>1. Standing' = Standing
    BY <1>1, <1>14 DEF Unsubscribe, Standing, Joined
  <2>. QED
    BY <1>3, <1>14, <2>1 DEF Unsubscribe, Feed!feedVars, Cut, Standing
<1>. QED
  BY <1>7, <1>8, <1>9, <1>10, <1>11, <1>12, <1>13, <1>14 DEF Subscriber, Proceed

\* The broker keeps TaskFeed's promise with any number of subscribers, any
\* buffer and any channel: a subscriber joins at or before the end of what was
\* published, reads on without a gap, and is sent away only at the end of a
\* closed broker or, ChanCap events behind, at the place it was dropped (publish,
\* close, subscribe and the loop of Subscribe).
THEOREM BrokerImplementsFeed == Spec => ImplementsFeed
<1>1. Init => DroppedHoldEvents
  BY DEF Init, DroppedHoldEvents
<1>2. Init => Feed!FeedInit
  BY DEF Init, Feed!FeedInit, Joined
<1>3. FInv /\ [Next]_vars => [Feed!FeedNext]_(Feed!feedVars) /\ DroppedHoldEvents'
  <2>. SUFFICES ASSUME FInv, [Next]_vars
                PROVE  [Feed!FeedNext]_(Feed!feedVars) /\ DroppedHoldEvents'
    OBVIOUS
  <2>1. CASE Publisher
    BY <2>1, PublisherFeeds
  <2>2. CASE \E s \in Subs : Subscriber(s)
    BY <2>2, SubscriberFeeds
  <2>3. CASE UNCHANGED vars
    BY <2>3 DEF FInv, vars, broker, reader, Feed!feedVars, Joined, Reached, Stream,
                DroppedHoldEvents
  <2>. QED
    BY <2>1, <2>2, <2>3 DEF Next
<1>4. IInv /\ CompleteInv /\ DroppedHoldEvents <=> FInv
  BY DEF FInv
<1>. QED
  BY <1>1, <1>2, <1>3, <1>4, InitCompleteInv, NextCompleteInv, SpecIInv, PTL
  DEF Spec, ImplementsFeed, Feed!FeedSpec

-----------------------------------------------------------------------------
(* The summary of a dropped subscriber.                                    *)

\* A task ends with at least its first and its last status.
LongEnough ==
    /\ phase # "begun" => Len(log) > 0
    /\ phase \in {"finished", "closed", "retired"} => Len(log) > 1

LEMMA NextLongEnough ==
    ASSUME IInv, LongEnough, [Next]_vars
    PROVE  LongEnough'
<1>1. /\ log \in Seq(Event) /\ Len(log) \in Nat
      /\ \A ev : Publish(ev) => Len(log') = Len(log) + 1
  BY DEF IInv, TypeOK, Publish
<1>2. CASE AnnounceWorking \/ EmitDelta \/ EmitLastChunk
  <2>1. \E ev : Publish(ev)
    BY <1>2 DEF AnnounceWorking, EmitDelta, EmitLastChunk
  <2>2. phase' \in {"running", "completed"}
    BY <1>2 DEF AnnounceWorking, EmitDelta, EmitLastChunk
  <2>3. Len(log') = Len(log) + 1
    BY <1>1, <2>1
  <2>. QED
    BY <1>1, <2>2, <2>3 DEF LongEnough
<1>3. CASE FinishWithout \/ AnnounceCompleted
  <2>1. Publish(Status(TRUE)) /\ phase # "begun"
    BY <1>3 DEF FinishWithout, AnnounceCompleted
  <2>2. Len(log') = Len(log) + 1
    BY <1>1, <2>1
  <2>. QED
    BY <1>1, <2>1, <2>2 DEF LongEnough
<1>4. CASE Close \/ FinishAsync
  BY <1>4 DEF Close, FinishAsync, LongEnough
<1>5. CASE UNCHANGED vars \/ \E s \in Subs : Subscriber(s)
  <2>1. UNCHANGED <<phase, log>>
    BY <1>5 DEF vars, broker, Subscriber, Proceed, Lookup, Attach, Replay, Receive, Finish,
                FinishSlow, SinkFails, ContextDone, Unsubscribe
  <2>. QED
    BY <2>1 DEF LongEnough
<1>. QED
  BY <1>2, <1>3, <1>4, <1>5 DEF Next, Publisher

\* The last event of a kind is the latest.
LEMMA LatestAt ==
    ASSUME NEW b \in Seq(Event), NEW k, NEW i \in 1 .. Len(b), b[i].kind = k,
           \A j \in 1 .. Len(b) : j > i => b[j].kind # k
    PROVE  Latest(b, k) = << b[i] >>
<1> DEFINE at == {j \in DOMAIN b : b[j].kind = k}
<1>1. i \in at /\ at \subseteq 1 .. Len(b) /\ \A j \in at : j <= i
  OBVIOUS
<1>2. (CHOOSE m \in at : \A j \in at : j <= m) = i
  <2>. HIDE DEF at
  <2> DEFINE m == CHOOSE m \in at : \A j \in at : j <= m
  <2>1. m \in at /\ \A j \in at : j <= m
    BY <1>1
  <2>. HIDE DEF m
  <2>2. Len(b) \in Nat /\ m \in 1 .. Len(b) /\ m <= i /\ i <= m
    BY <1>1, <2>1
  <2>3. m = i
    BY <2>2
  <2>. QED
    BY <2>3 DEF m
<1>3. at # {}
  BY <1>1
<1>. QED
  BY <1>2, <1>3 DEF Latest

\* The phases in which the final status is out.
Ended == {"finished", "closed", "retired"}

\* Once the final status is out the summary ends on it and, if the buffer holds
\* two events, begins with the lastChunk artifact of a completed task.
LEMMA SummaryOfEnded ==
    ASSUME IInv, CompleteInv, LongEnough, phase \in Ended
    PROVE  /\ Summary(buf) # <<>>
           /\ Summary(buf)[Len(Summary(buf))] = log[Len(log)]
           /\ IsLastChunk(log[Len(log) - 1]) /\ MaxBuf > 1 => Summary(buf)[1] = log[Len(log) - 1]
<1>1. /\ log \in Seq(Event) /\ buf \in Seq(Event) /\ MaxBuf \in Nat \ {0}
  BY BrokerAssumption DEF IInv, TypeOK, BrokerAssumption
<1>3. /\ Len(log) > 1 /\ IsFinal(log[Len(log)])
      /\ Len(buf) = IF Len(log) > MaxBuf THEN MaxBuf ELSE Len(log)
  BY DEF Ended, CompleteInv, LongEnough
<1>4. Len(log) \in Nat /\ Len(buf) \in 1 .. Len(log) /\ (MaxBuf > 1 => Len(buf) > 1)
  BY <1>1, <1>3
<1>5. buf[Len(buf)] = log[Len(log)]
  <2>1. Len(buf) \in 1 .. Len(buf) /\ Len(log) - Len(buf) + Len(buf) = Len(log)
    BY <1>4
  <2>. QED
    BY <2>1 DEF IInv, BufIsTail
<1>6. Latest(buf, "status") = << log[Len(log)] >>
  <2>1. Len(buf) \in 1 .. Len(buf) /\ ~(\E j \in 1 .. Len(buf) : j > Len(buf))
    BY <1>4
  <2>2. buf[Len(buf)].kind = "status"
    BY <1>3, <1>5 DEF IsFinal
  <2>3. \A j \in 1 .. Len(buf) : j > Len(buf) => buf[j].kind # "status"
    BY <2>1
  <2>4. Latest(buf, "status") = << buf[Len(buf)] >>
    BY ONLY <1>1, <2>1, <2>2, <2>3, LatestAt
  <2>. QED
    BY ONLY <1>5, <2>4
<1>7. Latest(buf, "artifact") \in Seq(Event)
  BY <1>1, LatestType
<1>8. /\ Summary(buf) # <<>>
      /\ Summary(buf)[Len(Summary(buf))] = log[Len(log)]
  <2>1. \A a \in Seq(Event), e \in Event :
           a \o <<e>> # <<>> /\ (a \o <<e>>)[Len(a \o <<e>>)] = e
    OBVIOUS
  <2>2. log[Len(log)] \in Event
    BY <1>1, <1>4
  <2>. QED
    BY <1>6, <1>7, <2>1, <2>2 DEF Summary
<1>9. ASSUME IsLastChunk(log[Len(log) - 1]), MaxBuf > 1
      PROVE  Summary(buf)[1] = log[Len(log) - 1]
  <2>1. /\ Len(buf) - 1 \in 1 .. Len(buf) /\ Len(log) - Len(buf) + (Len(buf) - 1) = Len(log) - 1
        /\ \A j \in 1 .. Len(buf) : j > Len(buf) - 1 => j = Len(buf)
    BY <1>4, <1>9
  <2>2. buf[Len(buf) - 1] = log[Len(log) - 1]
    BY <2>1 DEF IInv, BufIsTail
  <2>3. buf[Len(buf) - 1].kind = "artifact" /\ buf[Len(buf)].kind # "artifact"
    BY <1>3, <1>5, <1>9, <2>2 DEF IsFinal, IsLastChunk
  <2>4. Latest(buf, "artifact") = << log[Len(log) - 1] >>
    <3>1. \A j \in 1 .. Len(buf) : j > Len(buf) - 1 => buf[j].kind # "artifact"
      BY <2>1, <2>3
    <3>2. Latest(buf, "artifact") = << buf[Len(buf) - 1] >>
      BY ONLY <1>1, <2>1, <2>3, <3>1, LatestAt
    <3>. QED
      BY ONLY <2>2, <3>2
  <2>5. \A x, y : (<<x>> \o <<y>>)[1] = x
    OBVIOUS
  <2>. QED
    BY <1>6, <2>4, <2>5 DEF Summary
<1>. QED
  BY <1>8, <1>9

\* Only emitFinal ends a stream as slow, and it hands the summary to the sink.
LEMMA SlowStops ==
    ASSUME IInv, Next, NEW s \in Subs, why[s] = "none", why'[s] = "slow"
    PROVE  coda'[s] = Summary(buf) /\ UNCHANGED <<phase, log, buf>>
<1>1. why \in [Subs -> {"none", "closed", "slow", "sink", "ctx"}] /\ coda \in [Subs -> Seq(Event)]
  BY DEF IInv, TypeOK
<1>2. CASE Publisher
  BY <1>2 DEF Publisher, AnnounceWorking, EmitDelta, FinishWithout, EmitLastChunk,
              AnnounceCompleted, Close, FinishAsync, Publish, reader
<1>3. ASSUME NEW r \in Subs, Subscriber(r)
      PROVE  FinishSlow(r) /\ r = s
  BY <1>1, <1>3 DEF Subscriber, Proceed, Lookup, Attach, Replay, Receive, Finish,
                    FinishSlow, SinkFails, ContextDone, Unsubscribe, Stop
<1>. QED
  BY <1>1, <1>2, <1>3 DEF Next, FinishSlow, broker

LEMMA SpecLongEnough == Spec => []LongEnough
<1>1. Init => LongEnough
  BY DEF Init, LongEnough
<1>2. IInv /\ LongEnough /\ [Next]_vars => LongEnough'
  BY NextLongEnough
<1>. QED
  BY <1>1, <1>2, SpecIInv, PTL DEF Spec

\* What emitFinal hands to a dropped subscriber once the broker is closed ends on
\* the final status and, if the buffer holds two events, begins with the lastChunk
\* artifact of a completed task.
THEOREM BrokerSummaryIsFinal == Spec => SummaryAfterCloseIsFinal
<1> DEFINE Told(s) ==
        why[s] = "none" /\ why'[s] = "slow" /\ done =>
          /\ coda'[s] # <<>>
          /\ coda'[s][Len(coda'[s])] = log[Len(log)]
          /\ IsLastChunk(log[Len(log) - 1]) /\ MaxBuf > 1 => coda'[s][1] = log[Len(log) - 1]
<1>1. ASSUME IInv, CompleteInv, LongEnough, Next, NEW s \in Subs
      PROVE  Told(s)
  <2>1. done => phase \in Ended
    BY <1>1 DEF IInv, Closings, Ended
  <2>2. why[s] = "none" /\ why'[s] = "slow" => coda'[s] = Summary(buf)
    BY <1>1, SlowStops
  <2>. QED
    BY <1>1, <2>1, <2>2, SummaryOfEnded
<1>2. IInv /\ CompleteInv /\ LongEnough /\ [Next]_vars => [\A s \in Subs : Told(s)]_vars
  BY <1>1
<1>. QED
  BY <1>2, SpecIInv, SpecCompleteInv, SpecLongEnough, PTL DEF Spec, SummaryAfterCloseIsFinal

-----------------------------------------------------------------------------
(* The whole answer.                                                       *)

\* What stands where in the log.
LogShape ==
    /\ \A i \in 1 .. Len(log) : log[i].n = i
    /\ \A i \in 1 .. Len(log) : IsLastChunk(log[i]) =>
           \/ phase = "completed" /\ i = Len(log)
           \/ phase \in Ended /\ i = Len(log) - 1
    /\ \A i \in 1 .. Len(log) : IsFinal(log[i]) => phase \in Ended

FromLog(evs) == \A i \in 1 .. Len(evs) : \E j \in 1 .. Len(log) : evs[i] = log[j]

\* A dropped subscriber that was told the final status was given the whole text.
ToldAll(s) ==
    /\ why[s] = "slow" /\ MaxBuf > 1
    /\ \E i \in 1 .. Len(Sent(s)) : IsFinal(Sent(s)[i])
    /\ \E i \in 1 .. Len(log) : IsLastChunk(log[i])
    => \E i \in 1 .. Len(coda[s]) : IsLastChunk(coda[s][i])

AnswerInv ==
    /\ LogShape
    /\ \A s \in Subs : FromLog(coda[s])
    /\ \A s \in Subs : ToldAll(s)

LEMMA InitAnswerInv == Init => AnswerInv
<1>1. Len(<<>>) = 0 /\ \A i \in 1 .. 0 : FALSE
  OBVIOUS
<1>. QED
  BY <1>1 DEF Init, AnswerInv, LogShape, FromLog, ToldAll

\* What a stream held and was given stays its own.
LEMMA AnswerKept ==
    ASSUME AnswerInv, NEW s \in Subs, log' = log, coda'[s] = coda[s],
           why'[s] = "slow" => why[s] = "slow" /\ got'[s] = got[s]
    PROVE  FromLog(coda[s])' /\ ToldAll(s)'
<1>1. FromLog(coda[s]) /\ ToldAll(s)
  BY DEF AnswerInv
<1>2. FromLog(coda[s])'
  BY <1>1 DEF FromLog
<1>3. CASE why'[s] = "slow"
  <2>1. Sent(s)' = Sent(s)
    BY <1>3 DEF Sent
  <2>. QED
    BY <1>1, <1>2, <1>3, <2>1 DEF ToldAll
<1>4. CASE why'[s] # "slow"
  BY <1>2, <1>4 DEF ToldAll
<1>. QED
  BY <1>3, <1>4, <1>2

\* A sequence is the beginning of what it is continued to.
LEMMA Prefix ==
    ASSUME NEW S, NEW a \in Seq(S), NEW b \in Seq(S)
    PROVE  /\ a \o b \in Seq(S) /\ Len(a) \in Nat /\ Len(a \o b) \in Nat
           /\ Len(a) <= Len(a \o b)
           /\ \A i \in 1 .. Len(a) : i \in 1 .. Len(a \o b) /\ (a \o b)[i] = a[i]
OBVIOUS

\* What goes out on a stream is out of the log.
LEMMA SentFromLog ==
    ASSUME IInv, NEW s \in Subs, FromLog(coda[s])
    PROVE  /\ Sent(s) \in Seq(Event) /\ FromLog(Sent(s))
           /\ Len(Sent(s)) = Len(got[s]) + Len(coda[s])
           /\ \A i \in 1 .. Len(got[s]) : i \in 1 .. Len(Sent(s)) /\ Sent(s)[i] = got[s][i]
           /\ \A i \in 1 .. Len(coda[s]) : /\ Len(got[s]) + i \in 1 .. Len(Sent(s))
                                           /\ Sent(s)[Len(got[s]) + i] = coda[s][i]
<1> DEFINE g == got[s]
           gt == g \o todo[s]
           c == coda[s]
           st == Stream(s)
<1>1. /\ g \in Seq(Event) /\ c \in Seq(Event) /\ todo[s] \in Seq(Event) /\ chan[s] \in Seq(Event)
      /\ from[s] \in Nat \ {0} /\ Len(log) \in Nat
  BY DEF IInv, TypeOK
<1>2. /\ from[s] + Len(st) - 1 <= Len(log)
      /\ \A i \in 1 .. Len(st) : st[i] = log[from[s] + i - 1]
  BY DEF IInv, Gapless, Reached
<1>3. st = gt \o chan[s]
  BY DEF Stream
<1>4. Sent(s) = g \o c
  BY DEF Sent
<1>. HIDE DEF g, gt, c, st
<1>5. /\ Len(st) \in Nat /\ Len(g) \in Nat /\ Len(g) <= Len(st)
      /\ \A i \in 1 .. Len(g) : i \in 1 .. Len(st) /\ st[i] = g[i]
  <2>1. gt = g \o todo[s]
    BY DEF gt
  <2>2. /\ gt \in Seq(Event) /\ Len(g) \in Nat /\ Len(gt) \in Nat /\ Len(g) <= Len(gt)
        /\ \A i \in 1 .. Len(g) : i \in 1 .. Len(gt) /\ gt[i] = g[i]
    BY ONLY <1>1, <2>1, Prefix
  <2>3. /\ Len(st) \in Nat /\ Len(gt) <= Len(st)
        /\ \A i \in 1 .. Len(gt) : i \in 1 .. Len(st) /\ st[i] = gt[i]
    BY ONLY <1>1, <1>3, <2>2, Prefix
  <2>. QED
    BY ONLY <2>2, <2>3
<1>6. FromLog(g)
  <2>. SUFFICES ASSUME NEW i \in 1 .. Len(g)
                PROVE  \E j \in 1 .. Len(log) : g[i] = log[j]
    BY DEF FromLog
  <2>1. g[i] = log[from[s] + i - 1] /\ i \in 1 .. Len(st)
    BY <1>2, <1>5
  <2>2. ASSUME NEW a \in Nat \ {0}, NEW n \in Nat, NEW k \in Nat, a + n - 1 <= k,
               NEW x \in 1 .. n
        PROVE  a + x - 1 \in 1 .. k
    BY <2>2
  <2>3. from[s] + i - 1 \in 1 .. Len(log)
    BY ONLY <1>1, <1>2, <1>5, <2>1, <2>2
  <2>. QED
    BY <2>1, <2>3
<1>7. /\ g \o c \in Seq(Event) /\ Len(g \o c) = Len(g) + Len(c)
      /\ \A i \in 1 .. Len(g) : i \in 1 .. Len(g \o c) /\ (g \o c)[i] = g[i]
      /\ \A i \in 1 .. Len(c) : Len(g) + i \in 1 .. Len(g \o c) /\ (g \o c)[Len(g) + i] = c[i]
      /\ \A i \in 1 .. Len(g \o c) :
             i \in 1 .. Len(g) \/ (i - Len(g) \in 1 .. Len(c) /\ (g \o c)[i] = c[i - Len(g)])
  BY <1>1
<1>8. FromLog(g \o c)
  <2>1. FromLog(c)
    BY DEF c
  <2>. SUFFICES ASSUME NEW i \in 1 .. Len(g \o c)
                PROVE  \E j \in 1 .. Len(log) : (g \o c)[i] = log[j]
    BY DEF FromLog
  <2>2. CASE i \in 1 .. Len(g)
    BY <1>6, <1>7, <2>2 DEF FromLog
  <2>3. CASE i - Len(g) \in 1 .. Len(c) /\ (g \o c)[i] = c[i - Len(g)]
    BY <2>1, <2>3 DEF FromLog
  <2>. QED
    BY <1>7, <2>2, <2>3
<1>. QED
  BY ONLY <1>4, <1>7, <1>8 DEF g, c

\* Publishing keeps what was published where it is.
LEMMA PublishedAnswerInv ==
    ASSUME IInv, AnswerInv, Publisher, ~(Close \/ FinishAsync)
    PROVE  AnswerInv'
<1>1. /\ log \in Seq(Event) /\ Len(log) \in Nat
  BY DEF IInv, TypeOK
<1>2. PICK ev : /\ Publish(ev) /\ ev.n = Len(log) + 1
                /\ IsLastChunk(ev) => phase' = "completed"
                /\ IsFinal(ev) => phase' = "finished"
                /\ phase \in {"begun", "running"} \/ (phase = "completed" /\ phase' = "finished")
                /\ phase \notin Ended
  <2>1. CASE AnnounceWorking
    BY <2>1 DEF AnnounceWorking, Status, IsLastChunk, IsFinal, Ended
  <2>2. CASE EmitDelta
    BY <2>2 DEF EmitDelta, Artifact, IsLastChunk, IsFinal, Ended
  <2>3. CASE FinishWithout
    BY <2>3 DEF FinishWithout, Status, IsLastChunk, IsFinal, Ended
  <2>4. CASE EmitLastChunk
    BY <2>4 DEF EmitLastChunk, Artifact, IsLastChunk, IsFinal, Ended
  <2>5. CASE AnnounceCompleted
    BY <2>5 DEF AnnounceCompleted, Status, IsLastChunk, IsFinal, Ended
  <2>. QED
    BY <2>1, <2>2, <2>3, <2>4, <2>5 DEF Publisher
<1>3. /\ log' = Append(log, ev) /\ UNCHANGED <<got, coda, why>>
  BY <1>2 DEF Publish
<1>4. /\ Len(log') = Len(log) + 1 /\ log'[Len(log) + 1] = ev
      /\ \A i \in 1 .. Len(log) : i \in 1 .. Len(log') /\ log'[i] = log[i]
      /\ \A i \in 1 .. Len(log') : i \in 1 .. Len(log) \/ i = Len(log) + 1
  BY <1>1, <1>3
<1>5. LogShape'
  <2>1. \A i \in 1 .. Len(log') : log'[i].n = i
    BY <1>2, <1>4 DEF AnswerInv, LogShape
  <2>2. \A i \in 1 .. Len(log') : IsFinal(log'[i]) => phase' \in Ended
    BY <1>2, <1>4 DEF AnswerInv, LogShape, Ended
  <2>3. ASSUME NEW i \in 1 .. Len(log'), IsLastChunk(log'[i])
        PROVE  \/ phase' = "completed" /\ i = Len(log')
               \/ phase' \in Ended /\ i = Len(log') - 1
    <3>1. CASE i = Len(log) + 1
      BY <1>2, <1>4, <2>3, <3>1
    <3>2. CASE i \in 1 .. Len(log)
      <4>1. phase = "completed" /\ i = Len(log)
        BY <1>2, <1>4, <2>3, <3>2 DEF AnswerInv, LogShape
      <4>. QED
        BY <1>1, <1>2, <1>4, <4>1 DEF Ended
    <3>. QED
      BY <1>4, <3>1, <3>2
  <2>. QED
    BY <2>1, <2>2, <2>3 DEF LogShape
<1>6. \A s \in Subs : FromLog(coda[s])'
  <2>. SUFFICES ASSUME NEW s \in Subs, NEW i \in 1 .. Len(coda[s])
                PROVE  \E j \in 1 .. Len(log') : coda[s][i] = log'[j]
    BY <1>3 DEF FromLog
  <2>1. PICK j \in 1 .. Len(log) : coda[s][i] = log[j]
    BY DEF AnswerInv, FromLog
  <2>. QED
    BY <1>4, <2>1
<1>7. \A s \in Subs : ToldAll(s)'
  <2>. SUFFICES ASSUME NEW s \in Subs
                PROVE  ToldAll(s)'
    OBVIOUS
  <2>1. Sent(s)' = Sent(s)
    BY <1>3 DEF Sent
  <2>2. FromLog(Sent(s))
    BY SentFromLog DEF AnswerInv
  <2>3. \A i \in 1 .. Len(Sent(s)) : ~IsFinal(Sent(s)[i])
    BY <1>2, <2>2 DEF AnswerInv, LogShape, FromLog
  <2>. QED
    BY <2>1, <2>3 DEF ToldAll
<1>. QED
  BY <1>5, <1>6, <1>7 DEF AnswerInv

\* A subscriber that ends as slow is told what the buffer ends with.
LEMMA SlowAnswerInv ==
    ASSUME IInv, CompleteInv, LongEnough, AnswerInv, NEW s \in Subs, FinishSlow(s)
    PROVE  FromLog(coda[s])' /\ ToldAll(s)'
<1>1. /\ log \in Seq(Event) /\ buf \in Seq(Event) /\ Len(log) \in Nat /\ Len(buf) \in Nat
      /\ coda \in [Subs -> Seq(Event)] /\ got \in [Subs -> Seq(Event)]
  BY DEF IInv, TypeOK
<1>2. /\ coda'[s] = Summary(buf) /\ UNCHANGED <<log, buf, phase, got>>
  BY <1>1 DEF FinishSlow, broker
<1>3. FromLog(Summary(buf))
  <2>1. \A m \in 1 .. Len(buf) : \E j \in 1 .. Len(log) : buf[m] = log[j]
    <3>. SUFFICES ASSUME NEW m \in 1 .. Len(buf)
                  PROVE  \E j \in 1 .. Len(log) : buf[m] = log[j]
      OBVIOUS
    <3>1. Len(log) - Len(buf) + m \in 1 .. Len(log) /\ buf[m] = log[Len(log) - Len(buf) + m]
      BY <1>1 DEF IInv, BufIsTail
    <3>. QED
      BY <3>1
  <2>2. \A i \in 1 .. Len(Summary(buf)) : \E m \in 1 .. Len(buf) : Summary(buf)[i] = buf[m]
    BY <1>1, SummaryType
  <2>. QED
    BY ONLY <2>1, <2>2 DEF FromLog
<1>4. ToldAll(s)'
  <2>. SUFFICES ASSUME MaxBuf > 1,
                       NEW i \in 1 .. Len(got[s] \o Summary(buf)),
                       IsFinal((got[s] \o Summary(buf))[i]),
                       NEW l \in 1 .. Len(log), IsLastChunk(log[l])
                PROVE  \E j \in 1 .. Len(Summary(buf)) : IsLastChunk(Summary(buf)[j])
    BY <1>2 DEF ToldAll, Sent
  <2>1. phase \in Ended
    <3>1. FromLog(got[s])
      <4>1. FromLog(Sent(s)) /\ \A k \in 1 .. Len(got[s]) : k \in 1 .. Len(Sent(s)) /\ Sent(s)[k] = got[s][k]
        BY SentFromLog DEF AnswerInv
      <4>. QED
        BY ONLY <4>1 DEF FromLog
    <3> DEFINE g == got[s]
               c == Summary(buf)
    <3>2. g \in Seq(Event) /\ c \in Seq(Event)
      BY <1>1, SummaryType
    <3>3. FromLog(g) /\ FromLog(c) /\ i \in 1 .. Len(g \o c) /\ IsFinal((g \o c)[i])
      BY <1>3, <3>1
    <3>. HIDE DEF g, c
    <3>4. \/ i \in 1 .. Len(g) /\ (g \o c)[i] = g[i]
          \/ i - Len(g) \in 1 .. Len(c) /\ (g \o c)[i] = c[i - Len(g)]
      BY <3>2, <3>3
    <3>5. PICK j \in 1 .. Len(log) : (g \o c)[i] = log[j]
      BY <3>3, <3>4 DEF FromLog
    <3>. QED
      BY <3>3, <3>5 DEF AnswerInv, LogShape
  <2>2. l = Len(log) - 1
    BY <2>1 DEF AnswerInv, LogShape, Ended
  <2>3. Summary(buf) # <<>> /\ IsLastChunk(Summary(buf)[1])
    BY <2>1, <2>2, SummaryOfEnded
  <2>4. 1 \in 1 .. Len(Summary(buf))
    <3>1. Summary(buf) \in Seq(Event)
      BY <1>1, SummaryType
    <3>. QED
      BY ONLY <2>3, <3>1
  <2>. QED
    BY <2>3, <2>4
<1>5. FromLog(coda[s])'
  BY ONLY <1>2, <1>3 DEF FromLog
<1>. QED
  BY <1>4, <1>5

LEMMA NextAnswerInv ==
    ASSUME IInv, CompleteInv, LongEnough, AnswerInv, [Next]_vars
    PROVE  AnswerInv'
<1>1. CASE Publisher /\ ~(Close \/ FinishAsync)
  BY <1>1, PublishedAnswerInv
<1>2. CASE Close \/ FinishAsync
  <2>1. UNCHANGED <<log, got, coda, why>> /\ phase \in Ended /\ phase' \in Ended
    BY <1>2 DEF Close, FinishAsync, reader, Ended
  <2>2. LogShape'
    BY <2>1 DEF AnswerInv, LogShape, Ended
  <2>3. \A s \in Subs : FromLog(coda[s])' /\ ToldAll(s)'
    BY <2>1, AnswerKept
  <2>. QED
    BY <2>2, <2>3 DEF AnswerInv
<1>3. ASSUME NEW s \in Subs, Subscriber(s)
      PROVE  AnswerInv'
  <2>1. UNCHANGED <<log, phase, buf>>
    BY <1>3 DEF Subscriber, Proceed, Lookup, Attach, Replay, Receive, Finish,
                FinishSlow, SinkFails, ContextDone, Unsubscribe, broker
  <2>2. /\ why \in [Subs -> {"none", "closed", "slow", "sink", "ctx"}]
        /\ got \in [Subs -> Seq(Event)] /\ coda \in [Subs -> Seq(Event)]
    BY DEF IInv, TypeOK
  <2>3. \A r \in Subs \ {s} : why'[r] = why[r] /\ got'[r] = got[r] /\ coda'[r] = coda[r]
    BY <1>3, <2>2 DEF Subscriber, Proceed, Lookup, Attach, Replay, Receive, Finish,
                      FinishSlow, SinkFails, ContextDone, Unsubscribe, Stop
  <2>4. LogShape'
    BY <2>1 DEF AnswerInv, LogShape
  <2>5. \A r \in Subs \ {s} : FromLog(coda[r])' /\ ToldAll(r)'
    BY <2>1, <2>3, AnswerKept
  <2>6. FromLog(coda[s])' /\ ToldAll(s)'
    <3>1. CASE FinishSlow(s)
      BY <3>1, SlowAnswerInv
    <3>2. CASE ~FinishSlow(s)
      <4>1. coda'[s] = coda[s]
        BY <1>3, <2>2, <3>2 DEF Subscriber, Proceed, Lookup, Attach, Replay, Receive, Finish,
                          SinkFails, ContextDone, Unsubscribe, Stop
      <4>2. why'[s] # "slow" \/ (why'[s] = why[s] /\ got'[s] = got[s])
        <5>1. pc[s] = "attached" => why[s] = "none"
          BY DEF CompleteInv, Stopped
        <5>. QED
          BY <1>3, <2>2, <3>2, <5>1
          DEF Subscriber, Proceed, Lookup, Attach, Replay, Receive, Finish,
              SinkFails, ContextDone, Unsubscribe, Stop
      <4>. QED
        BY <2>1, <4>1, <4>2, AnswerKept
    <3>. QED
      BY <3>1, <3>2
  <2>. QED
    BY <2>4, <2>5, <2>6 DEF AnswerInv
<1>4. CASE UNCHANGED vars
  <2>1. UNCHANGED <<log, got, coda, why, phase>>
    BY <1>4 DEF vars, broker, reader
  <2>2. LogShape'
    BY <2>1 DEF AnswerInv, LogShape
  <2>3. \A s \in Subs : FromLog(coda[s])' /\ ToldAll(s)'
    BY <2>1, AnswerKept
  <2>. QED
    BY <2>2, <2>3 DEF AnswerInv
<1>. QED
  BY <1>1, <1>2, <1>3, <1>4 DEF Next

\* A client whose stream reported the final status of a completed task has the
\* whole text, once (Client.SubscribeToTask in a2a/grpc/grpc.go): what it is sent
\* is out of the log, where one lastChunk artifact stands, right before the end.
THEOREM BrokerAnswerIsWhole == Spec => []AnswerIsWhole
<1>1. IInv /\ CompleteInv /\ AnswerInv => AnswerIsWhole
  <2>. SUFFICES ASSUME IInv, CompleteInv, AnswerInv, NEW s \in Subs,
                       why[s] \in {"closed", "slow"}, MaxBuf > 1,
                       NEW f \in DOMAIN Sent(s), IsFinal(Sent(s)[f]),
                       NEW l \in DOMAIN log, IsLastChunk(log[l])
                PROVE  Assembled(Sent(s)) = << Len(log) - 1 >>
    BY DEF AnswerIsWhole
  <2> DEFINE E == Sent(s)
             lasts == {i \in DOMAIN E : IsLastChunk(E[i])}
  <2>1. /\ log \in Seq(Event) /\ got[s] \in Seq(Event) /\ coda[s] \in Seq(Event)
        /\ Len(log) \in Nat
    BY DEF IInv, TypeOK
  <2>2. /\ E \in Seq(Event) /\ FromLog(E)
        /\ \A i \in 1 .. Len(got[s]) : i \in 1 .. Len(E) /\ E[i] = got[s][i]
        /\ \A i \in 1 .. Len(coda[s]) :
               Len(got[s]) + i \in 1 .. Len(E) /\ E[Len(got[s]) + i] = coda[s][i]
    BY SentFromLog DEF AnswerInv
  <2>3. f \in 1 .. Len(E) /\ l \in 1 .. Len(log) /\ Len(E) \in Nat
    BY <2>1, <2>2
  <2>4. phase \in Ended
    <3>1. PICK j \in 1 .. Len(log) : E[f] = log[j]
      BY <2>2, <2>3 DEF FromLog
    <3>. QED
      BY <3>1 DEF AnswerInv, LogShape
  <2>5. l = Len(log) - 1
    BY <2>3, <2>4 DEF AnswerInv, LogShape, Ended
  <2>6. \A i \in lasts : E[i].n = Len(log) - 1
    <3>. SUFFICES ASSUME NEW i \in 1 .. Len(E), IsLastChunk(E[i])
                  PROVE  E[i].n = Len(log) - 1
      BY <2>2
    <3>1. PICK j \in 1 .. Len(log) : E[i] = log[j]
      BY <2>2 DEF FromLog
    <3>. QED
      BY <2>4, <3>1 DEF AnswerInv, LogShape, Ended
  <2>7. \E i \in 1 .. Len(E) : IsLastChunk(E[i])
    <3>1. CASE why[s] = "closed"
      <4>1. Len(log) > 1 /\ IsLastChunk(log[Len(log) - 1])
        BY <2>3, <2>5
      <4>2. Len(got[s]) > 1 /\ IsLastChunk(got[s][Len(got[s]) - 1])
        BY <3>1, <4>1, ClosedIsComplete DEF ClosedStreamIsComplete
      <4>3. Len(got[s]) - 1 \in 1 .. Len(got[s])
        BY <2>1, <4>2
      <4>. QED
        BY <2>2, <4>2, <4>3
    <3>2. CASE why[s] = "slow"
      <4>1. PICK i \in 1 .. Len(coda[s]) : IsLastChunk(coda[s][i])
        BY <2>3, <3>2 DEF AnswerInv, ToldAll
      <4>. QED
        BY <2>2, <4>1
    <3>. QED
      BY <3>1, <3>2
  <2>8. lasts \in SUBSET (1 .. Len(E)) /\ lasts # {}
    BY <2>2, <2>7
  <2> DEFINE m == CHOOSE i \in lasts : \A j \in lasts : j <= i
  <2>9. m \in lasts
    <3>. HIDE DEF lasts, E
    <3>1. \E i \in lasts : \A j \in lasts : j <= i
      BY <2>3, <2>8, LastPosition
    <3>. QED
      BY <3>1
  <2>10. Final(E) = << E[m].n >>
    BY <2>8 DEF Final
  <2>11. E[m].n = Len(log) - 1
    <3>. HIDE DEF lasts, E, m
    <3>. QED
      BY <2>6, <2>9
  <2>12. Final(E) = << Len(log) - 1 >>
    <3>. HIDE DEF lasts, E, m
    <3>. QED
      BY <2>10, <2>11
  <2>. HIDE DEF m, lasts
  <2>. QED
    BY <2>12 DEF Assembled
<1>2. IInv /\ CompleteInv /\ LongEnough /\ AnswerInv /\ [Next]_vars => AnswerInv'
  BY NextAnswerInv
<1>. QED
  BY <1>1, <1>2, InitAnswerInv, SpecIInv, SpecCompleteInv, SpecLongEnough, PTL DEF Spec

=============================================================================
