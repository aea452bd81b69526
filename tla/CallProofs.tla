----------------------------- MODULE CallProofs -----------------------------
(***************************************************************************)
(* Calls over the network.  HttpRetry: who closes which body, for any      *)
(* policy, any headers and any outcome of the requests; and what bounds a  *)
(* delay, for any width of the integers.  Exchange: that what is on the    *)
(* wire, read to its end, makes of the client's assembler what the server  *)
(* has told, for any number of pieces and wherever the connection breaks.  *)
(* JsonRpc: the read loop of the client, for any number of calls, pipes of *)
(* any length, and a server that repeats answers: a call's channel is open *)
(* and empty as long as the call is in the pending table, and from there   *)
(* until the answer that was taken for it is handed over.                  *)
(***************************************************************************)
EXTENDS HttpRetry, Exchange, JsonRpc, SequenceTheorems, TLAPS

-----------------------------------------------------------------------------
(* HttpRetry.                                                              *)

Stages == {"new", "requesting", "deciding", "waiting", "posting", "reading", "done"}
InHand == {"deciding", "posting", "reading"}

RetryTypeOK ==
    /\ doing \in Stages
    /\ doing # "new" => policy \in Policies
    /\ attempt \in 0..MaxAttempts
    /\ doing # "new" => attempt <= Attempts
    /\ doing = "requesting" => attempt < Attempts
    /\ doing = "new" => attempt = 0
    /\ body \in [1..MaxAttempts -> {"none", "open", "closed"}]
    /\ closings \in [1..MaxAttempts -> Nat]
    /\ resp \in 0..attempt

\* The response in hand is that of the last attempt and its body is open; no
\* other body is, and attempts to come have none.
IInv ==
    /\ RetryTypeOK
    /\ doing = "waiting" => attempt < Attempts
    /\ doing \in {"new", "requesting", "waiting"} => resp = 0
    /\ doing \in InHand /\ resp # 0 => body[resp] = "open"
    /\ doing = "reading" => resp # 0
    /\ \A a \in 1..MaxAttempts : a > attempt => body[a] = "none"
    /\ BodiesAreClosedOnce

LEMMA Bound == MaxAttempts \in Nat \ {0}
BY RetryAssumption

LEMMA AttemptsBounded ==
    ASSUME NEW p \in Policies
    PROVE  (IF p.attempts < 1 THEN 1 ELSE p.attempts) \in 1..MaxAttempts
BY RetryAssumption

LEMMA InitIInv == RetryInit => IInv
<1>. SUFFICES ASSUME RetryInit
              PROVE  IInv
  OBVIOUS
<1>1. doing = "new" /\ attempt = 0 /\ resp = 0
  BY DEF RetryInit
<1>2. attempt \in 0..MaxAttempts /\ resp \in 0..attempt
  BY <1>1, Bound
<1>3. /\ body \in [1..MaxAttempts -> {"none", "open", "closed"}]
      /\ closings \in [1..MaxAttempts -> Nat]
      /\ \A a \in 1..MaxAttempts : body[a] = "none" /\ closings[a] = 0
  BY DEF RetryInit
<1>. QED
  BY <1>1, <1>2, <1>3 DEF IInv, RetryTypeOK, BodiesAreClosedOnce, Stages, InHand

LEMMA NextIInv == IInv /\ [RetryNext]_retryVars => IInv'
<1>. SUFFICES ASSUME IInv, [RetryNext]_retryVars
              PROVE  IInv'
  OBVIOUS
<1>0. /\ doing # "new" => Attempts \in 1..MaxAttempts
      /\ policy' \in Policies => Attempts' \in 1..MaxAttempts
  BY AttemptsBounded DEF Attempts, IInv, RetryTypeOK
<1>. USE Bound DEF IInv, RetryTypeOK, Stages, InHand, BodiesAreClosedOnce
<1>1. CASE Call
  <2>1. /\ doing = "new" /\ doing' = "requesting" /\ policy' \in Policies
        /\ attempt' = 0 /\ resp' = resp /\ body' = body /\ closings' = closings
    BY <1>1 DEF Call
  <2>2. attempt' <= Attempts' /\ attempt' < Attempts'
    BY <2>1, <1>0
  <2>. QED
    BY <2>1, <2>2
<1>2. CASE MakeFails \/ Interrupted
  BY <1>2, <1>0 DEF MakeFails, Interrupted, Finish, Attempts
<1>3. CASE Fails
  BY <1>3, <1>0 DEF Fails, Attempts
<1>4. CASE Decide
  <2>1. CASE Retryable /\ attempt < Attempts /\ resp # 0
    <3>1. /\ doing = "deciding" /\ doing' = "waiting" /\ resp' = 0
          /\ body' = [body EXCEPT ![resp] = "closed"]
          /\ closings' = [closings EXCEPT ![resp] = @ + 1]
          /\ UNCHANGED <<policy, attempt>>
      BY <1>4, <2>1 DEF Decide, ClosedBody
    <3>2. resp \in 1..MaxAttempts /\ resp <= attempt /\ body[resp] = "open" /\ attempt \in Nat
      BY <2>1, <3>1
    <3>3. /\ body' \in [1..MaxAttempts -> {"none", "open", "closed"}]
          /\ closings' \in [1..MaxAttempts -> Nat]
      BY <3>1, <3>2
    <3>4. RetryTypeOK'
      BY <3>1, <3>2, <3>3, <2>1, <1>0 DEF Attempts
    <3>5. BodiesAreClosedOnce'
      BY <3>1, <3>2
    <3>6. \A a \in 1..MaxAttempts : a > attempt' => body'[a] = "none"
      BY <3>1, <3>2
    <3>. HIDE DEF RetryTypeOK, BodiesAreClosedOnce
    <3>7. doing' = "waiting" => attempt' < Attempts'
      BY <2>1, <3>1 DEF Attempts
    <3>. QED
      BY <3>1, <3>4, <3>5, <3>6, <3>7
  <2>2. CASE Retryable /\ attempt < Attempts /\ resp = 0
    BY <1>4, <1>0, <2>2 DEF Decide, Attempts
  <2>3. CASE ~(Retryable /\ attempt < Attempts)
    BY <1>4, <1>0, <2>3 DEF Decide, Attempts
  <2>. QED
    BY <2>1, <2>2, <2>3
<1>5. CASE Elapsed
  BY <1>5, <1>0 DEF Elapsed, Attempts
<1>6. CASE Post
  <2>1. CASE resp # 0 /\ status # "ok"
    <3>1. /\ doing = "posting" /\ doing' = "done" /\ resp' = resp
          /\ body' = [body EXCEPT ![resp] = "closed"]
          /\ closings' = [closings EXCEPT ![resp] = @ + 1]
          /\ UNCHANGED <<policy, attempt>>
      BY <1>6, <2>1 DEF Post, ClosedBody, Finish
    <3>2. resp \in 1..MaxAttempts /\ resp <= attempt /\ body[resp] = "open" /\ attempt \in Nat
      BY <2>1, <3>1
    <3>3. /\ body' \in [1..MaxAttempts -> {"none", "open", "closed"}]
          /\ closings' \in [1..MaxAttempts -> Nat]
      BY <3>1, <3>2
    <3>4. RetryTypeOK'
      BY <3>1, <3>2, <3>3, <2>1, <1>0 DEF Attempts
    <3>5. BodiesAreClosedOnce'
      BY <3>1, <3>2
    <3>6. \A a \in 1..MaxAttempts : a > attempt' => body'[a] = "none"
      BY <3>1, <3>2
    <3>. HIDE DEF RetryTypeOK, BodiesAreClosedOnce
    <3>. QED
      BY <3>1, <3>4, <3>5, <3>6
  <2>2. CASE resp = 0 \/ status = "ok"
    BY <1>6, <1>0, <2>2 DEF Post, Finish, Attempts
  <2>. QED
    BY <2>1, <2>2
<1>7. CASE Consume
  BY <1>7, <1>0 DEF Consume, ClosedBody, Finish, Attempts
<1>8. ASSUME NEW s \in {"retryable", "ok", "refused"}, NEW h, Responds(s, h)
      PROVE  IInv'
  BY <1>8, <1>0 DEF Responds, Attempts
<1>9. CASE UNCHANGED retryVars
  BY <1>9 DEF retryVars, Attempts
<1>. QED
  BY <1>1, <1>2, <1>3, <1>4, <1>5, <1>6, <1>7, <1>8, <1>9 DEF RetryNext

\* No body is left open, closed twice, or held beside another, whatever fails
\* and however often it is tried again (httpretry.Do, post and its callers).
THEOREM RetryBodiesAreClosedOnce == RetrySpec => []BodiesAreClosedOnce
<1>1. IInv => BodiesAreClosedOnce
  BY DEF IInv
<1>. QED
  BY <1>1, InitIInv, NextIInv, PTL DEF RetrySpec

-----------------------------------------------------------------------------
\* Integers wrap around to integers.
LEMMA WrappedIsInt == ASSUME NEW n \in Int PROVE Wrapped(n) \in Int
<1>1. MaxDuration \in Int /\ MaxDuration + 1 > 0
  BY RetryAssumption DEF MaxDuration
<1>2. ((n + MaxDuration + 1) % (2 * (MaxDuration + 1))) \in Int
  BY <1>1
<1>. QED
  BY <1>1, <1>2 DEF Wrapped

\* A policy gives a base and a cap that are positive.
LEMMA PolicyIsPositive ==
    ASSUME policy \in Policies
    PROVE  Base \in Nat \ {0} /\ Cap \in Nat \ {0}
BY RetryAssumption DEF Base, Cap, MaxDuration

\* What the shift and the product make of it does not matter: what is not
\* between 0 and the cap is the cap.
LEMMA GrowthIsBounded ==
    ASSUME policy \in Policies, NEW shift \in Nat
    PROVE  Growth(shift) \in 0..Cap
<1>. DEFINE grown == Wrapped(Base * Wrapped(2^shift))
<1>1. Base \in Nat \ {0} /\ Cap \in Nat \ {0}
  BY PolicyIsPositive
<1>2. grown \in Int
  <2>1. Wrapped(2^shift) \in Int
    BY WrappedIsInt
  <2>. QED
    BY <2>1, <1>1, WrappedIsInt
<1>. HIDE DEF grown
<1>3. Growth(shift) = (LET d == IF shift < MaxShift /\ 0 < grown /\ grown < Cap THEN grown ELSE Cap
                       IN  IF d <= 0 THEN Base ELSE d)
  BY DEF Growth, grown
<1>. QED
  BY <1>1, <1>2, <1>3

DelayInv ==
    /\ IInv
    /\ header \in Nat
    /\ doing = "deciding" => attempt > 0
    /\ doing = "deciding" /\ resp = 0 => header = 0
    /\ DelayIsBounded

LEMMA InitDelayInv == RetryInit => DelayInv
<1>. SUFFICES ASSUME RetryInit
              PROVE  DelayInv
  OBVIOUS
<1>1. doing = "new" /\ header = 0
  BY DEF RetryInit
<1>. QED
  BY <1>1, InitIInv DEF DelayInv, DelayIsBounded

LEMMA NextDelayInv == DelayInv /\ [RetryNext]_retryVars => DelayInv'
<1>. SUFFICES ASSUME DelayInv, [RetryNext]_retryVars
              PROVE  DelayInv'
  OBVIOUS
<1>1. IInv /\ IInv'
  BY NextIInv DEF DelayInv
<1>2. CASE Decide
  <2>1. policy \in Policies /\ attempt \in Nat \ {0}
    BY <1>1, <1>2, Bound DEF IInv, RetryTypeOK, Decide, DelayInv
  <2>2. CASE doing' = "waiting"
    <3>1. delay' \in Backoff /\ header' = header /\ policy' = policy
      BY <1>2, <2>2 DEF Decide
    <3>2. header > 0 => resp # 0
      BY <1>2 DEF Decide, DelayInv
    <3>3. CASE header > 0
      <4>1. delay' = RetryAfter(header)
        BY <3>1, <3>2, <3>3 DEF Backoff
      <4>2. RetryAfter(header) \in 0..MaxRetryAfter
        BY <3>3, RetryAssumption DEF RetryAfter, DelayInv, MaxDuration
      <4>. QED
        BY <4>1, <4>2, <3>1, <3>3, <2>2, <1>1 DEF DelayInv, DelayIsBounded
    <3>4. CASE ~(header > 0)
      <4>1. delay' \in 0..Growth(attempt - 1)
        BY <3>1, <3>4 DEF Backoff
      <4>2. Growth(attempt - 1) \in 0..Cap
        BY <2>1, GrowthIsBounded
      <4>3. Cap \in Nat /\ Cap' = Cap
        BY <2>1, <3>1, PolicyIsPositive DEF Cap
      <4>4. delay' \in 0..Cap'
        BY <4>1, <4>2, <4>3
      <4>. QED
        BY <4>4, <3>1, <3>4, <2>2, <1>1 DEF DelayInv, DelayIsBounded
    <3>. QED
      BY <3>3, <3>4
  <2>3. CASE doing' # "waiting"
    BY <2>3, <1>1, <1>2 DEF Decide, DelayInv, DelayIsBounded
  <2>. QED
    BY <2>2, <2>3
<1>3. CASE Call \/ MakeFails \/ Elapsed \/ Interrupted \/ Post \/ Consume
  BY <1>1, <1>3 DEF Call, MakeFails, Elapsed, Interrupted, Post, Consume, Finish,
                    DelayInv, DelayIsBounded
<1>4. CASE Fails
  BY <1>1, <1>4 DEF Fails, DelayInv, DelayIsBounded, IInv, RetryTypeOK
<1>5. ASSUME NEW s, NEW h \in Headers \cup {0}, Responds(s, h)
      PROVE  DelayInv'
  <2>1. h \in Nat /\ attempt \in Nat
    BY <1>1, Bound, RetryAssumption DEF IInv, RetryTypeOK
  <2>. QED
    BY <1>1, <1>5, <2>1 DEF Responds, DelayInv, DelayIsBounded
<1>6. CASE UNCHANGED retryVars
  BY <1>1, <1>6 DEF retryVars, DelayInv, DelayIsBounded, Cap
<1>. QED
  BY <1>2, <1>3, <1>4, <1>5, <1>6 DEF RetryNext

\* A delay is never negative nor above what the policy or maxRetryAfter allows,
\* however narrow the integers that it is computed in (backoff).
THEOREM RetryDelayIsBounded == RetrySpec => []DelayIsBounded
<1>1. DelayInv => DelayIsBounded
  BY DEF DelayInv
<1>. QED
  BY <1>1, InitDelayInv, NextDelayInv, PTL DEF RetrySpec

-----------------------------------------------------------------------------
(* Exchange.                                                               *)

Text == Seq(Nat)
Finding == {"", "working"} \cup Settled \cup Failures

Event ==
    {Error, End} \cup [kind : {"status"}, state : Finding]
        \cup [kind : {"artifact"}, text : Text, append : BOOLEAN, last : BOOLEAN]
        \cup [kind : {"task"}, state : Finding, text : Text, note : Text]
        \cup [kind : {"message"}, text : Text] \cup {Void}

\* Reading the events w, one after the other, makes b of assembler a.
Reads(h, a, w, b) ==
    \E A : /\ A = [i \in 0 .. Len(w) |-> A[i]]
           /\ A[0] = a /\ A[Len(w)] = b
           /\ \A i \in 1 .. Len(w) : A[i] = Absorb(h, A[i - 1], w[i])

\* What an assembler is that has read all the server has told.
Told == [full |-> told, final |-> Heard, sawDelta |-> told # <<>>, sawFinal |-> answer.saw]

Ended(w) == \E i \in DOMAIN w : w[i].kind = "end"

\* A task that an answer may be of.
Right == task \notin Failures /\ (way.foreign \/ way.content # "file")

ExchangeTyped ==
    /\ way \in [binding : {"", "http", "grpc"}, streamed : BOOLEAN, foreign : BOOLEAN,
                content : {"", "text", "inline", "data", "file"}]
    /\ peer \in {"off", "dispatching", "running", "failing", "foreign", "done"}
    /\ task \in Finding /\ pieces \in Nat
    /\ told \in Text /\ answer \in [text : Text, note : Text, appended : BOOLEAN, saw : BOOLEAN]
    /\ wire \in Seq(Event) /\ cut \in BOOLEAN

\* Where the server stands and what it has told by then.
PeerInv ==
    /\ peer = "off" => wire = <<>> /\ asm = NewAssembler
    /\ peer \in {"off", "dispatching"} => told = <<>>
    /\ peer \in {"off", "dispatching", "running", "failing"} => answer = NoAnswer
    /\ peer \in {"running", "failing"} => task \in {"working", "canceled"}
    /\ peer \in {"off", "dispatching", "foreign"} => task \notin Failures
    /\ peer \in {"dispatching", "running", "failing"} => ~way.foreign
    /\ peer = "foreign" => way.foreign
    /\ ~answer.saw => answer = NoAnswer
    /\ ~way.foreign => answer.note = <<>> /\ ~answer.appended
    /\ ~way.streamed => told = <<>>

\* As long as no event was lost, the client is to learn all that was told.
StreamInv ==
    way.streamed /\ result = Unknown /\ (~cut \/ Ended(wire)) => Reads(way.binding, asm, wire, Told)

\* A stream ends once and last, and not without telling of a failure.
EndInv ==
    \A i \in DOMAIN wire : wire[i].kind = "end" =>
        /\ i = Len(wire) /\ peer = "done"
        /\ Right \/ result # Unknown \/ \E j \in DOMAIN wire : Failed(wire[j])

\* A response is an error or the text of the answer, and comes when the server is done.
ResponseInv ==
    ~way.streamed => \A i \in DOMAIN wire :
        peer = "done" /\ (Failed(wire[i]) \/ (Right /\ ResponseText(way.binding, wire[i]) = Heard))

\* AnswerCrosses, and that the server is done by then.
ReturnInv ==
    result.got = "answer" =>
        peer = "done" /\ Right /\ result.text = IF Heard # <<>> THEN Heard ELSE told

ExchangeInv == ExchangeTyped /\ PeerInv /\ StreamInv /\ EndInv /\ ResponseInv /\ ReturnInv

-----------------------------------------------------------------------------
LEMMA NothingIsText == <<>> \in Text /\ <<>> \in Seq(Event) /\ DOMAIN <<>> = {}
<1>1. <<>> \in Seq(Nat) /\ <<>> \in Seq(Event)
  OBVIOUS
<1>2. DOMAIN <<>> = {}
  OBVIOUS
<1>. QED
  BY <1>1, <1>2 DEF Text

\* A call that returned is not one whose outcome is unknown.
LEMMA ReturnedIsKnown ==
    ASSUME NEW t
    PROVE  /\ [got |-> "error", text |-> t] # Unknown /\ [got |-> "answer", text |-> t] # Unknown
           /\ Unknown.got # "answer" /\ [got |-> "error", text |-> t].got # "answer"
           /\ [got |-> "answer", text |-> t].text = t
<1>1. [got |-> "error", text |-> t].got = "error" /\ [got |-> "answer", text |-> t].got = "answer"
  OBVIOUS
<1>2. Unknown.got = ""
  BY DEF Unknown
<1>3. [got |-> "answer", text |-> t].text = t
  OBVIOUS
<1>. QED
  BY <1>1, <1>2, <1>3

LEMMA ReadNothing == ASSUME NEW h, NEW a PROVE Reads(h, a, <<>>, a)
<1> DEFINE A == [i \in 0 .. 0 |-> a]
<1>1. A = [i \in 0 .. Len(<<>>) |-> A[i]] /\ A[0] = a /\ A[Len(<<>>)] = a
  OBVIOUS
<1>2. \A i \in 1 .. Len(<<>>) : FALSE
  OBVIOUS
<1>. HIDE DEF A
<1>. QED
  BY <1>1, <1>2 DEF Reads

LEMMA ReadOneMore ==
    ASSUME NEW h, NEW w \in Seq(Event), NEW a, NEW b, NEW e \in Event, Reads(h, a, w, b)
    PROVE  Reads(h, a, Append(w, e), Absorb(h, b, e))
<1> DEFINE n == Len(w)
           v == Append(w, e)
<1>1. PICK A : /\ A = [i \in 0 .. n |-> A[i]] /\ A[0] = a /\ A[n] = b
               /\ \A i \in 1 .. n : A[i] = Absorb(h, A[i - 1], w[i])
  BY DEF Reads
<1>2. /\ n \in Nat /\ Len(v) = n + 1 /\ v[n + 1] = e
      /\ \A i \in 1 .. n : v[i] = w[i]
  BY AppendProperties, LenProperties
<1> DEFINE B == [i \in 0 .. n + 1 |-> IF i = n + 1 THEN Absorb(h, b, e) ELSE A[i]]
<1>. HIDE DEF n, v
<1>3. /\ B = [i \in 0 .. Len(v) |-> B[i]] /\ B[0] = a /\ B[Len(v)] = Absorb(h, b, e)
  BY <1>1, <1>2
<1>4. ASSUME NEW i \in 1 .. Len(v) PROVE B[i] = Absorb(h, B[i - 1], v[i])
  <2>1. CASE i = n + 1
    <3>1. B[i] = Absorb(h, b, e) /\ i - 1 = n /\ B[n] = b /\ v[i] = e
      BY <1>1, <1>2, <2>1
    <3>. QED
      BY <3>1
  <2>2. CASE i \in 1 .. n
    <3>1. B[i] = A[i] /\ B[i - 1] = A[i - 1] /\ v[i] = w[i]
      BY <1>2, <2>2
    <3>2. A[i] = Absorb(h, A[i - 1], w[i])
      BY <1>1, <2>2
    <3>. QED
      BY <3>1, <3>2
  <2>. QED
    BY <1>2, <2>1, <2>2
<1>. HIDE DEF B
<1>5. Reads(h, a, v, Absorb(h, b, e))
  BY <1>3, <1>4 DEF Reads
<1>. QED
  BY <1>5 DEF v

LEMMA ReadFirst ==
    ASSUME NEW h, NEW w \in Seq(Event), w # <<>>, NEW a, NEW b, Reads(h, a, w, b)
    PROVE  /\ Reads(h, Absorb(h, a, Head(w)), Tail(w), b)
           /\ Len(w) = 1 => b = Absorb(h, a, Head(w))
<1> DEFINE n == Len(w)
           v == Tail(w)
<1>1. PICK A : /\ A = [i \in 0 .. n |-> A[i]] /\ A[0] = a /\ A[n] = b
               /\ \A i \in 1 .. n : A[i] = Absorb(h, A[i - 1], w[i])
  BY DEF Reads
<1>2. /\ n \in Nat \ {0} /\ Len(v) = n - 1 /\ Head(w) = w[1]
      /\ \A i \in 1 .. Len(v) : v[i] = w[i + 1]
  BY HeadTailProperties, LenProperties, EmptySeq
<1> DEFINE B == [i \in 0 .. n - 1 |-> A[i + 1]]
<1>. HIDE DEF n, v
<1>3. A[1] = Absorb(h, a, Head(w))
  <2>1. 1 \in 1 .. n /\ 1 - 1 = 0
    BY <1>2
  <2>. QED
    BY <1>1, <1>2, <2>1
<1>4. /\ B = [i \in 0 .. Len(v) |-> B[i]] /\ B[0] = Absorb(h, a, Head(w)) /\ B[Len(v)] = b
  BY <1>1, <1>2, <1>3
<1>5. ASSUME NEW i \in 1 .. Len(v) PROVE B[i] = Absorb(h, B[i - 1], v[i])
  <2>1. B[i] = A[i + 1] /\ B[i - 1] = A[i] /\ v[i] = w[i + 1]
    BY <1>2
  <2>2. i + 1 \in 1 .. n /\ (i + 1) - 1 = i
    BY <1>2
  <2>. QED
    BY <1>1, <2>1, <2>2
<1>. HIDE DEF B
<1>6. Reads(h, Absorb(h, a, Head(w)), v, b)
  BY <1>4, <1>5 DEF Reads
<1>7. n = 1 => b = Absorb(h, a, Head(w))
  BY <1>1, <1>3
<1>. QED
  BY <1>6, <1>7 DEF n, v

\* What is heard of an answer is the same as long as the answer is; before there
\* is one it is nothing, and of this repository's server it is the whole of it.
LEMMA HeardSame == UNCHANGED <<way, answer>> => Heard' = Heard
BY DEF Heard

LEMMA NoAnswerIs == NoAnswer.text = <<>> /\ NoAnswer.note = <<>> /\ NoAnswer.appended = FALSE
BY DEF NoAnswer

LEMMA HeardNothing == answer = NoAnswer => Heard = <<>>
BY NoAnswerIs DEF Heard

\* What the client's assembler makes of a piece, of a message, of the final text.
LEMMA DeltaOfTold ==
    ASSUME NEW e, \/ e.kind = "artifact" /\ ~e.last
                  \/ e.kind = "message",
           UNCHANGED <<way, answer>>, told' # <<>>,
           e.kind = "message" \/ e.append => told' = told \o e.text,
           e.kind = "artifact" /\ ~e.append => told' = e.text
    PROVE  Told' = Absorb(way.binding, Told, e)
<1>1. PICK d : d = (told # <<>>)
  OBVIOUS
<1>2. PICK l : l = Heard /\ l = Heard'
  BY HeardSame
<1>3. PICK s : s = answer.saw
  OBVIOUS
<1> DEFINE a == [full |-> told, final |-> l, sawDelta |-> d, sawFinal |-> s]
<1>4. Told = a /\ Told' = [full |-> told', final |-> l, sawDelta |-> TRUE, sawFinal |-> s]
  BY <1>1, <1>2, <1>3 DEF Told
<1>5. Absorb(way.binding, a, e) = [full |-> told', final |-> l, sawDelta |-> TRUE, sawFinal |-> s]
  <2>1. CASE e.kind = "message" \/ e.append
    <3>1. Delta(a, e.text, e.append) = Delta(a, e.text, TRUE) \/ e.kind = "message"
      BY <2>1 DEF Delta
    <3>2. Absorb(way.binding, a, e) = Delta(a, e.text, TRUE)
      BY <3>1 DEF Absorb
    <3>3. Delta(a, e.text, TRUE) = [a EXCEPT !.full = told', !.sawDelta = TRUE]
      BY <2>1 DEF Delta
    <3>. QED
      BY ONLY <3>2, <3>3
  <2>2. CASE e.kind = "artifact" /\ ~e.append
    <3>1. Absorb(way.binding, a, e) = Delta(a, e.text, e.append)
      BY <2>2 DEF Absorb
    <3>2. Delta(a, e.text, e.append) = [a EXCEPT !.full = told', !.sawDelta = TRUE]
      BY <2>2 DEF Delta
    <3>. QED
      BY ONLY <3>1, <3>2
  <2>. QED
    BY <2>1, <2>2
<1>. HIDE DEF a
<1>. QED
  BY ONLY <1>4, <1>5

LEMMA FinalOfTold ==
    ASSUME NEW e, NEW t,
           \/ e.kind = "artifact" /\ e.last /\ e.text = t
           \/ e.kind = "task" /\ e.state \in Settled /\ TaskText(way.binding, e) = t,
           told' = told, answer'.saw = TRUE, Heard' = t
    PROVE  Told' = Absorb(way.binding, Told, e)
<1>1. PICK d : d = (told # <<>>)
  OBVIOUS
<1>2. Told = [full |-> told, final |-> Heard, sawDelta |-> d, sawFinal |-> answer.saw]
  BY <1>1 DEF Told
<1>3. Told' = [full |-> told, final |-> t, sawDelta |-> d, sawFinal |-> TRUE]
  BY <1>1 DEF Told
<1>4. Absorb(way.binding, Told, e) = Final(Told, t)
  BY DEF Absorb
<1>. QED
  BY <1>2, <1>3, <1>4 DEF Final

LEMMA NothingOfTold ==
    ASSUME NEW a, NEW e, e.kind \notin {"artifact", "message"}, e.kind = "task" => e.state \notin Settled
    PROVE  Absorb(way.binding, a, e) = a
BY DEF Absorb

-----------------------------------------------------------------------------
(* What is sent.                                                           *)

LEMMA EventsAppended ==
    ASSUME NEW w \in Seq(Event), NEW e \in Event
    PROVE  /\ w \o <<e>> = Append(w, e) /\ Append(w, e) \in Seq(Event)
           /\ Len(Append(w, e)) = Len(w) + 1 /\ Len(w) \in Nat
           /\ DOMAIN w = 1 .. Len(w) /\ DOMAIN Append(w, e) = 1 .. Len(w) + 1
           /\ \A i \in 1 .. Len(w) : Append(w, e)[i] = w[i]
           /\ Append(w, e)[Len(w) + 1] = e
<1>1. Append(w, e) \in Seq(Event)
  BY AppendProperties
<1>2. w \o <<e>> = Append(w, e)
  BY AppendIsConcat
<1>. QED
  BY <1>1, <1>2, AppendProperties, LenProperties

LEMMA TwoAppended ==
    ASSUME NEW w \in Seq(Event), NEW e \in Event, NEW f \in Event
    PROVE  w \o <<e, f>> = Append(Append(w, e), f)
<1>1. w \o <<e>> = Append(w, e) /\ Append(w, e) \in Seq(Event)
  BY EventsAppended
<1>2. Append(w, e) \o <<f>> = Append(Append(w, e), f)
  BY <1>1, EventsAppended
<1>3. <<e>> \o <<f>> = <<e, f>>
  <2>1. <<e>> \in Seq(Event)
    OBVIOUS
  <2>2. <<e>> \o <<f>> = Append(<<e>>, f)
    BY <2>1, AppendIsConcat
  <2>3. Append(<<e>>, f) = <<e, f>>
    <3>1. /\ Append(<<e>>, f) \in Seq(Event) /\ Len(Append(<<e>>, f)) = 2
          /\ Append(<<e>>, f)[1] = e /\ Append(<<e>>, f)[2] = f
      BY <2>1, AppendProperties
    <3>2. <<e, f>> \in Seq(Event) /\ Len(<<e, f>>) = 2 /\ <<e, f>>[1] = e /\ <<e, f>>[2] = f
      OBVIOUS
    <3>3. \A i \in 1 .. 2 : i = 1 \/ i = 2
      OBVIOUS
    <3>. QED
      BY <3>1, <3>2, <3>3, SeqEqual
  <2>. QED
    BY <2>2, <2>3
<1>4. (w \o <<e>>) \o <<f>> = w \o (<<e>> \o <<f>>)
  <2>1. <<e>> \in Seq(Event) /\ <<f>> \in Seq(Event)
    OBVIOUS
  <2>. QED
    BY <2>1, ConcatAssociative
<1>. QED
  BY <1>1, <1>2, <1>3, <1>4

LEMMA ThreeAppended ==
    ASSUME NEW w \in Seq(Event), NEW e \in Event, NEW f \in Event, NEW g \in Event
    PROVE  w \o <<e, f, g>> = Append(Append(Append(w, e), f), g)
<1>1. w \o <<e, f>> = Append(Append(w, e), f) /\ Append(Append(w, e), f) \in Seq(Event)
  <2>1. Append(w, e) \in Seq(Event)
    BY EventsAppended
  <2>. QED
    BY <2>1, TwoAppended, EventsAppended
<1>2. Append(Append(w, e), f) \o <<g>> = Append(Append(Append(w, e), f), g)
  BY <1>1, EventsAppended
<1>3. <<e, f>> \o <<g>> = <<e, f, g>>
  <2>1. <<e, f>> \in Seq(Event)
    OBVIOUS
  <2>2. <<e, f>> \o <<g>> = Append(<<e, f>>, g)
    BY <2>1, AppendIsConcat
  <2>3. Append(<<e, f>>, g) = <<e, f, g>>
    <3>1. /\ Append(<<e, f>>, g) \in Seq(Event) /\ Len(Append(<<e, f>>, g)) = 3
          /\ Append(<<e, f>>, g)[1] = e /\ Append(<<e, f>>, g)[2] = f /\ Append(<<e, f>>, g)[3] = g
      BY <2>1, AppendProperties
    <3>2. /\ <<e, f, g>> \in Seq(Event) /\ Len(<<e, f, g>>) = 3
          /\ <<e, f, g>>[1] = e /\ <<e, f, g>>[2] = f /\ <<e, f, g>>[3] = g
      OBVIOUS
    <3>3. \A i \in 1 .. 3 : i = 1 \/ i = 2 \/ i = 3
      OBVIOUS
    <3>. QED
      BY <3>1, <3>2, <3>3, SeqEqual
  <2>. QED
    BY <2>2, <2>3
<1>4. (w \o <<e, f>>) \o <<g>> = w \o (<<e, f>> \o <<g>>)
  <2>1. <<e, f>> \in Seq(Event) /\ <<g>> \in Seq(Event)
    OBVIOUS
  <2>. QED
    BY <2>1, ConcatAssociative
<1>. QED
  BY <1>1, <1>2, <1>3, <1>4

\* Until the server is done nothing ends, and a response has not been sent.
LEMMA NothingEnded ==
    ASSUME ExchangeInv, peer # "done"
    PROVE  /\ \A i \in DOMAIN wire : wire[i].kind # "end"
           /\ ~way.streamed => wire = <<>>
           /\ result.got # "answer"
<1>1. DOMAIN wire = 1 .. Len(wire) /\ Len(wire) \in Nat /\ wire \in Seq(Event)
  BY LenProperties DEF ExchangeInv, ExchangeTyped
<1>2. ~way.streamed => wire = <<>>
  <2>1. ~way.streamed => 1 \notin DOMAIN wire
    BY DEF ExchangeInv, ResponseInv
  <2>2. 1 \notin DOMAIN wire => Len(wire) = 0
    BY <1>1
  <2>. QED
    BY <1>1, <2>1, <2>2, EmptySeq
<1>. QED
  BY <1>2 DEF ExchangeInv, EndInv, ReturnInv

\* The server goes on: what it sends must make of the client's assembler what
\* it has told.
LEMMA ServerStep ==
    ASSUME ExchangeInv, peer # "done", UNCHANGED <<way, cut, asm, result>>, NEW w,
           wire' = (IF cut THEN wire ELSE w),
           way.streamed /\ Reads(way.binding, asm, wire, Told) => Reads(way.binding, asm, w, Told')
    PROVE  StreamInv' /\ ReturnInv'
<1>1. ReturnInv'
  BY NothingEnded DEF ReturnInv
<1>2. CASE cut
  <2>1. ~Ended(wire')
    BY <1>2, NothingEnded DEF Ended
  <2>. QED
    BY <1>1, <1>2, <2>1 DEF StreamInv
<1>3. CASE ~cut
  BY <1>1, <1>3 DEF ExchangeInv, StreamInv
<1>. QED
  BY <1>2, <1>3

\* A server that sends one event more, not the end of a stream.
LEMMA OneMoreSent ==
    ASSUME ExchangeInv, peer # "done", UNCHANGED <<way, cut, asm, result>>, NEW e \in Event,
           e.kind # "end", Send(<<e>>), way.streamed => Told' = Absorb(way.binding, Told, e),
           ~way.streamed => peer' = "done" /\ (Failed(e) \/ (Right' /\ ResponseText(way.binding, e) = Heard'))
    PROVE  wire' \in Seq(Event) /\ StreamInv' /\ EndInv' /\ ResponseInv' /\ ReturnInv'
<1> DEFINE w == Append(wire, e)
<1>1. /\ wire \in Seq(Event) /\ cut \in BOOLEAN
  BY DEF ExchangeInv, ExchangeTyped
<1>2. /\ wire \o <<e>> = w /\ w \in Seq(Event) /\ Len(wire) \in Nat
      /\ DOMAIN wire = 1 .. Len(wire) /\ DOMAIN w = 1 .. Len(wire) + 1
      /\ \A i \in 1 .. Len(wire) : w[i] = wire[i]
      /\ w[Len(wire) + 1] = e
  BY <1>1, EventsAppended
<1>3. wire' = IF cut THEN wire ELSE w
  BY <1>2 DEF Send
<1>4. Reads(way.binding, asm, wire, Told) => Reads(way.binding, asm, w, Absorb(way.binding, Told, e))
  BY <1>1, ReadOneMore
<1>. HIDE DEF w
<1>5. StreamInv' /\ ReturnInv'
  BY <1>3, <1>4, ServerStep
<1>6. \A i \in DOMAIN wire : wire[i].kind # "end"
  BY NothingEnded
<1>7. EndInv'
  <2>1. \A i \in DOMAIN w : w[i].kind # "end"
    BY <1>2, <1>6
  <2>. QED
    BY <1>3, <1>6, <2>1 DEF EndInv
<1>8. ResponseInv'
  <2>. SUFFICES ASSUME ~way.streamed, NEW i \in DOMAIN wire'
                PROVE  peer' = "done" /\ (Failed(wire'[i]) \/ (Right' /\ ResponseText(way.binding, wire'[i]) = Heard'))
    BY DEF ResponseInv
  <2>1. wire = <<>>
    BY NothingEnded
  <2>2. wire' = w /\ i = Len(wire) + 1
    BY <1>2, <1>3, <2>1
  <2>. QED
    BY <1>2, <2>2
<1>. QED
  BY <1>1, <1>2, <1>3, <1>5, <1>7, <1>8

\* A stream that ends: s is the event before.
LEMMA StreamEnded ==
    ASSUME ExchangeInv, peer # "done", UNCHANGED <<way, cut, asm, result>>, peer' = "done", way.streamed,
           NEW v \in Seq(Event), wire' = (IF cut THEN wire ELSE Append(v, End)),
           Reads(way.binding, asm, wire, Told) => Reads(way.binding, asm, v, Told'),
           \A i \in DOMAIN v : v[i].kind # "end",
           Right' \/ \E i \in DOMAIN v : Failed(v[i])
    PROVE  wire' \in Seq(Event) /\ StreamInv' /\ EndInv' /\ ResponseInv' /\ ReturnInv'
<1> DEFINE w == Append(v, End)
<1>1. wire \in Seq(Event) /\ End \in Event /\ End.kind = "end" /\ DOMAIN wire = 1 .. Len(wire)
  BY LenProperties DEF ExchangeInv, ExchangeTyped, Event, End
<1>2. /\ w \in Seq(Event) /\ Len(v) \in Nat /\ Len(w) = Len(v) + 1
      /\ DOMAIN v = 1 .. Len(v) /\ DOMAIN w = 1 .. Len(v) + 1
      /\ \A i \in 1 .. Len(v) : w[i] = v[i]
      /\ w[Len(v) + 1] = End
  BY <1>1, EventsAppended
<1>3. Reads(way.binding, asm, v, Told') => Reads(way.binding, asm, w, Told')
  <2>1. Absorb(way.binding, Told', End) = Told'
    BY <1>1, NothingOfTold
  <2>2. Reads(way.binding, asm, v, Told') => Reads(way.binding, asm, w, Absorb(way.binding, Told', End))
    BY <1>1, ReadOneMore
  <2>. QED
    BY <2>1, <2>2
<1>. HIDE DEF w
<1>4. wire' = IF cut THEN wire ELSE w
  BY DEF w
<1>5. StreamInv' /\ ReturnInv'
  BY <1>3, <1>4, ServerStep
<1>6. EndInv'
  <2>. SUFFICES ASSUME NEW i \in DOMAIN wire', wire'[i].kind = "end"
                PROVE  i = Len(wire') /\ (Right' \/ \E j \in DOMAIN wire' : Failed(wire'[j]))
    BY DEF EndInv
  <2>1. wire' = w
    BY <1>4, NothingEnded
  <2>2. i = Len(w)
    BY <1>2, <2>1
  <2>3. (\E j \in DOMAIN v : Failed(v[j])) => \E j \in DOMAIN w : Failed(w[j])
    BY <1>2
  <2>. QED
    BY <2>1, <2>2, <2>3
<1>7. ResponseInv'
  BY DEF ResponseInv
<1>. QED
  BY <1>1, <1>2, <1>4, <1>5, <1>6, <1>7

-----------------------------------------------------------------------------
(* The server, step by step.                                               *)

LEMMA EventTypes ==
    /\ Error \in Event /\ End \in Event /\ Error.kind = "error" /\ End.kind = "end"
    /\ \A s \in Finding : Status(s) \in Event /\ Status(s).kind = "status" /\ Status(s).state = s
    /\ \A t \in Text, p, l \in BOOLEAN :
          /\ Artifact(t, p, l) \in Event /\ Artifact(t, p, l).kind = "artifact"
          /\ Artifact(t, p, l).text = t /\ Artifact(t, p, l).append = p /\ Artifact(t, p, l).last = l
    /\ \A s \in Finding, t, n \in Text :
          /\ Snapshot(s, t, n) \in Event /\ Snapshot(s, t, n).kind = "task"
          /\ Snapshot(s, t, n).state = s /\ Snapshot(s, t, n).text = t /\ Snapshot(s, t, n).note = n
    /\ Void \in Event /\ Void.kind = "void" /\ Void.text = <<>>
    /\ \A t \in Text : Direct(t) \in Event /\ Direct(t).kind = "message" /\ Direct(t).text = t
BY DEF Event, Error, End, Status, Artifact, Snapshot, Direct, Void

LEMMA LastArtifact ==
    ASSUME NEW t \in Text
    PROVE  /\ Artifact(t, FALSE, TRUE) \in Event /\ Artifact(t, FALSE, TRUE).kind = "artifact"
           /\ Artifact(t, FALSE, TRUE).text = t /\ Artifact(t, FALSE, TRUE).last
<1>1. /\ Artifact(t, FALSE, TRUE).kind = "artifact"
      /\ Artifact(t, FALSE, TRUE).text = t /\ Artifact(t, FALSE, TRUE).last
  BY DEF Artifact
<1>2. Artifact(t, FALSE, TRUE) \in Event
  BY DEF Artifact, Event
<1>. QED
  BY <1>1, <1>2

LEMMA TextAppended ==
    ASSUME NEW t \in Text, NEW p \in Nat
    PROVE  /\ <<p>> \in Text /\ <<p>> # <<>> /\ Append(t, p) \in Text /\ Append(t, p) # <<>>
           /\ t \o <<p>> = Append(t, p) /\ Append(<<>>, p) = <<p>>
<1>1. <<p>> \in Text /\ <<>> \in Text /\ <<p>> # <<>>
  BY DEF Text
<1>2. Append(t, p) \in Text /\ Append(t, p) # <<>>
  BY AppendProperties DEF Text
<1>3. t \o <<p>> = Append(t, p) /\ <<>> \o <<p>> = Append(<<>>, p)
  BY <1>1, AppendIsConcat DEF Text
<1>4. <<>> \o <<p>> = <<p>>
  BY <1>1, ConcatEmptySeq DEF Text
<1>. QED
  BY <1>1, <1>2, <1>3, <1>4

\* Before the client sends, nothing is told and nothing to be read.
LEMMA ClientSendsInv ==
    ASSUME ExchangeInv, NEW b \in {"http", "grpc"}, NEW s \in BOOLEAN, NEW f \in BOOLEAN,
           NEW content \in {"text", "inline", "data", "file"}, ClientSends(b, s, f, content)
    PROVE  ExchangeInv'
<1>1. /\ peer = "off" /\ peer' \in {"foreign", "dispatching"} /\ (peer' = "foreign" <=> f)
      /\ way' = [binding |-> b, streamed |-> s, foreign |-> f, content |-> content]
      /\ UNCHANGED <<task, pieces, told, answer, wire, cut, asm, result>>
  BY DEF ClientSends
<1>2. wire = <<>> /\ asm = NewAssembler /\ told = <<>> /\ answer = NoAnswer /\ DOMAIN wire = {}
  BY <1>1, EmptySeq DEF ExchangeInv, PeerInv
<1>3. ExchangeTyped'
  BY <1>1 DEF ExchangeInv, ExchangeTyped
<1>4. PeerInv'
  <2>1. task \notin Failures /\ answer.note = <<>> /\ ~answer.appended
    BY <1>1, <1>2 DEF ExchangeInv, PeerInv, NoAnswer
  <2>. QED
    BY <1>1, <1>2, <2>1 DEF PeerInv
<1>5. StreamInv'
  <2>1. Told = asm
    BY <1>2, HeardNothing DEF Told, NewAssembler, NoAnswer
  <2>2. Reads(way.binding, asm, wire, Told)
    BY <1>2, <2>1, ReadNothing
  <2>3. Heard' = Heard /\ asm' = asm /\ wire' = wire /\ Told' = Told
    <3>1. answer' = NoAnswer
      BY <1>1, <1>2
    <3>2. Heard' = <<>>
      BY <3>1, NoAnswerIs DEF Heard
    <3>. QED
      BY <1>1, <1>2, <3>2, HeardNothing DEF Told
  <2>4. Reads(way'.binding, asm', wire', Told')
    BY <1>2, <2>1, <2>3, ReadNothing
  <2>. QED
    BY <2>4 DEF StreamInv
<1>6. EndInv' /\ ResponseInv'
  BY <1>1, <1>2 DEF EndInv, ResponseInv
<1>7. ReturnInv'
  BY <1>1, NothingEnded DEF ReturnInv
<1>. QED
  BY <1>3, <1>4, <1>5, <1>6, <1>7 DEF ExchangeInv

LEMMA RefusesInv ==
    ASSUME ExchangeInv, Refuses
    PROVE  ExchangeInv'
<1>1. /\ peer = "dispatching" /\ peer' = "done" /\ Send(<<Error>>)
      /\ UNCHANGED <<way, task, pieces, told, answer, cut, asm, result>>
  BY DEF Refuses
<1>2. Told' = Absorb(way.binding, Told, Error)
  BY <1>1, EventTypes, NothingOfTold, HeardSame DEF Told
<1>3. wire' \in Seq(Event) /\ StreamInv' /\ EndInv' /\ ResponseInv' /\ ReturnInv'
  BY <1>1, <1>2, EventTypes, OneMoreSent DEF Failed
<1>4. ExchangeTyped'
  BY <1>1, <1>3 DEF ExchangeInv, ExchangeTyped
<1>5. PeerInv'
  BY <1>1 DEF ExchangeInv, PeerInv
<1>. QED
  BY <1>3, <1>4, <1>5 DEF ExchangeInv

\* A step of the server's that sends nothing and tells nothing.
LEMMA SilentInv ==
    ASSUME ExchangeInv, peer # "done", UNCHANGED <<way, told, answer, wire, cut, asm, result>>
    PROVE  StreamInv' /\ EndInv' /\ ResponseInv' /\ ReturnInv'
<1>1. StreamInv' /\ ReturnInv'
  <2>1. Told' = Told /\ wire' = IF cut THEN wire ELSE wire
    BY HeardSame DEF Told
  <2>. QED
    BY <2>1, ServerStep
<1>2. EndInv'
  BY NothingEnded DEF EndInv
<1>3. ResponseInv'
  <2>1. ~way.streamed => DOMAIN wire = {}
    BY NothingEnded, EmptySeq
  <2>. QED
    BY <2>1 DEF ResponseInv
<1>. QED
  BY <1>1, <1>2, <1>3

LEMMA BeginsInv ==
    ASSUME ExchangeInv, Begins
    PROVE  ExchangeInv'
<1>1. /\ peer = "dispatching" /\ peer' = "running" /\ task' = "working"
      /\ \/ way.streamed /\ Send(<<Status("working")>>)
         \/ ~way.streamed /\ wire' = wire
      /\ UNCHANGED <<way, pieces, told, answer, cut, asm, result>>
  BY DEF Begins
<1>2. wire' \in Seq(Event) /\ StreamInv' /\ EndInv' /\ ResponseInv' /\ ReturnInv'
  <2>1. CASE way.streamed
    <3>1. "working" \in Finding
      BY DEF Finding
    <3>2. Told' = Absorb(way.binding, Told, Status("working"))
      BY <1>1, <3>1, EventTypes, NothingOfTold, HeardSame DEF Told
    <3>. QED
      BY <1>1, <2>1, <3>1, <3>2, EventTypes, OneMoreSent
  <2>2. CASE ~way.streamed
    BY <1>1, <2>2, SilentInv DEF ExchangeInv, ExchangeTyped
  <2>. QED
    BY <2>1, <2>2
<1>3. ExchangeTyped'
  BY <1>1, <1>2 DEF ExchangeInv, ExchangeTyped, Finding
<1>4. PeerInv'
  BY <1>1 DEF ExchangeInv, PeerInv
<1>. QED
  BY <1>2, <1>3, <1>4 DEF ExchangeInv

LEMMA MakesInv ==
    ASSUME ExchangeInv, Makes
    PROVE  ExchangeInv'
<1> DEFINE p == pieces + 1
           e == Artifact(<<p>>, told # <<>>, FALSE)
<1>1. /\ peer = "running" /\ pieces' = p /\ peer' \in {"running", "failing"}
      /\ \/ way.streamed /\ Send(<<e>>) /\ told' = Append(told, p)
         \/ ~way.streamed /\ UNCHANGED <<wire, told>>
      /\ UNCHANGED <<way, task, answer, cut, asm, result>>
  BY DEF Makes
<1>2. told \in Text /\ pieces \in Nat
  BY DEF ExchangeInv, ExchangeTyped
<1>3. p \in Nat
  BY <1>2
<1>. HIDE DEF p
<1>4. /\ <<p>> \in Text /\ Append(told, p) \in Text /\ Append(told, p) # <<>>
      /\ told \o <<p>> = Append(told, p) /\ (told = <<>> => <<p>> = Append(told, p))
  BY <1>2, <1>3, TextAppended
<1>5. e \in Event /\ e.kind = "artifact" /\ e.text = <<p>> /\ (e.append <=> told # <<>>) /\ ~e.last
  <2>1. (told # <<>>) \in BOOLEAN /\ FALSE \in BOOLEAN
    OBVIOUS
  <2>. QED
    BY <1>4, <2>1, EventTypes
<1>. HIDE DEF e
<1>6. wire' \in Seq(Event) /\ StreamInv' /\ EndInv' /\ ResponseInv' /\ ReturnInv'
  <2>1. CASE way.streamed
    <3>1. Told' = Absorb(way.binding, Told, e)
      BY <1>1, <1>4, <1>5, <2>1, DeltaOfTold
    <3>. QED
      BY <1>1, <1>5, <2>1, <3>1, OneMoreSent
  <2>2. CASE ~way.streamed
    BY <1>1, <2>2, SilentInv DEF ExchangeInv, ExchangeTyped
  <2>. QED
    BY <2>1, <2>2
<1>7. ExchangeTyped'
  BY <1>1, <1>2, <1>3, <1>4, <1>6 DEF ExchangeInv, ExchangeTyped
<1>8. PeerInv'
  BY <1>1 DEF ExchangeInv, PeerInv
<1>. QED
  BY <1>6, <1>7, <1>8 DEF ExchangeInv

LEMMA CancelsInv ==
    ASSUME ExchangeInv, Cancels
    PROVE  ExchangeInv'
<1>1. /\ peer \in {"running", "failing"} /\ task' = "canceled"
      /\ UNCHANGED <<way, peer, pieces, told, answer, wire, cut, asm, result>>
  BY DEF Cancels
<1>2. StreamInv' /\ EndInv' /\ ResponseInv' /\ ReturnInv'
  BY <1>1, SilentInv
<1>3. ExchangeTyped' /\ PeerInv'
  BY <1>1 DEF ExchangeInv, ExchangeTyped, PeerInv, Finding, Failures
<1>. QED
  BY <1>2, <1>3 DEF ExchangeInv

\* A stream that tells of a failure and ends.
LEMMA StreamFails ==
    ASSUME ExchangeInv, peer # "done", UNCHANGED <<way, told, answer, cut, asm, result>>, peer' = "done",
           way.streamed, NEW t \in Finding, t \in Failures, Send(<<Status(t), End>>)
    PROVE  wire' \in Seq(Event) /\ StreamInv' /\ EndInv' /\ ResponseInv' /\ ReturnInv'
<1> DEFINE e == Status(t)
           v == Append(wire, e)
<1>1. wire \in Seq(Event) /\ e \in Event /\ e.kind = "status" /\ e.state = t /\ End \in Event
  <2>1. wire \in Seq(Event)
    BY DEF ExchangeInv, ExchangeTyped
  <2>. QED
    BY <2>1, EventTypes
<1>2. Send(<<e, End>>)
  OBVIOUS
<1>. HIDE DEF e
<1>3. wire' = IF cut THEN wire ELSE Append(v, End)
  <2>1. wire \o <<e, End>> = Append(v, End)
    BY <1>1, TwoAppended
  <2>. QED
    BY <1>2, <2>1 DEF Send
<1>4. Reads(way.binding, asm, wire, Told) => Reads(way.binding, asm, v, Told')
  <2>1. Told' = Absorb(way.binding, Told, e)
    BY <1>1, NothingOfTold, HeardSame DEF Told
  <2>. QED
    BY <1>1, <2>1, ReadOneMore
<1>5. /\ v \in Seq(Event) /\ DOMAIN v = 1 .. Len(wire) + 1 /\ v[Len(wire) + 1] = e
      /\ \A i \in 1 .. Len(wire) : v[i] = wire[i]
      /\ DOMAIN wire = 1 .. Len(wire) /\ Len(wire) \in Nat
  BY <1>1, EventsAppended
<1>. HIDE DEF v
<1>6. \A i \in DOMAIN v : v[i].kind # "end"
  BY <1>1, <1>5, NothingEnded
<1>7. \E i \in DOMAIN v : Failed(v[i])
  <2>1. Failed(e) /\ Len(wire) + 1 \in DOMAIN v
    BY <1>1, <1>5 DEF Failed
  <2>. QED
    BY <1>5, <2>1
<1>. QED
  BY <1>3, <1>4, <1>5, <1>6, <1>7, StreamEnded

LEMMA HandlerFailsInv ==
    ASSUME ExchangeInv, HandlerFails
    PROVE  ExchangeInv'
<1>1. /\ peer \in {"running", "failing"} /\ peer' = "done"
      /\ task' = (IF task = "working" THEN "failed" ELSE task)
      /\ UNCHANGED <<way, pieces, told, answer, cut, asm, result>>
      /\ Send(IF way.streamed THEN <<Status(task'), End>>
              ELSE IF way.binding = "grpc" THEN <<Error>> ELSE <<Snapshot(task', <<>>, <<>>)>>)
  BY DEF HandlerFails
<1>2. task' \in Failures /\ task' \in Finding
  BY <1>1 DEF ExchangeInv, PeerInv, Failures, Finding
<1>3. PICK t \in Finding : t = task' /\ t \in Failures
  BY <1>2
<1>4. wire' \in Seq(Event) /\ StreamInv' /\ EndInv' /\ ResponseInv' /\ ReturnInv'
  <2>1. CASE way.streamed
    <3>1. Send(<<Status(t), End>>)
      BY <1>1, <1>3, <2>1
    <3>. QED
      BY <1>1, <1>3, <2>1, <3>1, StreamFails
  <2>2. CASE ~way.streamed
    <3>1. <<>> \in Text
      BY DEF Text
    <3>2. PICK e \in {Error, Snapshot(t, <<>>, <<>>)} : Send(<<e>>)
      BY <1>1, <1>3, <2>2
    <3>3. e \in Event /\ e.kind # "end" /\ Failed(e)
      BY <1>3, <3>1, EventTypes DEF Failed
    <3>. QED
      BY <1>1, <2>2, <3>2, <3>3, OneMoreSent
  <2>. QED
    BY <2>1, <2>2
<1>5. ExchangeTyped'
  BY <1>1, <1>2, <1>4 DEF ExchangeInv, ExchangeTyped
<1>6. PeerInv'
  BY <1>1 DEF ExchangeInv, PeerInv
<1>. QED
  BY <1>4, <1>5, <1>6 DEF ExchangeInv

\* What is known of a text that was just settled.
LEMMA SettledIs ==
    ASSUME NEW t \in Text, NEW n \in Text, NEW a \in BOOLEAN, answer' = SettledAs(t, n, a)
    PROVE  /\ answer' \in [text : Text, note : Text, appended : BOOLEAN, saw : BOOLEAN]
           /\ answer'.saw = TRUE /\ answer'.text = t /\ answer'.note = n /\ answer'.appended = a
BY DEF SettledAs

\* The final artifact, the status and the end of the stream, or the response;
\* of a task that was canceled only that.
LEMMA HandlerAnswersInv ==
    ASSUME ExchangeInv, HandlerAnswers
    PROVE  ExchangeInv'
<1>1. PICK t \in Text :
         /\ peer = "running" /\ Accepted /\ peer' = "done"
         /\ task' = (IF task = "working" THEN "completed" ELSE task)
         /\ answer' = (IF task = "working" THEN SettledAs(t, <<>>, FALSE) ELSE answer)
         /\ Send(IF ~way.streamed THEN <<Snapshot(task', t, <<>>)>>
                 ELSE IF task = "working" THEN <<Artifact(t, FALSE, TRUE), Status(task'), End>>
                 ELSE <<Status(task'), End>>)
         /\ UNCHANGED <<way, pieces, told, cut, asm, result>>
  <2>1. PICK from \in 1 .. (pieces + 1) :
          LET text == IF task = "working" THEN [i \in 1 .. (pieces + 1 - from) |-> from + i - 1] ELSE <<>>
          IN  /\ answer' = (IF task = "working" THEN SettledAs(text, <<>>, FALSE) ELSE answer)
              /\ Send(IF ~way.streamed THEN <<Snapshot(task', text, <<>>)>>
                      ELSE IF task = "working"
                      THEN <<Artifact(text, FALSE, TRUE), Status(task'), End>>
                      ELSE <<Status(task'), End>>)
    BY DEF HandlerAnswers
  <2> DEFINE text == IF task = "working" THEN [i \in 1 .. (pieces + 1 - from) |-> from + i - 1] ELSE <<>>
  <2>2. text \in Text
    <3>1. pieces \in Nat /\ (pieces + 1 - from) \in Nat
      <4>1. pieces \in Nat
        BY DEF ExchangeInv, ExchangeTyped
      <4>. QED
        BY <4>1
    <3>2. [i \in 1 .. (pieces + 1 - from) |-> from + i - 1] \in [1 .. (pieces + 1 - from) -> Nat]
      OBVIOUS
    <3>3. [i \in 1 .. (pieces + 1 - from) |-> from + i - 1] \in Text
      BY <3>1, <3>2 DEF Text
    <3>4. <<>> \in Text
      BY DEF Text
    <3>. QED
      BY <3>3, <3>4
  <2>4. /\ answer' = (IF task = "working" THEN SettledAs(text, <<>>, FALSE) ELSE answer)
        /\ Send(IF ~way.streamed THEN <<Snapshot(task', text, <<>>)>>
                ELSE IF task = "working" THEN <<Artifact(text, FALSE, TRUE), Status(task'), End>>
                ELSE <<Status(task'), End>>)
    BY <2>1
  <2>5. /\ peer = "running" /\ Accepted /\ peer' = "done"
        /\ task' = (IF task = "working" THEN "completed" ELSE task)
        /\ UNCHANGED <<way, pieces, told, cut, asm, result>>
    BY DEF HandlerAnswers
  <2>. HIDE DEF text
  <2>. QED
    BY <2>2, <2>4, <2>5
<1>2. /\ task \in {"working", "canceled"} /\ ~way.foreign /\ answer = NoAnswer
      /\ wire \in Seq(Event)
  BY <1>1 DEF ExchangeInv, ExchangeTyped, PeerInv
<1>3. /\ task' \in Finding /\ (task # "working" => task' \in Failures)
      /\ (task = "working" => task' = "completed" /\ Right')
  BY <1>1, <1>2 DEF Finding, Settled, Failures, Right, Accepted
<1>4. PICK f \in Finding : f = task'
  BY <1>3
<1>8. task = "working" => /\ answer' = [text |-> t, note |-> <<>>, appended |-> FALSE, saw |-> TRUE]
                          /\ answer'.saw = TRUE /\ Heard' = t
  <2>1. task = "working" => answer' = [text |-> t, note |-> <<>>, appended |-> FALSE, saw |-> TRUE]
    BY <1>1 DEF SettledAs
  <2>2. task = "working" => answer'.text = t /\ answer'.note = <<>> /\ answer'.appended = FALSE
    BY <2>1
  <2>. QED
    BY <2>1, <2>2 DEF Heard
<1>5. wire' \in Seq(Event) /\ StreamInv' /\ EndInv' /\ ResponseInv' /\ ReturnInv'
  <2>1. CASE ~way.streamed
    <3> DEFINE e == Snapshot(f, t, <<>>)
    <3>1. e \in Event /\ e.kind = "task" /\ e.state = f /\ e.text = t /\ e.note = <<>> /\ Send(<<e>>)
      <4>1. <<>> \in Text
        BY NothingIsText
      <4>. QED
        BY <1>1, <1>4, <2>1, <4>1, EventTypes
    <3>. HIDE DEF e
    <3>2. Failed(e) \/ (Right' /\ ResponseText(way.binding, e) = Heard')
      <4>1. ResponseText(way.binding, e) = t
        BY <3>1 DEF ResponseText, TaskText
      <4>. QED
        BY <1>1, <1>3, <1>4, <1>8, <3>1, <4>1 DEF Failed
    <3>. QED
      BY <1>1, <2>1, <3>1, <3>2, OneMoreSent
  <2>2. CASE way.streamed /\ task # "working"
    <3>1. Send(<<Status(f), End>>) /\ f \in Failures
      BY <1>1, <1>3, <1>4, <2>2
    <3>2. answer' = answer
      BY <1>1, <2>2
    <3>. QED
      BY <1>1, <2>2, <3>1, <3>2, StreamFails
  <2>3. CASE way.streamed /\ task = "working"
    <3> DEFINE a == Artifact(t, FALSE, TRUE)
               s == Status(f)
               u == Append(wire, a)
               v == Append(u, s)
    <3>1. /\ a \in Event /\ a.kind = "artifact" /\ a.last /\ a.text = t
          /\ s \in Event /\ s.kind = "status" /\ End \in Event
      <4>1. a \in Event /\ a.kind = "artifact" /\ a.last /\ a.text = t
        BY LastArtifact
      <4>. QED
        BY <4>1, EventTypes
    <3>2. Send(<<a, s, End>>)
      BY <1>1, <1>4, <2>3
    <3>. HIDE DEF a, s
    <3>3. /\ u \in Seq(Event) /\ DOMAIN u = 1 .. Len(wire) + 1 /\ u[Len(wire) + 1] = a
          /\ \A i \in 1 .. Len(wire) : u[i] = wire[i]
          /\ DOMAIN wire = 1 .. Len(wire) /\ Len(wire) \in Nat /\ Len(u) = Len(wire) + 1
      BY <1>2, <3>1, EventsAppended
    <3>4. wire' = IF cut THEN wire ELSE Append(v, End)
      <4>1. wire \o <<a, s, End>> = Append(v, End)
        BY <1>2, <3>1, ThreeAppended
      <4>. QED
        BY <3>2, <4>1 DEF Send
    <3>5. Reads(way.binding, asm, wire, Told) => Reads(way.binding, asm, u, Told')
      <4>1. Told' = Absorb(way.binding, Told, a)
        BY <1>1, <1>8, <2>3, <3>1, FinalOfTold
      <4>. QED
        BY <1>2, <3>1, <4>1, ReadOneMore
    <3>. HIDE DEF u
    <3>6. /\ v \in Seq(Event) /\ DOMAIN v = 1 .. Len(u) + 1 /\ v[Len(u) + 1] = s
          /\ \A i \in 1 .. Len(u) : v[i] = u[i]
      BY <3>1, <3>3, EventsAppended
    <3>7. Reads(way.binding, asm, u, Told') => Reads(way.binding, asm, v, Told')
      <4>1. Absorb(way.binding, Told', s) = Told'
        BY <3>1, NothingOfTold
      <4>2. Reads(way.binding, asm, u, Told') => Reads(way.binding, asm, v, Absorb(way.binding, Told', s))
        BY <3>1, <3>3, ReadOneMore
      <4>. QED
        BY <4>1, <4>2
    <3>. HIDE DEF v
    <3>8. \A i \in DOMAIN v : v[i].kind # "end"
      <4>1. \A i \in DOMAIN wire : wire[i].kind # "end"
        BY <1>1, NothingEnded
      <4>2. \A i \in DOMAIN u : u[i].kind # "end"
        BY <3>1, <3>3, <4>1
      <4>. QED
        BY <3>1, <3>3, <3>6, <4>2
    <3>. QED
      BY <1>1, <1>3, <2>3, <3>4, <3>5, <3>6, <3>7, <3>8, StreamEnded
  <2>. QED
    BY <2>1, <2>2, <2>3
<1>6. ExchangeTyped'
  <2>1. answer' \in [text : Text, note : Text, appended : BOOLEAN, saw : BOOLEAN]
    <3>1. CASE task = "working"
      <4>1. answer' = SettledAs(t, <<>>, FALSE) /\ <<>> \in Text
        BY <1>1, <3>1, NothingIsText
      <4>. QED
        BY <4>1, SettledIs
    <3>2. CASE task # "working"
      BY <1>1, <3>2 DEF ExchangeInv, ExchangeTyped
    <3>. QED
      BY <3>1, <3>2
  <2>. QED
    BY <1>1, <1>3, <1>5, <2>1 DEF ExchangeInv, ExchangeTyped
<1>7. PeerInv'
  <2>1. (~answer'.saw => answer' = NoAnswer) /\ answer'.note = <<>> /\ ~answer'.appended
    <3>1. CASE task = "working"
      BY <1>8, <3>1
    <3>2. CASE task # "working"
      <4>1. answer' = NoAnswer
        BY <1>1, <1>2, <3>2
      <4>. QED
        BY <4>1, NoAnswerIs
    <3>. QED
      BY <3>1, <3>2
  <2>. QED
    BY <1>1, <2>1 DEF ExchangeInv, PeerInv
<1>. QED
  BY <1>5, <1>6, <1>7 DEF ExchangeInv

-----------------------------------------------------------------------------
(* A foreign server, step by step.                                         *)

LEMMA ForeignTellsInv ==
    ASSUME ExchangeInv, NEW restart \in BOOLEAN, NEW direct \in BOOLEAN, ForeignTells(restart, direct)
    PROVE  ExchangeInv'
<1> DEFINE p == pieces + 1
<1>1. /\ peer = "foreign" /\ peer' = peer /\ way.streamed /\ pieces' = p
      /\ Send(IF direct THEN <<Direct(<<p>>)>> ELSE <<Artifact(<<p>>, ~restart, FALSE)>>)
      /\ told' = (IF restart /\ ~direct THEN <<p>> ELSE Append(told, p))
      /\ UNCHANGED <<way, task, answer, cut, asm, result>>
  BY DEF ForeignTells
<1>2. told \in Text /\ pieces \in Nat
  BY DEF ExchangeInv, ExchangeTyped
<1>3. p \in Nat
  BY <1>2
<1>. HIDE DEF p
<1>4. /\ <<p>> \in Text /\ <<p>> # <<>> /\ Append(told, p) \in Text /\ Append(told, p) # <<>>
      /\ told \o <<p>> = Append(told, p)
  BY <1>2, <1>3, TextAppended
<1>5. told' \in Text /\ told' # <<>>
  BY <1>1, <1>4
<1>6. wire' \in Seq(Event) /\ StreamInv' /\ EndInv' /\ ResponseInv' /\ ReturnInv'
  <2>1. CASE direct
    <3>1. PICK e \in Event : e.kind = "message" /\ e.text = <<p>> /\ Send(<<e>>)
      BY <1>1, <1>4, <2>1, EventTypes
    <3>2. Told' = Absorb(way.binding, Told, e)
      BY <1>1, <1>4, <1>5, <2>1, <3>1, DeltaOfTold
    <3>. QED
      BY <1>1, <3>1, <3>2, OneMoreSent
  <2>2. CASE ~direct
    <3>1. (~restart) \in BOOLEAN /\ FALSE \in BOOLEAN
      OBVIOUS
    <3>2. PICK e \in Event : /\ e.kind = "artifact" /\ e.text = <<p>> /\ ~e.last /\ e.append = ~restart
                             /\ Send(<<e>>)
      BY <1>1, <1>4, <2>2, <3>1, EventTypes
    <3>3. (e.append => told' = told \o e.text) /\ (~e.append => told' = e.text)
      BY <1>1, <1>4, <2>2, <3>2
    <3>4. Told' = Absorb(way.binding, Told, e)
      BY <1>1, <1>5, <3>2, <3>3, DeltaOfTold
    <3>. QED
      BY <1>1, <3>2, <3>4, OneMoreSent
  <2>. QED
    BY <2>1, <2>2
<1>7. ExchangeTyped'
  BY <1>1, <1>3, <1>5, <1>6 DEF ExchangeInv, ExchangeTyped
<1>8. PeerInv'
  BY <1>1 DEF ExchangeInv, PeerInv
<1>. QED
  BY <1>6, <1>7, <1>8 DEF ExchangeInv

LEMMA ForeignFinishesInv ==
    ASSUME ExchangeInv, NEW restart \in BOOLEAN, NEW empty \in BOOLEAN, ForeignFinishes(restart, empty)
    PROVE  ExchangeInv'
<1> DEFINE p == pieces + 1
<1>1. /\ peer = "foreign" /\ peer' = peer /\ way.streamed /\ pieces' = p
      /\ answer' = (IF empty THEN SettledAs(<<>>, <<>>, FALSE)
                    ELSE SettledAs(IF restart THEN <<p>> ELSE Append(told, p), <<>>, ~restart))
      /\ Send(<<Artifact(IF empty THEN <<>> ELSE <<p>>, ~restart, TRUE)>>)
      /\ UNCHANGED <<way, task, told, cut, asm, result>>
  BY DEF ForeignFinishes
<1>2. told \in Text /\ pieces \in Nat /\ way.foreign
  BY <1>1 DEF ExchangeInv, ExchangeTyped, PeerInv
<1>3. p \in Nat
  BY <1>2
<1>. HIDE DEF p
<1>4. <<p>> \in Text /\ Append(told, p) \in Text /\ <<>> \in Text
  BY <1>2, <1>3, TextAppended, NothingIsText
<1>5. PICK t \in Text : t = IF empty THEN <<>> ELSE <<p>>
  BY <1>4
<1>6. PICK s \in Text : s = IF empty THEN <<>> ELSE IF restart THEN <<p>> ELSE Append(told, p)
  BY <1>4
<1>7. PICK a \in BOOLEAN : a = (~empty /\ ~restart)
  OBVIOUS
<1>8. answer' = SettledAs(s, <<>>, a)
  BY <1>1, <1>6, <1>7
<1>9. /\ answer' \in [text : Text, note : Text, appended : BOOLEAN, saw : BOOLEAN]
      /\ answer'.saw = TRUE /\ answer'.text = s /\ answer'.note = <<>> /\ answer'.appended = a
  BY <1>4, <1>8, SettledIs
<1>10. Heard' = t
  <2>1. CASE a
    <3>1. s = Append(told, p) /\ t = <<p>>
      BY <1>5, <1>6, <1>7, <2>1
    <3>2. Last(Append(told, p)) = p
      BY <1>2, <1>3, AppendProperties, LenProperties DEF Text, Last
    <3>. QED
      BY <1>9, <2>1, <3>1, <3>2 DEF Heard
  <2>2. CASE ~a
    <3>1. s = t
      BY <1>5, <1>6, <1>7, <2>2
    <3>. QED
      BY <1>9, <2>2, <3>1 DEF Heard
  <2>. QED
    BY <2>1, <2>2
<1>11. PICK e \in Event : e.kind = "artifact" /\ e.text = t /\ e.last /\ Send(<<e>>)
  <2>1. PICK f \in BOOLEAN : f = ~restart
    OBVIOUS
  <2>2. Send(<<Artifact(t, f, TRUE)>>)
    BY <1>1, <1>5, <2>1
  <2>3. /\ Artifact(t, f, TRUE) \in Event /\ Artifact(t, f, TRUE).kind = "artifact"
        /\ Artifact(t, f, TRUE).text = t /\ Artifact(t, f, TRUE).last = TRUE
    BY DEF Artifact, Event
  <2>. QED
    BY <2>2, <2>3
<1>12. wire' \in Seq(Event) /\ StreamInv' /\ EndInv' /\ ResponseInv' /\ ReturnInv'
  <2>1. Told' = Absorb(way.binding, Told, e)
    BY <1>1, <1>9, <1>10, <1>11, FinalOfTold
  <2>. QED
    BY <1>1, <1>11, <2>1, OneMoreSent
<1>13. ExchangeTyped'
  BY <1>1, <1>3, <1>9, <1>12 DEF ExchangeInv, ExchangeTyped
<1>14. PeerInv'
  BY <1>1, <1>2, <1>9 DEF ExchangeInv, PeerInv
<1>. QED
  BY <1>12, <1>13, <1>14 DEF ExchangeInv

LEMMA ForeignSettlesInv ==
    ASSUME ExchangeInv, NEW state \in ForeignStates, NEW empty \in BOOLEAN, NEW note \in {<<>>, Note},
           ForeignSettles(state, empty, note)
    PROVE  ExchangeInv'
<1> DEFINE p == pieces + 1
<1>1. /\ peer = "foreign" /\ pieces' = p /\ task' = state
      /\ answer' = (IF state \in Settled \/ ~way.streamed
                    THEN SettledAs(IF empty THEN <<>> ELSE <<p>>, note, FALSE) ELSE answer)
      /\ Send(<<Snapshot(state, IF empty THEN <<>> ELSE <<p>>, note)>>)
      /\ peer' = (IF way.streamed /\ state \notin Failures THEN "foreign" ELSE "done")
      /\ UNCHANGED <<way, told, cut, asm, result>>
  BY DEF ForeignSettles
<1>2. pieces \in Nat /\ way.foreign
  BY <1>1 DEF ExchangeInv, ExchangeTyped, PeerInv
<1>3. p \in Nat /\ state \in Finding /\ <<p>> \in Text /\ <<>> \in Text /\ note \in Text
  <2>1. state \in Finding
    BY ExchangeAssumption DEF Finding
  <2>2. <<0>> \in Text /\ <<p>> \in Text
    BY <1>2 DEF Text
  <2>. QED
    BY <1>2, <2>1, <2>2, NothingIsText DEF Note
<1>. HIDE DEF p
<1>4. PICK t \in Text : t = IF empty THEN <<>> ELSE <<p>>
  BY <1>3
<1>5. PICK e \in Event : e.kind = "task" /\ e.state = state /\ e.text = t /\ e.note = note /\ Send(<<e>>)
  <2>1. Send(<<Snapshot(state, t, note)>>)
    BY <1>1, <1>4
  <2>2. /\ Snapshot(state, t, note) \in Event /\ Snapshot(state, t, note).kind = "task"
        /\ Snapshot(state, t, note).state = state /\ Snapshot(state, t, note).text = t
        /\ Snapshot(state, t, note).note = note
    BY <1>3, EventTypes
  <2>. QED
    BY <2>1, <2>2
<1>6. state \in Settled \/ ~way.streamed =>
          /\ answer' \in [text : Text, note : Text, appended : BOOLEAN, saw : BOOLEAN]
          /\ answer'.saw = TRUE /\ Heard' = TaskText(way.binding, e)
  <2>. SUFFICES ASSUME state \in Settled \/ ~way.streamed
                PROVE  /\ answer' \in [text : Text, note : Text, appended : BOOLEAN, saw : BOOLEAN]
                       /\ answer'.saw = TRUE /\ Heard' = TaskText(way.binding, e)
    OBVIOUS
  <2>1. answer' = SettledAs(t, note, FALSE)
    BY <1>1, <1>4
  <2>2. /\ answer' \in [text : Text, note : Text, appended : BOOLEAN, saw : BOOLEAN]
        /\ answer'.saw = TRUE /\ answer'.text = t /\ answer'.note = note /\ answer'.appended = FALSE
    BY <1>3, <2>1, SettledIs
  <2>3. Heard' = TaskText(way.binding, e)
    BY <1>1, <1>5, <2>2 DEF Heard, TaskText
  <2>. QED
    BY <2>2, <2>3
<1>7. wire' \in Seq(Event) /\ StreamInv' /\ EndInv' /\ ResponseInv' /\ ReturnInv'
  <2>1. way.streamed => Told' = Absorb(way.binding, Told, e)
    <3>1. CASE state \in Settled
      <4>1. PICK u : u = TaskText(way.binding, e)
        OBVIOUS
      <4>. QED
        BY <1>1, <1>5, <1>6, <3>1, <4>1, FinalOfTold
    <3>2. CASE way.streamed /\ state \notin Settled
      <4>1. Told' = Told
        BY <1>1, <3>2, HeardSame DEF Told
      <4>2. Absorb(way.binding, Told, e) = Told
        BY <1>5, <3>2, NothingOfTold
      <4>. QED
        BY <4>1, <4>2
    <3>. QED
      BY <3>1, <3>2
  <2>2. ~way.streamed => peer' = "done" /\ (Failed(e) \/ (Right' /\ ResponseText(way.binding, e) = Heard'))
    <3>1. ResponseText(way.binding, e) = TaskText(way.binding, e)
      BY <1>5 DEF ResponseText
    <3>. QED
      BY <1>1, <1>2, <1>5, <1>6, <3>1 DEF Failed, Right
  <2>. QED
    BY <1>1, <1>5, <2>1, <2>2, OneMoreSent
<1>8. ExchangeTyped'
  <2>1. answer' \in [text : Text, note : Text, appended : BOOLEAN, saw : BOOLEAN]
    BY <1>1, <1>6 DEF ExchangeInv, ExchangeTyped
  <2>. QED
    BY <1>1, <1>3, <1>7, <2>1 DEF ExchangeInv, ExchangeTyped
<1>9. PeerInv'
  <2>1. ~answer'.saw => answer' = NoAnswer
    BY <1>1, <1>6 DEF ExchangeInv, PeerInv
  <2>. QED
    BY <1>1, <1>2, <2>1 DEF ExchangeInv, PeerInv
<1>. QED
  BY <1>7, <1>8, <1>9 DEF ExchangeInv

LEMMA ForeignAnswersInv ==
    ASSUME ExchangeInv, NEW void \in BOOLEAN, ForeignAnswers(void)
    PROVE  ExchangeInv'
<1> DEFINE p == pieces + 1
<1>1. /\ peer = "foreign" /\ ~way.streamed /\ pieces' = p /\ peer' = "done"
      /\ answer' = SettledAs(IF void THEN <<>> ELSE <<p>>, <<>>, FALSE)
      /\ Send(IF void THEN <<Void>> ELSE <<Direct(<<p>>)>>)
      /\ UNCHANGED <<way, task, told, cut, asm, result>>
  BY DEF ForeignAnswers
<1>2. pieces \in Nat /\ way.foreign /\ task \notin Failures
  BY <1>1 DEF ExchangeInv, ExchangeTyped, PeerInv
<1>3. p \in Nat /\ <<p>> \in Text /\ <<>> \in Text
  BY <1>2, NothingIsText DEF Text
<1>. HIDE DEF p
<1>4. PICK t \in Text : t = IF void THEN <<>> ELSE <<p>>
  BY <1>3
<1>5. PICK e \in Event : e.kind \in {"message", "void"} /\ e.text = t /\ Send(<<e>>)
  <2>1. CASE void
    BY <1>1, <1>4, <2>1, EventTypes
  <2>2. CASE ~void
    <3>1. /\ Direct(t) \in Event /\ Direct(t).kind = "message" /\ Direct(t).text = t
      BY EventTypes
    <3>. QED
      BY <1>1, <1>4, <2>2, <3>1
  <2>. QED
    BY <2>1, <2>2
<1>6. /\ answer' \in [text : Text, note : Text, appended : BOOLEAN, saw : BOOLEAN]
      /\ answer'.saw = TRUE /\ answer'.text = t /\ answer'.note = <<>> /\ answer'.appended = FALSE
  BY <1>1, <1>3, <1>4, SettledIs
<1>7. Right' /\ ResponseText(way.binding, e) = Heard'
  <2>1. ResponseText(way.binding, e) = t
    BY <1>5 DEF ResponseText
  <2>2. Heard' = t
    BY <1>1, <1>6 DEF Heard
  <2>. QED
    BY <1>1, <1>2, <2>1, <2>2 DEF Right
<1>8. wire' \in Seq(Event) /\ StreamInv' /\ EndInv' /\ ResponseInv' /\ ReturnInv'
  BY <1>1, <1>5, <1>7, OneMoreSent
<1>9. ExchangeTyped'
  BY <1>1, <1>3, <1>6, <1>8 DEF ExchangeInv, ExchangeTyped
<1>10. PeerInv'
  BY <1>1, <1>2, <1>6 DEF ExchangeInv, PeerInv
<1>. QED
  BY <1>8, <1>9, <1>10 DEF ExchangeInv

LEMMA ForeignEndsInv ==
    ASSUME ExchangeInv, ForeignEnds
    PROVE  ExchangeInv'
<1>1. /\ peer = "foreign" /\ way.streamed /\ peer' = "done" /\ Send(<<End>>)
      /\ UNCHANGED <<way, task, pieces, told, answer, cut, asm, result>>
  BY DEF ForeignEnds
<1>2. wire \in Seq(Event) /\ way.foreign /\ task \notin Failures
  BY <1>1 DEF ExchangeInv, ExchangeTyped, PeerInv
<1>3. wire' = IF cut THEN wire ELSE Append(wire, End)
  <2>1. wire \o <<End>> = Append(wire, End)
    BY <1>2, EventTypes, EventsAppended
  <2>. QED
    BY <1>1, <2>1 DEF Send
<1>4. Told' = Told /\ Right'
  BY <1>1, <1>2, HeardSame DEF Told, Right
<1>5. \A i \in DOMAIN wire : wire[i].kind # "end"
  BY <1>1, NothingEnded
<1>6. wire' \in Seq(Event) /\ StreamInv' /\ EndInv' /\ ResponseInv' /\ ReturnInv'
  BY <1>1, <1>2, <1>3, <1>4, <1>5, StreamEnded
<1>7. ExchangeTyped'
  BY <1>1, <1>6 DEF ExchangeInv, ExchangeTyped
<1>8. PeerInv'
  BY <1>1 DEF ExchangeInv, PeerInv
<1>. QED
  BY <1>6, <1>7, <1>8 DEF ExchangeInv

-----------------------------------------------------------------------------
(* The connection and the client, step by step.                            *)

LEMMA PrefixOfSeq ==
    ASSUME NEW S, NEW w, NEW n \in Nat, \A i \in 1 .. n : w[i] \in S
    PROVE  /\ SubSeq(w, 1, n) \in Seq(S) /\ DOMAIN SubSeq(w, 1, n) = 1 .. n
           /\ \A i \in 1 .. n : SubSeq(w, 1, n)[i] = w[i]
<1>1. /\ SubSeq(w, 1, n) \in Seq(S) /\ Len(SubSeq(w, 1, n)) = IF 1 <= n THEN n - 1 + 1 ELSE 0
      /\ \A i \in 1 .. n - 1 + 1 : SubSeq(w, 1, n)[i] = w[1 + i - 1]
  BY SubSeqProperties
<1>2. (IF 1 <= n THEN n - 1 + 1 ELSE 0) = n /\ 1 .. n - 1 + 1 = 1 .. n
  OBVIOUS
<1>3. \A i \in 1 .. n : 1 + i - 1 = i
  OBVIOUS
<1>. QED
  BY <1>1, <1>2, <1>3, LenProperties

\* A stream of which the end is still to be read has lost nothing.
LEMMA BreaksInv ==
    ASSUME ExchangeInv, Breaks
    PROVE  ExchangeInv'
<1>1. /\ peer # "off" /\ cut' = TRUE
      /\ UNCHANGED <<way, peer, task, pieces, told, answer, asm, result>>
  BY DEF Breaks
<1>2. PICK n \in 0 .. Len(wire) : wire' = SubSeq(wire, 1, n)
  BY DEF Breaks
<1>3. wire \in Seq(Event) /\ Len(wire) \in Nat /\ DOMAIN wire = 1 .. Len(wire)
  BY LenProperties DEF ExchangeInv, ExchangeTyped
<1>4. n \in Nat /\ \A i \in 1 .. n : i \in 1 .. Len(wire) /\ wire[i] \in Event
  BY <1>3, ElementOfSeq
<1>5. wire' \in Seq(Event) /\ DOMAIN wire' = 1 .. n /\ \A i \in 1 .. n : wire'[i] = wire[i]
  BY <1>2, <1>4, PrefixOfSeq
<1>6. \A i \in DOMAIN wire' : i \in DOMAIN wire /\ wire'[i] = wire[i]
  BY <1>3, <1>4, <1>5
<1>7. ASSUME NEW i \in DOMAIN wire', wire'[i].kind = "end"
      PROVE  wire' = wire
  <2>1. i = Len(wire) /\ i \in 1 .. n
    BY <1>5, <1>6, <1>7 DEF ExchangeInv, EndInv
  <2>2. n = Len(wire)
    <3>1. PICK m \in Nat : m = Len(wire)
      BY <1>3
    <3>2. n \in 0 .. m /\ m \in 1 .. n
      BY <2>1, <3>1
    <3>3. n = m
      BY ONLY <3>1, <3>2
    <3>. QED
      BY <3>1, <3>3
  <2>. QED
    <3>1. wire' \in Seq(Event) /\ wire \in Seq(Event) /\ DOMAIN wire' = DOMAIN wire
      BY <1>3, <1>5, <2>2
    <3>2. Len(wire') = Len(wire) /\ \A j \in 1 .. Len(wire') : wire'[j] = wire[j]
      BY <1>3, <1>5, <2>2, <3>1, LenProperties
    <3>. QED
      BY <3>1, <3>2, SeqEqual
<1>8. StreamInv'
  <2>1. Ended(wire') => wire' = wire
    BY <1>7 DEF Ended
  <2>. QED
    BY <1>1, <2>1, HeardSame DEF ExchangeInv, StreamInv, Told
<1>9. EndInv'
  <2>. SUFFICES ASSUME NEW i \in DOMAIN wire', wire'[i].kind = "end"
                PROVE  /\ i = Len(wire') /\ peer' = "done"
                       /\ Right' \/ result' # Unknown \/ \E j \in DOMAIN wire' : Failed(wire'[j])
    BY DEF EndInv
  <2>1. wire' = wire
    BY <1>7
  <2>. QED
    BY <1>1, <2>1 DEF ExchangeInv, EndInv, Right
<1>10. ResponseInv'
  BY <1>1, <1>6, HeardSame DEF ExchangeInv, ResponseInv, Right
<1>11. ReturnInv' /\ ExchangeTyped'
  BY <1>1, <1>5, HeardSame DEF ExchangeInv, ReturnInv, ExchangeTyped, Right
<1>12. PeerInv'
  BY <1>1 DEF ExchangeInv, PeerInv
<1>. QED
  BY <1>8, <1>9, <1>10, <1>11, <1>12 DEF ExchangeInv

\* What the client reads is gone from the wire, the rest of it remains.
LEMMA ReadRest ==
    ASSUME ExchangeInv, wire # <<>>, wire' = Tail(wire)
    PROVE  /\ wire \in Seq(Event) /\ wire' \in Seq(Event) /\ Head(wire) = wire[1] /\ 1 \in DOMAIN wire
           /\ Len(wire) \in Nat /\ Len(wire') = Len(wire) - 1
           /\ DOMAIN wire = 1 .. Len(wire) /\ DOMAIN wire' = 1 .. Len(wire')
           /\ \A i \in DOMAIN wire' : i + 1 \in DOMAIN wire /\ wire'[i] = wire[i + 1]
           /\ \A i \in DOMAIN wire : i = 1 \/ (i - 1 \in DOMAIN wire' /\ wire'[i - 1] = wire[i])
<1>1. wire \in Seq(Event)
  BY DEF ExchangeInv, ExchangeTyped
<1>2. /\ wire' \in Seq(Event) /\ Len(wire') = Len(wire) - 1 /\ Head(wire) = wire[1]
      /\ \A i \in 1 .. Len(wire') : wire'[i] = wire[i + 1]
  BY <1>1, HeadTailProperties
<1>3. /\ Len(wire) \in Nat /\ Len(wire') \in Nat
      /\ DOMAIN wire = 1 .. Len(wire) /\ DOMAIN wire' = 1 .. Len(wire')
  BY <1>1, <1>2, LenProperties
<1>4. Len(wire) > 0
  BY <1>1, <1>3, EmptySeq
<1>5. ASSUME NEW i \in DOMAIN wire, i # 1
      PROVE  i - 1 \in DOMAIN wire' /\ wire'[i - 1] = wire[i]
  <2>1. i - 1 \in 1 .. Len(wire') /\ (i - 1) + 1 = i
    BY <1>2, <1>3, <1>5
  <2>. QED
    BY <1>2, <1>3, <2>1
<1>6. \A i \in DOMAIN wire' : i + 1 \in DOMAIN wire
  BY <1>2, <1>3
<1>. QED
  BY <1>1, <1>2, <1>3, <1>4, <1>5, <1>6

LEMMA ReadEventInv ==
    ASSUME ExchangeInv, ReadEvent
    PROVE  ExchangeInv'
<1> DEFINE e == Head(wire)
<1>1. /\ way.streamed /\ result = Unknown /\ wire # <<>> /\ wire' = Tail(wire)
      /\ UNCHANGED <<way, peer, task, pieces, told, answer, cut>>
      /\ \/ Failed(e) /\ result' = [got |-> "error", text |-> <<>>]
         \/ ~Failed(e) /\ e.kind = "end" /\ result' = [got |-> "answer", text |-> Result(asm)]
         \/ ~Failed(e) /\ e.kind # "end" /\ result' = result /\ asm' = Absorb(way.binding, asm, e)
      /\ Failed(e) \/ e.kind = "end" => asm' = asm
  BY DEF ReadEvent, Returns
<1>2. /\ wire \in Seq(Event) /\ wire' \in Seq(Event) /\ e = wire[1] /\ 1 \in DOMAIN wire
      /\ Len(wire) \in Nat /\ Len(wire') = Len(wire) - 1
      /\ DOMAIN wire = 1 .. Len(wire) /\ DOMAIN wire' = 1 .. Len(wire')
      /\ \A i \in DOMAIN wire' : i + 1 \in DOMAIN wire /\ wire'[i] = wire[i + 1]
      /\ \A i \in DOMAIN wire : i = 1 \/ (i - 1 \in DOMAIN wire' /\ wire'[i - 1] = wire[i])
  BY <1>1, ReadRest
<1>. HIDE DEF e
<1>3. Told' = Told /\ Heard' = Heard /\ (Right' <=> Right)
  BY <1>1, HeardSame DEF Told, Right
<1>4. StreamInv'
  <2>. SUFFICES ASSUME result' = Unknown, ~cut \/ Ended(wire')
                PROVE  Reads(way.binding, asm', wire', Told)
    BY <1>1, <1>3 DEF StreamInv
  <2>1. asm' = Absorb(way.binding, asm, e)
    BY <1>1, ReturnedIsKnown
  <2>2. ~cut \/ Ended(wire)
    BY <1>2 DEF Ended
  <2>3. Reads(way.binding, asm, wire, Told)
    BY <1>1, <2>2 DEF ExchangeInv, StreamInv
  <2>4. Reads(way.binding, Absorb(way.binding, asm, e), Tail(wire), Told)
    BY <1>1, <1>2, <2>3, ReadFirst DEF e
  <2>. QED
    BY <1>1, <2>1, <2>4
<1>5. EndInv'
  <2>. SUFFICES ASSUME NEW i \in DOMAIN wire', wire'[i].kind = "end"
                PROVE  /\ i = Len(wire') /\ peer' = "done"
                       /\ Right' \/ result' # Unknown \/ \E j \in DOMAIN wire' : Failed(wire'[j])
    BY DEF EndInv
  <2>1. i + 1 \in DOMAIN wire /\ wire[i + 1].kind = "end"
    BY <1>2
  <2>2. /\ i + 1 = Len(wire) /\ peer = "done"
        /\ Right \/ \E j \in DOMAIN wire : Failed(wire[j])
    BY <1>1, <2>1 DEF ExchangeInv, EndInv
  <2>3. Right' \/ result' # Unknown \/ \E j \in DOMAIN wire' : Failed(wire'[j])
    <3>1. CASE Failed(e)
      BY <1>1, <3>1, ReturnedIsKnown
    <3>2. CASE ~Failed(e) /\ ~Right
      <4>1. PICK j \in DOMAIN wire : Failed(wire[j])
        BY <2>2, <3>2
      <4>2. j # 1
        BY <1>2, <3>2, <4>1
      <4>. QED
        BY <1>2, <4>1, <4>2
    <3>. QED
      BY <1>3, <3>1, <3>2
  <2>4. i = Len(wire')
    BY <1>2, <2>2
  <2>. QED
    BY <1>1, <2>2, <2>3, <2>4
<1>6. ReturnInv'
  <2>. SUFFICES ASSUME result'.got = "answer"
                PROVE  /\ peer = "done" /\ Right
                       /\ result'.text = IF Heard # <<>> THEN Heard ELSE told
    BY <1>1, <1>3 DEF ReturnInv
  <2>1. ~Failed(e) /\ e.kind = "end" /\ result'.text = Result(asm)
    BY <1>1, ReturnedIsKnown
  <2>2. /\ Len(wire) = 1 /\ peer = "done"
        /\ Right \/ \E j \in DOMAIN wire : Failed(wire[j])
    BY <1>1, <1>2, <2>1 DEF ExchangeInv, EndInv
  <2>3. Right
    <3>1. \A j \in DOMAIN wire : j = 1
      BY <1>2, <2>2
    <3>. QED
      BY <1>2, <2>1, <2>2, <3>1
  <2>4. Told = asm
    <3>1. Reads(way.binding, asm, wire, Told)
      BY <1>1, <1>2, <2>1 DEF ExchangeInv, StreamInv, Ended
    <3>2. Told = Absorb(way.binding, asm, e)
      BY <1>1, <1>2, <2>2, <3>1, ReadFirst DEF e
    <3>3. Absorb(way.binding, asm, e) = asm
      BY <2>1, NothingOfTold
    <3>. QED
      BY <3>2, <3>3
  <2>5. Result(Told) = IF Heard # <<>> THEN Heard ELSE told
    <3>1. ~answer.saw => Heard = <<>>
      BY HeardNothing DEF ExchangeInv, PeerInv
    <3>. QED
      BY <3>1 DEF Result, Told
  <2>. QED
    BY <2>1, <2>2, <2>3, <2>4, <2>5
<1>7. ExchangeTyped' /\ ResponseInv'
  BY <1>1, <1>2 DEF ExchangeInv, ExchangeTyped, ResponseInv
<1>8. PeerInv'
  BY <1>1 DEF ExchangeInv, PeerInv
<1>. QED
  BY <1>4, <1>5, <1>6, <1>7, <1>8 DEF ExchangeInv

LEMMA ReadResponseInv ==
    ASSUME ExchangeInv, ReadResponse
    PROVE  ExchangeInv'
<1> DEFINE e == Head(wire)
<1>1. /\ ~way.streamed /\ result = Unknown /\ wire # <<>> /\ wire' = Tail(wire)
      /\ UNCHANGED <<way, peer, task, pieces, told, answer, cut, asm>>
      /\ \/ result' = [got |-> "error", text |-> <<>>]
         \/ ~Failed(e) /\ result' = [got |-> "answer", text |-> ResponseText(way.binding, e)]
  BY DEF ReadResponse, Returns
<1>2. /\ wire' \in Seq(Event) /\ e = wire[1] /\ 1 \in DOMAIN wire
      /\ Len(wire) \in Nat /\ Len(wire') = Len(wire) - 1
      /\ DOMAIN wire = 1 .. Len(wire) /\ DOMAIN wire' = 1 .. Len(wire')
      /\ \A i \in DOMAIN wire' : i + 1 \in DOMAIN wire /\ wire'[i] = wire[i + 1]
  BY <1>1, ReadRest
<1>. HIDE DEF e
<1>3. (Right' <=> Right) /\ Heard' = Heard /\ result' # Unknown
  BY <1>1, HeardSame, ReturnedIsKnown DEF Right
<1>4. peer = "done" /\ (Failed(e) \/ (Right /\ ResponseText(way.binding, e) = Heard)) /\ told = <<>>
  BY <1>1, <1>2 DEF ExchangeInv, ResponseInv, PeerInv
<1>5. ReturnInv'
  <2>1. Heard = IF Heard # <<>> THEN Heard ELSE told
    BY <1>4
  <2>. QED
    BY <1>1, <1>3, <1>4, <2>1, ReturnedIsKnown DEF ReturnInv
<1>6. StreamInv'
  BY <1>3 DEF StreamInv
<1>7. EndInv'
  <2>. SUFFICES ASSUME NEW i \in DOMAIN wire', wire'[i].kind = "end"
                PROVE  i = Len(wire')
    BY <1>1, <1>3, <1>4 DEF EndInv
  <2>1. i + 1 = Len(wire)
    BY <1>2 DEF ExchangeInv, EndInv
  <2>. QED
    BY <1>2, <2>1
<1>8. ResponseInv'
  BY <1>1, <1>2, <1>3 DEF ExchangeInv, ResponseInv
<1>9. ExchangeTyped' /\ PeerInv'
  BY <1>1, <1>2, <1>4 DEF ExchangeInv, ExchangeTyped, PeerInv
<1>. QED
  BY <1>5, <1>6, <1>7, <1>8, <1>9 DEF ExchangeInv

LEMMA ConnectionLostInv ==
    ASSUME ExchangeInv, ConnectionLost
    PROVE  ExchangeInv'
<1>1. /\ wire = <<>> /\ result' = [got |-> "error", text |-> <<>>]
      /\ UNCHANGED <<way, peer, task, pieces, told, answer, wire, cut, asm>>
  BY DEF ConnectionLost, Returns
<1>2. DOMAIN wire = {} /\ result' # Unknown
  BY <1>1, NothingIsText, ReturnedIsKnown
<1>3. StreamInv' /\ EndInv' /\ ResponseInv' /\ ReturnInv'
  BY <1>1, <1>2 DEF StreamInv, EndInv, ResponseInv, ReturnInv
<1>4. ExchangeTyped'
  BY <1>1 DEF ExchangeInv, ExchangeTyped
<1>5. PeerInv'
  BY <1>1 DEF ExchangeInv, PeerInv
<1>. QED
  BY <1>3, <1>4, <1>5 DEF ExchangeInv

-----------------------------------------------------------------------------
LEMMA ExchangeInvInitially == ExchangeInit => ExchangeInv
<1>. SUFFICES ASSUME ExchangeInit PROVE ExchangeInv
  OBVIOUS
<1>1. /\ way = [binding |-> "", streamed |-> FALSE, foreign |-> FALSE, content |-> ""]
      /\ peer = "off" /\ task = "" /\ pieces = 0 /\ told = <<>> /\ answer = NoAnswer
      /\ wire = <<>> /\ cut = FALSE /\ asm = NewAssembler /\ result = Unknown
  BY DEF ExchangeInit
<1>2. <<>> \in Text /\ <<>> \in Seq(Event) /\ DOMAIN wire = {}
  BY <1>1, NothingIsText
<1>3. ExchangeTyped
  BY <1>1, <1>2 DEF ExchangeTyped, NoAnswer, Finding
<1>4. PeerInv
  <2>1. task \notin Failures /\ answer.note = <<>> /\ ~answer.appended
    BY <1>1 DEF Failures, NoAnswer
  <2>. QED
    BY <1>1, <2>1 DEF PeerInv
<1>5. StreamInv /\ EndInv /\ ResponseInv /\ ReturnInv
  <2>1. ~Ended(wire) /\ result.got # "answer"
    BY <1>1, <1>2, ReturnedIsKnown DEF Ended
  <2>2. Told = asm
    BY <1>1, HeardNothing DEF Told, NewAssembler, NoAnswer
  <2>3. Reads(way.binding, asm, wire, Told)
    BY <1>1, <2>2, ReadNothing
  <2>. QED
    BY <1>2, <2>1, <2>3 DEF StreamInv, EndInv, ResponseInv, ReturnInv
<1>. QED
  BY <1>3, <1>4, <1>5 DEF ExchangeInv

LEMMA ExchangeInvPreserved == ExchangeInv /\ [ExchangeNext]_exchangeVars => ExchangeInv'
<1>. SUFFICES ASSUME ExchangeInv, [ExchangeNext]_exchangeVars
              PROVE  ExchangeInv'
  OBVIOUS
<1>1. ASSUME NEW b \in {"http", "grpc"}, NEW s \in BOOLEAN, NEW f \in BOOLEAN,
             NEW content \in {"text", "inline", "data", "file"}, ClientSends(b, s, f, content)
      PROVE  ExchangeInv'
  BY <1>1, ClientSendsInv
<1>2. CASE Refuses
  BY <1>2, RefusesInv
<1>3. CASE Begins
  BY <1>3, BeginsInv
<1>4. CASE Makes
  BY <1>4, MakesInv
<1>5. CASE Cancels
  BY <1>5, CancelsInv
<1>6. CASE HandlerFails
  BY <1>6, HandlerFailsInv
<1>7. CASE HandlerAnswers
  BY <1>7, HandlerAnswersInv
<1>8. ASSUME NEW restart \in BOOLEAN, NEW direct \in BOOLEAN, ForeignTells(restart, direct)
      PROVE  ExchangeInv'
  BY <1>8, ForeignTellsInv
<1>9. ASSUME NEW state \in ForeignStates, NEW empty \in BOOLEAN, NEW note \in {<<>>, Note},
             ForeignSettles(state, empty, note)
      PROVE  ExchangeInv'
  BY <1>9, ForeignSettlesInv
<1>10. ASSUME NEW void \in BOOLEAN, ForeignAnswers(void)
       PROVE  ExchangeInv'
  BY <1>10, ForeignAnswersInv
<1>17. ASSUME NEW restart \in BOOLEAN, NEW empty \in BOOLEAN, ForeignFinishes(restart, empty)
       PROVE  ExchangeInv'
  BY <1>17, ForeignFinishesInv
<1>11. CASE ForeignEnds
  BY <1>11, ForeignEndsInv
<1>12. CASE Breaks
  BY <1>12, BreaksInv
<1>13. CASE ReadEvent
  BY <1>13, ReadEventInv
<1>14. CASE ReadResponse
  BY <1>14, ReadResponseInv
<1>15. CASE ConnectionLost
  BY <1>15, ConnectionLostInv
<1>16. CASE UNCHANGED exchangeVars
  <2>1. UNCHANGED <<way, peer, task, pieces, told, answer, wire, cut, asm, result>>
    BY <1>16 DEF exchangeVars
  <2>2. Told' = Told /\ Heard' = Heard /\ (Right' <=> Right)
    BY <2>1, HeardSame DEF Told, Right
  <2>3. StreamInv' /\ EndInv' /\ ResponseInv' /\ ReturnInv'
    BY <2>1, <2>2 DEF ExchangeInv, StreamInv, EndInv, ResponseInv, ReturnInv
  <2>4. ExchangeTyped'
    BY <2>1 DEF ExchangeInv, ExchangeTyped
  <2>5. PeerInv'
    BY <2>1 DEF ExchangeInv, PeerInv
  <2>. QED
    BY <2>3, <2>4, <2>5 DEF ExchangeInv
<1>. QED
  BY <1>1, <1>2, <1>3, <1>4, <1>5, <1>6, <1>7, <1>8, <1>9, <1>10, <1>11, <1>12, <1>13, <1>14, <1>15,
     <1>16, <1>17 DEF ExchangeNext

\* Sent or streamed, wherever the connection breaks and whenever the task is
\* canceled, for any number of pieces: what a client returns as the answer is of
\* a task that did not fail, and is the whole of the last settled text or what was
\* streamed; of a foreign server's settled text it is what Heard says.
THEOREM ExchangeAnswerCrosses == ExchangeSpec => []AnswerCrosses
<1>1. ExchangeInv => AnswerCrosses
  <2>1. ExchangeInv /\ ~way.foreign => Heard = answer.text
    BY DEF ExchangeInv, PeerInv, Heard
  <2>. QED
    BY <2>1 DEF ExchangeInv, ReturnInv, Right, AnswerCrosses
<1>. QED
  BY <1>1, ExchangeInvInitially, ExchangeInvPreserved, PTL DEF ExchangeSpec

-----------------------------------------------------------------------------
(* JsonRpc.                                                                *)

\* A call that has begun never begins again, so that what has left the table
\* does not return to it.
RpcIInv ==
    /\ pending \subseteq Messages
    /\ chan = [c \in Messages |-> chan[c]]
    /\ call = [c \in Messages |-> call[c]]
    /\ taken \in Messages \cup {0}
    /\ taken \notin pending
    /\ \A c \in pending : chan[c] = 0 /\ c \notin ended
    /\ \A c \in Messages :
         call[c] = "new" => chan[c] = 0 /\ c \notin ended /\ c \notin pending /\ taken # c
    /\ ReadLoopNeverStalls

LEMMA RpcInitIInv == RpcInit => RpcIInv
BY RpcAssumption DEF RpcInit, RpcIInv, ReadLoopNeverStalls, Messages

LEMMA ZeroIsNoMessage == 0 \notin Messages
BY RpcAssumption DEF Messages

LEMMA CallerIInv ==
    ASSUME RpcIInv, NEW c \in Messages, Caller(c)
    PROVE  RpcIInv'
<1>. USE ZeroIsNoMessage DEF RpcIInv, ReadLoopNeverStalls
<1>1. CASE BeginCall(c)
  BY <1>1 DEF BeginCall
<1>2. CASE Written(c)
  BY <1>2 DEF Written
<1>3. CASE AfterWrite(c)
  BY <1>3 DEF AfterWrite, CallReturns
<1>4. CASE ContextEnds(c)
  BY <1>4 DEF ContextEnds, CallReturns
<1>5. CASE Receive(c)
  BY <1>5 DEF Receive
<1>. QED
  BY <1>1, <1>2, <1>3, <1>4, <1>5 DEF Caller, Progress

LEMMA ReadLoopIInv ==
    ASSUME RpcIInv, ReadLoop
    PROVE  RpcIInv'
<1>. USE ZeroIsNoMessage DEF RpcIInv, ReadLoopNeverStalls
<1>1. CASE Take
  BY <1>1 DEF Take, Match
<1>2. CASE HandOver
  BY <1>2 DEF HandOver
<1>3. CASE ReadEnds
  BY <1>3 DEF ReadEnds
<1>. QED
  BY <1>1, <1>2, <1>3 DEF ReadLoop

\* The server's steps, and those of the environment, leave the client's table,
\* channels and calls alone.
LEMMA RestIInv ==
    ASSUME RpcIInv,
           \/ Serve \/ Close \/ Kill \/ Reaped \/ Interrupt \/ Crash \/ Noise
           \/ \E c \in Messages : Handler(c)
    PROVE  RpcIInv'
<1>1. UNCHANGED <<call, pending, chan, ended, taken>>
  <2>. USE DEF clientVars
  <2>1. CASE Serve
    BY <2>1 DEF Serve, Read, Refuse, Dispatch, EndOfInput, GraceEnds, Unwound
  <2>2. CASE \E c \in Messages : Handler(c)
    BY <2>2 DEF Handler, HandlerReturns, WriteAnswer
  <2>3. CASE Close \/ Kill \/ Reaped \/ Interrupt \/ Crash \/ Noise
    BY <2>3 DEF Close, Kill, Reaped, Interrupt, Crash, Noise
  <2>. QED
    BY <2>1, <2>2, <2>3
<1>. QED
  BY <1>1 DEF RpcIInv, ReadLoopNeverStalls

LEMMA RpcNextIInv == RpcIInv /\ [RpcNext]_rpcVars => RpcIInv'
<1>. SUFFICES ASSUME RpcIInv, [RpcNext]_rpcVars
              PROVE  RpcIInv'
  OBVIOUS
<1>1. CASE UNCHANGED rpcVars
  BY <1>1 DEF RpcIInv, ReadLoopNeverStalls, rpcVars, clientVars
<1>. QED
  BY <1>1, CallerIInv, ReadLoopIInv, RestIInv DEF RpcNext

\* The read loop never waits for a caller and never sends on a channel it has
\* closed (Client.readLoop), whatever the server repeats.
THEOREM RpcReadLoopNeverStalls == RpcSpec => []ReadLoopNeverStalls
<1>1. RpcIInv => ReadLoopNeverStalls
  BY DEF RpcIInv
<1>. QED
  BY <1>1, RpcInitIInv, RpcNextIInv, PTL DEF RpcSpec

-----------------------------------------------------------------------------
(* The refinement.  A request passes through the pipe once, and an answer  *)
(* on its way tells of a handler that was started.                         *)

InPipe(c) == \E i \in 1..Len(up) : up[i] = c
RequestInHand(c) == serve = "dispatching" /\ request = c

\* The way of a request: not yet written, then in the pipe, then in the hand of
\* the loop, then with its handler, at one of these places and once.
UpInv ==
    /\ writer = [c \in Messages |-> writer[c]]
    /\ handler = [c \in Messages |-> handler[c]]
    /\ up \in Seq(Messages \cup {0})
    /\ \A c \in Messages : call[c] = "new" => writer[c] = "none"
    /\ \A c \in Messages :
         writer[c] \in {"none", "blocked"} => handler[c] = "none" /\ ~InPipe(c) /\ ~RequestInHand(c)
    /\ \A i, j \in 1..Len(up) : i # j /\ up[i] = up[j] => up[i] = 0
    /\ \A c \in Messages : InPipe(c) => handler[c] = "none" /\ ~RequestInHand(c)
    /\ \A c \in Messages : RequestInHand(c) => handler[c] = "none"
    /\ serve = "dispatching" => request \in Messages

\* The way of an answer: wherever it is, its request was carried out.
DownInv ==
    /\ got = [c \in Messages |-> got[c]]
    /\ down \in Seq(Messages \cup {0})
    /\ \A i \in 1..Len(down) : down[i] # 0 => handler[down[i]] # "none"
    /\ taken # 0 => handler[taken] # "none"
    /\ \A c \in Messages : chan[c] \in {0, c} /\ (chan[c] # 0 => handler[c] # "none")
    /\ \A c \in Messages : call[c] # "done" => got[c] = 0

RInv == RpcIInv /\ UpInv /\ DownInv

LEMMA InitRInv == RpcInit => RInv
BY RpcInitIInv, ZeroIsNoMessage DEF RpcInit, RInv, UpInv, DownInv, InPipe, RequestInHand

\* A request is put into the pipe, and only there, by its own writer.
LEMMA UpInvWritten ==
    ASSUME RpcIInv, UpInv, NEW c \in Messages, Written(c)
    PROVE  UpInv'
<1>. USE DEF UpInv, InPipe, RequestInHand, serverVars
<1>1. CASE up' = up
  BY <1>1 DEF Written
<1>2. ASSUME NEW m \in {c, 0}, up' = Append(up, m)
      PROVE  UpInv'
  <2>1. /\ up' \in Seq(Messages \cup {0}) /\ Len(up') = Len(up) + 1
        /\ \A i \in 1..Len(up) : up'[i] = up[i]
        /\ up'[Len(up) + 1] = m
    BY <1>2
  <2>2. ~InPipe(c) /\ writer[c] = "blocked" /\ Len(up) \in Nat
    BY DEF Written
  <2>3. \A i, j \in 1..Len(up') : i # j /\ up'[i] = up'[j] => up'[i] = 0
    <3>1. \A i \in 1..Len(up') : i \in 1..Len(up) \/ i = Len(up) + 1
      BY <2>1, <2>2
    <3>2. \A i \in 1..Len(up) : up[i] = m => up[i] = 0
      BY <1>2, <2>2
    <3>3. \A i, j \in 1..Len(up) : i # j /\ up[i] = up[j] => up[i] = 0
      OBVIOUS
    <3>. SUFFICES ASSUME NEW i \in 1..Len(up'), NEW j \in 1..Len(up'), i # j, up'[i] = up'[j]
                  PROVE  up'[i] = 0
      OBVIOUS
    <3>4. CASE i \in 1..Len(up) /\ j \in 1..Len(up)
      BY ONLY <2>1, <3>3, <3>4, i # j, up'[i] = up'[j]
    <3>5. CASE i \in 1..Len(up) /\ j = Len(up) + 1
      BY ONLY <2>1, <3>2, <3>5, up'[i] = up'[j]
    <3>6. CASE i = Len(up) + 1 /\ j \in 1..Len(up)
      BY ONLY <2>1, <3>2, <3>6, up'[i] = up'[j]
    <3>. QED
      BY ONLY <3>1, <3>4, <3>5, <3>6, i # j
  <2>4. \A d \in Messages : InPipe(d)' => InPipe(d) \/ d = m
    BY <2>1, <2>2
  <2>5. /\ UNCHANGED <<call, handler, serve, request>>
        /\ \E v \in {"written", "failed"} : writer' = [writer EXCEPT ![c] = v]
    BY DEF Written
  <2>6. PICK v \in {"written", "failed"} : writer' = [writer EXCEPT ![c] = v]
    BY <2>5
  <2>7. /\ \A d \in Messages : d # c => writer'[d] = writer[d]
        /\ writer'[c] \in {"written", "failed"}
        /\ writer' = [d \in Messages |-> writer'[d]]
    BY <2>6
  <2>8. handler[c] = "none" /\ ~RequestInHand(c) /\ call[c] # "new"
    BY <2>2
  <2>9. c # 0 /\ 0 \notin Messages
    BY ZeroIsNoMessage
  <2>10. \A d \in Messages : InPipe(d)' => handler'[d] = "none" /\ ~RequestInHand(d)'
    BY ONLY <1>2, <2>4, <2>5, <2>8, <2>9, UpInv DEF UpInv, RequestInHand
  <2>11. \A d \in Messages : writer'[d] \in {"none", "blocked"} =>
              handler'[d] = "none" /\ ~InPipe(d)' /\ ~RequestInHand(d)'
    <3>. SUFFICES ASSUME NEW d \in Messages, writer'[d] \in {"none", "blocked"}
                  PROVE  handler'[d] = "none" /\ ~InPipe(d)' /\ ~RequestInHand(d)'
      OBVIOUS
    <3>1. d # c /\ writer[d] \in {"none", "blocked"}
      BY <2>7
    <3>2. d # m
      BY <1>2, <2>9, <3>1
    <3>. QED
      BY <2>4, <2>5, <3>1, <3>2
  <2>12. \A d \in Messages : call'[d] = "new" => writer'[d] = "none"
    BY <2>5, <2>7, <2>8
  <2>. QED
    BY <2>1, <2>3, <2>5, <2>7, <2>10, <2>11, <2>12
<1>. QED
  BY <1>1, <1>2 DEF Written

LEMMA UpInvRead ==
    ASSUME UpInv, Read
    PROVE  UpInv'
<1>. USE DEF UpInv, InPipe, RequestInHand
<1>1. /\ up' \in Seq(Messages \cup {0}) /\ Len(up) \in Nat \ {0} /\ Len(up') = Len(up) - 1
      /\ \A i \in 1..Len(up') : i + 1 \in 1..Len(up) /\ up'[i] = up[i + 1]
      /\ Head(up) = up[1] /\ 1 \in 1..Len(up)
  BY DEF Read
<1>2. \A i, j \in 1..Len(up') : i # j /\ up'[i] = up'[j] => up'[i] = 0
  BY <1>1
<1>3. \A d \in Messages : InPipe(d)' => InPipe(d) /\ d # up[1]
  BY <1>1, ZeroIsNoMessage
<1>4. \A d \in Messages : RequestInHand(d)' => InPipe(d) /\ ~InPipe(d)'
  BY <1>1, <1>3 DEF Read
<1>5. UNCHANGED <<call, writer, handler>> /\ (serve' = "dispatching" => request' \in Messages)
  BY <1>1 DEF Read, clientVars
<1>. QED
  BY <1>1, <1>2, <1>3, <1>4, <1>5

LEMMA UpInvRest ==
    ASSUME RpcIInv, UpInv, RpcNext, ~Read, \A c \in Messages : ~Written(c)
    PROVE  UpInv'
<1>. USE DEF UpInv, InPipe, RequestInHand, clientVars, serverVars
<1>1. ASSUME NEW c \in Messages, BeginCall(c) \/ AfterWrite(c) \/ Receive(c) \/ ContextEnds(c)
      PROVE  UpInv'
  <2>1. CASE BeginCall(c)
    BY <2>1 DEF BeginCall, RpcIInv
  <2>2. CASE AfterWrite(c)
    BY <2>2 DEF AfterWrite, CallReturns, RpcIInv
  <2>3. CASE Receive(c)
    BY <2>3 DEF Receive, RpcIInv
  <2>4. CASE ContextEnds(c)
    BY <2>4 DEF ContextEnds, CallReturns, RpcIInv
  <2>. QED
    BY <1>1, <2>1, <2>2, <2>3, <2>4
<1>2. ASSUME NEW c \in Messages, Handler(c)
      PROVE  UpInv'
  BY <1>2 DEF Handler, HandlerReturns, WriteAnswer
<1>3. CASE ReadLoop
  BY <1>3 DEF ReadLoop, Take, HandOver, ReadEnds
<1>4. CASE Dispatch
  BY <1>4 DEF Dispatch
<1>5. CASE Refuse \/ EndOfInput \/ GraceEnds \/ Unwound
  BY <1>5 DEF Refuse, EndOfInput, GraceEnds, Unwound
<1>6. CASE Close \/ Kill \/ Reaped \/ Interrupt \/ Crash \/ Noise
  BY <1>6 DEF Close, Kill, Reaped, Interrupt, Crash, Noise
<1>. QED
  BY <1>1, <1>2, <1>3, <1>4, <1>5, <1>6 DEF RpcNext, Caller, Progress, Serve

\* An answer, or what is none, is put into the pipe.
LEMMA DownInvPut ==
    ASSUME RpcIInv, DownInv, NEW m \in Messages \cup {0}, m # 0 => handler'[m] # "none",
           down' = Append(down, m), UNCHANGED <<got, taken, chan, call>>,
           \A c \in Messages : handler[c] # "none" => handler'[c] # "none"
    PROVE  DownInv'
<1>1. /\ Len(down') = Len(down) + 1 /\ Len(down) \in Nat
      /\ \A i \in 1..Len(down) : down'[i] = down[i] /\ down[i] \in Messages \cup {0}
      /\ down'[Len(down) + 1] = m
      /\ down' \in Seq(Messages \cup {0})
  BY DEF DownInv
<1>2. \A i \in 1..Len(down') : down'[i] # 0 => handler'[down'[i]] # "none"
  BY <1>1 DEF DownInv
<1>. QED
  BY <1>1, <1>2 DEF DownInv, RpcIInv

\* The pipe stays as it is, and no handler is forgotten.
LEMMA DownInvKept ==
    ASSUME RpcIInv, DownInv, UNCHANGED <<got, taken, chan, call, down>>,
           \A c \in Messages : handler[c] # "none" => handler'[c] # "none"
    PROVE  DownInv'
<1>1. \A i \in 1..Len(down) : down[i] \in Messages \cup {0}
  BY DEF DownInv
<1>. QED
  BY <1>1 DEF DownInv, RpcIInv

LEMMA DownInvNext ==
    ASSUME RpcIInv, UpInv, DownInv, RpcNext
    PROVE  DownInv'
<1>. USE DEF clientVars, serverVars
<1>1. ASSUME NEW c \in Messages, BeginCall(c) \/ Written(c) \/ AfterWrite(c) \/ Receive(c) \/ ContextEnds(c)
      PROVE  DownInv'
  <2>1. CASE BeginCall(c)
    BY <2>1 DEF BeginCall, DownInv, RpcIInv
  <2>2. CASE Written(c)
    BY <2>2, DownInvKept DEF Written
  <2>3. CASE AfterWrite(c)
    BY <2>3 DEF AfterWrite, CallReturns, DownInv, RpcIInv
  <2>4. CASE Receive(c)
    BY <2>4 DEF Receive, DownInv, RpcIInv
  <2>5. CASE ContextEnds(c)
    BY <2>5 DEF ContextEnds, CallReturns, DownInv, RpcIInv
  <2>. QED
    BY <1>1, <2>1, <2>2, <2>3, <2>4, <2>5
<1>2. ASSUME NEW c \in Messages, HandlerReturns(c)
      PROVE  DownInv'
  BY <1>2, DownInvKept DEF HandlerReturns, UpInv
<1>3. ASSUME NEW c \in Messages, WriteAnswer(c)
      PROVE  DownInv'
  BY <1>3, DownInvPut DEF WriteAnswer, UpInv
<1>4. CASE Take
  <2>1. /\ down' \in Seq(Messages \cup {0}) /\ Len(down') = Len(down) - 1 /\ Len(down) \in Nat \ {0}
        /\ \A i \in 1..Len(down') : i + 1 \in 1..Len(down) /\ down'[i] = down[i + 1]
        /\ Head(down) = down[1] /\ 1 \in 1..Len(down)
    BY <1>4 DEF Take, DownInv
  <2>2. \A i \in 1..Len(down') : down'[i] # 0 => handler[down'[i]] # "none"
    BY <2>1 DEF DownInv
  <2>3. taken' # 0 => taken' = down[1]
    BY <1>4, <2>1 DEF Take, Match
  <2>4. UNCHANGED <<got, chan, call, handler>>
    BY <1>4 DEF Take
  <2>. QED
    BY <2>1, <2>2, <2>3, <2>4 DEF DownInv
<1>5. CASE HandOver
  BY <1>5, ZeroIsNoMessage DEF HandOver, DownInv, RpcIInv
<1>6. CASE ReadEnds
  BY <1>6, DownInvKept DEF ReadEnds
<1>7. CASE Refuse
  BY <1>7, DownInvPut DEF Refuse
<1>8. CASE Dispatch
  BY <1>8, DownInvKept DEF Dispatch, UpInv
<1>9. CASE Noise
  BY <1>9, DownInvPut DEF Noise
<1>10. CASE Read \/ EndOfInput \/ GraceEnds \/ Unwound \/ Close \/ Kill \/ Reaped \/ Interrupt \/ Crash
  BY <1>10, DownInvKept DEF Read, EndOfInput, GraceEnds, Unwound, Close, Kill, Reaped, Interrupt, Crash
<1>. QED
  BY <1>1, <1>2, <1>3, <1>4, <1>5, <1>6, <1>7, <1>8, <1>9, <1>10
     DEF RpcNext, Caller, Progress, Handler, ReadLoop, Serve

LEMMA NextRInv == RInv /\ [RpcNext]_rpcVars => RInv'
<1>. SUFFICES ASSUME RInv, [RpcNext]_rpcVars
              PROVE  RInv'
  OBVIOUS
<1>1. CASE RpcNext
  BY <1>1, RpcNextIInv, UpInvWritten, UpInvRead, UpInvRest, DownInvNext DEF RInv
<1>2. CASE UNCHANGED rpcVars
  <2>1. RpcIInv'
    BY <1>2, RpcNextIInv DEF RInv
  <2>2. UpInv'
    BY <1>2 DEF RInv, UpInv, InPipe, RequestInHand, rpcVars, clientVars, serverVars
  <2>3. DownInv'
    BY <1>2 DEF RInv, DownInv, rpcVars, clientVars, serverVars
  <2>. QED
    BY <2>1, <2>2, <2>3 DEF RInv
<1>. QED
  BY <1>1, <1>2

-----------------------------------------------------------------------------
\* Each step is one of Requests, or none of its business.
LEMMA StepRefines ==
    ASSUME RInv, RpcNext
    PROVE  [Promised!RequestsNext]_(Promised!requests)
<1>. USE DEF Promised!requests, clientVars, serverVars
<1>1. ASSUME NEW c \in Messages, BeginCall(c)
      PROVE  Promised!Ask(c)
  BY <1>1 DEF BeginCall, Promised!Ask, RInv, RpcIInv
<1>2. ASSUME NEW c \in Messages, AfterWrite(c) \/ ContextEnds(c)
      PROVE  Promised!Failed(c) \/ UNCHANGED Promised!requests
  BY <1>2 DEF AfterWrite, ContextEnds, CallReturns, Promised!Failed, RInv, RpcIInv, DownInv
<1>3. ASSUME NEW c \in Messages, Receive(c)
      PROVE  Promised!Answered(c) \/ Promised!Failed(c)
  <2>1. CASE chan[c] = 0
    BY <1>3, <2>1 DEF Receive, Promised!Failed, RInv, RpcIInv, DownInv
  <2>2. CASE chan[c] # 0
    BY <1>3, <2>2 DEF Receive, Promised!Answered, RInv, RpcIInv, DownInv
  <2>. QED
    BY <2>1, <2>2
<1>4. ASSUME Dispatch
      PROVE  \E c \in Messages : Promised!Execute(c) \/ UNCHANGED Promised!requests
  <2>1. request \in Messages /\ handler[request] = "none" /\ call[request] # "new"
    BY <1>4 DEF Dispatch, RInv, UpInv, RequestInHand
  <2>2. PICK c \in Messages : c = request
    BY <2>1
  <2>3. Promised!Execute(c) \/ UNCHANGED Promised!requests
    BY <1>4, <2>1, <2>2 DEF Dispatch, Promised!Execute, RInv, UpInv
  <2>. QED
    BY <2>3
<1>5. ASSUME NEW c \in Messages, Written(c) \/ HandlerReturns(c) \/ WriteAnswer(c)
      PROVE  UNCHANGED Promised!requests
  BY <1>5 DEF Written, HandlerReturns, WriteAnswer, RInv, UpInv
<1>6. CASE \/ ReadLoop \/ Read \/ Refuse \/ EndOfInput \/ GraceEnds \/ Unwound
           \/ Close \/ Kill \/ Reaped \/ Interrupt \/ Crash \/ Noise
  BY <1>6 DEF ReadLoop, Take, HandOver, ReadEnds, Read, Refuse, EndOfInput, GraceEnds, Unwound,
              Close, Kill, Reaped, Interrupt, Crash, Noise
<1>. QED
  BY <1>1, <1>2, <1>3, <1>4, <1>5, <1>6
     DEF RpcNext, Caller, Progress, Handler, Serve, Promised!RequestsNext

\* What the client and the server do is what Requests promises: a handler is
\* started at most once for a request, and a call returns once, with an error
\* or its own answer, whatever comes late or twice.
THEOREM RpcImplementsRequests == RpcSpec => ImplementsRequests
<1>1. RpcInit => Promised!RequestsInit
  BY DEF RpcInit, Promised!RequestsInit
<1>2. RInv /\ [RpcNext]_rpcVars => [Promised!RequestsNext]_(Promised!requests)
  <2>1. UNCHANGED rpcVars => UNCHANGED Promised!requests
    BY DEF rpcVars, clientVars, serverVars, Promised!requests
  <2>. QED
    BY <2>1, StepRefines
<1>. QED
  BY <1>1, <1>2, InitRInv, NextRInv, PTL DEF RpcSpec, ImplementsRequests, Promised!RequestsSpec
=============================================================================
