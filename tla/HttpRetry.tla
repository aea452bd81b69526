----------------------------- MODULE HttpRetry -----------------------------
(***************************************************************************)
(* One call of a provider over HTTP: httpretry.Do, which tries a request   *)
(* again after a delay, under a post that turns bad statuses into errors,  *)
(* under a Complete or a Stream that reads the body.  Who closes which     *)
(* body, and how long a delay may get in integers of a fixed width.        *)
(***************************************************************************)
EXTENDS Naturals, Integers, FiniteSets

CONSTANTS Policies,         \* records [attempts, base, cap]
          Headers,          \* the delays Retry-After may ask for, 0 for none
          Width,            \* bits of a time.Duration
          MaxShift,         \* the largest shift is below it
          MaxRetryAfter, DefaultBase, DefaultCap,
          MaxAttempts       \* no policy has more attempts (a bound)

MaxDuration == 2^(Width - 1) - 1

ASSUME RetryAssumption ==
    /\ MaxAttempts \in Nat \ {0} /\ Width \in Nat \ {0} /\ MaxShift \in Nat /\ Headers \subseteq Nat
    /\ {MaxRetryAfter, DefaultBase, DefaultCap} \subseteq 1..(MaxDuration - 1)
    \* A cap of the largest duration is left out: cap + 1 would overflow.
    /\ \A p \in Policies : p.attempts \in Int /\ p.attempts <= MaxAttempts /\ {p.base, p.cap} \subseteq 0..(MaxDuration - 1)

VARIABLES policy, attempt,  \* the policy and the attempts made
          doing,            \* where the call is
          body,             \* attempt -> its body: "none", "open" or "closed"
          closings,         \* attempt -> how often its body was closed
          resp,             \* the attempt whose response is in hand, or 0
          status, header,   \* of that response
          delay,            \* of the timer that runs
          outcome           \* what the caller gets: "", "answer" or "error"

retryVars == <<policy, attempt, doing, body, closings, resp, status, header, delay, outcome>>

NoPolicy == [attempts |-> 0, base |-> 0, cap |-> 0]

RetryInit ==
    /\ policy = NoPolicy /\ attempt = 0 /\ doing = "new"
    /\ body = [a \in 1..MaxAttempts |-> "none"]
    /\ closings = [a \in 1..MaxAttempts |-> 0]
    /\ resp = 0 /\ status = "none" /\ header = 0 /\ delay = 0 /\ outcome = ""

Attempts == IF policy.attempts < 1 THEN 1 ELSE policy.attempts

ClosedBody(a) ==
    /\ body' = [body EXCEPT ![a] = "closed"]
    /\ closings' = [closings EXCEPT ![a] = @ + 1]

Finish(what) == doing' = "done" /\ outcome' = what

-----------------------------------------------------------------------------
(* The delay.                                                              *)

\* The 2^Width values from -MaxDuration - 1 to MaxDuration.
Wrapped(n) == ((n + MaxDuration + 1) % (2 * (MaxDuration + 1))) - MaxDuration - 1

RetryAfter(h) == IF h > MaxRetryAfter THEN MaxRetryAfter ELSE h

Base == IF policy.base <= 0 THEN DefaultBase ELSE policy.base
Cap == IF policy.cap <= 0 THEN DefaultCap ELSE policy.cap

\* Mutant: only the cap guards the growth.
GrowthUnguarded(shift) ==
    LET grown == Wrapped(Base * Wrapped(2^shift))
        d == IF grown < Cap THEN grown ELSE Cap
    IN  IF d <= 0 THEN Base ELSE d

Growth(shift) ==
    LET grown == Wrapped(Base * Wrapped(2^shift))
        d == IF shift < MaxShift /\ 0 < grown /\ grown < Cap THEN grown ELSE Cap
    IN  IF d <= 0 THEN Base ELSE d

\* The delays backoff may return before the given attempt: a random one up to
\* the growth, or what the response in hand asked for.
Backoff ==
    IF resp # 0 /\ header > 0 THEN {RetryAfter(header)}
                              ELSE 0..Growth(attempt - 1)

-----------------------------------------------------------------------------
(* Do.                                                                     *)

Call ==
    /\ doing = "new"
    /\ policy' \in Policies
    /\ doing' = "requesting"
    /\ UNCHANGED <<attempt, body, closings, resp, status, header, delay, outcome>>

\* mkReq fails: nothing is in hand, since what was has been closed.
MakeFails ==
    /\ doing = "requesting"
    /\ Finish("error")
    /\ UNCHANGED <<policy, attempt, body, closings, resp, status, header, delay>>

Fails ==
    /\ doing = "requesting"
    /\ attempt' = attempt + 1
    /\ resp' = 0 /\ status' = "none" /\ header' = 0
    /\ doing' = "deciding"
    /\ UNCHANGED <<policy, body, closings, delay, outcome>>

Responds(s, h) ==
    /\ doing = "requesting"
    /\ attempt' = attempt + 1
    /\ resp' = attempt' /\ status' = s /\ header' = h
    /\ body' = [body EXCEPT ![attempt'] = "open"]
    /\ doing' = "deciding"
    /\ UNCHANGED <<policy, closings, delay, outcome>>

Retryable == resp = 0 \/ status = "retryable"         \* an error, 429 or 5xx

\* Do returns, or computes the delay and closes what it has in hand.
Decide ==
    /\ doing = "deciding"
    /\ IF Retryable /\ attempt < Attempts
       THEN /\ delay' \in Backoff
            /\ IF resp = 0 THEN UNCHANGED <<body, closings>> ELSE ClosedBody(resp)
            /\ resp' = 0
            /\ doing' = "waiting"
       ELSE /\ doing' = "posting"
            /\ UNCHANGED <<delay, body, closings, resp>>
    /\ UNCHANGED <<policy, attempt, status, header, outcome>>

Elapsed ==
    /\ doing = "waiting"
    /\ doing' = "requesting"
    /\ UNCHANGED <<policy, attempt, body, closings, resp, status, header, delay, outcome>>

\* The context is done while the timer runs.  A request under way fails of it.
Interrupted ==
    /\ doing = "waiting"
    /\ Finish("error")
    /\ UNCHANGED <<policy, attempt, body, closings, resp, status, header, delay>>

-----------------------------------------------------------------------------
(* post, then Complete or Stream with its deferred close.                  *)

\* Mutant: the body of a bad status is left open.
PostLeaking ==
    /\ doing = "posting"
    /\ IF resp = 0 \/ status # "ok" THEN Finish("error")
                                    ELSE doing' = "reading" /\ UNCHANGED outcome
    /\ UNCHANGED <<policy, attempt, body, closings, resp, status, header, delay>>

Post ==
    /\ doing = "posting"
    /\ IF resp = 0 \/ status # "ok"
       THEN /\ IF resp = 0 THEN UNCHANGED <<body, closings>> ELSE ClosedBody(resp)
            /\ Finish("error")
       ELSE doing' = "reading" /\ UNCHANGED <<body, closings, outcome>>
    /\ UNCHANGED <<policy, attempt, resp, status, header, delay>>

Consume ==
    /\ doing = "reading"
    /\ ClosedBody(resp)
    /\ \E what \in {"answer", "error"} : Finish(what)
    /\ UNCHANGED <<policy, attempt, resp, status, header, delay>>

RetryNext ==
    \/ Call \/ MakeFails \/ Fails \/ Decide \/ Elapsed \/ Interrupted \/ Post \/ Consume
    \/ \E h \in Headers : Responds("retryable", h)
    \/ Responds("ok", 0) \/ Responds("refused", 0)

RetrySpec == RetryInit /\ [][RetryNext]_retryVars

-----------------------------------------------------------------------------
(* Properties.                                                             *)

\* No more than one body is open at a time, each is closed at most once, and
\* when the call returns every body it opened is closed.
BodiesAreClosedOnce ==
    /\ \A a \in 1..MaxAttempts : closings[a] = (IF body[a] = "closed" THEN 1 ELSE 0)
    /\ \A a \in 1..MaxAttempts : body[a] = "open" => a = resp /\ doing # "done"

\* However large the attempt and however narrow the integers, a delay is never
\* negative and never above what the policy, or maxRetryAfter, allows.
DelayIsBounded ==
    doing = "waiting" => delay \in 0..(IF header > 0 THEN MaxRetryAfter ELSE Cap)
=============================================================================
