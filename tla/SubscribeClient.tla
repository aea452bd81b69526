-------------------------- MODULE SubscribeClient --------------------------
(***************************************************************************)
(* The text a gRPC client makes of a subscription: Client.SubscribeToTask  *)
(* (a2a/grpc/grpc.go) reads the broker's events until the stream ends.     *)
(* A text is the sequence of the chunks it is put together from, a chunk   *)
(* being the position of its event in the log.                             *)
(***************************************************************************)
EXTENDS TaskBroker

Chunks(evs) == SelectSeq(evs, LAMBDA ev : ev.kind = "artifact" /\ ~ev.end)

\* A chunk that does not append starts the text over.
Collected(evs) ==
    LET deltas == Chunks(evs)
        starts == {i \in DOMAIN deltas : ~deltas[i].append}
        first  == IF starts = {} THEN 1 ELSE CHOOSE i \in starts : \A j \in starts : j <= i
    IN  [i \in 1 .. Len(deltas) + 1 - first |-> deltas[first + i - 1].n]

\* The text of the last lastChunk artifact, if there is one.
Final(evs) ==
    LET lasts == {i \in DOMAIN evs : IsLastChunk(evs[i])}
    IN  IF lasts = {} THEN <<>>
        ELSE << evs[CHOOSE i \in lasts : \A j \in lasts : j <= i].n >>

\* Mutant of Assembled: streamed chunks outrank the authoritative artifact.
AssembledFromChunks(evs) == IF Chunks(evs) # <<>> THEN Collected(evs) ELSE Final(evs)

\* The lastChunk artifact carries the whole text and outranks the chunks, which
\* may be partial: the buffer can have been trimmed before the client came.
Assembled(evs) == IF Final(evs) # <<>> THEN Final(evs) ELSE Collected(evs)

\* What has gone out on the stream of s.
Sent(s) == got[s] \o coda[s]

\* A client whose stream reported the final status of a completed task returns
\* the whole text: late subscription, trimming, and being dropped and caught up
\* by emitFinal, which repeats events already delivered, never leave it with a
\* part of the text or with a text put together twice.
AnswerIsWhole ==
    \A s \in Subs :
        (/\ why[s] \in {"closed", "slow"}
         /\ MaxBuf > 1
         /\ \E i \in DOMAIN Sent(s) : IsFinal(Sent(s)[i])
         /\ \E i \in DOMAIN log : IsLastChunk(log[i]))
        => Assembled(Sent(s)) = << Len(log) - 1 >>

=============================================================================
