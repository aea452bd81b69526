------------------------------ MODULE TaskFeed ------------------------------
(***************************************************************************)
(* What the broker of a task promises its subscribers, with no buffer, no  *)
(* channel and no lock.  The task writes one feed.  A reader joins         *)
(* somewhere at or before its end and reads on without a gap, until it     *)
(* leaves of its own accord or is sent away.  It is sent away at the end   *)
(* of a sealed feed, or at the place where it was cut off; and it can be   *)
(* cut off only with Lag events still unread and one more written.         *)
(***************************************************************************)
EXTENDS Naturals, Sequences

CONSTANTS Readers, Lag

VARIABLES
    feed,       \* the events written so far
    sealed,     \* nothing more will be written
    start,      \* the position a reader joined at
    seen,       \* what it has read
    cutAt,      \* the last position it may read, 0 when it was not cut off
    state       \* "out", "in", "left" or "ended"

feedVars == <<feed, sealed, start, seen, cutAt, state>>

Entry == [n : Nat, kind : {"status", "artifact"}, end : BOOLEAN, append : BOOLEAN]

\* The position a reader reads next, and the last one open to it.
Position(r) == start[r] + Len(seen[r])
Limit(r) == IF cutAt[r] = 0 THEN Len(feed) ELSE cutAt[r]

FeedInit ==
    /\ feed = <<>>
    /\ sealed = FALSE
    /\ start = [r \in Readers |-> 1]
    /\ seen = [r \in Readers |-> <<>>]
    /\ cutAt = [r \in Readers |-> 0]
    /\ state = [r \in Readers |-> "out"]

\* Writing an event may cut off readers that have Lag events unread.
Write ==
    /\ ~sealed
    /\ feed' \in Seq(Entry)
    /\ Len(feed') = Len(feed) + 1
    /\ SubSeq(feed', 1, Len(feed)) = feed
    /\ \E late \in SUBSET {r \in Readers : state[r] # "out" /\ cutAt[r] = 0} :
         /\ \A r \in late : Len(feed) + 1 >= Position(r) + Lag
         /\ cutAt' = [r \in Readers |-> IF r \in late THEN Len(feed) ELSE cutAt[r]]
    /\ UNCHANGED <<sealed, start, seen, state>>

Seal ==
    /\ ~sealed
    /\ sealed' = TRUE
    /\ UNCHANGED <<feed, start, seen, cutAt, state>>

Join(r) ==
    /\ state[r] = "out"
    /\ state' = [state EXCEPT ![r] = "in"]
    /\ \E i \in 1 .. Len(feed) + 1 : start' = [start EXCEPT ![r] = i]
    /\ UNCHANGED <<feed, sealed, seen, cutAt>>

\* A reader may leave on reading an event it cannot use.
Read(r) ==
    /\ state[r] = "in"
    /\ Position(r) <= Limit(r)
    /\ seen' = [seen EXCEPT ![r] = Append(@, feed[Position(r)])]
    /\ \E after \in {"in", "left"} : state' = [state EXCEPT ![r] = after]
    /\ UNCHANGED <<feed, sealed, start, cutAt>>

Leave(r) ==
    /\ state[r] = "in"
    /\ state' = [state EXCEPT ![r] = "left"]
    /\ UNCHANGED <<feed, sealed, start, seen, cutAt>>

SendAway(r) ==
    /\ state[r] = "in"
    /\ sealed \/ cutAt[r] # 0
    /\ Position(r) = Limit(r) + 1
    /\ state' = [state EXCEPT ![r] = "ended"]
    /\ UNCHANGED <<feed, sealed, start, seen, cutAt>>

FeedNext ==
    \/ Write \/ Seal
    \/ \E r \in Readers : Join(r) \/ Read(r) \/ Leave(r) \/ SendAway(r)

FeedSpec == FeedInit /\ [][FeedNext]_feedVars

=============================================================================
