------------------------------ MODULE Session ------------------------------
(***************************************************************************)
(* The history of a conversation (session.go): a sequence of messages,     *)
(* each with the role of its author.                                       *)
(***************************************************************************)
EXTENDS Naturals, Sequences

UserTurns(h) == {i \in DOMAIN h : h[i].role = "user"}

\* Mutant of First: a window without a user turn ahead of it is not widened.
FirstForward(h, keepLast) ==
    LET from == IF Len(h) > keepLast THEN Len(h) - keepLast + 1 ELSE 1
        at   == {i \in UserTurns(h) : i >= from}
    IN  IF at # {} THEN CHOOSE i \in at : \A j \in at : i <= j ELSE Len(h) + 1

\* The message Trim keeps first: back from the window to the user turn it falls
\* into, or forward to the next one when there is none, or past the end.
First(h, keepLast) ==
    LET from   == IF Len(h) > keepLast THEN Len(h) - keepLast + 1 ELSE 1
        before == {i \in UserTurns(h) : i <= from}
    IN  IF before # {} THEN CHOOSE i \in before : \A j \in before : j <= i
        ELSE IF UserTurns(h) # {}
        THEN CHOOSE i \in UserTurns(h) : \A j \in UserTurns(h) : i <= j
        ELSE Len(h) + 1

\* Session.Trim.
Trim(h, keepLast) ==
    IF keepLast = 0 THEN <<>> ELSE SubSeq(h, First(h, keepLast), Len(h))

=============================================================================
