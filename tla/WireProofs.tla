----------------------------- MODULE WireProofs -----------------------------
(***************************************************************************)
(* What each adapter makes of a conversation keeps its turns, and the      *)
(* provider accepts it (Wire), for conversations of any length, replies of *)
(* any number of blocks and any parameters.                                *)
(*                                                                         *)
(* All of it is about sequences that are flattened, and how they grow, so  *)
(* the lemmas come first: induction by a least counterexample, what is in  *)
(* a flattened sequence, and that it grows at its end.  StreamProofs uses  *)
(* them too.                                                               *)
(***************************************************************************)
EXTENDS Wire, Integers, SequencesExt, SequenceTheorems,
        FiniteSetTheorems, WellFoundedInduction, TLAPS

-----------------------------------------------------------------------------
(* Induction, over a set of numbers or of sequences.                       *)

LEMMA NumbersByInduction ==
    ASSUME NEW G, 0 \in G, \A n \in Nat : n \in G => n + 1 \in G
    PROVE  Nat \subseteq G
<1> DEFINE odd == {n \in Nat : n \notin G}
           R == OpToRel(<, Nat)
<1>1. ASSUME odd # {}
      PROVE  FALSE
  <2>1. odd \subseteq Nat
    OBVIOUS
  <2>2. \E x \in odd : \A y \in odd : ~(<<y, x>> \in R)
    <3>. HIDE DEF odd
    <3>. QED
      BY <1>1, <2>1, NatLessThanWellFounded, WFMin
  <2>3. PICK x \in odd : \A y \in odd : ~(y < x)
    BY <2>1, <2>2 DEF OpToRel
  <2>4. x - 1 \in Nat /\ x - 1 < x /\ (x - 1) + 1 = x
    BY <2>3
  <2>5. x - 1 \in G
    BY <2>3, <2>4
  <2>. QED
    BY <2>3, <2>4, <2>5
<1>. QED
  BY <1>1

LEMMA SequencesByInduction ==
    ASSUME NEW S, NEW G, <<>> \in G, \A s \in Seq(S) : \A x \in S : s \in G => Append(s, x) \in G
    PROVE  Seq(S) \subseteq G
<1> DEFINE N == {n \in Nat : \A s \in Seq(S) : Len(s) = n => s \in G}
<1>1. 0 \in N
  <2>1. \A s \in Seq(S) : Len(s) = 0 => s = <<>>
    BY EmptySeq
  <2>. QED
    BY <2>1
<1>2. ASSUME NEW n \in Nat, n \in N
      PROVE  n + 1 \in N
  <2>. SUFFICES ASSUME NEW s \in Seq(S), Len(s) = n + 1
                PROVE  s \in G
    OBVIOUS
  <2> DEFINE f == SubSeq(s, 1, n)
             x == s[n + 1]
  <2>1. \A i \in 1 .. n + 1 : s[i] \in S
    BY ElementOfSeq
  <2>2. f \in Seq(S) /\ Len(f) = n /\ \A i \in 1 .. n : f[i] = s[i]
    <3>1. /\ f \in Seq(S) /\ Len(f) = IF 1 <= n THEN n - 1 + 1 ELSE 0
          /\ \A i \in 1 .. n - 1 + 1 : f[i] = s[1 + i - 1]
      BY <2>1, SubSeqProperties
    <3>. HIDE DEF f
    <3>. QED
      BY <3>1
  <2>3. x \in S
    BY <2>1
  <2>. HIDE DEF f, x
  <2>4. Append(f, x) = s
    <3>1. /\ Append(f, x) \in Seq(S) /\ Len(Append(f, x)) = n + 1 /\ Append(f, x)[n + 1] = x
          /\ \A i \in 1 .. n : Append(f, x)[i] = f[i]
      BY <2>2, <2>3, AppendProperties
    <3>2. \A i \in 1 .. n + 1 : i = n + 1 \/ i \in 1 .. n
      OBVIOUS
    <3>3. \A i \in 1 .. n + 1 : Append(f, x)[i] = s[i]
      BY <2>2, <3>1, <3>2 DEF x
    <3>. QED
      BY <3>1, <3>3, SeqEqual
  <2>5. f \in G
    BY <1>2, <2>2
  <2>. QED
    BY <2>2, <2>3, <2>4, <2>5
<1>3. Nat \subseteq N
  <2>. HIDE DEF N
  <2>. QED
    BY <1>1, <1>2, NumbersByInduction
<1>. QED
  BY <1>3, LenProperties

-----------------------------------------------------------------------------
(* FlattenSeq, piece by piece.                                             *)

\* f is the recursive function of FlattenSeq's definition.
Flattens(f, ss) == f = [i \in 1 .. Len(ss) |-> IF i = 1 THEN ss[i] ELSE f[i - 1] \o ss[i]]

LEMMA FlatteningExists ==
    ASSUME NEW T
    PROVE  \A ss \in Seq(T) : \E f : Flattens(f, ss)
<1> DEFINE G == {ss \in Seq(T) : \E f : Flattens(f, ss)}
<1>1. <<>> \in G
  <2>1. Flattens([i \in 1 .. 0 |-> 0], <<>>)
    BY DEF Flattens
  <2>. QED
    BY <2>1
<1>2. ASSUME NEW ss \in Seq(T), NEW t \in T, ss \in G
      PROVE  Append(ss, t) \in G
  <2> DEFINE n == Len(ss)
             rr == Append(ss, t)
  <2>1. PICK f : f = [i \in 1 .. n |-> IF i = 1 THEN ss[i] ELSE f[i - 1] \o ss[i]]
    BY <1>2 DEF Flattens
  <2>2. /\ rr \in Seq(T) /\ Len(rr) = n + 1 /\ n \in Nat
        /\ \A i \in 1 .. n : rr[i] = ss[i]
    BY AppendProperties, LenProperties
  <2> DEFINE g == [i \in 1 .. n + 1 |-> IF i \in 1 .. n THEN f[i] ELSE IF i = 1 THEN rr[i] ELSE f[i - 1] \o rr[i]]
  <2>. HIDE DEF n, rr
  <2>3. ASSUME NEW i \in 1 .. n + 1
        PROVE  g[i] = IF i = 1 THEN rr[i] ELSE g[i - 1] \o rr[i]
    <3>1. CASE i \in 1 .. n
      <4>1. g[i] = f[i] /\ f[i] = IF i = 1 THEN ss[i] ELSE f[i - 1] \o ss[i]
        BY <2>1, <2>2, <3>1
      <4>2. i # 1 => i - 1 \in 1 .. n /\ i - 1 \in 1 .. n + 1
        BY <2>2, <3>1
      <4>3. i # 1 => g[i - 1] = f[i - 1]
        BY <4>2
      <4>. QED
        BY <2>2, <3>1, <4>1, <4>3
    <3>2. CASE i = n + 1
      <4>1. g[i] = IF i = 1 THEN rr[i] ELSE f[i - 1] \o rr[i]
        BY <2>2, <3>2
      <4>2. i # 1 => i - 1 \in 1 .. n /\ i - 1 \in 1 .. n + 1
        BY <2>2, <3>2
      <4>3. i # 1 => g[i - 1] = f[i - 1]
        BY <4>2
      <4>. QED
        BY <4>1, <4>3
    <3>. QED
      BY <2>2, <3>1, <3>2
  <2>4. g = [i \in 1 .. Len(rr) |-> IF i = 1 THEN rr[i] ELSE g[i - 1] \o rr[i]]
    <3>1. g = [i \in 1 .. n + 1 |-> g[i]]
      OBVIOUS
    <3>. HIDE DEF g
    <3>. QED
      BY <2>2, <2>3, <3>1
  <2>5. \E h : Flattens(h, rr)
    <3>. HIDE DEF g
    <3>. QED
      BY <2>4 DEF Flattens
  <2>. QED
    BY <2>2, <2>5 DEF rr
<1>. HIDE DEF G
<1>3. Seq(T) \subseteq G
  BY <1>1, <1>2, SequencesByInduction
<1>. QED
  BY <1>3 DEF G

\* The flattening of a longer sequence agrees with that of a shorter one.
LEMMA FlatteningAgrees ==
    ASSUME NEW T, NEW ss \in Seq(T), NEW t \in T, NEW f, NEW g, Flattens(f, ss), Flattens(g, Append(ss, t))
    PROVE  \A i \in 1 .. Len(ss) : g[i] = f[i]
<1> DEFINE n == Len(ss)
           rr == Append(ss, t)
           G == {i \in Nat : i \in 1 .. n => g[i] = f[i]}
<1>1. /\ Len(rr) = n + 1 /\ n \in Nat
      /\ \A i \in 1 .. n : rr[i] = ss[i]
  BY AppendProperties, LenProperties
<1>2. /\ f = [i \in 1 .. n |-> IF i = 1 THEN ss[i] ELSE f[i - 1] \o ss[i]]
      /\ g = [i \in 1 .. n + 1 |-> IF i = 1 THEN rr[i] ELSE g[i - 1] \o rr[i]]
  BY <1>1 DEF Flattens
<1>. HIDE DEF n, rr
<1>3. 0 \in G
  OBVIOUS
<1>4. ASSUME NEW i \in Nat, i \in G
      PROVE  i + 1 \in G
  <2>. SUFFICES ASSUME i + 1 \in 1 .. n
                PROVE  g[i + 1] = f[i + 1]
    OBVIOUS
  <2>1. i + 1 \in 1 .. n + 1 /\ (i + 1) - 1 = i
    BY <1>1
  <2>2. /\ f[i + 1] = IF i + 1 = 1 THEN ss[i + 1] ELSE f[i] \o ss[i + 1]
        /\ g[i + 1] = IF i + 1 = 1 THEN rr[i + 1] ELSE g[i] \o rr[i + 1]
    BY <1>2, <2>1
  <2>3. i + 1 # 1 => g[i] = f[i]
    BY <1>1, <1>4
  <2>. QED
    BY <1>1, <2>2, <2>3
<1>5. Nat \subseteq G
  <2>. HIDE DEF G
  <2>. QED
    BY <1>3, <1>4, NumbersByInduction
<1>6. \A i \in 1 .. n : g[i] = f[i]
  BY <1>1, <1>5
<1>. QED
  BY <1>6 DEF n

LEMMA FlattenAppend ==
    ASSUME NEW S, NEW ss \in Seq(Seq(S)), NEW t \in Seq(S)
    PROVE  FlattenSeq(Append(ss, t)) = FlattenSeq(ss) \o t
<1> DEFINE n == Len(ss)
           rr == Append(ss, t)
           f == CHOOSE h : Flattens(h, ss)
           g == CHOOSE h : Flattens(h, rr)
<1>1. /\ rr \in Seq(Seq(S)) /\ Len(rr) = n + 1 /\ n \in Nat /\ rr[n + 1] = t
  BY AppendProperties, LenProperties
<1>2. Flattens(f, ss) /\ Flattens(g, rr)
  <2>1. \E h : Flattens(h, ss)
    BY FlatteningExists
  <2>2. \E h : Flattens(h, rr)
    BY <1>1, FlatteningExists
  <2>. QED
    BY <2>1, <2>2
<1>3. FlattenSeq(ss) = IF n = 0 THEN ss ELSE f[n]
  BY DEF FlattenSeq, Flattens
<1>4. FlattenSeq(rr) = g[n + 1]
  <2>1. FlattenSeq(rr) = IF Len(rr) = 0 THEN rr ELSE g[Len(rr)]
    BY DEF FlattenSeq, Flattens
  <2>. HIDE DEF g, rr
  <2>. QED
    BY <1>1, <2>1
<1>5. g[n + 1] = IF n + 1 = 1 THEN rr[n + 1] ELSE g[n] \o rr[n + 1]
  <2>1. g = [i \in 1 .. n + 1 |-> IF i = 1 THEN rr[i] ELSE g[i - 1] \o rr[i]]
    <3>. HIDE DEF g, rr
    <3>. QED
      BY <1>1, <1>2 DEF Flattens
  <2>2. n + 1 \in 1 .. n + 1 /\ (n + 1) - 1 = n
    BY <1>1
  <2>. HIDE DEF g, rr, n
  <2>. QED
    BY <2>1, <2>2
<1>6. n # 0 => g[n] = f[n]
  <2>1. \A i \in 1 .. n : g[i] = f[i]
    <3>. HIDE DEF f, g
    <3>. QED
      BY <1>2, FlatteningAgrees
  <2>. HIDE DEF f, g, n
  <2>. QED
    BY <1>1, <2>1
<1>7. n = 0 => ss = <<>> /\ ss \o t = t
  BY EmptySeq, ConcatEmptySeq
<1>. HIDE DEF f, g, n, rr
<1>8. FlattenSeq(rr) = FlattenSeq(ss) \o t
  <2>1. CASE n = 0
    BY <1>1, <1>3, <1>4, <1>5, <1>7, <2>1
  <2>2. CASE n # 0
    <3>1. n + 1 # 1
      BY <1>1, <2>2
    <3>. QED
      BY <1>1, <1>3, <1>4, <1>5, <1>6, <2>2, <3>1
  <2>. QED
    BY <2>1, <2>2
<1>. QED
  BY <1>8 DEF rr

LEMMA FlattenNothing == FlattenSeq(<<>>) = <<>>
BY DEF FlattenSeq

LEMMA FlattenType ==
    ASSUME NEW S
    PROVE  \A ss \in Seq(Seq(S)) : FlattenSeq(ss) \in Seq(S)
<1> DEFINE G == {ss \in Seq(Seq(S)) : FlattenSeq(ss) \in Seq(S)}
<1>1. <<>> \in G
  <2>1. <<>> \in Seq(S)
    OBVIOUS
  <2>2. <<>> \in Seq(Seq(S))
    OBVIOUS
  <2>. QED
    BY <2>1, <2>2, FlattenNothing
<1>2. ASSUME NEW ss \in Seq(Seq(S)), NEW t \in Seq(S), ss \in G
      PROVE  Append(ss, t) \in G
  <2>1. FlattenSeq(ss) \o t \in Seq(S)
    BY <1>2, ConcatProperties
  <2>2. Append(ss, t) \in Seq(Seq(S))
    BY AppendProperties
  <2>. QED
    BY <2>1, <2>2, FlattenAppend
<1>. HIDE DEF G
<1>3. Seq(Seq(S)) \subseteq G
  BY <1>1, <1>2, SequencesByInduction
<1>. QED
  BY <1>3 DEF G

LEMMA SetOfConcat ==
    ASSUME NEW S, NEW s \in Seq(S), NEW t \in Seq(S)
    PROVE  ToSet(s \o t) = ToSet(s) \cup ToSet(t)
<1> DEFINE m == Len(s)
           n == Len(t)
           u == s \o t
<1>1. /\ m \in Nat /\ n \in Nat /\ Len(u) = m + n /\ u \in Seq(S)
      /\ \A i \in 1 .. m + n : u[i] = IF i <= m THEN s[i] ELSE t[i - m]
  BY ConcatProperties, LenProperties
<1>2. DOMAIN u = 1 .. m + n /\ DOMAIN s = 1 .. m /\ DOMAIN t = 1 .. n
  BY <1>1, LenProperties
<1>. HIDE DEF m, n, u
<1>3. \A i \in 1 .. m : i \in 1 .. m + n /\ i <= m
  BY <1>1
<1>4. \A j \in 1 .. n : j + m \in 1 .. m + n /\ ~(j + m <= m) /\ (j + m) - m = j
  BY <1>1
<1>5. ToSet(u) \subseteq ToSet(s) \cup ToSet(t)
  <2>. SUFFICES ASSUME NEW i \in 1 .. m + n
                PROVE  u[i] \in ToSet(s) \cup ToSet(t)
    BY <1>2 DEF ToSet
  <2>1. CASE i <= m
    <3>1. i \in 1 .. m /\ u[i] = s[i]
      BY <1>1, <2>1
    <3>. QED
      BY <1>2, <3>1 DEF ToSet
  <2>2. CASE ~(i <= m)
    <3>1. i - m \in 1 .. n /\ u[i] = t[i - m]
      BY <1>1, <2>2
    <3>. QED
      BY <1>2, <3>1 DEF ToSet
  <2>. QED
    BY <2>1, <2>2
<1>6. ToSet(s) \subseteq ToSet(u)
  BY <1>1, <1>2, <1>3 DEF ToSet
<1>7. ToSet(t) \subseteq ToSet(u)
  <2>1. \A j \in 1 .. n : u[j + m] = t[j]
    BY <1>1, <1>4
  <2>. QED
    BY <1>2, <1>4, <2>1 DEF ToSet
<1>. QED
  BY <1>5, <1>6, <1>7 DEF u

LEMMA NoMembers ==
    ASSUME NEW S, NEW s \in Seq(S)
    PROVE  ToSet(s) = {} <=> s = <<>>
<1>1. ToSet(<<>>) = {}
  BY DEF ToSet
<1>2. s # <<>> => 1 \in DOMAIN s
  BY EmptySeq, LenProperties
<1>3. s # <<>> => s[1] \in ToSet(s)
  BY <1>2 DEF ToSet
<1>. QED
  BY <1>1, <1>3

\* A function on an initial interval, taken apart at its last place.
LEMMA FunctionAppend ==
    ASSUME NEW T, NEW n \in Nat, NEW f \in [1 .. n + 1 -> T]
    PROVE  /\ [i \in 1 .. n |-> f[i]] \in Seq(T)
           /\ f = Append([i \in 1 .. n |-> f[i]], f[n + 1])
<1> DEFINE g == [i \in 1 .. n |-> f[i]]
<1>1. g \in Seq(T) /\ Len(g) = n /\ f[n + 1] \in T /\ f \in Seq(T) /\ Len(f) = n + 1
  OBVIOUS
<1>2. \A i \in 1 .. n : g[i] = f[i]
  OBVIOUS
<1>. HIDE DEF g
<1>3. /\ Append(g, f[n + 1]) \in Seq(T) /\ Len(Append(g, f[n + 1])) = n + 1
      /\ Append(g, f[n + 1])[n + 1] = f[n + 1]
      /\ \A i \in 1 .. n : Append(g, f[n + 1])[i] = g[i]
  BY <1>1, AppendProperties
<1>4. \A i \in 1 .. n + 1 : i = n + 1 \/ i \in 1 .. n
  OBVIOUS
<1>5. \A i \in 1 .. n + 1 : Append(g, f[n + 1])[i] = f[i]
  BY <1>2, <1>3, <1>4
<1>6. Append(g, f[n + 1]) = f
  BY <1>1, <1>3, <1>5, SeqEqual
<1>. QED
  BY <1>1, <1>6 DEF g

LEMMA ConcatAppend ==
    ASSUME NEW S, NEW s \in Seq(S), NEW t \in Seq(S), NEW x \in S
    PROVE  s \o Append(t, x) = Append(s \o t, x)
<1>1. Append(t, x) = t \o <<x>> /\ <<x>> \in Seq(S)
  BY AppendIsConcat
<1>2. s \o t \in Seq(S)
  BY ConcatProperties
<1>3. Append(s \o t, x) = (s \o t) \o <<x>>
  BY <1>2, AppendIsConcat
<1>4. (s \o t) \o <<x>> = s \o (t \o <<x>>)
  BY <1>1, ConcatAssociative
<1>. QED
  BY <1>1, <1>3, <1>4

LEMMA FlattenConcat ==
    ASSUME NEW S, NEW a \in Seq(Seq(S))
    PROVE  \A b \in Seq(Seq(S)) : FlattenSeq(a \o b) = FlattenSeq(a) \o FlattenSeq(b)
<1> DEFINE G == {b \in Seq(Seq(S)) : FlattenSeq(a \o b) = FlattenSeq(a) \o FlattenSeq(b)}
<1>1. <<>> \in G
  <2>1. <<>> \in Seq(Seq(S))
    OBVIOUS
  <2>2. a \o <<>> = a /\ FlattenSeq(a) \o <<>> = FlattenSeq(a)
    BY FlattenType, ConcatEmptySeq
  <2>. QED
    BY <2>1, <2>2, FlattenNothing
<1>2. ASSUME NEW b \in Seq(Seq(S)), NEW t \in Seq(S), b \in G
      PROVE  Append(b, t) \in G
  <2>1. a \o b \in Seq(Seq(S)) /\ Append(b, t) \in Seq(Seq(S))
    BY ConcatProperties, AppendProperties
  <2>2. a \o Append(b, t) = Append(a \o b, t)
    BY ConcatAppend
  <2>3. FlattenSeq(Append(a \o b, t)) = FlattenSeq(a \o b) \o t
    BY <2>1, FlattenAppend
  <2>4. FlattenSeq(Append(b, t)) = FlattenSeq(b) \o t
    BY FlattenAppend
  <2>5. FlattenSeq(a) \in Seq(S) /\ FlattenSeq(b) \in Seq(S)
    BY FlattenType
  <2>6. (FlattenSeq(a) \o FlattenSeq(b)) \o t = FlattenSeq(a) \o (FlattenSeq(b) \o t)
    BY <2>5, ConcatAssociative
  <2>. QED
    BY <1>2, <2>1, <2>2, <2>3, <2>4, <2>6
<1>. HIDE DEF G
<1>3. Seq(Seq(S)) \subseteq G
  BY <1>1, <1>2, SequencesByInduction
<1>. QED
  BY <1>3 DEF G

LEMMA FlattenOne ==
    ASSUME NEW S, NEW s \in Seq(S)
    PROVE  FlattenSeq(<<s>>) = s
<1>1. <<>> \in Seq(Seq(S))
  OBVIOUS
<1>2. FlattenSeq(Append(<<>>, s)) = FlattenSeq(<<>>) \o s
  BY <1>1, FlattenAppend
<1>3. Append(<<>>, s) = <<s>>
  OBVIOUS
<1>. QED
  BY <1>2, <1>3, FlattenNothing, ConcatEmptySeq

\* What is flattened is in one of the pieces.
LEMMA FlattenMembers ==
    ASSUME NEW S
    PROVE  \A ss \in Seq(Seq(S)) : ToSet(FlattenSeq(ss)) = UNION {ToSet(ss[i]) : i \in 1 .. Len(ss)}
<1> DEFINE All(ss) == UNION {ToSet(ss[i]) : i \in 1 .. Len(ss)}
           G == {ss \in Seq(Seq(S)) : ToSet(FlattenSeq(ss)) = All(ss)}
<1>1. <<>> \in G
  <2>1. <<>> \in Seq(Seq(S)) /\ ToSet(<<>>) = {} /\ All(<<>>) = {}
    BY DEF ToSet
  <2>. QED
    BY <2>1, FlattenNothing
<1>2. ASSUME NEW ss \in Seq(Seq(S)), NEW t \in Seq(S), ss \in G
      PROVE  Append(ss, t) \in G
  <2>1. /\ Append(ss, t) \in Seq(Seq(S)) /\ Len(Append(ss, t)) = Len(ss) + 1 /\ Len(ss) \in Nat
        /\ Append(ss, t)[Len(ss) + 1] = t
        /\ \A i \in 1 .. Len(ss) : Append(ss, t)[i] = ss[i]
    BY AppendProperties, LenProperties
  <2>2. All(Append(ss, t)) = All(ss) \cup ToSet(t)
    <3> DEFINE rr == Append(ss, t)
               n == Len(ss)
    <3>1. \A i \in 1 .. n + 1 : i = n + 1 \/ i \in 1 .. n
      BY <2>1
    <3>2. n + 1 \in 1 .. n + 1 /\ \A i \in 1 .. n : i \in 1 .. n + 1
      BY <2>1
    <3>. HIDE DEF rr, n
    <3>3. \A x : x \in UNION {ToSet(rr[i]) : i \in 1 .. n + 1} <=> \E i \in 1 .. n + 1 : x \in ToSet(rr[i])
      OBVIOUS
    <3>. QED
      BY <2>1, <3>1, <3>2, <3>3 DEF rr, n
  <2>3. FlattenSeq(ss) \in Seq(S)
    BY FlattenType
  <2>4. ToSet(FlattenSeq(ss) \o t) = ToSet(FlattenSeq(ss)) \cup ToSet(t)
    BY <2>3, SetOfConcat
  <2>. HIDE DEF All
  <2>5. ToSet(FlattenSeq(Append(ss, t))) = All(Append(ss, t))
    BY <1>2, <2>2, <2>4, FlattenAppend DEF All
  <2>. QED
    BY <2>1, <2>5 DEF All
<1>. HIDE DEF G
<1>3. Seq(Seq(S)) \subseteq G
  BY <1>1, <1>2, SequencesByInduction
<1>. QED
  BY <1>3 DEF G
-----------------------------------------------------------------------------
(* The parts of the given kinds.                                           *)

LEMMA OnlyPieces ==
    ASSUME NEW S, NEW s \in Seq(S), NEW K
    PROVE  [i \in 1 .. Len(s) |-> IF s[i].kind \in K THEN <<s[i]>> ELSE <<>>] \in Seq(Seq(S))
<1>1. \A i \in 1 .. Len(s) : s[i] \in S
  BY ElementOfSeq
<1>2. Len(s) \in Nat
  OBVIOUS
<1>3. \A x \in S : <<x>> \in Seq(S)
  OBVIOUS
<1>4. <<>> \in Seq(S)
  OBVIOUS
<1>. QED
  BY <1>1, <1>2, <1>3, <1>4

LEMMA OnlyType ==
    ASSUME NEW S, NEW s \in Seq(S), NEW K
    PROVE  Only(K, s) \in Seq(S)
BY OnlyPieces, FlattenType DEF Only

LEMMA OnlyOfNothing ==
    ASSUME NEW K
    PROVE  Only(K, <<>>) = <<>>
<1>1. [i \in 1 .. Len(<<>>) |-> IF <<>>[i].kind \in K THEN <<<<>>[i]>> ELSE <<>>] = <<>>
  OBVIOUS
<1>. QED
  BY <1>1, FlattenNothing DEF Only

LEMMA OnlyAppend ==
    ASSUME NEW S, NEW s \in Seq(S), NEW x \in S, NEW K
    PROVE  Only(K, Append(s, x)) = IF x.kind \in K THEN Append(Only(K, s), x) ELSE Only(K, s)
<1> DEFINE n == Len(s)
           r == Append(s, x)
           f == [i \in 1 .. n + 1 |-> IF r[i].kind \in K THEN <<r[i]>> ELSE <<>>]
           g == [i \in 1 .. n |-> IF s[i].kind \in K THEN <<s[i]>> ELSE <<>>]
           p == IF x.kind \in K THEN <<x>> ELSE <<>>
<1>1. /\ r \in Seq(S) /\ Len(r) = n + 1 /\ n \in Nat /\ r[n + 1] = x
      /\ \A i \in 1 .. n : r[i] = s[i]
  BY AppendProperties, LenProperties
<1>2. g \in Seq(Seq(S)) /\ f \in Seq(Seq(S)) /\ Len(f) = n + 1
  BY <1>1, OnlyPieces
<1>3. f \in [1 .. n + 1 -> Seq(S)]
  BY <1>2, LenProperties
<1>4. f[n + 1] = p /\ p \in Seq(S)
  BY <1>1
<1>5. [i \in 1 .. n |-> f[i]] = g
  <2>1. \A i \in 1 .. n : i \in 1 .. n + 1 /\ f[i] = IF r[i].kind \in K THEN <<r[i]>> ELSE <<>>
    BY <1>1
  <2>. HIDE DEF f, r, n
  <2>. QED
    BY <1>1, <2>1
<1>6. Only(K, r) = FlattenSeq(f) /\ Only(K, s) = FlattenSeq(g)
  <2>1. Only(K, r) = FlattenSeq([i \in 1 .. Len(r) |-> IF r[i].kind \in K THEN <<r[i]>> ELSE <<>>])
    BY DEF Only
  <2>2. Only(K, s) = FlattenSeq(g)
    BY DEF Only
  <2>. HIDE DEF r, g
  <2>. QED
    BY <1>1, <2>1, <2>2
<1>. HIDE DEF f, g, p, r, n
<1>7. f = Append(g, p)
  BY <1>1, <1>3, <1>4, <1>5, FunctionAppend
<1>8. Only(K, r) = Only(K, s) \o p
  BY <1>2, <1>4, <1>6, <1>7, FlattenAppend
<1>9. Only(K, s) \in Seq(S)
  BY OnlyType
<1>10. CASE x.kind \in K
  BY <1>8, <1>9, <1>10, AppendIsConcat DEF p, r
<1>11. CASE x.kind \notin K
  BY <1>8, <1>9, <1>11, ConcatEmptySeq DEF p, r
<1>. QED
  BY <1>10, <1>11

LEMMA OnlyConcat ==
    ASSUME NEW S, NEW s \in Seq(S), NEW K
    PROVE  \A t \in Seq(S) : Only(K, s \o t) = Only(K, s) \o Only(K, t)
<1> DEFINE G == {t \in Seq(S) : Only(K, s \o t) = Only(K, s) \o Only(K, t)}
<1>1. <<>> \in G
  <2>1. <<>> \in Seq(S)
    OBVIOUS
  <2>2. s \o <<>> = s /\ Only(K, s) \o <<>> = Only(K, s)
    BY OnlyType, ConcatEmptySeq
  <2>. QED
    BY <2>1, <2>2, OnlyOfNothing
<1>2. ASSUME NEW t \in Seq(S), NEW x \in S, t \in G
      PROVE  Append(t, x) \in G
  <2>1. s \o t \in Seq(S) /\ Append(t, x) \in Seq(S) /\ s \o Append(t, x) = Append(s \o t, x)
    BY ConcatProperties, AppendProperties, ConcatAppend
  <2>2. /\ Only(K, Append(s \o t, x)) = IF x.kind \in K THEN Append(Only(K, s \o t), x) ELSE Only(K, s \o t)
        /\ Only(K, Append(t, x)) = IF x.kind \in K THEN Append(Only(K, t), x) ELSE Only(K, t)
    BY <2>1, OnlyAppend
  <2>3. Only(K, s) \o Append(Only(K, t), x) = Append(Only(K, s) \o Only(K, t), x)
    BY OnlyType, ConcatAppend
  <2>. QED
    BY <1>2, <2>1, <2>2, <2>3
<1>. HIDE DEF G
<1>3. Seq(S) \subseteq G
  BY <1>1, <1>2, SequencesByInduction
<1>. QED
  BY <1>3 DEF G

LEMMA OnlyOfFlatten ==
    ASSUME NEW S, NEW K
    PROVE  \A ss \in Seq(Seq(S)) :
              Only(K, FlattenSeq(ss)) = FlattenSeq([i \in 1 .. Len(ss) |-> Only(K, ss[i])])
<1> DEFINE P(ss) == [i \in 1 .. Len(ss) |-> Only(K, ss[i])]
           G == {ss \in Seq(Seq(S)) : Only(K, FlattenSeq(ss)) = FlattenSeq(P(ss))}
<1>1. <<>> \in G
  <2>1. <<>> \in Seq(Seq(S))
    OBVIOUS
  <2>2. P(<<>>) = <<>>
    OBVIOUS
  <2>. QED
    BY <2>1, <2>2, FlattenNothing, OnlyOfNothing
<1>2. ASSUME NEW ss \in Seq(Seq(S)), NEW t \in Seq(S), ss \in G
      PROVE  Append(ss, t) \in G
  <2> DEFINE n == Len(ss)
             rr == Append(ss, t)
             f == P(rr)
  <2>1. /\ rr \in Seq(Seq(S)) /\ Len(rr) = n + 1 /\ n \in Nat /\ rr[n + 1] = t
        /\ \A i \in 1 .. n : rr[i] = ss[i]
    BY AppendProperties, LenProperties
  <2>2. f = [i \in 1 .. n + 1 |-> Only(K, rr[i])]
    BY <2>1
  <2>3. \A i \in 1 .. n + 1 : rr[i] \in Seq(S)
    BY <2>1, ElementOfSeq
  <2>4. P(ss) = [i \in 1 .. n |-> Only(K, ss[i])]
    OBVIOUS
  <2>. HIDE DEF f, rr, n, P
  <2>5. f \in [1 .. n + 1 -> Seq(S)]
    BY <2>2, <2>3, OnlyType
  <2>6. [i \in 1 .. n |-> f[i]] = P(ss) /\ f[n + 1] = Only(K, t)
    <3>1. \A i \in 1 .. n : i \in 1 .. n + 1
      BY <2>1
    <3>2. n + 1 \in 1 .. n + 1
      BY <2>1
    <3>. QED
      BY <2>1, <2>2, <2>4, <3>1, <3>2
  <2>7. f = Append(P(ss), Only(K, t)) /\ P(ss) \in Seq(Seq(S))
    BY <2>1, <2>5, <2>6, FunctionAppend
  <2>8. FlattenSeq(f) = FlattenSeq(P(ss)) \o Only(K, t)
    BY <2>7, OnlyType, FlattenAppend
  <2>9. Only(K, FlattenSeq(rr)) = Only(K, FlattenSeq(ss)) \o Only(K, t)
    <3>1. FlattenSeq(rr) = FlattenSeq(ss) \o t
      BY FlattenAppend DEF rr
    <3>2. FlattenSeq(ss) \in Seq(S)
      BY FlattenType
    <3>. QED
      BY <3>1, <3>2, OnlyConcat
  <2>. QED
    BY <1>2, <2>1, <2>8, <2>9 DEF f, rr
<1>. HIDE DEF G
<1>3. Seq(Seq(S)) \subseteq G
  BY <1>1, <1>2, SequencesByInduction
<1>. QED
  BY <1>3 DEF G

LEMMA OnlyOfOnly ==
    ASSUME NEW S, NEW K, NEW L
    PROVE  \A s \in Seq(S) : Only(K, Only(L, s)) = Only(K \cap L, s)
<1> DEFINE G == {s \in Seq(S) : Only(K, Only(L, s)) = Only(K \cap L, s)}
<1>1. <<>> \in G
  <2>1. <<>> \in Seq(S)
    OBVIOUS
  <2>. QED
    BY <2>1, OnlyOfNothing
<1>2. ASSUME NEW s \in Seq(S), NEW x \in S, s \in G
      PROVE  Append(s, x) \in G
  <2>1. Append(s, x) \in Seq(S) /\ Only(L, s) \in Seq(S)
    BY AppendProperties, OnlyType
  <2>2. Only(L, Append(s, x)) = IF x.kind \in L THEN Append(Only(L, s), x) ELSE Only(L, s)
    BY OnlyAppend
  <2>3. Only(K, Append(Only(L, s), x)) =
           IF x.kind \in K THEN Append(Only(K, Only(L, s)), x) ELSE Only(K, Only(L, s))
    BY <2>1, OnlyAppend
  <2>4. Only(K \cap L, Append(s, x)) =
           IF x.kind \in K \cap L THEN Append(Only(K \cap L, s), x) ELSE Only(K \cap L, s)
    BY OnlyAppend
  <2>. QED
    BY <1>2, <2>1, <2>2, <2>3, <2>4
<1>. HIDE DEF G
<1>3. Seq(S) \subseteq G
  BY <1>1, <1>2, SequencesByInduction
<1>. QED
  BY <1>3 DEF G

LEMMA OnlyMembers ==
    ASSUME NEW S, NEW s \in Seq(S), NEW K
    PROVE  ToSet(Only(K, s)) = {x \in ToSet(s) : x.kind \in K}
<1> DEFINE f == [i \in 1 .. Len(s) |-> IF s[i].kind \in K THEN <<s[i]>> ELSE <<>>]
           n == Len(s)
<1>1. f \in Seq(Seq(S)) /\ Len(f) = n
  BY OnlyPieces
<1>2. Only(K, s) = FlattenSeq(f)
  BY DEF Only
<1>3. \A i \in 1 .. n : f[i] = IF s[i].kind \in K THEN <<s[i]>> ELSE <<>>
  OBVIOUS
<1>4. \A x : ToSet(<<x>>) = {x}
  BY DEF ToSet
<1>5. ToSet(<<>>) = {}
  BY DEF ToSet
<1>6. ToSet(s) = {s[i] : i \in 1 .. n}
  BY LenProperties DEF ToSet
<1>. HIDE DEF f, n
<1>7. ToSet(FlattenSeq(f)) = UNION {ToSet(f[i]) : i \in 1 .. n}
  BY <1>1, FlattenMembers
<1>8. \A i \in 1 .. n : ToSet(f[i]) = IF s[i].kind \in K THEN {s[i]} ELSE {}
  BY <1>3, <1>4, <1>5
<1>9. ASSUME NEW x
      PROVE  x \in UNION {ToSet(f[i]) : i \in 1 .. n} <=> x \in {s[i] : i \in 1 .. n} /\ x.kind \in K
  <2>1. x \in UNION {ToSet(f[i]) : i \in 1 .. n} <=> \E i \in 1 .. n : x \in ToSet(f[i])
    OBVIOUS
  <2>2. \A i \in 1 .. n : x \in ToSet(f[i]) <=> x = s[i] /\ x.kind \in K
    BY <1>8
  <2>. QED
    BY <2>1, <2>2
<1>. QED
  BY <1>2, <1>6, <1>7, <1>9

\* Only the kinds that occur make a difference.
LEMMA OnlySame ==
    ASSUME NEW S, NEW s \in Seq(S), NEW K, NEW L,
           \A i \in 1 .. Len(s) : s[i].kind \in K <=> s[i].kind \in L
    PROVE  Only(K, s) = Only(L, s)
<1>1. \A i \in 1 .. Len(s) : (IF s[i].kind \in K THEN <<s[i]>> ELSE <<>>)
                             = (IF s[i].kind \in L THEN <<s[i]>> ELSE <<>>)
  OBVIOUS
<1>2. [i \in 1 .. Len(s) |-> IF s[i].kind \in K THEN <<s[i]>> ELSE <<>>]
      = [i \in 1 .. Len(s) |-> IF s[i].kind \in L THEN <<s[i]>> ELSE <<>>]
  BY <1>1
<1>. QED
  BY <1>2 DEF Only

LEMMA OnlyNone ==
    ASSUME NEW S, NEW s \in Seq(S), NEW K, \A i \in 1 .. Len(s) : s[i].kind \notin K
    PROVE  Only(K, s) = <<>>
<1>1. ToSet(Only(K, s)) = {}
  <2>1. \A x \in ToSet(s) : x.kind \notin K
    BY LenProperties DEF ToSet
  <2>. QED
    BY <2>1, OnlyMembers
<1>2. Only(K, s) \in Seq(S)
  BY OnlyType
<1>. QED
  BY <1>1, <1>2, NoMembers

LEMMA OnlySome ==
    ASSUME NEW S, NEW s \in Seq(S), NEW K, NEW i \in 1 .. Len(s), s[i].kind \in K
    PROVE  Only(K, s) # <<>>
<1>1. s[i] \in ToSet(s)
  BY LenProperties DEF ToSet
<1>2. s[i] \in ToSet(Only(K, s))
  BY <1>1, OnlyMembers
<1>3. ToSet(<<>>) = {}
  BY DEF ToSet
<1>. QED
  BY <1>2, <1>3

LEMMA OnlyAll ==
    ASSUME NEW S, NEW K
    PROVE  \A s \in Seq(S) : (\A i \in 1 .. Len(s) : s[i].kind \in K) => Only(K, s) = s
<1> DEFINE A(s) == \A i \in 1 .. Len(s) : s[i].kind \in K
           G == {s \in Seq(S) : A(s) => Only(K, s) = s}
<1>1. <<>> \in G
  <2>1. <<>> \in Seq(S)
    OBVIOUS
  <2>. QED
    BY <2>1, OnlyOfNothing
<1>2. ASSUME NEW s \in Seq(S), NEW x \in S, s \in G
      PROVE  Append(s, x) \in G
  <2>1. /\ Append(s, x) \in Seq(S) /\ Len(Append(s, x)) = Len(s) + 1 /\ Len(s) \in Nat
        /\ Append(s, x)[Len(s) + 1] = x
        /\ \A i \in 1 .. Len(s) : Append(s, x)[i] = s[i]
    BY AppendProperties, LenProperties
  <2>2. A(Append(s, x)) => A(s) /\ x.kind \in K
    <3> DEFINE n == Len(s)
               r == Append(s, x)
    <3>1. n + 1 \in 1 .. n + 1 /\ \A i \in 1 .. n : i \in 1 .. n + 1
      BY <2>1
    <3>. HIDE DEF n, r
    <3>. QED
      BY <2>1, <3>1 DEF n, r
  <2>3. Only(K, Append(s, x)) = IF x.kind \in K THEN Append(Only(K, s), x) ELSE Only(K, s)
    BY OnlyAppend
  <2>. QED
    BY <1>2, <2>1, <2>2, <2>3
<1>. HIDE DEF G
<1>3. Seq(S) \subseteq G
  BY <1>1, <1>2, SequencesByInduction
<1>. QED
  BY <1>3 DEF G
-----------------------------------------------------------------------------
(* Wire messages and their parts.                                          *)

LEMMA PartsPieces ==
    ASSUME NEW S, NEW M, \A m \in M : m.parts \in Seq(S), NEW w \in Seq(M)
    PROVE  [i \in 1 .. Len(w) |-> w[i].parts] \in Seq(Seq(S))
<1>1. \A i \in 1 .. Len(w) : w[i].parts \in Seq(S)
  BY ElementOfSeq
<1>2. Len(w) \in Nat
  OBVIOUS
<1>. QED
  BY <1>1, <1>2

LEMMA PartsType ==
    ASSUME NEW S, NEW M, \A m \in M : m.parts \in Seq(S), NEW w \in Seq(M)
    PROVE  Parts(w) \in Seq(S)
BY PartsPieces, FlattenType DEF Parts

LEMMA PartsOfNothing == Parts(<<>>) = <<>>
<1>1. [i \in 1 .. Len(<<>>) |-> <<>>[i].parts] = <<>>
  OBVIOUS
<1>. QED
  BY <1>1, FlattenNothing DEF Parts

LEMMA PartsAppend ==
    ASSUME NEW S, NEW M, \A m \in M : m.parts \in Seq(S), NEW w \in Seq(M), NEW m \in M
    PROVE  Parts(Append(w, m)) = Parts(w) \o m.parts
<1> DEFINE n == Len(w)
           r == Append(w, m)
           f == [i \in 1 .. n + 1 |-> r[i].parts]
           g == [i \in 1 .. n |-> w[i].parts]
<1>1. /\ r \in Seq(M) /\ Len(r) = n + 1 /\ n \in Nat /\ r[n + 1] = m
      /\ \A i \in 1 .. n : r[i] = w[i]
  BY AppendProperties, LenProperties
<1>2. g \in Seq(Seq(S)) /\ f \in Seq(Seq(S)) /\ Len(f) = n + 1
  <2>1. g \in Seq(Seq(S))
    BY PartsPieces
  <2>2. [i \in 1 .. Len(r) |-> r[i].parts] \in Seq(Seq(S))
    <3>. HIDE DEF r
    <3>. QED
      BY <1>1, PartsPieces
  <2>. QED
    BY <1>1, <2>1, <2>2
<1>3. f \in [1 .. n + 1 -> Seq(S)]
  BY <1>2, LenProperties
<1>4. f[n + 1] = m.parts
  BY <1>1
<1>5. [i \in 1 .. n |-> f[i]] = g
  <2>1. \A i \in 1 .. n : i \in 1 .. n + 1 /\ f[i] = r[i].parts
    BY <1>1
  <2>. HIDE DEF f, r, n
  <2>. QED
    BY <1>1, <2>1
<1>6. Parts(r) = FlattenSeq(f) /\ Parts(w) = FlattenSeq(g)
  <2>1. Parts(r) = FlattenSeq([i \in 1 .. Len(r) |-> r[i].parts])
    BY DEF Parts
  <2>2. Parts(w) = FlattenSeq(g)
    BY DEF Parts
  <2>. HIDE DEF r, g
  <2>. QED
    BY <1>1, <2>1, <2>2
<1>. HIDE DEF f, g, r, n
<1>7. f = Append(g, m.parts)
  BY <1>1, <1>3, <1>4, <1>5, FunctionAppend
<1>8. Parts(r) = Parts(w) \o m.parts
  BY <1>2, <1>6, <1>7, FlattenAppend
<1>. QED
  BY <1>8 DEF r

LEMMA PartsOfOne ==
    ASSUME NEW S, NEW m, m.parts \in Seq(S)
    PROVE  Parts(<<m>>) = m.parts
<1>1. [i \in 1 .. Len(<<m>>) |-> <<m>>[i].parts] = <<m.parts>>
  OBVIOUS
<1>. QED
  BY <1>1, FlattenOne DEF Parts

LEMMA PartsConcat ==
    ASSUME NEW S, NEW M, \A m \in M : m.parts \in Seq(S), NEW v \in Seq(M)
    PROVE  \A w \in Seq(M) : Parts(v \o w) = Parts(v) \o Parts(w)
<1> DEFINE G == {w \in Seq(M) : Parts(v \o w) = Parts(v) \o Parts(w)}
<1>1. <<>> \in G
  <2>1. <<>> \in Seq(M)
    OBVIOUS
  <2>2. v \o <<>> = v /\ Parts(v) \o <<>> = Parts(v)
    BY PartsType, ConcatEmptySeq
  <2>. QED
    BY <2>1, <2>2, PartsOfNothing
<1>2. ASSUME NEW w \in Seq(M), NEW m \in M, w \in G
      PROVE  Append(w, m) \in G
  <2>1. v \o w \in Seq(M) /\ Append(w, m) \in Seq(M) /\ v \o Append(w, m) = Append(v \o w, m)
    BY ConcatProperties, AppendProperties, ConcatAppend
  <2>2. Parts(Append(v \o w, m)) = Parts(v \o w) \o m.parts
    <3>1. PICK u \in Seq(M) : u = v \o w
      BY <2>1
    <3>2. Parts(Append(u, m)) = Parts(u) \o m.parts
      BY PartsAppend
    <3>. QED
      BY <3>1, <3>2
  <2>3. Parts(Append(w, m)) = Parts(w) \o m.parts
    BY PartsAppend
  <2>4. (Parts(v) \o Parts(w)) \o m.parts = Parts(v) \o (Parts(w) \o m.parts)
    <3>1. PICK a \in Seq(S), b \in Seq(S), c \in Seq(S) : a = Parts(v) /\ b = Parts(w) /\ c = m.parts
      <4>1. Parts(v) \in Seq(S)
        BY PartsType
      <4>2. Parts(w) \in Seq(S)
        BY PartsType
      <4>. QED
        BY <4>1, <4>2
    <3>2. (a \o b) \o c = a \o (b \o c)
      BY ConcatAssociative
    <3>. QED
      BY <3>1, <3>2
  <2>. QED
    BY <1>2, <2>1, <2>2, <2>3, <2>4
<1>. HIDE DEF G
<1>3. Seq(M) \subseteq G
  BY <1>1, <1>2, SequencesByInduction
<1>. QED
  BY <1>3 DEF G

LEMMA PartsOfFlatten ==
    ASSUME NEW S, NEW M, \A m \in M : m.parts \in Seq(S)
    PROVE  \A ww \in Seq(Seq(M)) :
              Parts(FlattenSeq(ww)) = FlattenSeq([i \in 1 .. Len(ww) |-> Parts(ww[i])])
<1> DEFINE P(ww) == [i \in 1 .. Len(ww) |-> Parts(ww[i])]
           G == {ww \in Seq(Seq(M)) : Parts(FlattenSeq(ww)) = FlattenSeq(P(ww))}
<1>1. <<>> \in G
  <2>1. <<>> \in Seq(Seq(M))
    OBVIOUS
  <2>2. P(<<>>) = <<>>
    OBVIOUS
  <2>. QED
    BY <2>1, <2>2, FlattenNothing, PartsOfNothing
<1>2. ASSUME NEW ww \in Seq(Seq(M)), NEW t \in Seq(M), ww \in G
      PROVE  Append(ww, t) \in G
  <2> DEFINE n == Len(ww)
             rr == Append(ww, t)
             f == P(rr)
  <2>1. /\ rr \in Seq(Seq(M)) /\ Len(rr) = n + 1 /\ n \in Nat /\ rr[n + 1] = t
        /\ \A i \in 1 .. n : rr[i] = ww[i]
    BY AppendProperties, LenProperties
  <2>2. f = [i \in 1 .. n + 1 |-> Parts(rr[i])]
    BY <2>1
  <2>3. \A i \in 1 .. n + 1 : rr[i] \in Seq(M)
    BY <2>1, ElementOfSeq
  <2>4. P(ww) = [i \in 1 .. n |-> Parts(ww[i])]
    OBVIOUS
  <2>. HIDE DEF f, rr, n, P
  <2>5. f \in [1 .. n + 1 -> Seq(S)]
    <3>1. \A i \in 1 .. n + 1 : Parts(rr[i]) \in Seq(S)
      BY <2>3, PartsType
    <3>. QED
      BY <2>2, <3>1
  <2>6. [i \in 1 .. n |-> f[i]] = P(ww) /\ f[n + 1] = Parts(t)
    <3>1. \A i \in 1 .. n : i \in 1 .. n + 1
      BY <2>1
    <3>2. n + 1 \in 1 .. n + 1
      BY <2>1
    <3>. QED
      BY <2>1, <2>2, <2>4, <3>1, <3>2
  <2>7. f = Append(P(ww), Parts(t)) /\ P(ww) \in Seq(Seq(S))
    BY <2>1, <2>5, <2>6, FunctionAppend
  <2>8. FlattenSeq(f) = FlattenSeq(P(ww)) \o Parts(t)
    <3>1. Parts(t) \in Seq(S)
      BY PartsType
    <3>. QED
      BY <2>7, <3>1, FlattenAppend
  <2>9. Parts(FlattenSeq(rr)) = Parts(FlattenSeq(ww)) \o Parts(t)
    <3>1. FlattenSeq(rr) = FlattenSeq(ww) \o t
      BY FlattenAppend DEF rr
    <3>2. PICK u \in Seq(M) : u = FlattenSeq(ww)
      BY FlattenType
    <3>3. Parts(u \o t) = Parts(u) \o Parts(t)
      BY PartsConcat
    <3>. QED
      BY <3>1, <3>2, <3>3
  <2>. QED
    BY <1>2, <2>1, <2>8, <2>9 DEF f, rr
<1>. HIDE DEF G
<1>3. Seq(Seq(M)) \subseteq G
  BY <1>1, <1>2, SequencesByInduction
<1>. QED
  BY <1>3 DEF G

LEMMA NonEmptyPieces ==
    ASSUME NEW M, NEW w \in Seq(M)
    PROVE  [i \in 1 .. Len(w) |-> IF w[i].parts # <<>> THEN <<w[i]>> ELSE <<>>] \in Seq(Seq(M))
<1>1. \A i \in 1 .. Len(w) : w[i] \in M
  BY ElementOfSeq
<1>2. Len(w) \in Nat
  OBVIOUS
<1>3. \A x \in M : <<x>> \in Seq(M)
  OBVIOUS
<1>4. <<>> \in Seq(M)
  OBVIOUS
<1>. QED
  BY <1>1, <1>2, <1>3, <1>4

LEMMA NonEmptyType ==
    ASSUME NEW M, NEW w \in Seq(M)
    PROVE  NonEmpty(w) \in Seq(M)
BY NonEmptyPieces, FlattenType DEF NonEmpty

LEMMA NonEmptyOfNothing == NonEmpty(<<>>) = <<>>
<1>1. [i \in 1 .. Len(<<>>) |-> IF <<>>[i].parts # <<>> THEN <<<<>>[i]>> ELSE <<>>] = <<>>
  OBVIOUS
<1>. QED
  BY <1>1, FlattenNothing DEF NonEmpty

LEMMA NonEmptyAppend ==
    ASSUME NEW M, NEW w \in Seq(M), NEW m \in M
    PROVE  NonEmpty(Append(w, m)) = IF m.parts # <<>> THEN Append(NonEmpty(w), m) ELSE NonEmpty(w)
<1> DEFINE n == Len(w)
           r == Append(w, m)
           f == [i \in 1 .. n + 1 |-> IF r[i].parts # <<>> THEN <<r[i]>> ELSE <<>>]
           g == [i \in 1 .. n |-> IF w[i].parts # <<>> THEN <<w[i]>> ELSE <<>>]
           p == IF m.parts # <<>> THEN <<m>> ELSE <<>>
<1>1. /\ r \in Seq(M) /\ Len(r) = n + 1 /\ n \in Nat /\ r[n + 1] = m
      /\ \A i \in 1 .. n : r[i] = w[i]
  BY AppendProperties, LenProperties
<1>2. g \in Seq(Seq(M)) /\ f \in Seq(Seq(M)) /\ Len(f) = n + 1
  BY <1>1, NonEmptyPieces
<1>3. f \in [1 .. n + 1 -> Seq(M)]
  BY <1>2, LenProperties
<1>4. f[n + 1] = p /\ p \in Seq(M)
  BY <1>1
<1>5. [i \in 1 .. n |-> f[i]] = g
  <2>1. \A i \in 1 .. n : i \in 1 .. n + 1 /\ f[i] = IF r[i].parts # <<>> THEN <<r[i]>> ELSE <<>>
    BY <1>1
  <2>. HIDE DEF f, r, n
  <2>. QED
    BY <1>1, <2>1
<1>6. NonEmpty(r) = FlattenSeq(f) /\ NonEmpty(w) = FlattenSeq(g)
  <2>1. NonEmpty(r) = FlattenSeq([i \in 1 .. Len(r) |-> IF r[i].parts # <<>> THEN <<r[i]>> ELSE <<>>])
    BY DEF NonEmpty
  <2>2. NonEmpty(w) = FlattenSeq(g)
    BY DEF NonEmpty
  <2>. HIDE DEF r, g
  <2>. QED
    BY <1>1, <2>1, <2>2
<1>. HIDE DEF f, g, p, r, n
<1>7. f = Append(g, p)
  BY <1>1, <1>3, <1>4, <1>5, FunctionAppend
<1>8. NonEmpty(r) = NonEmpty(w) \o p
  BY <1>2, <1>4, <1>6, <1>7, FlattenAppend
<1>9. NonEmpty(w) \in Seq(M)
  BY NonEmptyType
<1>10. CASE m.parts # <<>>
  BY <1>8, <1>9, <1>10, AppendIsConcat DEF p, r
<1>11. CASE m.parts = <<>>
  BY <1>8, <1>9, <1>11, ConcatEmptySeq DEF p, r
<1>. QED
  BY <1>10, <1>11

\* What is left out had no parts to send, and what is left has some.
LEMMA PartsOfNonEmpty ==
    ASSUME NEW S, NEW M, \A m \in M : m.parts \in Seq(S)
    PROVE  \A w \in Seq(M) :
              /\ Parts(NonEmpty(w)) = Parts(w)
              /\ \A i \in 1 .. Len(NonEmpty(w)) : NonEmpty(w)[i].parts # <<>>
<1> DEFINE A(w) == /\ Parts(NonEmpty(w)) = Parts(w)
                   /\ \A i \in 1 .. Len(NonEmpty(w)) : NonEmpty(w)[i].parts # <<>>
           G == {w \in Seq(M) : A(w)}
<1>1. <<>> \in G
  <2>1. <<>> \in Seq(M)
    OBVIOUS
  <2>. QED
    BY <2>1, NonEmptyOfNothing
<1>2. ASSUME NEW w \in Seq(M), NEW m \in M, w \in G
      PROVE  Append(w, m) \in G
  <2>1. Append(w, m) \in Seq(M) /\ NonEmpty(w) \in Seq(M)
    BY AppendProperties, NonEmptyType
  <2>2. Parts(Append(w, m)) = Parts(w) \o m.parts
    BY PartsAppend
  <2>3. NonEmpty(Append(w, m)) = IF m.parts # <<>> THEN Append(NonEmpty(w), m) ELSE NonEmpty(w)
    BY NonEmptyAppend
  <2>4. CASE m.parts # <<>>
    <3>1. Parts(Append(NonEmpty(w), m)) = Parts(NonEmpty(w)) \o m.parts
      BY <2>1, PartsAppend
    <3>2. /\ Len(Append(NonEmpty(w), m)) = Len(NonEmpty(w)) + 1 /\ Len(NonEmpty(w)) \in Nat
          /\ Append(NonEmpty(w), m)[Len(NonEmpty(w)) + 1] = m
          /\ \A i \in 1 .. Len(NonEmpty(w)) : Append(NonEmpty(w), m)[i] = NonEmpty(w)[i]
      BY <2>1, AppendProperties, LenProperties
    <3>3. \A i \in 1 .. Len(NonEmpty(w)) + 1 : i = Len(NonEmpty(w)) + 1 \/ i \in 1 .. Len(NonEmpty(w))
      BY <3>2
    <3>4. \A i \in 1 .. Len(Append(NonEmpty(w), m)) : Append(NonEmpty(w), m)[i].parts # <<>>
      BY <1>2, <2>4, <3>2, <3>3
    <3>. QED
      BY <1>2, <2>1, <2>2, <2>3, <2>4, <3>1, <3>4
  <2>5. CASE m.parts = <<>>
    <3>1. Parts(w) \in Seq(S)
      BY PartsType
    <3>2. Parts(w) \o <<>> = Parts(w)
      BY <3>1, ConcatEmptySeq
    <3>. QED
      BY <1>2, <2>1, <2>2, <2>3, <2>5, <3>2
  <2>. QED
    BY <2>4, <2>5
<1>. HIDE DEF G
<1>3. Seq(M) \subseteq G
  BY <1>1, <1>2, SequencesByInduction
<1>. QED
  BY <1>3 DEF G
-----------------------------------------------------------------------------
(* A message with calls, and the results that follow it.                   *)

Calling(m) == Only({"call"}, m.parts) # <<>>
Resulting(m) == Only({"result"}, m.parts) # <<>>

LEMMA FollowUpConcat ==
    ASSUME NEW M, NEW v \in Seq(M), NEW w \in Seq(M), w # <<>>, FollowUp(v), FollowUp(w),
           v # <<>> /\ Calling(Last(v)) => Resulting(w[1])
    PROVE  FollowUp(v \o w) /\ v \o w # <<>> /\ Last(v \o w) = Last(w)
<1> DEFINE m == Len(v)
           n == Len(w)
           u == v \o w
<1>1. /\ m \in Nat /\ n \in Nat /\ n # 0 /\ Len(u) = m + n /\ u \in Seq(M)
      /\ \A i \in 1 .. m + n : u[i] = IF i <= m THEN v[i] ELSE w[i - m]
      /\ v # <<>> <=> m # 0
  BY ConcatProperties, LenProperties, EmptySeq
<1>2. \A i \in 1 .. m - 1 : Calling(v[i]) => Resulting(v[i + 1])
  BY DEF FollowUp, Calling, Resulting
<1>3. \A i \in 1 .. n - 1 : Calling(w[i]) => Resulting(w[i + 1])
  BY DEF FollowUp, Calling, Resulting
<1>4. m # 0 /\ Calling(v[m]) => Resulting(w[1])
  BY <1>1 DEF Last
<1>5. Last(w) = w[n] /\ Last(u) = u[Len(u)]
  BY DEF Last
<1>. HIDE DEF m, n, u
<1>6. ASSUME NEW i \in 1 .. (m + n) - 1, Calling(u[i])
      PROVE  Resulting(u[i + 1])
  <2>1. i \in 1 .. m + n /\ i + 1 \in 1 .. m + n
    BY <1>1
  <2>2. CASE i + 1 <= m
    <3>1. i \in 1 .. m - 1 /\ i <= m
      BY <1>1, <2>2
    <3>2. u[i] = v[i] /\ u[i + 1] = v[i + 1]
      BY <1>1, <2>1, <2>2, <3>1
    <3>. QED
      BY <1>2, <1>6, <3>1, <3>2
  <2>3. CASE i = m
    <3>1. u[i] = v[m] /\ (i + 1) - m = 1 /\ ~(i + 1 <= m) /\ m # 0
      BY <1>1, <2>1, <2>3
    <3>2. u[i + 1] = w[1]
      BY <1>1, <2>1, <3>1
    <3>. QED
      BY <1>4, <1>6, <3>1, <3>2
  <2>4. CASE i > m
    <3>1. ~(i <= m) /\ ~(i + 1 <= m) /\ (i + 1) - m = (i - m) + 1 /\ i - m \in 1 .. n - 1
      BY <1>1, <2>1, <2>4
    <3>2. u[i] = w[i - m] /\ u[i + 1] = w[(i - m) + 1]
      BY <1>1, <2>1, <3>1
    <3>. QED
      BY <1>3, <1>6, <3>1, <3>2
  <2>. QED
    BY <1>1, <2>2, <2>3, <2>4
<1>7. FollowUp(u)
  <2>1. \A i \in 1 .. Len(u) - 1 : Calling(u[i]) => Resulting(u[i + 1])
    BY <1>1, <1>6
  <2>. QED
    BY <2>1 DEF FollowUp, Calling, Resulting
<1>8. u # <<>>
  BY <1>1, EmptySeq
<1>9. Last(u) = Last(w)
  <2>1. m + n \in 1 .. m + n /\ ~(m + n <= m) /\ (m + n) - m = n
    BY <1>1
  <2>. QED
    BY <1>1, <1>5, <2>1
<1>. QED
  BY <1>7, <1>8, <1>9 DEF u

LEMMA FollowUpOfOne ==
    ASSUME NEW m
    PROVE  FollowUp(<<m>>) /\ Last(<<m>>) = m
BY DEF FollowUp, Last

LEMMA FollowUpAppend ==
    ASSUME NEW M, NEW v \in Seq(M), NEW m \in M, FollowUp(v),
           v # <<>> /\ Calling(Last(v)) => Resulting(m)
    PROVE  FollowUp(Append(v, m)) /\ Append(v, m) # <<>> /\ Last(Append(v, m)) = m
<1>1. Append(v, m) = v \o <<m>> /\ <<m>> \in Seq(M) /\ <<m>> # <<>> /\ <<m>>[1] = m
  BY AppendIsConcat
<1>. QED
  BY <1>1, FollowUpOfOne, FollowUpConcat

LEMMA FollowUpShortened ==
    ASSUME NEW M, NEW v \in Seq(M), NEW m \in M, FollowUp(Append(v, m))
    PROVE  FollowUp(v) /\ (v # <<>> /\ Calling(Last(v)) => Resulting(m))
<1> DEFINE n == Len(v)
           u == Append(v, m)
<1>1. /\ n \in Nat /\ Len(u) = n + 1 /\ u[n + 1] = m
      /\ \A i \in 1 .. n : u[i] = v[i]
      /\ v # <<>> <=> n # 0
      /\ Last(v) = v[n]
  BY AppendProperties, LenProperties, EmptySeq DEF Last
<1>2. \A i \in 1 .. Len(u) - 1 : Calling(u[i]) => Resulting(u[i + 1])
  BY DEF FollowUp, Calling, Resulting
<1>. HIDE DEF n, u
<1>3. \A i \in 1 .. n - 1 : i \in 1 .. n /\ i + 1 \in 1 .. n /\ i \in 1 .. (n + 1) - 1
  BY <1>1
<1>4. \A i \in 1 .. n - 1 : Calling(v[i]) => Resulting(v[i + 1])
  BY <1>1, <1>2, <1>3
<1>5. n # 0 => n \in 1 .. n /\ n \in 1 .. (n + 1) - 1
  BY <1>1
<1>6. v # <<>> /\ Calling(Last(v)) => Resulting(m)
  BY <1>1, <1>2, <1>5
<1>7. FollowUp(v)
  BY <1>4 DEF FollowUp, Calling, Resulting, n
<1>. QED
  BY <1>6, <1>7

\* A message without parts has no results, so none is left out between a call
\* and what answers it.
LEMMA FollowUpOfNonEmpty ==
    ASSUME NEW M
    PROVE  \A w \in Seq(M) : FollowUp(w) =>
              /\ FollowUp(NonEmpty(w))
              /\ NonEmpty(w) # <<>> /\ Calling(Last(NonEmpty(w))) =>
                    w # <<>> /\ Last(w) = Last(NonEmpty(w))
<1> DEFINE A(w) == FollowUp(w) =>
                      /\ FollowUp(NonEmpty(w))
                      /\ NonEmpty(w) # <<>> /\ Calling(Last(NonEmpty(w))) =>
                            w # <<>> /\ Last(w) = Last(NonEmpty(w))
           G == {w \in Seq(M) : A(w)}
<1>1. <<>> \in G
  <2>1. <<>> \in Seq(M)
    OBVIOUS
  <2>2. FollowUp(<<>>)
    BY DEF FollowUp
  <2>. QED
    BY <2>1, <2>2, NonEmptyOfNothing
<1>2. ASSUME NEW w \in Seq(M), NEW m \in M, w \in G
      PROVE  Append(w, m) \in G
  <2>1. Append(w, m) \in Seq(M)
    BY AppendProperties
  <2>2. SUFFICES ASSUME FollowUp(Append(w, m))
                 PROVE  A(Append(w, m))
    BY <2>1
  <2>3. FollowUp(w) /\ (w # <<>> /\ Calling(Last(w)) => Resulting(m))
    BY <2>2, FollowUpShortened
  <2>4. PICK e \in Seq(M) : e = NonEmpty(w)
    BY NonEmptyType
  <2>5. FollowUp(e) /\ (e # <<>> /\ Calling(Last(e)) => w # <<>> /\ Last(w) = Last(e))
    BY <1>2, <2>3, <2>4
  <2>6. NonEmpty(Append(w, m)) = IF m.parts # <<>> THEN Append(e, m) ELSE e
    BY <2>4, NonEmptyAppend
  <2>7. e # <<>> /\ Calling(Last(e)) => Resulting(m)
    BY <2>3, <2>5
  <2>8. CASE m.parts # <<>>
    <3>1. FollowUp(Append(e, m)) /\ Last(Append(e, m)) = m
      BY <2>5, <2>7, FollowUpAppend
    <3>2. Append(w, m) # <<>> /\ Last(Append(w, m)) = m
      BY <2>3, FollowUpAppend
    <3>. QED
      BY <2>6, <2>8, <3>1, <3>2
  <2>9. CASE m.parts = <<>>
    <3>1. ~Resulting(m)
      BY <2>9, OnlyOfNothing DEF Resulting
    <3>. QED
      BY <2>5, <2>6, <2>7, <2>9, <3>1
  <2>. QED
    BY <2>8, <2>9
<1>. HIDE DEF G
<1>3. Seq(M) \subseteq G
  BY <1>1, <1>2, SequencesByInduction
<1>. QED
  BY <1>3 DEF G

\* Messages that were made turn by turn.
LEMMA FollowUpOfFlatten ==
    ASSUME NEW M
    PROVE  \A ww \in Seq(Seq(M)) :
              /\ \A i \in 1 .. Len(ww) : ww[i] # <<>> /\ FollowUp(ww[i])
              /\ \A i \in 1 .. Len(ww) - 1 : Calling(Last(ww[i])) => Resulting(ww[i + 1][1])
              => /\ FollowUp(FlattenSeq(ww))
                 /\ FlattenSeq(ww) # <<>> => ww # <<>> /\ Last(FlattenSeq(ww)) = Last(Last(ww))
<1> DEFINE B(ww) == /\ \A i \in 1 .. Len(ww) : ww[i] # <<>> /\ FollowUp(ww[i])
                    /\ \A i \in 1 .. Len(ww) - 1 : Calling(Last(ww[i])) => Resulting(ww[i + 1][1])
           C(ww) == /\ FollowUp(FlattenSeq(ww))
                    /\ FlattenSeq(ww) # <<>> => ww # <<>> /\ Last(FlattenSeq(ww)) = Last(Last(ww))
           G == {ww \in Seq(Seq(M)) : B(ww) => C(ww)}
<1>1. <<>> \in G
  <2>1. <<>> \in Seq(Seq(M))
    OBVIOUS
  <2>2. FollowUp(<<>>)
    BY DEF FollowUp
  <2>. QED
    BY <2>1, <2>2, FlattenNothing
<1>2. ASSUME NEW ww \in Seq(Seq(M)), NEW t \in Seq(M), ww \in G
      PROVE  Append(ww, t) \in G
  <2> DEFINE n == Len(ww)
             rr == Append(ww, t)
  <2>1. /\ rr \in Seq(Seq(M)) /\ Len(rr) = n + 1 /\ n \in Nat /\ rr[n + 1] = t
        /\ \A i \in 1 .. n : rr[i] = ww[i]
        /\ ww # <<>> <=> n # 0
        /\ Last(ww) = ww[n] /\ Last(rr) = rr[Len(rr)]
    BY AppendProperties, LenProperties, EmptySeq DEF Last
  <2>. HIDE DEF n, rr
  <2>2. rr # <<>> /\ Last(rr) = t
    <3>1. Len(rr) # 0
      BY <2>1
    <3>. QED
      BY <2>1, <3>1, EmptySeq
  <2>3. SUFFICES ASSUME B(rr)
                 PROVE  C(rr)
    BY <2>1 DEF rr
  <2>4. t # <<>> /\ FollowUp(t)
    <3>1. n + 1 \in 1 .. Len(rr)
      BY <2>1
    <3>. QED
      BY <2>1, <2>3, <3>1
  <2>5. B(ww)
    <3>1. \A i \in 1 .. n : i \in 1 .. Len(rr)
      BY <2>1
    <3>2. \A i \in 1 .. n : ww[i] # <<>> /\ FollowUp(ww[i])
      BY <2>1, <2>3, <3>1
    <3>3. \A i \in 1 .. n - 1 : i \in 1 .. n /\ i + 1 \in 1 .. n /\ i \in 1 .. Len(rr) - 1
      BY <2>1
    <3>4. \A i \in 1 .. n - 1 : Calling(Last(ww[i])) => Resulting(ww[i + 1][1])
      BY <2>1, <2>3, <3>3
    <3>. QED
      BY <3>2, <3>4 DEF n
  <2>6. ww # <<>> /\ Calling(Last(Last(ww))) => Resulting(t[1])
    <3>1. n # 0 => n \in 1 .. n /\ n \in 1 .. Len(rr) - 1
      BY <2>1
    <3>. QED
      BY <2>1, <2>3, <3>1
  <2>7. C(ww)
    BY <1>2, <2>5
  <2>. HIDE DEF B
  <2>8. PICK e \in Seq(M) : e = FlattenSeq(ww)
    BY FlattenType
  <2>9. FlattenSeq(rr) = e \o t
    BY <2>8, FlattenAppend DEF rr
  <2>10. FollowUp(e \o t) /\ Last(e \o t) = Last(t)
    <3>1. e # <<>> /\ Calling(Last(e)) => Resulting(t[1])
      BY <2>6, <2>7, <2>8
    <3>. QED
      BY <2>4, <2>7, <2>8, <3>1, FollowUpConcat
  <2>. QED
    BY <2>2, <2>9, <2>10
<1>. HIDE DEF G
<1>3. Seq(Seq(M)) \subseteq G
  BY <1>1, <1>2, SequencesByInduction
<1>. QED
  BY <1>3 DEF G
-----------------------------------------------------------------------------
(* The conversation.                                                       *)

Contents == [kind : Kinds, id : Nat, name : Names \cup {""}, input : {"", "valid", "cut", "empty"}]
Turns == [role : {"user", "system", "assistant", "tool"}, content : Seq(Contents)]

\* A turn holds what its role allows; the calls of one reply differ in their
\* ids; a tool turn answers calls of the turn before it.
Holds(kinds, m) == \A j \in DOMAIN m.content : m.content[j].kind \in kinds

Answered(c, m) ==
    \E k \in DOMAIN m.content :
        /\ m.content[k].kind = "call"
        /\ m.content[k].id = c.id
        /\ c.name \in {"", m.content[k].name}

IdsDiffer(m) ==
    \A j, k \in DOMAIN m.content :
        /\ m.content[j].kind = "call" /\ m.content[k].kind = "call"
        /\ m.content[j].id = m.content[k].id
        => j = k

TurnIsSound(h, i) ==
    /\ h[i].role = "system" => Holds({"text"}, h[i])
    /\ h[i].role = "user" => Holds(Kinds \ {"call", "result"}, h[i])
    /\ h[i].role = "assistant" => Holds(Kinds \ {"result"}, h[i]) /\ IdsDiffer(h[i])
    /\ h[i].role = "tool" =>
          /\ i > 1 /\ h[i].content # <<>> /\ Holds({"result"}, h[i])
          /\ \A j \in DOMAIN h[i].content : Answered(h[i].content[j], h[i - 1])
    /\ i < Len(h) /\ ~Holds(Kinds \ {"call"}, h[i]) => h[i + 1].role = "tool"

WireIInv ==
    /\ talk \in Seq(Turns)
    /\ wanted \in Wanted \cup {None}
    /\ \A i \in 1 .. Len(talk) : TurnIsSound(talk, i)

LEMMA ContentIsOne ==
    ASSUME NEW kind \in Kinds, NEW id \in Nat, NEW name \in Names, NEW given \in {"valid", "cut"}
    PROVE  /\ Content(kind, id, name, given) \in Contents
           /\ Content(kind, id, name, given).kind = kind
           /\ Content(kind, id, name, given).id = id
BY DEF Content, Contents

LEMMA PlainIsOne ==
    ASSUME NEW kind \in Kinds, NEW place \in Nat
    PROVE  Plain(kind, place) \in Contents /\ Plain(kind, place).kind = kind
BY DEF Plain, Content, Contents

LEMMA TurnParts ==
    ASSUME NEW m \in Turns
    PROVE  /\ m.content \in Seq(Contents)
           /\ DOMAIN m.content = 1 .. Len(m.content) /\ Len(m.content) \in Nat
           /\ \A j \in DOMAIN m.content : m.content[j] \in Contents
<1>1. m.content \in Seq(Contents)
  BY DEF Turns
<1>. QED
  BY <1>1, LenProperties, ElementOfSeq

LEMMA CallsAreThere ==
    ASSUME NEW m \in Turns
    PROVE  CallsOf(m) # <<>> <=> ~Holds(Kinds \ {"call"}, m)
<1>1. /\ m.content \in Seq(Contents)
      /\ \A j \in DOMAIN m.content : m.content[j] \in Contents
      /\ DOMAIN m.content = 1 .. Len(m.content)
  BY TurnParts
<1>2. ASSUME NEW j \in DOMAIN m.content, m.content[j].kind = "call"
      PROVE  CallsOf(m) # <<>>
  <2>1. m.content[j].kind \in {"call"}
    BY <1>2
  <2>. QED
    BY <1>1, <2>1, OnlySome DEF CallsOf
<1>3. ASSUME \A j \in DOMAIN m.content : m.content[j].kind # "call"
      PROVE  CallsOf(m) = <<>>
  <2>1. \A j \in 1 .. Len(m.content) : m.content[j].kind \notin {"call"}
    BY <1>1, <1>3
  <2>. QED
    BY <1>1, <2>1, OnlyNone DEF CallsOf
<1>4. \A j \in DOMAIN m.content : m.content[j].kind \in Kinds
  BY <1>1 DEF Contents
<1>. QED
  BY <1>2, <1>3, <1>4 DEF Holds

LEMMA TurnAdded ==
    ASSUME NEW h \in Seq(Turns), NEW m \in Turns,
           \A i \in 1 .. Len(h) : TurnIsSound(h, i),
           TurnIsSound(Append(h, m), Len(h) + 1),
           h # <<>> /\ ~Holds(Kinds \ {"call"}, Last(h)) => m.role = "tool"
    PROVE  /\ Append(h, m) \in Seq(Turns)
           /\ \A i \in 1 .. Len(Append(h, m)) : TurnIsSound(Append(h, m), i)
<1> DEFINE n == Len(h)
           r == Append(h, m)
<1>1. /\ r \in Seq(Turns) /\ Len(r) = n + 1 /\ n \in Nat /\ r[n + 1] = m
      /\ \A i \in 1 .. n : r[i] = h[i]
      /\ h # <<>> <=> n # 0
      /\ Last(h) = h[n]
  BY AppendProperties, LenProperties, EmptySeq DEF Last
<1>. HIDE DEF n, r
<1>2. ASSUME NEW i \in 1 .. n
      PROVE  TurnIsSound(r, i)
  <2>1. TurnIsSound(h, i)
    BY DEF n
  <2>2. r[i] = h[i] /\ (i > 1 => r[i - 1] = h[i - 1])
    <3>1. i > 1 => i - 1 \in 1 .. n
      BY <1>1
    <3>. QED
      BY <1>1, <3>1
  <2>3. i < n => i + 1 \in 1 .. n
    BY <1>1
  <2>4. i < n + 1 /\ ~Holds(Kinds \ {"call"}, r[i]) => r[i + 1].role = "tool"
    <3>1. CASE i < n
      BY <1>1, <2>1, <2>2, <2>3, <3>1 DEF TurnIsSound, n
    <3>2. CASE i = n
      <4>1. n # 0
        BY <3>2
      <4>. QED
        BY <1>1, <2>2, <3>2, <4>1
    <3>. QED
      BY <1>1, <3>1, <3>2
  <2>. QED
    BY <1>1, <2>1, <2>2, <2>4 DEF TurnIsSound
<1>3. TurnIsSound(r, n + 1)
  BY DEF r, n
<1>4. \A i \in 1 .. n + 1 : i = n + 1 \/ i \in 1 .. n
  BY <1>1
<1>. QED
  BY <1>1, <1>2, <1>3, <1>4 DEF r

LEMMA WireInitInv == WireInit => WireIInv
<1>1. <<>> \in Seq(Turns) /\ Len(<<>>) = 0
  OBVIOUS
<1>. QED
  BY <1>1 DEF WireInit, WireIInv

LEMMA WireStep == WireIInv /\ [WireNext]_wireVars => WireIInv'
<1> DEFINE n == Len(talk)
<1>. SUFFICES ASSUME WireIInv, [WireNext]_wireVars
              PROVE  WireIInv'
  OBVIOUS
<1>1. /\ talk \in Seq(Turns) /\ wanted \in Wanted \cup {None}
      /\ \A i \in 1 .. n : TurnIsSound(talk, i)
      /\ n \in Nat
      /\ talk # <<>> => n \in 1 .. n /\ Last(talk) = talk[n] /\ Last(talk) \in Turns
      /\ \A i \in 1 .. n : talk[i] \in Turns
  <2>1. talk \in Seq(Turns) /\ wanted \in Wanted \cup {None}
        /\ (\A i \in 1 .. n : TurnIsSound(talk, i))
    BY DEF WireIInv
  <2>2. n \in Nat /\ (talk # <<>> => n # 0) /\ Last(talk) = talk[n]
    BY <2>1, LenProperties, EmptySeq DEF Last
  <2>3. \A i \in 1 .. n : talk[i] \in Turns
    BY <2>1, ElementOfSeq
  <2>. HIDE DEF n
  <2>4. talk # <<>> => n \in 1 .. n
    BY <2>2
  <2>. QED
    BY <2>1, <2>2, <2>3, <2>4
<1>2. ASSUME talk # <<>>, ~Asked
      PROVE  \/ Holds(Kinds \ {"call"}, Last(talk))
  <2>1. CASE Last(talk).role = "assistant"
    BY <1>1, <1>2, <2>1, CallsAreThere DEF Asked
  <2>2. CASE Last(talk).role # "assistant"
    <3>1. TurnIsSound(talk, n) /\ talk[n].role \in {"user", "system", "tool"}
      BY <1>1, <1>2, <2>2 DEF Turns
    <3>2. \/ Holds({"text"}, talk[n]) \/ Holds(Kinds \ {"call", "result"}, talk[n])
          \/ Holds({"result"}, talk[n])
      BY <3>1 DEF TurnIsSound
    <3>. QED
      BY <1>1, <1>2, <3>2 DEF Holds, Kinds
  <2>. QED
    BY <2>1, <2>2
<1>3. ASSUME NEW m \in Turns, talk' = Append(talk, m), UNCHANGED wanted,
             talk # <<>> => Holds(Kinds \ {"call"}, Last(talk)) \/ m.role = "tool",
             TurnIsSound(Append(talk, m), n + 1)
      PROVE  WireIInv'
  <2>1. /\ Append(talk, m) \in Seq(Turns)
        /\ \A i \in 1 .. Len(Append(talk, m)) : TurnIsSound(Append(talk, m), i)
    BY <1>1, <1>3, TurnAdded
  <2>2. wanted' \in Wanted \cup {None}
    BY <1>1, <1>3
  <2>3. talk' \in Seq(Turns) /\ \A i \in 1 .. Len(talk') : TurnIsSound(talk', i)
    BY <1>3, <2>1
  <2>. QED
    BY <2>2, <2>3 DEF WireIInv, TurnIsSound, Holds, Answered, IdsDiffer
<1>4. ASSUME NEW m
      PROVE  /\ Len(Append(talk, m)) = n + 1 /\ Append(talk, m)[n + 1] = m
             /\ n # 0 => Append(talk, m)[n] = Last(talk)
             /\ ~(n + 1 < Len(Append(talk, m)))
  <2>1. talk \in Seq(Turns \cup {m})
    BY <1>1, SeqMonotonic
  <2>2. /\ Len(Append(talk, m)) = n + 1 /\ Append(talk, m)[n + 1] = m
        /\ \A i \in 1 .. n : Append(talk, m)[i] = talk[i]
    BY <2>1, AppendProperties
  <2>3. n # 0 => n \in 1 .. n
    BY <1>1
  <2>. QED
    BY <1>1, <2>2, <2>3 DEF Last
<1>5. ASSUME NEW kinds \in Said, Say(kinds)
      PROVE  WireIInv'
  <2> DEFINE c == [i \in 1 .. Len(kinds) |-> Plain(kinds[i], n + 1)]
             m == [role |-> "user", content |-> c]
  <2>1. kinds \in Seq(Kinds \ {"thinking", "call", "result"})
    BY WireAssumption
  <2>a. Len(kinds) \in Nat /\ \A i \in 1 .. Len(kinds) : kinds[i] \in Kinds \ {"thinking", "call", "result"}
    BY <2>1, LenProperties, ElementOfSeq
  <2>2. Len(kinds) \in Nat /\ \A i \in 1 .. Len(kinds) : kinds[i] \in Kinds \ {"call", "result"}
    BY <2>a
  <2>3. \A i \in 1 .. Len(kinds) : Plain(kinds[i], n + 1) \in Contents
    BY <1>1, <2>2 DEF Plain, Content, Contents
  <2>4. c \in Seq(Contents) /\ DOMAIN c = 1 .. Len(kinds)
    BY <2>2, <2>3
  <2>5. \A i \in DOMAIN c : c[i].kind \in Kinds \ {"call", "result"}
    BY <2>2 DEF Plain, Content
  <2>6. talk' = Append(talk, m) /\ UNCHANGED wanted /\ ~Asked
    BY <1>5 DEF Say, Add
  <2>. HIDE DEF c
  <2>7. m \in Turns /\ m.role = "user" /\ m.content = c
    BY <2>4 DEF Turns
  <2>. HIDE DEF m
  <2>8. TurnIsSound(Append(talk, m), n + 1)
    BY <1>4, <2>5, <2>7 DEF TurnIsSound, Holds
  <2>. QED
    BY <1>2, <1>3, <2>6, <2>7, <2>8
<1>6. ASSUME Instruct
      PROVE  WireIInv'
  <2> DEFINE c == <<Plain("text", n + 1)>>
             m == [role |-> "system", content |-> c]
  <2>1. Plain("text", n + 1) \in Contents /\ Plain("text", n + 1).kind = "text"
    BY <1>1 DEF Plain, Content, Contents, Kinds
  <2>2. c \in Seq(Contents) /\ \A i \in DOMAIN c : c[i].kind = "text"
    BY <2>1
  <2>3. talk' = Append(talk, m) /\ UNCHANGED wanted /\ ~Asked
    BY <1>6 DEF Instruct, Add
  <2>. HIDE DEF c
  <2>4. m \in Turns /\ m.role = "system" /\ m.content = c
    BY <2>2 DEF Turns
  <2>. HIDE DEF m
  <2>5. TurnIsSound(Append(talk, m), n + 1)
    BY <1>4, <2>2, <2>4 DEF TurnIsSound, Holds, Kinds
  <2>. QED
    BY <1>2, <1>3, <2>3, <2>4, <2>5
<1>7. ASSUME NEW kinds \in Replied, NEW names \in [DOMAIN kinds -> Names],
             NEW given \in {"valid", "cut"}, NEW counted \in BOOLEAN,
             Reply(kinds, names, given, counted)
      PROVE  WireIInv'
  <2> DEFINE id(i) == IF counted THEN i ELSE MaxTurns * (n + 1) + i
             c == [i \in 1 .. Len(kinds) |->
                      IF kinds[i] = "call" THEN Content("call", id(i), names[i], given)
                                           ELSE Plain(kinds[i], n + 1)]
             m == [role |-> "assistant", content |-> c]
  <2>1. kinds \in Seq(Kinds \ {"result"})
    BY WireAssumption
  <2>2. /\ Len(kinds) \in Nat /\ DOMAIN kinds = 1 .. Len(kinds)
        /\ \A i \in 1 .. Len(kinds) : kinds[i] \in Kinds \ {"result"}
    BY <2>1, LenProperties, ElementOfSeq
  <2>3. MaxTurns * (n + 1) \in Nat
    BY <1>1, WireAssumption
  <2>4. \A i \in 1 .. Len(kinds) : id(i) \in Nat
    <3>1. PICK k \in Nat : k = MaxTurns * (n + 1)
      BY <2>3
    <3>. QED
      BY <2>2, <3>1
  <2>5. \A i, j \in 1 .. Len(kinds) : id(i) = id(j) => i = j
    <3>1. PICK k \in Nat : k = MaxTurns * (n + 1)
      BY <2>3
    <3>. QED
      BY <2>2, <3>1
  <2>6. talk' = Append(talk, m) /\ UNCHANGED wanted /\ talk # <<>> /\ Last(talk).role \notin {"assistant", "system"}
    BY <1>7 DEF Reply, Add
  <2>. HIDE DEF id
  <2>7. \A i \in 1 .. Len(kinds) :
           /\ c[i] \in Contents /\ c[i].kind = kinds[i]
           /\ kinds[i] = "call" => c[i].id = id(i)
    <3>. SUFFICES ASSUME NEW i \in 1 .. Len(kinds)
                  PROVE  /\ c[i] \in Contents /\ c[i].kind = kinds[i]
                         /\ kinds[i] = "call" => c[i].id = id(i)
      OBVIOUS
    <3>1. CASE kinds[i] = "call"
      <4>1. c[i] = Content("call", id(i), names[i], given)
        BY <3>1
      <4>2. names[i] \in Names /\ id(i) \in Nat
        BY <2>2, <2>4
      <4>. HIDE DEF c
      <4>. QED
        BY <3>1, <4>1, <4>2, ContentIsOne DEF Kinds
    <3>2. CASE kinds[i] # "call"
      <4>1. c[i] = Plain(kinds[i], n + 1)
        BY <3>2
      <4>2. n + 1 \in Nat /\ kinds[i] \in Kinds
        BY <1>1, <2>2
      <4>. HIDE DEF c, n
      <4>. QED
        BY <3>2, <4>1, <4>2, PlainIsOne
    <3>. QED
      BY <3>1, <3>2
  <2>8. c \in Seq(Contents) /\ DOMAIN c = 1 .. Len(kinds)
    BY <2>2, <2>7
  <2>. HIDE DEF c
  <2>9. m \in Turns /\ m.role = "assistant" /\ m.content = c
    BY <2>8 DEF Turns
  <2>. HIDE DEF m
  <2>10. Holds(Kinds \ {"result"}, m) /\ IdsDiffer(m)
    <3>1. Holds(Kinds \ {"result"}, m)
      BY <2>2, <2>7, <2>8, <2>9 DEF Holds
    <3>2. IdsDiffer(m)
      BY <2>5, <2>7, <2>8, <2>9 DEF IdsDiffer
    <3>. QED
      BY <3>1, <3>2
  <2>11. TurnIsSound(Append(talk, m), n + 1)
    BY <1>4, <2>9, <2>10 DEF TurnIsSound
  <2>12. ~Asked
    BY <2>6 DEF Asked
  <2>. QED
    BY <1>2, <1>3, <2>6, <2>9, <2>11, <2>12
<1>8. ASSUME NEW named \in BOOLEAN, Answers(named)
      PROVE  WireIInv'
  <2> DEFINE last == Last(talk)
             calls == CallsOf(last)
             c == [i \in 1 .. Len(calls) |->
                      Content("result", calls[i].id, IF named THEN calls[i].name ELSE "", "")]
             m == [role |-> "tool", content |-> c]
  <2>1. talk' = Append(talk, m) /\ UNCHANGED wanted /\ Asked
    BY <1>8 DEF Answers, Add
  <2>2. talk # <<>> /\ last \in Turns /\ calls # <<>> /\ n # 0
    <3>1. talk # <<>> /\ calls # <<>>
      BY <2>1 DEF Asked
    <3>. QED
      BY <1>1, <3>1
  <2>3. last.content \in Seq(Contents)
    BY <2>2, TurnParts
  <2>4. /\ calls \in Seq(Contents)
        /\ ToSet(calls) = {x \in ToSet(last.content) : x.kind \in {"call"}}
    BY <2>3, OnlyType, OnlyMembers DEF CallsOf
  <2>. HIDE DEF calls, last
  <2>5. /\ Len(calls) \in Nat /\ Len(calls) # 0 /\ DOMAIN calls = 1 .. Len(calls)
        /\ \A i \in 1 .. Len(calls) : calls[i] \in Contents
    BY <2>2, <2>4, LenProperties, EmptySeq, ElementOfSeq
  <2>6. \A i \in 1 .. Len(calls) :
           \E k \in DOMAIN last.content : last.content[k] = calls[i] /\ calls[i].kind = "call"
    <3>. SUFFICES ASSUME NEW i \in 1 .. Len(calls)
                  PROVE  \E k \in DOMAIN last.content : last.content[k] = calls[i] /\ calls[i].kind = "call"
      OBVIOUS
    <3>1. calls[i] \in ToSet(calls)
      BY <2>5 DEF ToSet
    <3>2. calls[i] \in ToSet(last.content) /\ calls[i].kind = "call"
      BY <2>4, <3>1
    <3>. QED
      BY <3>2 DEF ToSet
  <2>7. \A i \in 1 .. Len(calls) :
           /\ c[i] \in Contents /\ c[i].kind = "result" /\ c[i].id = calls[i].id
           /\ c[i].name \in {"", calls[i].name}
    BY <2>5 DEF Content, Contents, Kinds
  <2> DEFINE l == Len(calls)
  <2>8. c \in Seq(Contents) /\ DOMAIN c = 1 .. Len(calls) /\ Len(c) = Len(calls)
    <3>1. c = [i \in 1 .. l |-> c[i]]
      OBVIOUS
    <3>2. l \in Nat /\ \A i \in 1 .. l : c[i] \in Contents
      BY <2>5, <2>7
    <3>. HIDE DEF c, l
    <3>3. c \in Seq(Contents) /\ DOMAIN c = 1 .. l /\ Len(c) = l
      BY <3>1, <3>2
    <3>. QED
      BY <3>3 DEF l
  <2>. HIDE DEF c
  <2>9. m \in Turns /\ m.role = "tool" /\ m.content = c
    BY <2>8 DEF Turns
  <2>. HIDE DEF m
  <2>10. c # <<>>
    BY <2>5, <2>8
  <2>11. Holds({"result"}, m)
    BY <2>7, <2>8, <2>9 DEF Holds
  <2>12. ASSUME NEW j \in DOMAIN c
         PROVE  Answered(c[j], last)
    <3>1. PICK k \in DOMAIN last.content : last.content[k] = calls[j] /\ calls[j].kind = "call"
      BY <2>6, <2>8
    <3>2. c[j].id = calls[j].id /\ c[j].name \in {"", calls[j].name}
      BY <2>7, <2>8
    <3>. QED
      BY <3>1, <3>2 DEF Answered
  <2>13. TurnIsSound(Append(talk, m), n + 1)
    <3>1. Append(talk, m)[n] = last /\ (n + 1) - 1 = n /\ n + 1 > 1
      BY <1>1, <1>4, <2>2 DEF last
    <3>. QED
      BY <1>4, <2>9, <2>10, <2>11, <2>12, <3>1 DEF TurnIsSound
  <2>. QED
    BY <1>3, <2>1, <2>9, <2>13
<1>9. ASSUME SaveAndLoad
      PROVE  WireIInv'
  <2>1. /\ UNCHANGED wanted
        /\ talk' = [i \in 1 .. n |-> [talk[i] EXCEPT !.content = [j \in DOMAIN @ |-> Canonical(@[j])]]]
    BY <1>9 DEF SaveAndLoad
  <2>2. \A c \in Contents : /\ Canonical(c) \in Contents /\ Canonical(c).kind = c.kind
                            /\ Canonical(c).id = c.id /\ Canonical(c).name = c.name
    BY DEF Canonical, Contents
  <2>3. ASSUME NEW i \in 1 .. n
        PROVE  /\ talk'[i] \in Turns
               /\ talk'[i].role = talk[i].role
               /\ DOMAIN talk'[i].content = DOMAIN talk[i].content
               /\ talk'[i].content = <<>> <=> talk[i].content = <<>>
               /\ \A j \in DOMAIN talk[i].content :
                     /\ talk'[i].content[j].kind = talk[i].content[j].kind
                     /\ talk'[i].content[j].id = talk[i].content[j].id
                     /\ talk'[i].content[j].name = talk[i].content[j].name
    <3> DEFINE c == talk[i].content
               d == [j \in DOMAIN c |-> Canonical(c[j])]
    <3>1. /\ talk[i] \in Turns /\ c \in Seq(Contents) /\ DOMAIN c = 1 .. Len(c) /\ Len(c) \in Nat
          /\ \A j \in DOMAIN c : c[j] \in Contents
      BY <1>1, TurnParts
    <3>2. talk'[i] = [talk[i] EXCEPT !.content = d]
      BY <2>1
    <3>. HIDE DEF c
    <3>3. /\ d \in Seq(Contents) /\ DOMAIN d = DOMAIN c /\ Len(d) = Len(c)
          /\ \A j \in DOMAIN c : d[j].kind = c[j].kind /\ d[j].id = c[j].id /\ d[j].name = c[j].name
      BY <2>2, <3>1
    <3>. HIDE DEF d
    <3>4. d = <<>> <=> c = <<>>
      <4>1. \A s \in Seq(Contents) : s = <<>> <=> Len(s) = 0
        BY EmptySeq
      <4>. QED
        BY <3>1, <3>3, <4>1
    <3>5. talk'[i] \in Turns /\ talk'[i].role = talk[i].role /\ talk'[i].content = d
      BY <3>1, <3>2, <3>3 DEF Turns
    <3>. QED
      BY <3>3, <3>4, <3>5 DEF c
  <2>4. talk' \in Seq(Turns) /\ Len(talk') = n
    <3>1. DOMAIN talk' = 1 .. n /\ talk' = [i \in 1 .. n |-> talk'[i]]
      BY <2>1
    <3>. HIDE DEF n
    <3>. QED
      BY <1>1, <2>3, <3>1
  <2>5. ASSUME NEW i \in 1 .. n
        PROVE  TurnIsSound(talk', i)
    <3>1. TurnIsSound(talk, i)
      BY <1>1
    <3>2. /\ i > 1 => i - 1 \in 1 .. n
          /\ i < n => i + 1 \in 1 .. n
      BY <1>1
    <3>3. \A K : Holds(K, talk'[i]) <=> Holds(K, talk[i])
      BY <2>3 DEF Holds
    <3>4. IdsDiffer(talk'[i]) <=> IdsDiffer(talk[i])
      BY <2>3 DEF IdsDiffer
    <3>5. i > 1 => \A j \in DOMAIN talk[i].content :
             Answered(talk[i].content[j], talk[i - 1]) => Answered(talk'[i].content[j], talk'[i - 1])
      BY <2>3, <3>2 DEF Answered
    <3>6. i < n => talk'[i + 1].role = talk[i + 1].role
      BY <2>3, <3>2
    <3>. HIDE DEF n
    <3>. QED
      BY <2>3, <2>4, <3>1, <3>3, <3>4, <3>5, <3>6 DEF TurnIsSound, n
  <2>6. \A i \in 1 .. Len(talk') : TurnIsSound(talk', i)
    BY <2>4, <2>5
  <2>. QED
    BY <1>1, <2>1, <2>4, <2>6 DEF WireIInv, TurnIsSound, Holds, Answered, IdsDiffer
<1>10. ASSUME NEW w \in Wanted, Want(w)
       PROVE  WireIInv'
  <2>1. talk' = talk /\ wanted' = w
    BY <1>10 DEF Want
  <2>2. talk' \in Seq(Turns) /\ \A i \in 1 .. Len(talk') : TurnIsSound(talk', i)
    BY <1>1, <2>1
  <2>. QED
    BY <2>1, <2>2 DEF WireIInv, TurnIsSound, Holds, Answered, IdsDiffer
<1>11. ASSUME UNCHANGED wireVars
       PROVE  WireIInv'
  <2>1. talk' = talk /\ wanted' = wanted
    BY <1>11 DEF wireVars
  <2>2. talk' \in Seq(Turns) /\ \A i \in 1 .. Len(talk') : TurnIsSound(talk', i)
    BY <1>1, <2>1
  <2>3. wanted' \in Wanted \cup {None}
    BY <1>1, <2>1
  <2>. QED
    BY <2>2, <2>3 DEF WireIInv, TurnIsSound, Holds, Answered, IdsDiffer
<1>. QED
  BY <1>5, <1>6, <1>7, <1>8, <1>9, <1>10, <1>11 DEF WireNext
-----------------------------------------------------------------------------
(* What each adapter makes of a turn.                                      *)

Wires == [role : {"user", "assistant", "model", "system", "tool"}, parts : Seq(Contents)]

LEMMA WiresHaveParts == \A m \in Wires : m.parts \in Seq(Contents)
BY DEF Wires

LEMMA MsgIsOne ==
    ASSUME NEW role \in {"user", "assistant", "model", "system", "tool"}, NEW parts \in Seq(Contents)
    PROVE  Msg(role, parts) \in Wires /\ Msg(role, parts).parts = parts
BY DEF Msg, Wires

LEMMA KindsOf ==
    ASSUME NEW s \in Seq(Contents)
    PROVE  \A i \in 1 .. Len(s) : s[i] \in Contents /\ s[i].kind \in Kinds
<1>1. \A i \in 1 .. Len(s) : s[i] \in Contents
  BY ElementOfSeq
<1>2. \A c \in Contents : c.kind \in Kinds
  BY DEF Contents
<1>. QED
  BY <1>1, <1>2

LEMMA OnlyPiecewise ==
    ASSUME NEW S, NEW f \in Seq(Seq(S)), NEW g \in Seq(Seq(S)), Len(f) = Len(g), NEW K,
           \A i \in 1 .. Len(f) : Only(K, f[i]) = Only(K, g[i])
    PROVE  Only(K, FlattenSeq(f)) = Only(K, FlattenSeq(g))
<1>1. [i \in 1 .. Len(f) |-> Only(K, f[i])] = [i \in 1 .. Len(g) |-> Only(K, g[i])]
  OBVIOUS
<1>2. \A ss \in Seq(Seq(S)) :
         Only(K, FlattenSeq(ss)) = FlattenSeq([i \in 1 .. Len(ss) |-> Only(K, ss[i])])
  BY OnlyOfFlatten
<1>. QED
  BY <1>1, <1>2

\* Sequences that differ only in other kinds.
LEMMA OnlyAgrees ==
    ASSUME NEW s, NEW t, NEW K, Len(s) = Len(t),
           \A i \in 1 .. Len(s) : s[i].kind = t[i].kind /\ (s[i].kind \in K => s[i] = t[i])
    PROVE  Only(K, s) = Only(K, t)
<1>1. \A i \in 1 .. Len(s) : (IF s[i].kind \in K THEN <<s[i]>> ELSE <<>>)
                             = (IF t[i].kind \in K THEN <<t[i]>> ELSE <<>>)
  OBVIOUS
<1>2. [i \in 1 .. Len(s) |-> IF s[i].kind \in K THEN <<s[i]>> ELSE <<>>]
      = [i \in 1 .. Len(t) |-> IF t[i].kind \in K THEN <<t[i]>> ELSE <<>>]
  BY <1>1
<1>. QED
  BY <1>2 DEF Only

\* A filter that lets K through.
LEMMA OnlyThrough ==
    ASSUME NEW s \in Seq(Contents), NEW K, NEW L, K \cap Kinds \subseteq L
    PROVE  Only(K, Only(L, s)) = Only(K, s)
<1>1. \A i \in 1 .. Len(s) : s[i].kind \in Kinds
  BY KindsOf
<1>2. Only(K \cap L, s) = Only(K, s)
  BY <1>1, OnlySame
<1>. QED
  BY <1>2, OnlyOfOnly

LEMMA OnlyBlocked ==
    ASSUME NEW s \in Seq(Contents), NEW K, NEW L, K \cap L = {}
    PROVE  Only(K, Only(L, s)) = <<>>
<1>1. Only({}, s) = <<>>
  BY OnlyNone
<1>. QED
  BY <1>1, OnlyOfOnly

LEMMA NotASystemTurn ==
    ASSUME NEW m \in Turns, m.role = "system" => Holds({"text"}, m)
    PROVE  m.role = "system" => Only({"call"}, m.content) = <<>> /\ Only({"result"}, m.content) = <<>>
                                /\ Only({"call", "result"}, m.content) = <<>>
<1>. SUFFICES ASSUME m.role = "system"
              PROVE  \A K : "text" \notin K => Only(K, m.content) = <<>>
  OBVIOUS
<1>. TAKE K
<1>. HAVE "text" \notin K
<1>1. m.content \in Seq(Contents) /\ \A j \in 1 .. Len(m.content) : m.content[j].kind \notin K
  BY TurnParts DEF Holds
<1>. QED
  BY <1>1, OnlyNone

LEMMA AnthropicSends ==
    ASSUME NEW m \in Turns
    PROVE  /\ AnthropicMessage(m) \in Wires
           /\ \A K : "blank" \notin K =>
                 Only(K, AnthropicMessage(m).parts) =
                    IF m.role = "system" THEN <<>> ELSE Only(K, m.content)
           /\ Only({"blank"}, AnthropicMessage(m).parts) = <<>>
<1> DEFINE L == IF m.role = "system" THEN {} ELSE Kinds \ {"blank"}
           p == Only(L, m.content)
           r == IF m.role = "assistant" THEN "assistant" ELSE "user"
<1>1. m.content \in Seq(Contents)
  BY TurnParts
<1>2. p \in Seq(Contents)
  BY <1>1, OnlyType
<1>3. AnthropicMessage(m) = Msg(r, p) /\ r \in {"user", "assistant", "model", "system", "tool"}
  BY DEF AnthropicMessage
<1>. HIDE DEF p, r
<1>4. AnthropicMessage(m) \in Wires /\ AnthropicMessage(m).parts = p
  BY <1>2, <1>3, MsgIsOne
<1>5. ASSUME NEW K, "blank" \notin K
      PROVE  Only(K, p) = IF m.role = "system" THEN <<>> ELSE Only(K, m.content)
  <2>1. CASE m.role = "system"
    <3>1. K \cap L = {}
      BY <2>1
    <3>. QED
      BY <1>1, <2>1, <3>1, OnlyBlocked DEF p
  <2>2. CASE m.role # "system"
    <3>1. K \cap Kinds \subseteq L
      BY <1>5, <2>2
    <3>. QED
      BY <1>1, <2>2, <3>1, OnlyThrough DEF p
  <2>. QED
    BY <2>1, <2>2
<1>6. Only({"blank"}, p) = <<>>
  <2>1. {"blank"} \cap L = {}
    OBVIOUS
  <2>. QED
    BY <1>1, <2>1, OnlyBlocked DEF p
<1>. QED
  BY <1>4, <1>5, <1>6

LEMMA CliSends ==
    ASSUME NEW m \in Turns
    PROVE  /\ Msg(m.role, Only({"text", "plan", "result"}, m.content)) \in Wires
           /\ Only({"text"}, Msg(m.role, Only({"text", "plan", "result"}, m.content)).parts) =
                 Only({"text"}, m.content)
<1>1. m.content \in Seq(Contents) /\ m.role \in {"user", "assistant", "model", "system", "tool"}
  BY TurnParts DEF Turns
<1>2. Only({"text", "plan", "result"}, m.content) \in Seq(Contents)
  BY <1>1, OnlyType
<1>3. Only({"text"}, Only({"text", "plan", "result"}, m.content)) = Only({"text"}, m.content)
  BY <1>1, OnlyThrough
<1>. QED
  BY <1>1, <1>2, <1>3, MsgIsOne

LEMMA FlattenSingles ==
    ASSUME NEW s \in Seq(Contents)
    PROVE  FlattenSeq([i \in 1 .. Len(s) |-> <<s[i]>>]) = s
<1>1. \A i \in 1 .. Len(s) : s[i].kind \in Kinds
  BY KindsOf
<1>2. [i \in 1 .. Len(s) |-> IF s[i].kind \in Kinds THEN <<s[i]>> ELSE <<>>]
      = [i \in 1 .. Len(s) |-> <<s[i]>>]
  BY <1>1
<1>3. Only(Kinds, s) = s
  BY <1>1, OnlyAll
<1>. QED
  BY <1>2, <1>3 DEF Only

LEMMA OpenAISends ==
    ASSUME NEW m \in Turns,
           m.role = "tool" => m.content # <<>> /\ Holds({"result"}, m),
           m.role = "assistant" => Holds(Kinds \ {"result"}, m)
    PROVE  /\ OpenAIMessages(m) \in Seq(Wires) /\ OpenAIMessages(m) # <<>>
           /\ FollowUp(OpenAIMessages(m))
           /\ Calling(Last(OpenAIMessages(m))) => Only({"call"}, m.content) # <<>>
           /\ m.role = "tool" => Resulting(OpenAIMessages(m)[1])
           /\ Only({"text"}, Parts(OpenAIMessages(m))) = Only({"text"}, m.content)
           /\ Only({"call", "result"}, Parts(OpenAIMessages(m))) = Only({"call", "result"}, m.content)
<1> DEFINE c == m.content
           Goal(w) == /\ w \in Seq(Wires) /\ w # <<>>
                      /\ FollowUp(w)
                      /\ Calling(Last(w)) => Only({"call"}, c) # <<>>
                      /\ m.role = "tool" => Resulting(w[1])
                      /\ Only({"text"}, Parts(w)) = Only({"text"}, c)
                      /\ Only({"call", "result"}, Parts(w)) = Only({"call", "result"}, c)
<1>1. /\ c \in Seq(Contents) /\ DOMAIN c = 1 .. Len(c) /\ Len(c) \in Nat
      /\ \A j \in 1 .. Len(c) : c[j] \in Contents
  BY TurnParts
<1>2. CASE m.role = "tool"
  <2> DEFINE w == [j \in 1 .. Len(c) |-> Msg("tool", <<c[j]>>)]
  <2>1. OpenAIMessages(m) = w
    BY <1>2 DEF OpenAIMessages
  <2>2. \A j \in 1 .. Len(c) : c[j].kind = "result"
    BY <1>1, <1>2 DEF Holds
  <2>3. Len(c) # 0
    BY <1>1, <1>2, EmptySeq
  <2>. HIDE DEF c
  <2>4. \A j \in 1 .. Len(c) : w[j] \in Wires /\ w[j].parts = <<c[j]>>
    <3>1. \A j \in 1 .. Len(c) : <<c[j]>> \in Seq(Contents)
      BY <1>1
    <3>. QED
      BY <3>1, MsgIsOne
  <2>5. w \in Seq(Wires) /\ Len(w) = Len(c) /\ w # <<>>
    <3>1. w \in Seq(Wires) /\ Len(w) = Len(c)
      BY <1>1, <2>4
    <3>. HIDE DEF w
    <3>. QED
      BY <2>3, <3>1, EmptySeq
  <2>. HIDE DEF w
  <2>6. Parts(w) = c
    <3>1. [i \in 1 .. Len(w) |-> w[i].parts] = [i \in 1 .. Len(c) |-> <<c[i]>>]
      BY <2>4, <2>5
    <3>. QED
      BY <1>1, <3>1, FlattenSingles DEF Parts
  <2>7. ASSUME NEW j \in 1 .. Len(c)
        PROVE  ~Calling(w[j]) /\ Resulting(w[j])
    <3> DEFINE s == <<c[j]>>
    <3>1. s \in Seq(Contents) /\ Len(s) = 1 /\ s[1] = c[j]
      BY <1>1
    <3>2. w[j].parts = s
      BY <2>4
    <3>. HIDE DEF s
    <3>3. Only({"call"}, s) = <<>>
      BY <2>2, <3>1, OnlyNone
    <3>4. Only({"result"}, s) # <<>>
      <4>1. 1 \in 1 .. Len(s) /\ s[1].kind \in {"result"}
        BY <2>2, <3>1
      <4>. QED
        BY <3>1, <4>1, OnlySome
    <3>. QED
      BY <3>2, <3>3, <3>4 DEF Calling, Resulting
  <2>8. FollowUp(w)
    <3>1. \A i \in 1 .. Len(w) - 1 : ~Calling(w[i])
      <4>1. \A i \in 1 .. Len(w) - 1 : i \in 1 .. Len(c)
        BY <1>1, <2>5
      <4>. QED
        BY <2>7, <4>1
    <3>. QED
      BY <3>1 DEF FollowUp, Calling
  <2>9. 1 \in 1 .. Len(c) /\ Len(w) \in 1 .. Len(c)
    BY <1>1, <2>3, <2>5
  <2>10. ~Calling(Last(w)) /\ Resulting(w[1])
    BY <2>7, <2>9 DEF Last
  <2>11. Goal(w)
    BY <2>5, <2>6, <2>8, <2>10
  <2>. QED
    BY <2>1, <2>11 DEF c
<1>3. CASE m.role # "tool"
  <2> DEFINE p == IF m.role = "assistant" THEN Only({"text"}, c) \o Only({"call"}, c) ELSE c
             x == Msg(m.role, p)
  <2>1. OpenAIMessages(m) = <<x>>
    BY <1>3 DEF OpenAIMessages
  <2>2. m.role \in {"user", "assistant", "model", "system", "tool"}
    BY DEF Turns
  <2>3. ASSUME NEW K
        PROVE  m.role = "assistant" =>
                  Only(K, p) = Only(K \cap {"text"}, c) \o Only(K \cap {"call"}, c)
    <3>1. PICK a \in Seq(Contents), b \in Seq(Contents) :
             a = Only({"text"}, c) /\ b = Only({"call"}, c)
      <4>1. Only({"text"}, c) \in Seq(Contents)
        BY <1>1, OnlyType
      <4>2. Only({"call"}, c) \in Seq(Contents)
        BY <1>1, OnlyType
      <4>. QED
        BY <4>1, <4>2
    <3>2. Only(K, Only({"text"}, c)) = Only(K \cap {"text"}, c)
      BY <1>1, OnlyOfOnly
    <3>3. Only(K, Only({"call"}, c)) = Only(K \cap {"call"}, c)
      BY <1>1, OnlyOfOnly
    <3>4. Only(K, a \o b) = Only(K, a) \o Only(K, b)
      BY OnlyConcat
    <3>5. m.role = "assistant" => p = a \o b
      BY <3>1
    <3>. HIDE DEF p
    <3>. QED
      BY <3>1, <3>2, <3>3, <3>4, <3>5
  <2>4. p \in Seq(Contents)
    <3>1. Only({"text"}, c) \in Seq(Contents)
      BY <1>1, OnlyType
    <3>2. Only({"call"}, c) \in Seq(Contents)
      BY <1>1, OnlyType
    <3>. QED
      BY <1>1, <3>1, <3>2, ConcatProperties
  <2>5. Only({}, c) = <<>>
    BY <1>1, OnlyNone
  <2>6. Only({"text"}, p) = Only({"text"}, c)
    <3>1. {"text"} \cap {"text"} = {"text"} /\ {"text"} \cap {"call"} = {}
      OBVIOUS
    <3>2. Only({"text"}, c) \o <<>> = Only({"text"}, c)
      BY <1>1, OnlyType, ConcatEmptySeq
    <3>. QED
      BY <2>3, <2>5, <3>1, <3>2
  <2>7. Only({"call"}, p) = Only({"call"}, c)
    <3>1. {"call"} \cap {"call"} = {"call"} /\ {"call"} \cap {"text"} = {}
      OBVIOUS
    <3>2. <<>> \o Only({"call"}, c) = Only({"call"}, c)
      BY <1>1, OnlyType, ConcatEmptySeq
    <3>. QED
      BY <2>3, <2>5, <3>1, <3>2
  <2>8. Only({"call", "result"}, p) = Only({"call", "result"}, c)
    <3>1. CASE m.role = "assistant"
      <4>1. {"call", "result"} \cap {"call"} = {"call"} /\ {"call", "result"} \cap {"text"} = {}
        OBVIOUS
      <4>2. <<>> \o Only({"call"}, c) = Only({"call"}, c)
        BY <1>1, OnlyType, ConcatEmptySeq
      <4>3. \A i \in 1 .. Len(c) : c[i].kind \in {"call", "result"} <=> c[i].kind \in {"call"}
        BY <1>1, <3>1 DEF Holds
      <4>4. Only({"call", "result"}, c) = Only({"call"}, c)
        BY <1>1, <4>3, OnlySame
      <4>. QED
        BY <2>3, <2>5, <3>1, <4>1, <4>2, <4>4
    <3>. QED
      BY <3>1
  <2>. HIDE DEF p, c
  <2>9. x \in Wires /\ x.parts = p
    BY <2>2, <2>4, MsgIsOne
  <2>. HIDE DEF x
  <2>10. Parts(<<x>>) = p
    BY <2>4, <2>9, PartsOfOne
  <2>11. <<x>> \in Seq(Wires) /\ <<x>> # <<>> /\ FollowUp(<<x>>) /\ Last(<<x>>) = x
    BY <2>9, FollowUpOfOne
  <2>12. Calling(x) => Only({"call"}, c) # <<>>
    BY <2>7, <2>9 DEF Calling
  <2>13. Goal(<<x>>)
    BY <1>3, <2>6, <2>8, <2>10, <2>11, <2>12
  <2>. QED
    BY <2>1, <2>13 DEF c
<1>. QED
  BY <1>2, <1>3
-----------------------------------------------------------------------------
(* Google goes by the names.                                               *)

\* The calls of a turn are found in the one before, and nowhere later.
LEMMA ResultIsNamed ==
    ASSUME WireIInv, NEW i \in 1 .. Len(talk), NEW j \in DOMAIN talk[i].content
    PROVE  LET c == talk[i].content[j] IN
           /\ GoogleContent(talk, i, c) = Named(i, c)
           /\ Named(i, c) \in Contents
           /\ Named(i, c).kind = c.kind
           /\ c.kind # "result" => Named(i, c) = c
<1> DEFINE c == talk[i].content[j]
           b == i - 1
<1>1. /\ TurnIsSound(talk, i) /\ talk[i] \in Turns /\ i \in Nat
      /\ c \in Contents
  <2>1. talk \in Seq(Turns) /\ TurnIsSound(talk, i)
    BY DEF WireIInv
  <2>2. talk[i] \in Turns
    BY <2>1, ElementOfSeq
  <2>. QED
    BY <2>1, <2>2, TurnParts
<1>2. CASE c.kind # "result"
  BY <1>1, <1>2 DEF GoogleContent, Named
<1>3. CASE c.kind = "result"
  <2>1. talk[i].role = "tool"
    <3>1. ~Holds({"text"}, talk[i]) /\ ~Holds(Kinds \ {"call", "result"}, talk[i]) /\ ~Holds(Kinds \ {"result"}, talk[i])
      BY <1>3 DEF Holds
    <3>. QED
      BY <1>1, <3>1 DEF TurnIsSound, Turns
  <2>2. i > 1 /\ Answered(c, talk[b])
    BY <1>1, <2>1 DEF TurnIsSound
  <2>3. b \in 1 .. Len(talk) /\ b \in 1 .. (i - 1) /\ \A k \in 1 .. (i - 1) : b >= k
    BY <1>1, <2>2
  <2>4. talk[b] \in Turns /\ TurnIsSound(talk, b)
    BY <2>3, ElementOfSeq DEF WireIInv
  <2> DEFINE m == talk[b]
  <2>5. PICK k \in DOMAIN m.content :
           m.content[k].kind = "call" /\ m.content[k].id = c.id /\ c.name \in {"", m.content[k].name}
    BY <2>2 DEF Answered
  <2>6. IdsDiffer(m)
    <3>1. ~Holds({"text"}, m) /\ ~Holds(Kinds \ {"call", "result"}, m) /\ ~Holds({"result"}, m)
      BY <2>5 DEF Holds
    <3>. QED
      BY <2>4, <3>1 DEF TurnIsSound, Turns
  <2> DEFINE Q(u) == u.kind = "call" /\ u.id = c.id
             T == {m.content[l] : l \in DOMAIN m.content}
             a == CHOOSE u \in T : Q(u)
  <2>7. m.content[k] \in T /\ Q(m.content[k])
    BY <2>5
  <2>8. \A u \in T : Q(u) => u = m.content[k]
    <3>. SUFFICES ASSUME NEW l \in DOMAIN m.content, Q(m.content[l])
                  PROVE  m.content[l] = m.content[k]
      OBVIOUS
    <3>1. l = k
      BY <2>5, <2>6 DEF IdsDiffer
    <3>. QED
      BY <3>1
  <2>9. a = m.content[k]
    <3>. HIDE DEF T, Q
    <3>. QED
      BY <2>7, <2>8
  <2>10. ToSet(m.content) = T
    BY DEF ToSet
  <2>11. Named(i, c) = [c EXCEPT !.name = a.name]
    BY <1>3, <2>10 DEF Named
  <2> DEFINE before == {l \in 1 .. (i - 1) : \E x \in DOMAIN talk[l].content :
                           talk[l].content[x].kind = "call" /\ talk[l].content[x].id = c.id}
  <2>12. b \in before
    BY <2>3, <2>5
  <2>13. Max(before) = b
    <3>1. \A x, y \in before : y >= x /\ x >= y => x = y
      BY <1>1
    <3>2. \A y \in before : b >= y
      BY <2>3
    <3>. HIDE DEF before, b
    <3>. QED
      BY <2>12, <3>1, <3>2 DEF Max
  <2>14. GoogleName(talk, i, c) = IF c.name # "" \/ before = {} THEN c.name ELSE a.name
    <3>1. GoogleName(talk, i, c) =
             IF c.name # "" \/ before = {} THEN c.name
             ELSE (CHOOSE x \in {talk[Max(before)].content[l] : l \in DOMAIN talk[Max(before)].content} :
                      x.kind = "call" /\ x.id = c.id).name
      BY DEF GoogleName
    <3>. HIDE DEF before, c, b
    <3>. QED
      BY <2>13, <3>1
  <2>15. c.name \in {"", a.name}
    BY <2>5, <2>9
  <2>16. GoogleName(talk, i, c) = a.name
    <3>. HIDE DEF before, a
    <3>. QED
      BY <2>12, <2>14, <2>15
  <2>17. GoogleContent(talk, i, c) = [c EXCEPT !.name = a.name]
    BY <1>3, <2>16 DEF GoogleContent
  <2>18. a.name \in Names \cup {""}
    <3>1. m.content[k] \in Contents
      BY <2>4, TurnParts
    <3>. QED
      BY <2>9, <3>1 DEF Contents
  <2>. HIDE DEF a
  <2>19. [c EXCEPT !.name = a.name] \in Contents /\ [c EXCEPT !.name = a.name].kind = c.kind
    BY <1>1, <2>18 DEF Contents
  <2>. QED
    BY <1>3, <2>11, <2>17, <2>19
<1>. QED
  BY <1>2, <1>3

LEMMA GoogleSends ==
    ASSUME WireIInv, NEW i \in 1 .. Len(talk)
    PROVE  LET t == talk[i].content
               named == [j \in 1 .. Len(t) |-> Named(i, t[j])]
           IN  /\ GoogleMessage(talk, i) \in Wires
               /\ named \in Seq(Contents)
               /\ \A K : "link" \notin K =>
                     Only(K, GoogleMessage(talk, i).parts) =
                        IF talk[i].role = "system" THEN <<>> ELSE Only(K, named)
               /\ \A K : "result" \notin K => Only(K, named) = Only(K, t)
<1> DEFINE t == talk[i].content
           named == [j \in 1 .. Len(t) |-> Named(i, t[j])]
           L == IF talk[i].role = "system" THEN {} ELSE Kinds \ {"link"}
           r == IF talk[i].role = "assistant" THEN "model" ELSE "user"
           p == Only(L, named)
<1>1. talk[i] \in Turns
  BY ElementOfSeq DEF WireIInv
<1>2. t \in Seq(Contents) /\ DOMAIN t = 1 .. Len(t) /\ Len(t) \in Nat
  BY <1>1, TurnParts
<1>3. \A j \in 1 .. Len(t) : /\ GoogleContent(talk, i, t[j]) = Named(i, t[j])
                             /\ Named(i, t[j]) \in Contents
                             /\ Named(i, t[j]).kind = t[j].kind
                             /\ t[j].kind # "result" => Named(i, t[j]) = t[j]
  BY <1>2, ResultIsNamed
<1>. HIDE DEF t
<1>4. named \in Seq(Contents) /\ Len(named) = Len(t)
  BY <1>2, <1>3
<1>5. [j \in 1 .. Len(t) |-> GoogleContent(talk, i, t[j])] = named
  BY <1>3
<1>6. r \in {"user", "assistant", "model", "system", "tool"}
  OBVIOUS
<1>7. GoogleMessage(talk, i) = Msg(r, p)
  <2>1. GoogleMessage(talk, i) = Msg(r, Only(L, [j \in 1 .. Len(t) |-> GoogleContent(talk, i, t[j])]))
    BY DEF GoogleMessage, t
  <2>. HIDE DEF r, L, named
  <2>. QED
    BY <1>5, <2>1
<1>8. \A j \in 1 .. Len(t) : named[j] = Named(i, t[j])
  OBVIOUS
<1>. HIDE DEF named, r
<1>9. p \in Seq(Contents)
  BY <1>4, OnlyType
<1>. HIDE DEF p
<1>10. GoogleMessage(talk, i) \in Wires /\ GoogleMessage(talk, i).parts = p
  BY <1>6, <1>7, <1>9, MsgIsOne
<1>11. ASSUME NEW K, "link" \notin K
       PROVE  Only(K, p) = IF talk[i].role = "system" THEN <<>> ELSE Only(K, named)
  <2>1. CASE talk[i].role = "system"
    <3>1. K \cap L = {}
      BY <2>1
    <3>. QED
      BY <1>4, <2>1, <3>1, OnlyBlocked DEF p
  <2>2. CASE talk[i].role # "system"
    <3>1. K \cap Kinds \subseteq L
      BY <1>11, <2>2
    <3>. QED
      BY <1>4, <2>2, <3>1, OnlyThrough DEF p
  <2>. QED
    BY <2>1, <2>2
<1>12. ASSUME NEW K, "result" \notin K
       PROVE  Only(K, named) = Only(K, t)
  <2>1. \A j \in 1 .. Len(named) : named[j].kind = t[j].kind /\ (named[j].kind \in K => named[j] = t[j])
    BY <1>3, <1>4, <1>8, <1>12
  <2>. QED
    BY <1>4, <2>1, OnlyAgrees
<1>. QED
  BY <1>4, <1>10, <1>11, <1>12 DEF t, named
-----------------------------------------------------------------------------
(* The whole of a conversation.                                            *)

LEMMA TalkParts ==
    ASSUME WireIInv
    PROVE  /\ Len(talk) \in Nat /\ talk \in Seq(Turns)
           /\ \A i \in 1 .. Len(talk) :
                 /\ talk[i] \in Turns /\ TurnIsSound(talk, i) /\ talk[i].content \in Seq(Contents)
                 /\ talk[i].role = "system" => Holds({"text"}, talk[i])
<1>1. talk \in Seq(Turns) /\ \A i \in 1 .. Len(talk) : TurnIsSound(talk, i)
  BY DEF WireIInv
<1>2. Len(talk) \in Nat /\ \A i \in 1 .. Len(talk) : talk[i] \in Turns
  BY <1>1, LenProperties, ElementOfSeq
<1>3. \A m \in Turns : m.content \in Seq(Contents)
  BY TurnParts
<1>. QED
  BY <1>1, <1>2, <1>3 DEF TurnIsSound

\* A turn of calls is followed by its results.
LEMMA TurnsFollowUp ==
    ASSUME WireIInv, NEW i \in 1 .. Len(talk) - 1, Only({"call"}, talk[i].content) # <<>>
    PROVE  /\ i \in 1 .. Len(talk) /\ i + 1 \in 1 .. Len(talk)
           /\ talk[i].role # "system"
           /\ talk[i + 1].role = "tool" /\ Only({"result"}, talk[i + 1].content) # <<>>
<1>1. i \in 1 .. Len(talk) /\ i + 1 \in 1 .. Len(talk) /\ i < Len(talk)
  BY TalkParts
<1>2. talk[i] \in Turns /\ TurnIsSound(talk, i) /\ talk[i + 1] \in Turns /\ TurnIsSound(talk, i + 1)
  BY <1>1, TalkParts
<1>3. ~Holds(Kinds \ {"call"}, talk[i])
  BY <1>2, CallsAreThere DEF CallsOf
<1>4. talk[i + 1].role = "tool"
  BY <1>1, <1>2, <1>3 DEF TurnIsSound
<1>5. talk[i + 1].content # <<>> /\ Holds({"result"}, talk[i + 1])
  BY <1>2, <1>4 DEF TurnIsSound
<1>6. Only({"result"}, talk[i + 1].content) # <<>>
  <2>1. PICK s \in Seq(Contents) : s = talk[i + 1].content /\ DOMAIN s = 1 .. Len(s)
    BY <1>2, TurnParts
  <2>2. 1 \in 1 .. Len(s)
    BY <1>5, <2>1, EmptySeq
  <2>3. s[1].kind \in {"result"}
    BY <1>5, <2>1, <2>2 DEF Holds
  <2>. QED
    BY <2>1, <2>2, <2>3, OnlySome
<1>7. talk[i].role # "system"
  BY <1>2, NotASystemTurn DEF TurnIsSound
<1>. QED
  BY <1>1, <1>4, <1>6, <1>7

Sentences == [i \in 1 .. Len(talk) |-> talk[i].content]
Spoken == [i \in 1 .. Len(talk) |-> IF talk[i].role = "system" THEN <<>> ELSE talk[i].content]
NamedTurns == [i \in 1 .. Len(talk) |-> [j \in 1 .. Len(talk[i].content) |-> Named(i, talk[i].content[j])]]

LEMMA TurnSequences ==
    ASSUME WireIInv
    PROVE  /\ Sentences \in Seq(Seq(Contents)) /\ Len(Sentences) = Len(talk)
           /\ Spoken \in Seq(Seq(Contents)) /\ Len(Spoken) = Len(talk)
           /\ NamedTurns \in Seq(Seq(Contents)) /\ Len(NamedTurns) = Len(talk)
<1>1. Len(talk) \in Nat /\ \A i \in 1 .. Len(talk) : talk[i].content \in Seq(Contents)
  BY TalkParts
<1>2. <<>> \in Seq(Contents)
  OBVIOUS
<1>3. \A i \in 1 .. Len(talk) :
         [j \in 1 .. Len(talk[i].content) |-> Named(i, talk[i].content[j])] \in Seq(Contents)
  BY GoogleSends
<1>. QED
  BY <1>1, <1>2, <1>3 DEF Sentences, Spoken, NamedTurns

\* The parts sent by an adapter that makes one message of each turn.
LEMMA OneEach ==
    ASSUME NEW n \in Nat, NEW ms \in [1 .. n -> Wires]
    PROVE  /\ ms \in Seq(Wires) /\ Len(ms) = n
           /\ Parts(NonEmpty(ms)) = FlattenSeq([i \in 1 .. n |-> ms[i].parts])
           /\ [i \in 1 .. n |-> ms[i].parts] \in Seq(Seq(Contents))
           /\ Len([i \in 1 .. n |-> ms[i].parts]) = n
           /\ \A i \in 1 .. Len(NonEmpty(ms)) : NonEmpty(ms)[i].parts # <<>>
           /\ (\A i \in 1 .. n - 1 : Calling(ms[i]) => Resulting(ms[i + 1])) => FollowUp(NonEmpty(ms))
<1>1. PICK w \in Seq(Wires) : w = ms /\ Len(w) = n
  OBVIOUS
<1>2. /\ Parts(NonEmpty(w)) = Parts(w)
      /\ \A i \in 1 .. Len(NonEmpty(w)) : NonEmpty(w)[i].parts # <<>>
  BY WiresHaveParts, PartsOfNonEmpty
<1>3. Parts(w) = FlattenSeq([i \in 1 .. n |-> w[i].parts])
  BY <1>1 DEF Parts
<1>4. FollowUp(w) => FollowUp(NonEmpty(w))
  BY FollowUpOfNonEmpty
<1>5. (\A i \in 1 .. n - 1 : Calling(w[i]) => Resulting(w[i + 1])) => FollowUp(w)
  BY <1>1 DEF FollowUp, Calling, Resulting
<1>6. /\ [i \in 1 .. n |-> ms[i].parts] \in Seq(Seq(Contents))
      /\ Len([i \in 1 .. n |-> ms[i].parts]) = n
  BY WiresHaveParts
<1>. QED
  BY <1>1, <1>2, <1>3, <1>4, <1>5, <1>6

LEMMA AnthropicKeeps ==
    ASSUME WireIInv
    PROVE  /\ FollowUp(AnthropicWire(talk))
           /\ \A i \in 1 .. Len(AnthropicWire(talk)) : AnthropicWire(talk)[i].parts # <<>>
           /\ Only({"call", "result"}, Parts(AnthropicWire(talk))) = Only({"call", "result"}, Sent)
           /\ Only({"text"}, Parts(AnthropicWire(talk))) = Only({"text"}, FlattenSeq(Spoken))
           /\ Only({"blank"}, Parts(AnthropicWire(talk))) = <<>>
<1> DEFINE n == Len(talk)
           ms == [i \in 1 .. n |-> AnthropicMessage(talk[i])]
           ps == [i \in 1 .. n |-> ms[i].parts]
           acted == {"call", "result"}
<1>1. n \in Nat /\ \A i \in 1 .. n : talk[i] \in Turns /\ (talk[i].role = "system" => Holds({"text"}, talk[i]))
  BY TalkParts
<1>2. AnthropicWire(talk) = NonEmpty(ms)
  BY DEF AnthropicWire
<1>3. \A i \in 1 .. n : ms[i] = AnthropicMessage(talk[i]) /\ ps[i] = ms[i].parts
  OBVIOUS
<1>4. ms \in [1 .. n -> Wires]
  BY <1>1, AnthropicSends
<1>. HIDE DEF ms
<1>5. /\ Parts(NonEmpty(ms)) = FlattenSeq(ps)
      /\ ps \in Seq(Seq(Contents)) /\ Len(ps) = n
      /\ \A i \in 1 .. Len(NonEmpty(ms)) : NonEmpty(ms)[i].parts # <<>>
      /\ (\A i \in 1 .. n - 1 : Calling(ms[i]) => Resulting(ms[i + 1])) => FollowUp(NonEmpty(ms))
  BY <1>1, <1>4, OneEach
<1>. HIDE DEF ps
<1>6. ASSUME NEW i \in 1 .. n, NEW K, "blank" \notin K
      PROVE  Only(K, ps[i]) = IF talk[i].role = "system" THEN <<>> ELSE Only(K, talk[i].content)
  BY <1>1, <1>3, <1>6, AnthropicSends
<1>7. Only(acted, FlattenSeq(ps)) = Only(acted, FlattenSeq(Sentences))
  <2>1. \A i \in 1 .. n : Only(acted, ps[i]) = Only(acted, Sentences[i])
    BY <1>1, <1>6, NotASystemTurn DEF Sentences
  <2>2. Sentences \in Seq(Seq(Contents)) /\ Len(Sentences) = n
    BY TurnSequences
  <2>. HIDE DEF n, acted
  <2>. QED
    BY <1>1, <1>5, <2>1, <2>2, OnlyPiecewise
<1>8. Only({"text"}, FlattenSeq(ps)) = Only({"text"}, FlattenSeq(Spoken))
  <2>1. \A i \in 1 .. n : Only({"text"}, ps[i]) = Only({"text"}, Spoken[i])
    BY <1>1, <1>6, OnlyOfNothing DEF Spoken
  <2>2. Spoken \in Seq(Seq(Contents)) /\ Len(Spoken) = n
    BY TurnSequences
  <2>. HIDE DEF n
  <2>. QED
    BY <1>1, <1>5, <2>1, <2>2, OnlyPiecewise
<1>9. Only({"blank"}, FlattenSeq(ps)) = <<>>
  <2>1. \A i \in 1 .. n : Only({"blank"}, ps[i]) = <<>>
    BY <1>1, <1>3, AnthropicSends
  <2>2. PICK ss \in Seq(Seq(Contents)) : ss = ps /\ Len(ss) = n
    BY <1>1, <1>5
  <2>3. FlattenSeq(ss) \in Seq(Contents)
    BY FlattenType
  <2>4. Only({"blank"}, FlattenSeq(ss)) = FlattenSeq([i \in 1 .. n |-> Only({"blank"}, ss[i])])
    BY <2>2, OnlyOfFlatten
  <2>5. [i \in 1 .. n |-> Only({"blank"}, ss[i])] = [i \in 1 .. n |-> Only({}, ss[i])]
    <3>1. \A s \in Seq(Contents) : Only({}, s) = <<>>
      BY OnlyNone
    <3>2. \A i \in 1 .. n : ss[i] \in Seq(Contents)
      BY <2>2, ElementOfSeq
    <3>. QED
      BY <2>1, <2>2, <3>1, <3>2
  <2>6. Only({}, FlattenSeq(ss)) = FlattenSeq([i \in 1 .. n |-> Only({}, ss[i])])
    BY <2>2, OnlyOfFlatten
  <2>7. Only({}, FlattenSeq(ss)) = <<>>
    BY <2>3, OnlyNone
  <2>. QED
    BY <2>2, <2>4, <2>5, <2>6, <2>7
<1>10. \A i \in 1 .. n - 1 : Calling(ms[i]) => Resulting(ms[i + 1])
  <2>. SUFFICES ASSUME NEW i \in 1 .. n - 1, Calling(ms[i])
                PROVE  Resulting(ms[i + 1])
    OBVIOUS
  <2>1. i \in 1 .. n /\ i + 1 \in 1 .. n
    BY <1>1
  <2>2. Only({"call"}, talk[i].content) # <<>>
    <3>1. Only({"call"}, ps[i]) = IF talk[i].role = "system" THEN <<>> ELSE Only({"call"}, talk[i].content)
      BY <1>6, <2>1
    <3>2. Only({"call"}, ps[i]) # <<>>
      BY <1>3, <2>1 DEF Calling
    <3>. QED
      BY <3>1, <3>2
  <2>3. talk[i + 1].role = "tool" /\ Only({"result"}, talk[i + 1].content) # <<>>
    BY <2>2, TurnsFollowUp
  <2>4. Only({"result"}, ps[i + 1]) =
           IF talk[i + 1].role = "system" THEN <<>> ELSE Only({"result"}, talk[i + 1].content)
    BY <1>6, <2>1
  <2>. QED
    BY <1>3, <2>1, <2>3, <2>4 DEF Resulting
<1>. QED
  BY <1>2, <1>5, <1>7, <1>8, <1>9, <1>10 DEF Sent, Sentences

LEMMA GoogleKeeps ==
    ASSUME WireIInv
    PROVE  /\ FollowUp(GoogleWire(talk))
           /\ \A i \in 1 .. Len(GoogleWire(talk)) : GoogleWire(talk)[i].parts # <<>>
           /\ Only({"call", "result"}, Parts(GoogleWire(talk))) = Only({"call", "result"}, SentNamed)
           /\ Only({"text"}, Parts(GoogleWire(talk))) = Only({"text"}, FlattenSeq(Spoken))
<1> DEFINE n == Len(talk)
           ms == [i \in 1 .. n |-> GoogleMessage(talk, i)]
           ps == [i \in 1 .. n |-> ms[i].parts]
           acted == {"call", "result"}
<1>1. n \in Nat /\ \A i \in 1 .. n :
         /\ talk[i] \in Turns /\ talk[i].content \in Seq(Contents)
         /\ talk[i].role = "system" => Holds({"text"}, talk[i])
  BY TalkParts
<1>2. GoogleWire(talk) = NonEmpty(ms)
  BY DEF GoogleWire
<1>3. \A i \in 1 .. n : ms[i] = GoogleMessage(talk, i) /\ ps[i] = ms[i].parts
  OBVIOUS
<1>4. ms \in [1 .. n -> Wires]
  BY GoogleSends
<1>. HIDE DEF ms
<1>5. /\ Parts(NonEmpty(ms)) = FlattenSeq(ps)
      /\ ps \in Seq(Seq(Contents)) /\ Len(ps) = n
      /\ \A i \in 1 .. Len(NonEmpty(ms)) : NonEmpty(ms)[i].parts # <<>>
      /\ (\A i \in 1 .. n - 1 : Calling(ms[i]) => Resulting(ms[i + 1])) => FollowUp(NonEmpty(ms))
  BY <1>1, <1>4, OneEach
<1>. HIDE DEF ps
<1>6. ASSUME NEW i \in 1 .. n, NEW K, "link" \notin K
      PROVE  /\ Only(K, ps[i]) = IF talk[i].role = "system" THEN <<>> ELSE Only(K, NamedTurns[i])
             /\ "result" \notin K => Only(K, NamedTurns[i]) = Only(K, talk[i].content)
  <2>1. NamedTurns[i] = [j \in 1 .. Len(talk[i].content) |-> Named(i, talk[i].content[j])]
    BY DEF NamedTurns
  <2>2. \A L : "link" \notin L =>
           Only(L, GoogleMessage(talk, i).parts) =
              IF talk[i].role = "system" THEN <<>> ELSE Only(L, NamedTurns[i])
    BY <2>1, GoogleSends
  <2>3. \A L : "result" \notin L => Only(L, NamedTurns[i]) = Only(L, talk[i].content)
    BY <2>1, GoogleSends
  <2>. QED
    BY <1>3, <1>6, <2>2, <2>3
<1>7. ASSUME NEW i \in 1 .. n, talk[i].role = "system", NEW K, "text" \notin K
      PROVE  Only(K, NamedTurns[i]) = <<>>
  <2> DEFINE t == talk[i].content
             s == NamedTurns[i]
  <2>1. /\ s = [j \in 1 .. Len(t) |-> Named(i, t[j])] /\ s \in Seq(Contents) /\ Len(s) = Len(t)
        /\ t \in Seq(Contents) /\ DOMAIN t = 1 .. Len(t)
    <3>1. s = [j \in 1 .. Len(t) |-> Named(i, t[j])]
      BY DEF NamedTurns
    <3>2. s \in Seq(Contents)
      BY <3>1, GoogleSends
    <3>. QED
      BY <1>1, <3>1, <3>2, TurnParts
  <2>2. \A j \in 1 .. Len(t) : s[j].kind = "text"
    BY <1>1, <1>7, <2>1, ResultIsNamed DEF Holds
  <2>. HIDE DEF s, t
  <2>3. \A j \in 1 .. Len(s) : s[j].kind \notin K
    BY <1>7, <2>1, <2>2
  <2>4. Only(K, s) = <<>>
    BY <2>1, <2>3, OnlyNone
  <2>. QED
    BY <2>4 DEF s
<1>8. Only(acted, FlattenSeq(ps)) = Only(acted, FlattenSeq(NamedTurns))
  <2>1. \A i \in 1 .. n : Only(acted, ps[i]) = Only(acted, NamedTurns[i])
    <3>. SUFFICES ASSUME NEW i \in 1 .. n
                  PROVE  Only(acted, ps[i]) = Only(acted, NamedTurns[i])
      OBVIOUS
    <3>1. Only(acted, ps[i]) = IF talk[i].role = "system" THEN <<>> ELSE Only(acted, NamedTurns[i])
      BY <1>6
    <3>2. talk[i].role = "system" => Only(acted, NamedTurns[i]) = <<>>
      BY <1>7
    <3>. QED
      BY <3>1, <3>2
  <2>2. NamedTurns \in Seq(Seq(Contents)) /\ Len(NamedTurns) = n
    BY TurnSequences
  <2>. HIDE DEF n, acted
  <2>3. ps \in Seq(Seq(Contents)) /\ Len(ps) = Len(NamedTurns)
    BY <1>5, <2>2
  <2>4. \A i \in 1 .. Len(ps) : Only(acted, ps[i]) = Only(acted, NamedTurns[i])
    BY <1>5, <2>1
  <2>. QED
    BY <2>2, <2>3, <2>4, OnlyPiecewise
<1>9. Only({"text"}, FlattenSeq(ps)) = Only({"text"}, FlattenSeq(Spoken))
  <2>1. \A i \in 1 .. n : Only({"text"}, ps[i]) = Only({"text"}, Spoken[i])
    <3>. SUFFICES ASSUME NEW i \in 1 .. n
                  PROVE  Only({"text"}, ps[i]) = Only({"text"}, Spoken[i])
      OBVIOUS
    <3>1. Only({"text"}, ps[i]) = IF talk[i].role = "system" THEN <<>> ELSE Only({"text"}, talk[i].content)
      BY <1>6
    <3>. QED
      BY <3>1, OnlyOfNothing DEF Spoken
  <2>2. Spoken \in Seq(Seq(Contents)) /\ Len(Spoken) = n
    BY TurnSequences
  <2>. HIDE DEF n
  <2>3. ps \in Seq(Seq(Contents)) /\ Len(ps) = Len(Spoken)
    BY <1>5, <2>2
  <2>4. \A i \in 1 .. Len(ps) : Only({"text"}, ps[i]) = Only({"text"}, Spoken[i])
    BY <1>5, <2>1
  <2>. QED
    BY <2>2, <2>3, <2>4, OnlyPiecewise
<1>10. \A i \in 1 .. n - 1 : Calling(ms[i]) => Resulting(ms[i + 1])
  <2>. SUFFICES ASSUME NEW i \in 1 .. n - 1, Calling(ms[i])
                PROVE  Resulting(ms[i + 1])
    OBVIOUS
  <2>1. i \in 1 .. n /\ i + 1 \in 1 .. n
    BY <1>1
  <2>2. Only({"call"}, talk[i].content) # <<>>
    <3>1. Only({"call"}, ps[i]) = IF talk[i].role = "system" THEN <<>> ELSE Only({"call"}, talk[i].content)
      BY <1>6, <2>1
    <3>2. Only({"call"}, ps[i]) # <<>>
      BY <1>3, <2>1 DEF Calling
    <3>. QED
      BY <3>1, <3>2
  <2>3. talk[i + 1].role = "tool" /\ Only({"result"}, talk[i + 1].content) # <<>>
    BY <2>2, TurnsFollowUp
  <2> DEFINE t == talk[i + 1].content
             s == NamedTurns[i + 1]
  <2>4. /\ s = [j \in 1 .. Len(t) |-> Named(i + 1, t[j])] /\ s \in Seq(Contents)
        /\ t \in Seq(Contents) /\ DOMAIN t = 1 .. Len(t)
    <3>1. s = [j \in 1 .. Len(t) |-> Named(i + 1, t[j])]
      BY <2>1 DEF NamedTurns
    <3>2. s \in Seq(Contents)
      BY <2>1, <3>1, GoogleSends
    <3>. QED
      BY <1>1, <2>1, <3>1, <3>2, TurnParts
  <2>5. \A j \in 1 .. Len(t) : Named(i + 1, t[j]).kind = t[j].kind
    BY <2>1, <2>4, ResultIsNamed
  <2>. HIDE DEF s, t
  <2>6. \E j \in 1 .. Len(t) : t[j].kind \in {"result"}
    <3>1. Only({"result"}, t) # <<>>
      BY <2>3 DEF t
    <3>. QED
      BY <2>4, <3>1, OnlyNone
  <2>7. \E j \in 1 .. Len(s) : s[j].kind \in {"result"}
    <3>1. Len(s) = Len(t) /\ \A j \in 1 .. Len(t) : s[j] = Named(i + 1, t[j])
      BY <2>4
    <3>. QED
      BY <2>5, <2>6, <3>1
  <2>8. Only({"result"}, s) # <<>>
    BY <2>4, <2>7, OnlySome
  <2>9. Only({"result"}, ps[i + 1]) =
           IF talk[i + 1].role = "system" THEN <<>> ELSE Only({"result"}, s)
    BY <1>6, <2>1 DEF s
  <2>. QED
    BY <1>3, <2>1, <2>3, <2>8, <2>9 DEF Resulting
<1>. QED
  BY <1>2, <1>5, <1>8, <1>9, <1>10 DEF SentNamed, NamedTurns

LEMMA CliKeeps ==
    ASSUME WireIInv
    PROVE  Only({"text"}, Parts(CliWire(talk))) = Only({"text"}, Sent)
<1> DEFINE n == Len(talk)
           ms == [i \in 1 .. n |-> Msg(talk[i].role, Only({"text", "plan", "result"}, talk[i].content))]
           ps == [i \in 1 .. n |-> ms[i].parts]
<1>1. n \in Nat /\ \A i \in 1 .. n : talk[i] \in Turns
  BY TalkParts
<1>2. CliWire(talk) = NonEmpty(ms)
  BY DEF CliWire
<1>3. \A i \in 1 .. n : ms[i] \in Wires /\ Only({"text"}, ps[i]) = Only({"text"}, Sentences[i])
  BY <1>1, CliSends DEF Sentences
<1>4. ms \in [1 .. n -> Wires]
  BY <1>3
<1>. HIDE DEF ms
<1>5. Parts(NonEmpty(ms)) = FlattenSeq(ps) /\ ps \in Seq(Seq(Contents)) /\ Len(ps) = n
  BY <1>1, <1>4, OneEach
<1>. HIDE DEF ps
<1>6. Sentences \in Seq(Seq(Contents)) /\ Len(Sentences) = n
  BY TurnSequences
<1>. HIDE DEF n
<1>7. Only({"text"}, FlattenSeq(ps)) = Only({"text"}, FlattenSeq(Sentences))
  BY <1>1, <1>3, <1>5, <1>6, OnlyPiecewise
<1>. QED
  BY <1>2, <1>5, <1>7 DEF Sent, Sentences

LEMMA OpenAIKeeps ==
    ASSUME WireIInv
    PROVE  /\ FollowUp(OpenAIWire(talk))
           /\ Only({"call", "result"}, Parts(OpenAIWire(talk))) = Only({"call", "result"}, Sent)
           /\ Only({"text"}, Parts(OpenAIWire(talk))) = Only({"text"}, Sent)
<1> DEFINE n == Len(talk)
           ww == [i \in 1 .. n |-> OpenAIMessages(talk[i])]
           ps == [i \in 1 .. n |-> Parts(ww[i])]
           acted == {"call", "result"}
<1>1. n \in Nat
  BY TalkParts
<1>2. OpenAIWire(talk) = FlattenSeq(ww)
  BY DEF OpenAIWire
<1>3. ASSUME NEW i \in 1 .. n
      PROVE  /\ ww[i] \in Seq(Wires) /\ ww[i] # <<>>
             /\ FollowUp(ww[i])
             /\ Calling(Last(ww[i])) => Only({"call"}, talk[i].content) # <<>>
             /\ talk[i].role = "tool" => Resulting(ww[i][1])
             /\ Only({"text"}, Parts(ww[i])) = Only({"text"}, Sentences[i])
             /\ Only(acted, Parts(ww[i])) = Only(acted, Sentences[i])
  <2>1. talk[i] \in Turns /\ TurnIsSound(talk, i)
    BY TalkParts
  <2>2. /\ talk[i].role = "tool" => talk[i].content # <<>> /\ Holds({"result"}, talk[i])
        /\ talk[i].role = "assistant" => Holds(Kinds \ {"result"}, talk[i])
    BY <2>1 DEF TurnIsSound
  <2>3. ww[i] = OpenAIMessages(talk[i]) /\ Sentences[i] = talk[i].content
    BY DEF Sentences
  <2>. HIDE DEF ww
  <2>. QED
    BY <2>1, <2>2, <2>3, OpenAISends
<1>4. ww \in Seq(Seq(Wires)) /\ Len(ww) = n
  <2>1. ww = [i \in 1 .. n |-> ww[i]]
    OBVIOUS
  <2>. HIDE DEF ww
  <2>. QED
    BY <1>1, <1>3, <2>1
<1>. HIDE DEF ww
<1>5. FollowUp(FlattenSeq(ww))
  <2>1. \A i \in 1 .. Len(ww) : ww[i] # <<>> /\ FollowUp(ww[i])
    BY <1>3, <1>4
  <2>2. \A i \in 1 .. Len(ww) - 1 : Calling(Last(ww[i])) => Resulting(ww[i + 1][1])
    <3>. SUFFICES ASSUME NEW i \in 1 .. n - 1, Calling(Last(ww[i]))
                  PROVE  Resulting(ww[i + 1][1])
      BY <1>4
    <3>1. i \in 1 .. n /\ i + 1 \in 1 .. n
      BY <1>1
    <3>2. Only({"call"}, talk[i].content) # <<>>
      BY <1>3, <3>1
    <3>3. talk[i + 1].role = "tool"
      BY <3>2, TurnsFollowUp
    <3>. QED
      BY <1>3, <3>1, <3>3
  <2>. QED
    BY <1>4, <2>1, <2>2, FollowUpOfFlatten
<1>6. Parts(FlattenSeq(ww)) = FlattenSeq(ps)
  <2>1. Parts(FlattenSeq(ww)) = FlattenSeq([i \in 1 .. Len(ww) |-> Parts(ww[i])])
    BY <1>4, WiresHaveParts, PartsOfFlatten
  <2>. QED
    BY <1>4, <2>1
<1>7. ps \in Seq(Seq(Contents)) /\ Len(ps) = n /\ \A i \in 1 .. n : ps[i] = Parts(ww[i])
  <2>1. \A i \in 1 .. n : Parts(ww[i]) \in Seq(Contents)
    BY <1>3, WiresHaveParts, PartsType
  <2>. QED
    BY <1>1, <2>1
<1>. HIDE DEF ps
<1>8. Sentences \in Seq(Seq(Contents)) /\ Len(Sentences) = n
  BY TurnSequences
<1>9. Only(acted, FlattenSeq(ps)) = Only(acted, FlattenSeq(Sentences))
  <2>1. \A i \in 1 .. n : Only(acted, ps[i]) = Only(acted, Sentences[i])
    BY <1>3, <1>7
  <2>. HIDE DEF n, acted
  <2>. QED
    BY <1>7, <1>8, <2>1, OnlyPiecewise
<1>10. Only({"text"}, FlattenSeq(ps)) = Only({"text"}, FlattenSeq(Sentences))
  <2>1. \A i \in 1 .. n : Only({"text"}, ps[i]) = Only({"text"}, Sentences[i])
    BY <1>3, <1>7
  <2>. HIDE DEF n
  <2>. QED
    BY <1>7, <1>8, <2>1, OnlyPiecewise
<1>. QED
  BY <1>2, <1>5, <1>6, <1>9, <1>10 DEF Sent, Sentences

\* What is always true of a conversation.
THEOREM WireInv == WireSpec => []WireIInv
<1>1. WireInit => WireIInv
  BY WireInitInv
<1>2. WireIInv /\ [WireNext]_wireVars => WireIInv'
  BY WireStep
<1>. QED
  BY <1>1, <1>2, PTL DEF WireSpec

\* However long the conversation, and whatever its calls are counted by, each
\* adapter sends all of it in order, and every result after its call and under
\* the name of the function.
THEOREM AdaptersKeepTheTurns == WireSpec => []WireKeepsTheTurns
<1>1. WireIInv => WireKeepsTheTurns
  <2>. SUFFICES ASSUME WireIInv
                PROVE  WireKeepsTheTurns
    OBVIOUS
  <2>1. FlattenSeq(Spoken) = FlattenSeq([i \in 1 .. Len(talk) |->
                                IF talk[i].role = "system" THEN <<>> ELSE talk[i].content])
    BY DEF Spoken
  <2>. QED
    BY <2>1, AnthropicKeeps, GoogleKeeps, OpenAIKeeps, CliKeeps DEF WireKeepsTheTurns
<1>. QED
  BY <1>1, WireInv, PTL

\* And nothing its API refuses.
THEOREM AdaptersAreAccepted == WireSpec => []WireIsAcceptable
<1>1. WireIInv => WireIsAcceptable
  <2>. SUFFICES ASSUME WireIInv
                PROVE  WireIsAcceptable
    OBVIOUS
  <2>1. wanted \in RequestFields
    <3>1. None \in RequestFields
      BY DEF None, RequestFields
    <3>. QED
      BY <3>1, WireAssumption DEF WireIInv
  <2>2. wanted.maxTokens \in Int /\ wanted.budget \in Int
    BY <2>1 DEF RequestFields
  <2>3. wanted.thinking # "off" =>
           LET p == AnthropicParams(wanted) IN
           p.budget >= 1024 /\ p.maxTokens > p.budget /\ (~p.temperature)
    BY <2>2 DEF AnthropicParams
  <2>. QED
    BY <2>3, AnthropicKeeps, GoogleKeeps DEF WireIsAcceptable
<1>. QED
  BY <1>1, WireInv, PTL
=============================================================================
