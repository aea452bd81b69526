---------------------------- MODULE StreamProofs ----------------------------
(***************************************************************************)
(* Streams from the providers.  ProviderStream: that a stream that returns *)
(* a message has told the same to its callback, and that nothing the       *)
(* server has sent is lost, for any blocks and any number of frames.       *)
(* SseScanner: that the events the scanner returns are those of the        *)
(* stream, for any stream and any cap.                                     *)
(***************************************************************************)
EXTENDS WireProofs, ProviderStream, SseScanner

-----------------------------------------------------------------------------
(* A sequence spread out: for each of its members, what h makes of it.     *)

Maps(S, T) == [S -> Seq(T)]

Spread(h, s) == FlattenSeq([k \in 1 .. Len(s) |-> h[s[k]]])

LEMMA SpreadPieces ==
    ASSUME NEW S, NEW T, NEW h \in Maps(S, T), NEW s \in Seq(S)
    PROVE  [k \in 1 .. Len(s) |-> h[s[k]]] \in Seq(Seq(T))
<1>1. \A k \in 1 .. Len(s) : s[k] \in S
  BY ElementOfSeq
<1>2. Len(s) \in Nat
  OBVIOUS
<1>. QED
  BY <1>1, <1>2 DEF Maps

LEMMA SpreadType ==
    ASSUME NEW S, NEW T, NEW h \in Maps(S, T), NEW s \in Seq(S)
    PROVE  Spread(h, s) \in Seq(T)
<1>1. [k \in 1 .. Len(s) |-> h[s[k]]] \in Seq(Seq(T))
  BY SpreadPieces
<1>2. FlattenSeq([k \in 1 .. Len(s) |-> h[s[k]]]) \in Seq(T)
  BY <1>1, FlattenType
<1>. QED
  BY <1>2 DEF Spread

LEMMA SpreadNothing ==
    ASSUME NEW h
    PROVE  Spread(h, <<>>) = <<>>
<1>1. [k \in 1 .. Len(<<>>) |-> h[<<>>[k]]] = <<>>
  OBVIOUS
<1>. QED
  BY <1>1, FlattenNothing DEF Spread

LEMMA SpreadAppend ==
    ASSUME NEW S, NEW T, NEW h \in Maps(S, T), NEW s \in Seq(S), NEW x \in S
    PROVE  Spread(h, Append(s, x)) = Spread(h, s) \o h[x]
<1> DEFINE n == Len(s)
           r == Append(s, x)
           f == [k \in 1 .. n + 1 |-> h[r[k]]]
           g == [k \in 1 .. n |-> h[s[k]]]
<1>1. /\ r \in Seq(S) /\ Len(r) = n + 1 /\ n \in Nat /\ r[n + 1] = x
      /\ \A k \in 1 .. n : r[k] = s[k]
  BY AppendProperties, LenProperties
<1>2. g \in Seq(Seq(T)) /\ f \in Seq(Seq(T)) /\ Len(f) = n + 1
  BY <1>1, SpreadPieces DEF Maps
<1>3. f \in [1 .. n + 1 -> Seq(T)]
  BY <1>2, LenProperties
<1>4. f[n + 1] = h[x] /\ h[x] \in Seq(T)
  BY <1>1 DEF Maps
<1>5. [k \in 1 .. n |-> f[k]] = g
  <2>1. \A k \in 1 .. n : k \in 1 .. n + 1 /\ f[k] = h[s[k]]
    BY <1>1
  <2>. HIDE DEF f, r, n
  <2>. QED
    BY <1>1, <2>1
<1>6. Spread(h, r) = FlattenSeq(f) /\ Spread(h, s) = FlattenSeq(g)
  BY <1>1 DEF Spread
<1>. HIDE DEF f, g, r, n
<1>7. f = Append(g, h[x])
  BY <1>1, <1>3, <1>4, <1>5, FunctionAppend
<1>. QED
  BY <1>2, <1>4, <1>6, <1>7, FlattenAppend DEF r

LEMMA SpreadOne ==
    ASSUME NEW S, NEW T, NEW h \in Maps(S, T), NEW x \in S
    PROVE  Spread(h, <<x>>) = h[x]
<1>1. <<>> \in Seq(S)
  OBVIOUS
<1>2. Spread(h, Append(<<>>, x)) = Spread(h, <<>>) \o h[x]
  BY <1>1, SpreadAppend
<1>3. Append(<<>>, x) = <<x>> /\ h[x] \in Seq(T)
  BY DEF Maps
<1>. QED
  BY <1>2, <1>3, SpreadNothing, ConcatEmptySeq

LEMMA SpreadConcat ==
    ASSUME NEW S, NEW T, NEW h \in Maps(S, T), NEW s \in Seq(S)
    PROVE  \A t \in Seq(S) : Spread(h, s \o t) = Spread(h, s) \o Spread(h, t)
<1> DEFINE G == {t \in Seq(S) : Spread(h, s \o t) = Spread(h, s) \o Spread(h, t)}
<1>1. <<>> \in G
  <2>1. s \o <<>> = s
    BY ConcatEmptySeq
  <2>2. Spread(h, s) \o <<>> = Spread(h, s)
    BY SpreadType, ConcatEmptySeq
  <2>3. <<>> \in Seq(S)
    OBVIOUS
  <2>. QED
    BY <2>1, <2>2, <2>3, SpreadNothing
<1>2. ASSUME NEW t \in Seq(S), NEW x \in S, t \in G
      PROVE  Append(t, x) \in G
  <2>1. s \o t \in Seq(S) /\ Append(t, x) \in Seq(S) /\ h[x] \in Seq(T)
    BY ConcatProperties, AppendProperties DEF Maps
  <2>2. s \o Append(t, x) = Append(s \o t, x)
    BY ConcatAppend
  <2>3. Spread(h, Append(s \o t, x)) = Spread(h, s \o t) \o h[x]
    BY <2>1, SpreadAppend
  <2>4. Spread(h, Append(t, x)) = Spread(h, t) \o h[x]
    BY SpreadAppend
  <2>5. Spread(h, s) \in Seq(T) /\ Spread(h, t) \in Seq(T)
    BY SpreadType
  <2>6. (Spread(h, s) \o Spread(h, t)) \o h[x] = Spread(h, s) \o (Spread(h, t) \o h[x])
    <3>1. \A a, b, c \in Seq(T) : (a \o b) \o c = a \o (b \o c)
      BY ConcatAssociative
    <3>. QED
      BY <2>1, <2>5, <3>1
  <2>. QED
    BY <1>2, <2>1, <2>2, <2>3, <2>4, <2>6
<1>. HIDE DEF G
<1>3. Seq(S) \subseteq G
  BY <1>1, <1>2, SequencesByInduction
<1>. QED
  BY <1>3 DEF G

\* What is spread out comes from a member.
LEMMA SpreadMembers ==
    ASSUME NEW S, NEW T, NEW h \in Maps(S, T), NEW s \in Seq(S)
    PROVE  \A y : y \in ToSet(Spread(h, s)) <=> \E x \in ToSet(s) : y \in ToSet(h[x])
<1> DEFINE f == [k \in 1 .. Len(s) |-> h[s[k]]]
<1>1. f \in Seq(Seq(T)) /\ Len(f) = Len(s) /\ DOMAIN s = 1 .. Len(s)
  BY SpreadPieces
<1>2. ToSet(FlattenSeq(f)) = UNION {ToSet(f[i]) : i \in 1 .. Len(f)}
  BY <1>1, FlattenMembers
<1>3. ToSet(FlattenSeq(f)) = UNION {ToSet(h[s[i]]) : i \in 1 .. Len(s)}
  BY <1>1, <1>2
<1>4. Spread(h, s) = FlattenSeq(f)
  BY DEF Spread
<1>5. ToSet(s) = {s[i] : i \in 1 .. Len(s)}
  BY <1>1 DEF ToSet
<1>. HIDE DEF f
<1>. QED
  BY <1>3, <1>4, <1>5

\* Spreading out twice is spreading out at once.
LEMMA SpreadSpread ==
    ASSUME NEW S, NEW T, NEW U, NEW h \in Maps(S, T), NEW g \in Maps(T, U)
    PROVE  \A s \in Seq(S) : Spread(g, Spread(h, s)) = Spread([x \in S |-> Spread(g, h[x])], s)
<1> DEFINE gh == [x \in S |-> Spread(g, h[x])]
           G == {s \in Seq(S) : Spread(g, Spread(h, s)) = Spread(gh, s)}
<1>1. gh \in Maps(S, U)
  <2>1. \A x \in S : Spread(g, h[x]) \in Seq(U)
    BY SpreadType DEF Maps
  <2>. QED
    BY <2>1 DEF Maps
<1>. HIDE DEF gh
<1>2. <<>> \in G
  <2>1. <<>> \in Seq(S)
    OBVIOUS
  <2>. QED
    BY <2>1, SpreadNothing
<1>3. ASSUME NEW s \in Seq(S), NEW x \in S, s \in G
      PROVE  Append(s, x) \in G
  <2>1. Append(s, x) \in Seq(S) /\ h[x] \in Seq(T) /\ gh[x] = Spread(g, h[x])
    BY AppendProperties DEF gh, Maps
  <2>2. Spread(h, s) \in Seq(T)
    BY SpreadType
  <2>3. Spread(h, Append(s, x)) = Spread(h, s) \o h[x]
    BY SpreadAppend
  <2>4. Spread(g, Spread(h, s) \o h[x]) = Spread(g, Spread(h, s)) \o Spread(g, h[x])
    <3>1. PICK u \in Seq(T) : u = Spread(h, s)
      BY <2>2
    <3>2. \A t \in Seq(T) : Spread(g, u \o t) = Spread(g, u) \o Spread(g, t)
      BY SpreadConcat
    <3>. QED
      BY <2>1, <3>1, <3>2
  <2>5. Spread(gh, Append(s, x)) = Spread(gh, s) \o gh[x]
    BY <1>1, SpreadAppend
  <2>. QED
    BY <1>3, <2>1, <2>3, <2>4, <2>5
<1>. HIDE DEF G
<1>4. Seq(S) \subseteq G
  BY <1>2, <1>3, SequencesByInduction
<1>. QED
  BY <1>4 DEF G, gh

LEMMA SpreadSame ==
    ASSUME NEW S, NEW T, NEW h \in Maps(S, T), NEW g \in Maps(S, T), NEW s \in Seq(S),
           \A x \in ToSet(s) : h[x] = g[x]
    PROVE  Spread(h, s) = Spread(g, s)
<1>1. \A k \in 1 .. Len(s) : s[k] \in ToSet(s)
  BY LenProperties DEF ToSet
<1>2. [k \in 1 .. Len(s) |-> h[s[k]]] = [k \in 1 .. Len(s) |-> g[s[k]]]
  BY <1>1
<1>. QED
  BY <1>2 DEF Spread

\* Members that nothing is made of add nothing.
LEMMA SpreadEmpty ==
    ASSUME NEW S, NEW T, NEW h \in Maps(S, T), NEW s \in Seq(S),
           \A x \in ToSet(s) : h[x] = <<>>
    PROVE  Spread(h, s) = <<>>
<1>1. ToSet(<<>>) = {}
  BY DEF ToSet
<1>2. \A y : y \notin ToSet(Spread(h, s))
  <2>1. \A y : y \in ToSet(Spread(h, s)) <=> \E x \in ToSet(s) : y \in ToSet(h[x])
    BY SpreadMembers
  <2>. QED
    BY <1>1, <2>1
<1>3. Spread(h, s) \in Seq(T)
  BY SpreadType
<1>. QED
  BY <1>2, <1>3, NoMembers

\* Of a sequence without repetition, one of each member that gives something.
Givers(h, s) == {x \in ToSet(s) : h[x] # <<>>}

LEMMA SpreadCount ==
    ASSUME NEW S, NEW T, NEW h \in Maps(S, T), \A x \in S : Len(h[x]) <= 1
    PROVE  \A s \in Seq(S) : (\A m, n \in 1 .. Len(s) : s[m] = s[n] => m = n) =>
              Len(Spread(h, s)) = Cardinality(Givers(h, s))
<1> DEFINE Once(s) == \A m, n \in 1 .. Len(s) : s[m] = s[n] => m = n
           Q(s) == {x \in ToSet(s) : h[x] # <<>>}
           G == {s \in Seq(S) : Once(s) => IsFiniteSet(Q(s)) /\ Len(Spread(h, s)) = Cardinality(Q(s))}
<1>1. <<>> \in G
  <2>1. <<>> \in Seq(S) /\ Len(<<>>) = 0
    OBVIOUS
  <2>2. Q(<<>>) = {}
    BY DEF ToSet
  <2>3. IsFiniteSet({}) /\ Cardinality({}) = 0
    BY FS_EmptySet
  <2>. QED
    BY <2>1, <2>2, <2>3, SpreadNothing
<1>2. ASSUME NEW s \in Seq(S), NEW x \in S, s \in G
      PROVE  Append(s, x) \in G
  <2> DEFINE r == Append(s, x)
             n == Len(s)
  <2>1. /\ r \in Seq(S) /\ Len(r) = n + 1 /\ n \in Nat /\ r[n + 1] = x
        /\ \A k \in 1 .. n : r[k] = s[k]
    BY AppendProperties, LenProperties
  <2>. SUFFICES ASSUME Once(r)
                PROVE  IsFiniteSet(Q(r)) /\ Len(Spread(h, r)) = Cardinality(Q(r))
    BY <2>1
  <2>2. DOMAIN r = 1 .. n + 1 /\ DOMAIN s = 1 .. n
    BY <2>1, LenProperties
  <2>3. ToSet(r) = ToSet(s) \cup {x}
    <3>1. \A k \in 1 .. n + 1 : k \in 1 .. n \/ k = n + 1
      BY <2>1
    <3>2. \A k \in 1 .. n : k \in 1 .. n + 1
      BY <2>1
    <3>3. n + 1 \in 1 .. n + 1
      BY <2>1
    <3>. HIDE DEF r, n
    <3>. QED
      BY <2>1, <2>2, <3>1, <3>2, <3>3 DEF ToSet
  <2>4. x \notin ToSet(s)
    <3>1. \A k \in 1 .. n : k \in 1 .. n + 1 /\ n + 1 \in 1 .. n + 1 /\ k # n + 1
      BY <2>1
    <3>2. \A k \in 1 .. n : r[k] # r[n + 1]
      BY <2>1, <3>1
    <3>. HIDE DEF r, n
    <3>. QED
      BY <2>1, <2>2, <3>2 DEF ToSet
  <2>5. Once(s)
    <3>1. \A k \in 1 .. n : k \in 1 .. n + 1
      BY <2>1
    <3>. QED
      BY <2>1, <3>1
  <2>6. IsFiniteSet(Q(s)) /\ Len(Spread(h, s)) = Cardinality(Q(s))
    BY <1>2, <2>5
  <2>7. Spread(h, r) = Spread(h, s) \o h[x] /\ Spread(h, s) \in Seq(T) /\ h[x] \in Seq(T)
    BY SpreadAppend, SpreadType DEF Maps
  <2>8. Len(Spread(h, r)) = Len(Spread(h, s)) + Len(h[x]) /\ Len(h[x]) \in Nat
    BY <2>7, ConcatProperties
  <2>9. CASE h[x] = <<>>
    <3>1. Q(r) = Q(s)
      BY <2>3, <2>9
    <3>. QED
      BY <2>6, <2>7, <2>9, <3>1, ConcatEmptySeq
  <2>10. CASE h[x] # <<>>
    <3>1. Q(r) = Q(s) \cup {x} /\ x \notin Q(s)
      BY <2>3, <2>4, <2>10
    <3>2. Len(h[x]) = 1
      <4>1. PICK l \in Nat \ {0} : l = Len(h[x])
        BY <2>7, <2>10, EmptySeq
      <4>2. l <= 1
        BY <4>1
      <4>3. l = 1
        BY <4>2
      <4>. QED
        BY <4>1, <4>3
    <3>. HIDE DEF Q, r
    <3>3. IsFiniteSet(Q(s) \cup {x}) /\ Cardinality(Q(s) \cup {x}) = Cardinality(Q(s)) + 1
      BY <2>6, <3>1, FS_AddElement
    <3>. QED
      BY <2>6, <2>8, <3>1, <3>2, <3>3
  <2>. QED
    BY <2>9, <2>10
<1>. HIDE DEF G
<1>3. Seq(S) \subseteq G
  BY <1>1, <1>2, SequencesByInduction
<1>. QED
  BY <1>3 DEF G, Givers

\* To add to a piece that only nothing follows is to add at the end.
GrowsAt(S, h, g, i, t) ==
    /\ g[i] = h[i] \o t
    /\ \A j \in S : /\ j # i => g[j] = h[j]
                    /\ j > i => h[j] = <<>>

LEMMA FlattenGrows ==
    ASSUME NEW T, NEW N \in Nat, NEW h \in Maps(1 .. N, T), NEW g \in Maps(1 .. N, T),
           NEW i \in 1 .. N, NEW t \in Seq(T), GrowsAt(1 .. N, h, g, i, t)
    PROVE  FlattenSeq(g) = FlattenSeq(h) \o t
<1> DEFINE F(f, n) == FlattenSeq([k \in 1 .. n |-> f[k]])
           P == {n \in Nat : n <= N => F(g, n) = IF n < i THEN F(h, n) ELSE F(h, n) \o t}
<1>1. g \in [1 .. N -> Seq(T)] /\ g[i] = h[i] \o t /\ \A j \in 1 .. N : j # i => g[j] = h[j]
  BY DEF Maps, GrowsAt
<1>a. h \in [1 .. N -> Seq(T)] /\ \A j \in 1 .. N : j > i => h[j] = <<>>
  BY DEF Maps, GrowsAt
<1>2. ASSUME NEW f \in [1 .. N -> Seq(T)], NEW n \in Nat, n + 1 <= N
      PROVE  F(f, n + 1) = F(f, n) \o f[n + 1] /\ F(f, n) \in Seq(T)
  <2> DEFINE a == [k \in 1 .. n + 1 |-> f[k]]
             b == [k \in 1 .. n |-> a[k]]
  <2>1. a \in [1 .. n + 1 -> Seq(T)] /\ a[n + 1] = f[n + 1]
    BY <1>2
  <2>2. b = [k \in 1 .. n |-> f[k]]
    BY <1>2
  <2>. HIDE DEF a
  <2>3. b \in Seq(Seq(T)) /\ a = Append(b, a[n + 1])
    BY <2>1, FunctionAppend
  <2>. HIDE DEF b
  <2>4. a[n + 1] \in Seq(T)
    BY <2>1, <1>2
  <2>5. FlattenSeq(a) = FlattenSeq(b) \o a[n + 1] /\ FlattenSeq(b) \in Seq(T)
    BY <2>3, <2>4, FlattenAppend, FlattenType
  <2>. QED
    BY <2>1, <2>2, <2>5 DEF a
<1>3. 0 \in P
  <2>1. F(g, 0) = F(h, 0)
    <3>1. [k \in 1 .. 0 |-> g[k]] = [k \in 1 .. 0 |-> h[k]]
      OBVIOUS
    <3>. QED
      BY <3>1
  <2>. QED
    BY <2>1
<1>4. ASSUME NEW n \in Nat, n \in P
      PROVE  n + 1 \in P
  <2>. SUFFICES ASSUME n + 1 <= N
                PROVE  F(g, n + 1) = IF n + 1 < i THEN F(h, n + 1) ELSE F(h, n + 1) \o t
    OBVIOUS
  <2>1. n + 1 \in 1 .. N /\ n <= N
    OBVIOUS
  <2>2. F(g, n + 1) = F(g, n) \o g[n + 1] /\ F(g, n) \in Seq(T)
    BY <1>1, <1>2
  <2>3. F(h, n + 1) = F(h, n) \o h[n + 1] /\ F(h, n) \in Seq(T)
    BY <1>2, <1>a
  <2>4. F(g, n) = IF n < i THEN F(h, n) ELSE F(h, n) \o t
    BY <1>4, <2>1
  <2>5. PICK u \in Seq(T) : u = F(h, n)
    BY <2>3
  <2>6. PICK x \in Seq(T) : x = h[n + 1] /\ (n + 1 > i => x = <<>>)
    BY <1>a, <2>1
  <2>7. PICK y : y = g[n + 1] /\ y = IF n + 1 = i THEN x \o t ELSE x
    BY <1>1, <2>1, <2>6
  <2>8. F(h, n + 1) = u \o x
    BY <2>3, <2>5, <2>6
  <2>9. F(g, n + 1) = (IF n < i THEN u ELSE u \o t) \o y
    BY <2>2, <2>4, <2>5, <2>7
  <2>10. PICK v : v = F(h, n + 1)
    OBVIOUS
  <2>11. PICK w : w = F(g, n + 1)
    OBVIOUS
  <2>12. w = IF n + 1 < i THEN v ELSE v \o t
    <3>1. v = u \o x /\ w = (IF n < i THEN u ELSE u \o t) \o y
      BY <2>8, <2>9, <2>10, <2>11
    <3>. HIDE DEF F, P
    <3>2. CASE n + 1 < i
      <4>1. n < i /\ n + 1 # i
        BY <3>2
      <4>2. y = x
        BY <2>7, <4>1
      <4>. QED
        BY <3>1, <3>2, <4>1, <4>2
    <3>3. CASE n + 1 = i
      <4>1. n < i /\ y = x \o t
        BY <2>7, <3>3
      <4>2. (u \o x) \o t = u \o (x \o t)
        BY ConcatAssociative
      <4>. QED
        BY <3>1, <3>3, <4>1, <4>2
    <3>4. CASE n + 1 > i
      <4>1. ~(n < i) /\ x = <<>> /\ y = <<>>
        BY <2>6, <2>7, <3>4
      <4>2. u \o t \in Seq(T)
        BY ConcatProperties
      <4>3. u \o <<>> = u /\ (u \o t) \o <<>> = u \o t
        BY <4>2, ConcatEmptySeq
      <4>. QED
        BY <3>1, <3>4, <4>1, <4>3
    <3>. QED
      BY <3>2, <3>3, <3>4
  <2>. QED
    BY <2>10, <2>11, <2>12
<1>. HIDE DEF P
<1>5. N \in P
  BY <1>3, <1>4, NumbersByInduction
<1>6. [k \in 1 .. N |-> g[k]] = g /\ [k \in 1 .. N |-> h[k]] = h
  BY <1>1, <1>a
<1>7. F(g, N) = F(h, N) \o t
  <2>1. N \in Nat /\ N <= N /\ ~(N < i)
    OBVIOUS
  <2>2. N <= N => F(g, N) = IF N < i THEN F(h, N) ELSE F(h, N) \o t
    BY <1>5 DEF P
  <2>. HIDE DEF F
  <2>. QED
    BY <2>1, <2>2
<1>8. F(g, N) = FlattenSeq(g) /\ F(h, N) = FlattenSeq(h)
  BY <1>6
<1>. QED
  BY <1>7, <1>8
-----------------------------------------------------------------------------
(* The records of one type, and their parts.                               *)

TypeMap(S, type) == [x \in S |-> IF x.type = type THEN <<x>> ELSE <<>>]
PartsMap(S, type) == [x \in S |-> IF x.type = type THEN x.parts ELSE <<>>]

LEMMA OfTypeIsSpread ==
    ASSUME NEW S, NEW s \in Seq(S), NEW type
    PROVE  TypeMap(S, type) \in Maps(S, S) /\ OfType(type, s) = Spread(TypeMap(S, type), s)
<1>1. \A x \in S : (IF x.type = type THEN <<x>> ELSE <<>>) \in Seq(S)
  <2>1. \A x \in S : <<x>> \in Seq(S)
    OBVIOUS
  <2>2. <<>> \in Seq(S)
    OBVIOUS
  <2>. QED
    BY <2>1, <2>2
<1>2. \A k \in 1 .. Len(s) : s[k] \in S
  BY ElementOfSeq
<1>3. [k \in 1 .. Len(s) |-> TypeMap(S, type)[s[k]]]
        = [k \in 1 .. Len(s) |-> IF s[k].type = type THEN <<s[k]>> ELSE <<>>]
  BY <1>2 DEF TypeMap
<1>4. TypeMap(S, type) \in Maps(S, S)
  BY <1>1 DEF TypeMap, Maps
<1>. QED
  BY <1>3, <1>4 DEF Spread, OfType

LEMMA OfTypeType ==
    ASSUME NEW S, NEW s \in Seq(S), NEW type
    PROVE  OfType(type, s) \in Seq(S)
<1>1. TypeMap(S, type) \in Maps(S, S) /\ OfType(type, s) = Spread(TypeMap(S, type), s)
  BY OfTypeIsSpread
<1>. QED
  BY <1>1, SpreadType

LEMMA OfTypeMembers ==
    ASSUME NEW S, NEW s \in Seq(S), NEW type
    PROVE  \A y : y \in ToSet(OfType(type, s)) <=> y \in ToSet(s) /\ y.type = type
<1>1. TypeMap(S, type) \in Maps(S, S) /\ OfType(type, s) = Spread(TypeMap(S, type), s)
  BY OfTypeIsSpread
<1>2. \A y : y \in ToSet(Spread(TypeMap(S, type), s)) <=> \E x \in ToSet(s) : y \in ToSet(TypeMap(S, type)[x])
  BY <1>1, SpreadMembers
<1>3. \A x \in ToSet(s) : x \in S
  BY ElementOfSeq, LenProperties DEF ToSet
<1>4. \A x \in S : \A y : y \in ToSet(TypeMap(S, type)[x]) <=> y = x /\ x.type = type
  <2>. SUFFICES ASSUME NEW x \in S, NEW y
                PROVE  y \in ToSet(TypeMap(S, type)[x]) <=> y = x /\ x.type = type
    OBVIOUS
  <2>1. ToSet(<<x>>) = {x} /\ ToSet(<<>>) = {}
    BY DEF ToSet
  <2>2. CASE x.type = type
    BY <2>1, <2>2 DEF TypeMap
  <2>3. CASE x.type # type
    BY <2>1, <2>3 DEF TypeMap
  <2>. QED
    BY <2>2, <2>3
<1>5. \A y : (\E x \in ToSet(s) : y \in ToSet(TypeMap(S, type)[x])) <=> y \in ToSet(s) /\ y.type = type
  BY <1>3, <1>4
<1>. QED
  BY <1>1, <1>2, <1>5

LEMMA OfTypeConcat ==
    ASSUME NEW S, NEW s \in Seq(S), NEW t \in Seq(S), NEW type
    PROVE  OfType(type, s \o t) = OfType(type, s) \o OfType(type, t)
<1>1. s \o t \in Seq(S)
  BY ConcatProperties
<1>2. PICK h \in Maps(S, S) : \A u \in Seq(S) : OfType(type, u) = Spread(h, u)
  BY OfTypeIsSpread
<1>3. Spread(h, s \o t) = Spread(h, s) \o Spread(h, t)
  BY SpreadConcat
<1>. QED
  BY <1>1, <1>2, <1>3

LEMMA OfTypeOne ==
    ASSUME NEW x, NEW type
    PROVE  OfType(type, <<x>>) = IF x.type = type THEN <<x>> ELSE <<>>
<1>1. x \in {x} /\ <<x>> \in Seq({x})
  OBVIOUS
<1>2. TypeMap({x}, type) \in Maps({x}, {x}) /\ OfType(type, <<x>>) = Spread(TypeMap({x}, type), <<x>>)
  BY <1>1, OfTypeIsSpread
<1>3. Spread(TypeMap({x}, type), <<x>>) = TypeMap({x}, type)[x]
  BY <1>1, <1>2, SpreadOne
<1>. QED
  BY <1>1, <1>2, <1>3 DEF TypeMap

LEMMA OfTypeNothing ==
    ASSUME NEW type
    PROVE  OfType(type, <<>>) = <<>>
<1>1. [k \in 1..Len(<<>>) |-> IF <<>>[k].type = type THEN <<<<>>[k]>> ELSE <<>>] = <<>>
  OBVIOUS
<1>. QED
  BY <1>1, FlattenNothing DEF OfType

LEMMA PartsAreSpread ==
    ASSUME NEW S, \A x \in S : x.parts \in Seq(Nat), NEW s \in Seq(S), NEW type
    PROVE  /\ PartsMap(S, type) \in Maps(S, Nat)
           /\ PartsOf(OfType(type, s)) = Spread(PartsMap(S, type), s)
<1> DEFINE p == [x \in S |-> x.parts]
           h == TypeMap(S, type)
<1>1. h \in Maps(S, S) /\ OfType(type, s) = Spread(h, s) /\ OfType(type, s) \in Seq(S)
  BY OfTypeIsSpread, OfTypeType
<1>2. p \in Maps(S, Nat)
  BY DEF Maps
<1>3. \A u \in Seq(S) : PartsOf(u) = Spread(p, u)
  <2>. SUFFICES ASSUME NEW u \in Seq(S)
                PROVE  PartsOf(u) = Spread(p, u)
    OBVIOUS
  <2>1. \A k \in 1 .. Len(u) : u[k] \in S
    BY ElementOfSeq
  <2>2. [k \in 1 .. Len(u) |-> p[u[k]]] = [k \in 1 .. Len(u) |-> u[k].parts]
    BY <2>1
  <2>. QED
    BY <2>2 DEF Spread, PartsOf
<1>4. \A x \in S : Spread(p, h[x]) = PartsMap(S, type)[x]
  <2>. SUFFICES ASSUME NEW x \in S
                PROVE  Spread(p, h[x]) = PartsMap(S, type)[x]
    OBVIOUS
  <2>1. Spread(p, <<x>>) = p[x]
    <3>. HIDE DEF p
    <3>. QED
      BY <1>2, SpreadOne
  <2>2. Spread(p, <<>>) = <<>>
    BY SpreadNothing
  <2>. QED
    BY <2>1, <2>2 DEF TypeMap, PartsMap
<1>5. PartsMap(S, type) \in Maps(S, Nat)
  <2>1. <<>> \in Seq(Nat)
    OBVIOUS
  <2>. QED
    BY <2>1 DEF PartsMap, Maps
<1>. HIDE DEF p, h
<1>6. Spread(p, Spread(h, s)) = Spread([x \in S |-> Spread(p, h[x])], s)
  BY <1>1, <1>2, SpreadSpread
<1>7. [x \in S |-> Spread(p, h[x])] = PartsMap(S, type)
  <2>1. [x \in S |-> Spread(p, h[x])] = [x \in S |-> PartsMap(S, type)[x]]
    BY <1>4
  <2>. QED
    BY <2>1 DEF PartsMap
<1>. QED
  BY <1>1, <1>3, <1>5, <1>6, <1>7

LEMMA PiecesConcat ==
    ASSUME NEW S, \A x \in S : x.parts \in Seq(Nat), NEW s \in Seq(S), NEW t \in Seq(S), NEW type
    PROVE  /\ PartsOf(OfType(type, s \o t)) = PartsOf(OfType(type, s)) \o PartsOf(OfType(type, t))
           /\ PartsOf(OfType(type, s)) \in Seq(Nat)
<1>1. s \o t \in Seq(S)
  BY ConcatProperties
<1>. DEFINE h == PartsMap(S, type)
<1>2. h \in Maps(S, Nat) /\ \A u \in Seq(S) : PartsOf(OfType(type, u)) = Spread(h, u)
  BY PartsAreSpread
<1>. HIDE DEF h
<1>3. Spread(h, s \o t) = Spread(h, s) \o Spread(h, t) /\ Spread(h, s) \in Seq(Nat)
  BY <1>2, SpreadConcat, SpreadType
<1>. QED
  BY <1>1, <1>2, <1>3

LEMMA PartsOne ==
    ASSUME NEW x, x.parts \in Seq(Nat), NEW type
    PROVE  PartsOf(OfType(type, <<x>>)) = IF x.type = type THEN x.parts ELSE <<>>
<1>1. x \in {x} /\ <<x>> \in Seq({x}) /\ \A y \in {x} : y.parts \in Seq(Nat)
  OBVIOUS
<1>2. /\ PartsMap({x}, type) \in Maps({x}, Nat)
      /\ PartsOf(OfType(type, <<x>>)) = Spread(PartsMap({x}, type), <<x>>)
  BY <1>1, PartsAreSpread
<1>3. Spread(PartsMap({x}, type), <<x>>) = PartsMap({x}, type)[x]
  BY <1>1, <1>2, SpreadOne
<1>. QED
  BY <1>1, <1>2, <1>3 DEF PartsMap

LEMMA PiecesOfNothing ==
    ASSUME NEW type
    PROVE  PartsOf(OfType(type, <<>>)) = <<>>
<1>1. [k \in 1..Len(<<>>) |-> <<>>[k].parts] = <<>>
  OBVIOUS
<1>. QED
  BY <1>1, OfTypeNothing, FlattenNothing DEF PartsOf

\* Where a part comes from.
LEMMA PartsMembers ==
    ASSUME NEW S, \A x \in S : x.parts \in Seq(Nat), NEW s \in Seq(S), NEW type
    PROVE  \A y : y \in ToSet(PartsOf(OfType(type, s)))
                      <=> \E x \in ToSet(s) : x.type = type /\ y \in ToSet(x.parts)
<1>1. /\ PartsMap(S, type) \in Maps(S, Nat)
      /\ PartsOf(OfType(type, s)) = Spread(PartsMap(S, type), s)
  BY PartsAreSpread
<1>2. \A y : y \in ToSet(Spread(PartsMap(S, type), s)) <=> \E x \in ToSet(s) : y \in ToSet(PartsMap(S, type)[x])
  BY <1>1, SpreadMembers
<1>3. \A x \in ToSet(s) : x \in S
  BY ElementOfSeq, LenProperties DEF ToSet
<1>4. \A x \in S : \A y : y \in ToSet(PartsMap(S, type)[x]) <=> x.type = type /\ y \in ToSet(x.parts)
  <2>. SUFFICES ASSUME NEW x \in S, NEW y
                PROVE  y \in ToSet(PartsMap(S, type)[x]) <=> x.type = type /\ y \in ToSet(x.parts)
    OBVIOUS
  <2>1. ToSet(<<>>) = {}
    BY DEF ToSet
  <2>2. CASE x.type = type
    BY <2>2 DEF PartsMap
  <2>3. CASE x.type # type
    BY <2>1, <2>3 DEF PartsMap
  <2>. QED
    BY <2>2, <2>3
<1>. QED
  BY <1>1, <1>2, <1>3, <1>4
-----------------------------------------------------------------------------
(* What is always true of a stream.                                        *)

Vendors == {"openai", "anthropic", "google", "cli"}
Marks == {"none", "given", "call", "name"} \X Nat
BlockTypes == {"none", "text", "thinking", "call"}
Slots == [type : BlockTypes, id : Marks, name : Marks, parts : Seq(Nat), started : BOOLEAN]
Items == [type : BlockTypes, id : Marks, name : Marks, parts : Seq(Nat)]
Events == [type : {"text", "thinking", "start", "delta", "stop", "done"},
           id : Marks, name : Marks, parts : Seq(Nat)]

StreamTypeOK ==
    /\ vendor \in Vendors \cup {"none"}
    /\ frames \in Nat /\ finish \in BOOLEAN
    /\ meant \in [Index -> Seq(Nat)]
    /\ acc \in [Index -> Slots]
    /\ order \in Seq(Nat) /\ (vendor # "cli" => order \in Seq(Index))
    /\ events \in Seq(Events)
    /\ message \in Seq(Items)
    /\ over \in {"open", "ok", "error"}

\* Nothing has happened before the call.
Unborn == vendor = "none" => over = "open" /\ acc = Nowhere /\ meant = [i \in Index |-> <<>>]
                                   /\ order = <<>> /\ events = <<>>

\* What the adapter has of one block.
SlotIsSound(i) ==
    /\ acc[i].type \in {"none", Blocks[i]}
    /\ acc[i].name \in {NoId, Name(i)}
    /\ acc[i].parts # <<>> \/ acc[i].started => acc[i].type = Blocks[i]
    /\ Blocks[i] = "call" /\ acc[i].type = "none" => acc[i] = Nothing
    /\ acc[i].type = "call" => acc[i].started = (acc[i].name = Name(i))
    /\ acc[i].type = "call" /\ vendor \in {"anthropic", "google"} => acc[i].started
    /\ vendor = "cli" => acc[i].type \in {"none", "text"}

\* All that was sent of it, or, of a call whose start is missing, nothing.
HasAll(i) ==
    \/ acc[i].parts = meant[i]
    \/ vendor = "anthropic" /\ Blocks[i] = "call" /\ acc[i] = Nothing

\* A CLI has read what it sent, or holds it back.
CliHasAll ==
    /\ \A i \in Index : Blocks[i] # "text" => meant[i] = <<>>
    /\ \A i \in Index : \A byte \in ToSet(meant[i]) :
          byte \in ToSet(order) \/ \E j \in Index : byte \in ToSet(acc[j].parts)

\* The calls are in order, each once.
OrderIsSound ==
    /\ vendor \in {"openai", "google"} => ToSet(order) = {i \in Index : acc[i].type = "call"}
    /\ vendor # "cli" => \A m, n \in 1..Len(order) : order[m] = order[n] => m = n

Called(i) == acc[i].type = "call" /\ acc[i].started

\* The id of a call that was told is its own.
Identified(i) ==
    /\ Called(i) => \/ acc[i].id = <<"given", i>>
                    \/ vendor = "openai" /\ acc[i].id = <<"call", i>>
                    \/ vendor = "google" /\ \E n \in 1..Len(order) :
                           order[n] = i /\ acc[i].id = <<"call", n - 1>>
    /\ acc[i].type = "call" /\ ~acc[i].started => acc[i].id \in {NoId, <<"given", i>>}

\* No fragment comes twice.
PartsAreOwn ==
    /\ \A i \in Index : \A part \in ToSet(acc[i].parts) : part <= frames
    /\ \A i, j \in Index : i # j => ToSet(acc[i].parts) \cap ToSet(acc[j].parts) = {}

Gathered ==
    /\ \A i \in Index : SlotIsSound(i) /\ Identified(i)
    /\ IF vendor = "cli" THEN CliHasAll ELSE (\A i \in Index : HasAll(i)) /\ PartsAreOwn
    /\ OrderIsSound
-----------------------------------------------------------------------------
(* Marks, records, and what the callback takes.                            *)

LEMMA IndexType == Len(Blocks) \in Nat /\ Index \subseteq Nat /\ \A i \in Index : Blocks[i] \in {"text", "thinking", "call"}
<1>1. Blocks \in Seq({"text", "thinking", "call"})
  BY StreamAssumption
<1>2. Len(Blocks) \in Nat
  BY <1>1
<1>3. \A i \in 1 .. Len(Blocks) : Blocks[i] \in {"text", "thinking", "call"}
  BY <1>1, ElementOfSeq
<1>. QED
  BY <1>2, <1>3 DEF Index

LEMMA MarkTypes ==
    /\ NoId \in Marks
    /\ \A i \in Nat : Name(i) \in Marks /\ <<"given", i>> \in Marks /\ <<"call", i>> \in Marks
    /\ \A i \in Nat : Name(i) # NoId /\ <<"given", i>> # NoId /\ <<"call", i>> # NoId
    /\ \A i, j \in Nat : Name(i) = Name(j) => i = j
    /\ \A i, j \in Nat : <<"given", i>> = <<"given", j>> => i = j
    /\ \A i, j \in Nat : <<"call", i>> = <<"call", j>> => i = j
    /\ \A i, j \in Nat : <<"given", i>> # <<"call", j>>
<1>1. NoId \in Marks
  BY DEF NoId, Marks
<1>2. \A i \in Nat : Name(i) \in Marks /\ <<"given", i>> \in Marks /\ <<"call", i>> \in Marks
  BY DEF Name, Marks
<1>3. \A i \in Nat : Name(i) # NoId /\ <<"given", i>> # NoId /\ <<"call", i>> # NoId
  BY DEF NoId, Name
<1>4. \A i, j \in Nat : Name(i) = Name(j) => i = j
  BY DEF Name
<1>. QED
  BY <1>1, <1>2, <1>3, <1>4

LEMMA EventTypes ==
    /\ \A t \in {"text", "thinking"}, parts \in Seq(Nat) : TextEv(t, parts) \in Events
    /\ \A a \in Slots : StartEv(a) \in Events /\ StopEv(a) \in Events
    /\ \A n \in Nat : DeltaEv(n) \in Events
    /\ DoneEv \in Events
    /\ \A e \in Events : e.parts \in Seq(Nat)
    /\ \A x \in Items : x.parts \in Seq(Nat)
<1>1. <<>> \in Seq(Nat) /\ \A n \in Nat : <<n>> \in Seq(Nat)
  OBVIOUS
<1>2. NoId \in Marks
  BY MarkTypes
<1>3. \A t \in {"text", "thinking"}, parts \in Seq(Nat) : TextEv(t, parts) \in Events
  BY <1>2 DEF TextEv, Ev, Events
<1>4. \A a \in Slots : StartEv(a) \in Events /\ StopEv(a) \in Events
  BY <1>1, <1>2 DEF StartEv, StopEv, Ev, Events, Slots
<1>5. \A n \in Nat : DeltaEv(n) \in Events
  BY <1>1, <1>2 DEF DeltaEv, Ev, Events
<1>6. DoneEv \in Events
  BY <1>1, <1>2 DEF DoneEv, Ev, Events
<1>7. (\A e \in Events : e.parts \in Seq(Nat)) /\ \A x \in Items : x.parts \in Seq(Nat)
  BY DEF Events, Items
<1>. QED
  BY <1>3, <1>4, <1>5, <1>6, <1>7

\* The fields of the events, and when two of them are the same.
LEMMA EventFields ==
    /\ \A t, parts : TextEv(t, parts).type = t /\ TextEv(t, parts).parts = parts
    /\ \A a : StartEv(a).type = "start" /\ StartEv(a).id = a.id /\ StartEv(a).name = a.name
    /\ \A a : StartEv(a).parts = <<>> /\ StopEv(a).parts = <<>>
    /\ \A a : StopEv(a).type = "stop" /\ StopEv(a).id = a.id
    /\ \A a, b : a.id = b.id => StopEv(a) = StopEv(b)
    /\ \A a, b : a.id = b.id /\ a.name = b.name => StartEv(a) = StartEv(b)
    /\ \A n : DeltaEv(n).type = "delta" /\ DeltaEv(n).parts = <<n>>
    /\ \A n, m \in Nat : DeltaEv(n) = DeltaEv(m) => n = m
    /\ DoneEv.type = "done" /\ DoneEv.parts = <<>>
<1>1. \A n, m \in Nat : DeltaEv(n) = DeltaEv(m) => n = m
  <2>. SUFFICES ASSUME NEW n \in Nat, NEW m \in Nat, DeltaEv(n) = DeltaEv(m)
                PROVE  n = m
    OBVIOUS
  <2>1. DeltaEv(n).parts = <<n>> /\ DeltaEv(m).parts = <<m>>
    BY DEF DeltaEv, Ev
  <2>2. <<n>> = <<m>>
    BY <2>1
  <2>. QED
    BY <2>2
<1>. QED
  BY <1>1 DEF TextEv, StartEv, StopEv, DeltaEv, DoneEv, Ev

LEMMA PrefixType ==
    ASSUME NEW S, NEW s \in Seq(S), NEW k \in Nat, k <= Len(s)
    PROVE  SubSeq(s, 1, k) \in Seq(S)
<1>1. k \in Int /\ 1 \in Int
  OBVIOUS
<1>2. \A j \in 1 .. k : j \in 1 .. Len(s)
  BY LenProperties
<1>3. \A j \in 1 .. k : s[j] \in S
  BY <1>2, ElementOfSeq
<1>. QED
  BY <1>1, <1>3, SubSeqProperties

LEMMA EmitCases ==
    ASSUME events \in Seq(Events), NEW evs \in Seq(Events), Emit(evs), over = "open"
    PROVE  /\ events' \in Seq(Events)
           /\ \/ over' = "error"
              \/ over' = "open" /\ events' = events \o evs
<1>1. events \o evs \in Seq(Events)
  BY ConcatProperties
<1>2. CASE events' = events \o evs /\ UNCHANGED over
  BY <1>1, <1>2
<1>3. CASE \E k \in 1..Len(evs) : events' = events \o SubSeq(evs, 1, k) /\ over' = "error"
  <2>1. PICK k \in 1..Len(evs) : events' = events \o SubSeq(evs, 1, k) /\ over' = "error"
    BY <1>3
  <2>2. SubSeq(evs, 1, k) \in Seq(Events)
    <3>0. Len(evs) \in Nat
      BY LenProperties
    <3>1. k \in Nat /\ k <= Len(evs)
      BY <3>0
    <3>. QED
      BY <3>1, PrefixType
  <2>3. events \o SubSeq(evs, 1, k) \in Seq(Events)
    BY <2>2, ConcatProperties
  <2>. QED
    BY <2>1, <2>3
<1>. QED
  BY <1>2, <1>3 DEF Emit

LEMMA StreamInitInv == StreamInit => StreamTypeOK /\ Unborn
<1>. SUFFICES ASSUME StreamInit
              PROVE  StreamTypeOK /\ Unborn
  OBVIOUS
<1>1. Nothing \in Slots
  <2>1. <<>> \in Seq(Nat)
    OBVIOUS
  <2>. QED
    BY <2>1, MarkTypes DEF Nothing, Slots, BlockTypes
<1>2. <<>> \in Seq(Nat) /\ <<>> \in Seq(Index) /\ <<>> \in Seq(Events) /\ <<>> \in Seq(Items)
  OBVIOUS
<1>3. acc \in [Index -> Slots] /\ meant \in [Index -> Seq(Nat)]
  BY <1>1, <1>2 DEF StreamInit, Nowhere
<1>. QED
  BY <1>2, <1>3 DEF StreamInit, StreamTypeOK, Unborn
-----------------------------------------------------------------------------
(* What the actions write.                                                 *)

LEMMA SlotFields ==
    ASSUME NEW a \in Slots
    PROVE  /\ a.type \in BlockTypes /\ a.id \in Marks /\ a.name \in Marks
           /\ a.parts \in Seq(Nat) /\ a.started \in BOOLEAN
           /\ a = [type |-> a.type, id |-> a.id, name |-> a.name, parts |-> a.parts, started |-> a.started]
BY DEF Slots

LEMMA SlotTypes ==
    ASSUME NEW t \in BlockTypes, NEW id \in Marks, NEW name \in Marks, NEW p \in Seq(Nat), NEW b \in BOOLEAN
    PROVE  [type |-> t, id |-> id, name |-> name, parts |-> p, started |-> b] \in Slots
BY DEF Slots

LEMMA SlotsEqual ==
    ASSUME NEW a \in Slots, NEW b \in Slots,
           a.type = b.type, a.id = b.id, a.name = b.name, a.parts = b.parts, a.started = b.started
    PROVE  a = b
BY DEF Slots

LEMMA NothingIsSlot ==
    /\ Nothing \in Slots
    /\ Nothing.type = "none" /\ Nothing.id = NoId /\ Nothing.name = NoId /\ Nothing.parts = <<>>
    /\ Nothing.started = FALSE
<1>1. <<>> \in Seq(Nat)
  OBVIOUS
<1>. QED
  BY <1>1, MarkTypes DEF Nothing, Slots, BlockTypes

\* A fragment is added to a block.
LEMMA GrownFields ==
    ASSUME NEW a \in Slots, NEW t \in BlockTypes, NEW p \in Seq(Nat)
    PROVE  /\ Grown(a, t, p) \in Slots
           /\ Grown(a, t, p).type = t /\ Grown(a, t, p).parts = a.parts \o p
           /\ Grown(a, t, p).id = a.id /\ Grown(a, t, p).name = a.name
           /\ Grown(a, t, p).started = a.started
<1>1. a.parts \o p \in Seq(Nat)
  BY SlotFields, ConcatProperties
<1>2. PICK q \in Seq(Nat) : q = a.parts \o p
  BY <1>1
<1>3. Grown(a, t, p) = [a EXCEPT !.type = t, !.parts = q]
  BY <1>2 DEF Grown
<1>4. [a EXCEPT !.type = t, !.parts = q] \in Slots
  BY DEF Slots
<1>5. PICK b : b = [a EXCEPT !.type = t, !.parts = q]
  OBVIOUS
<1>6. b.type = t /\ b.parts = q
  BY <1>5 DEF Slots
<1>7. b.id = a.id /\ b.name = a.name /\ b.started = a.started
  BY <1>5 DEF Slots
<1>. QED
  BY <1>2, <1>3, <1>4, <1>5, <1>6, <1>7

LEMMA CallGathered ==
    ASSUME NEW a \in Slots, NEW i \in Nat, NEW has,
           frames \in Nat
    PROVE  /\ WithCall(a, i, has) \in Slots
           /\ WithCall(a, i, has).type = "call" /\ WithCall(a, i, has).started = a.started
           /\ WithCall(a, i, has).id = IF "id" \in has /\ ~a.started THEN <<"given", i>> ELSE a.id
           /\ WithCall(a, i, has).name = IF "name" \in has THEN Name(i) ELSE a.name
           /\ WithCall(a, i, has).parts = IF "args" \in has THEN Append(a.parts, frames + 1) ELSE a.parts
<1>1. PICK w \in Marks : w = IF "id" \in has /\ ~a.started THEN <<"given", i>> ELSE a.id
  BY MarkTypes, SlotFields
<1>2. PICK n \in Marks : n = IF "name" \in has THEN Name(i) ELSE a.name
  BY MarkTypes, SlotFields
<1>3. PICK p \in Seq(Nat) : p = IF "args" \in has THEN Append(a.parts, frames + 1) ELSE a.parts
  <2>1. a.parts \in Seq(Nat) /\ frames + 1 \in Nat
    BY SlotFields
  <2>2. Append(a.parts, frames + 1) \in Seq(Nat)
    BY <2>1, AppendProperties
  <2>. QED
    BY <2>1, <2>2
<1>. DEFINE b == WithCall(a, i, has)
<1>4. b = [a EXCEPT !.type = "call", !.id = w, !.name = n, !.parts = p]
  BY <1>1, <1>2, <1>3 DEF WithCall
<1>. HIDE DEF b
<1>5. b \in Slots /\ b.type = "call" /\ b.started = a.started
  BY <1>4 DEF Slots, BlockTypes
<1>6. b.id = w /\ b.name = n /\ b.parts = p
  BY <1>4 DEF Slots
<1>7. /\ b.id = IF "id" \in has /\ ~a.started THEN <<"given", i>> ELSE a.id
      /\ b.name = IF "name" \in has THEN Name(i) ELSE a.name
      /\ b.parts = IF "args" \in has THEN Append(a.parts, frames + 1) ELSE a.parts
  BY <1>1, <1>2, <1>3, <1>6
<1>. QED
  BY <1>5, <1>7 DEF b

\* One fragment more of block i, and what the callback is told of it.
Fragment(i, evs) ==
    /\ acc' = [acc EXCEPT ![i] = acc'[i]] /\ acc'[i] \in Slots
    /\ evs \in Seq(Events) /\ events' \in Seq(Events)
    /\ \/ over' = "error"
       \/ over' = "open" /\ events' = events \o evs
    /\ vendor # "none" /\ vendor' = vendor /\ over = "open"
    /\ finish' = finish /\ message' = message

LEMMA FragmentType ==
    ASSUME StreamTypeOK, NEW i \in Index, NEW evs, Fragment(i, evs),
           frames' \in Nat, meant' \in [Index -> Seq(Nat)],
           order' \in Seq(Nat) /\ (vendor # "cli" => order' \in Seq(Index))
    PROVE  StreamTypeOK' /\ Unborn'
<1>1. acc' \in [Index -> Slots]
  <2>1. \A a \in Slots : [acc EXCEPT ![i] = a] \in [Index -> Slots]
    BY DEF StreamTypeOK
  <2>. QED
    BY <2>1 DEF Fragment
<1>2. events' \in Seq(Events) /\ message' \in Seq(Items) /\ over' \in {"open", "ok", "error"}
  BY DEF StreamTypeOK, Fragment
<1>3. vendor' \in Vendors \cup {"none"} /\ finish' \in BOOLEAN /\ vendor' = vendor /\ vendor' # "none"
  BY DEF StreamTypeOK, Fragment
<1>. QED
  BY <1>1, <1>2, <1>3 DEF StreamTypeOK, Unborn

\* The numbers of frames in a row.
LEMMA SendsType ==
    ASSUME StreamTypeOK, NEW i \in Index
    PROVE  /\ Append(meant[i], frames + 1) \in Seq(Nat) /\ meant[i] \in Seq(Nat)
           /\ [meant EXCEPT ![i] = Append(@, frames + 1)] \in [Index -> Seq(Nat)]
           /\ acc[i] \in Slots /\ acc[i].parts \in Seq(Nat)
           /\ Append(acc[i].parts, frames + 1) \in Seq(Nat)
           /\ frames \in Nat /\ frames + 1 \in Nat /\ <<frames + 1>> \in Seq(Nat)
<1>1. frames \in Nat /\ frames + 1 \in Nat /\ meant[i] \in Seq(Nat) /\ acc[i] \in Slots
  BY DEF StreamTypeOK
<1>2. acc[i].parts \in Seq(Nat)
  BY <1>1, SlotFields
<1>3. \A s \in Seq(Nat) : Append(s, frames + 1) \in Seq(Nat)
  BY <1>1, AppendProperties
<1>4. [meant EXCEPT ![i] = Append(meant[i], frames + 1)] \in [Index -> Seq(Nat)]
  BY <1>1, <1>3 DEF StreamTypeOK
<1>5. <<frames + 1>> \in Seq(Nat)
  BY <1>1
<1>. QED
  BY <1>1, <1>2, <1>3, <1>4, <1>5

LEMMA OneEvent == \A e \in Events : <<e>> \in Seq(Events)
OBVIOUS

LEMMA NoEvent == <<>> \in Seq(Events)
OBVIOUS

\* What OpenAIText does.
LEMMA OpenAITextDoes ==
    ASSUME StreamTypeOK, NEW i \in Index, OpenAIText(i)
    PROVE  /\ Fragment(i, <<TextEv("text", <<frames + 1>>)>>)
           /\ acc'[i].type = "text" /\ acc'[i].parts = acc[i].parts \o <<frames + 1>>
           /\ acc'[i].id = acc[i].id /\ acc'[i].name = acc[i].name /\ acc'[i].started = acc[i].started
           /\ vendor = "openai" /\ frames' = frames + 1 /\ order' = order
           /\ meant' = [meant EXCEPT ![i] = Append(meant[i], frames + 1)]
<1>1. acc[i] \in Slots /\ frames \in Nat /\ <<frames + 1>> \in Seq(Nat)
  BY SendsType
<1>2. acc' = [acc EXCEPT ![i] = Grown(acc[i], "text", <<frames + 1>>)]
  BY DEF OpenAIText, StreamTypeOK
<1>3. acc'[i] = Grown(acc[i], "text", <<frames + 1>>)
  BY <1>2 DEF StreamTypeOK
<1>4. /\ acc'[i] \in Slots /\ acc'[i].type = "text" /\ acc'[i].parts = acc[i].parts \o <<frames + 1>>
      /\ acc'[i].id = acc[i].id /\ acc'[i].name = acc[i].name /\ acc'[i].started = acc[i].started
  <2>1. PICK a \in Slots, p \in Seq(Nat) : a = acc[i] /\ p = <<frames + 1>>
    BY <1>1
  <2>2. "text" \in BlockTypes
    BY DEF BlockTypes
  <2>3. acc'[i] = Grown(a, "text", p)
    BY <1>3, <2>1
  <2>4. /\ acc'[i] \in Slots /\ acc'[i].type = "text" /\ acc'[i].parts = a.parts \o p
        /\ acc'[i].id = a.id /\ acc'[i].name = a.name /\ acc'[i].started = a.started
    BY <2>2, <2>3, GrownFields
  <2>. QED
    BY <2>1, <2>4
<1>5. <<TextEv("text", <<frames + 1>>)>> \in Seq(Events)
  BY <1>1, EventTypes, OneEvent
<1>6. over = "open" /\ Emit(<<TextEv("text", <<frames + 1>>)>>) /\ events \in Seq(Events)
  BY DEF OpenAIText, Frame, StreamTypeOK
<1>7. /\ events' \in Seq(Events)
      /\ \/ over' = "error"
         \/ over' = "open" /\ events' = events \o <<TextEv("text", <<frames + 1>>)>>
  BY <1>5, <1>6, EmitCases
<1>8. /\ vendor = "openai" /\ vendor' = vendor /\ finish' = finish /\ message' = message
      /\ frames' = frames + 1 /\ order' = order
      /\ meant' = [meant EXCEPT ![i] = Append(meant[i], frames + 1)]
  BY DEF OpenAIText, Frame, Sends
<1>. QED
  BY <1>2, <1>3, <1>4, <1>5, <1>6, <1>7, <1>8 DEF Fragment

LEMMA DeltasType ==
    ASSUME NEW p \in Seq(Nat)
    PROVE  /\ Deltas(p) \in Seq(Events) /\ Len(Deltas(p)) = Len(p)
           /\ \A k \in 1 .. Len(p) : Deltas(p)[k] = DeltaEv(p[k])
<1>1. \A k \in 1 .. Len(p) : p[k] \in Nat
  BY ElementOfSeq
<1>2. \A k \in 1 .. Len(p) : DeltaEv(p[k]) \in Events
  BY <1>1, EventTypes
<1>3. Len(p) \in Nat
  OBVIOUS
<1>. QED
  BY <1>2, <1>3 DEF Deltas

LEMMA TwoEvents == \A s, t \in Seq(Events) : s \o t \in Seq(Events)
BY ConcatProperties

\* What is told of a fragment of one of OpenAI's calls.
OpenAITells(i, has) ==
    IF ~acc[i].started /\ acc'[i].name # NoId THEN <<StartEv(acc'[i])>> \o Deltas(acc'[i].parts)
    ELSE IF "args" \in has /\ acc[i].started THEN <<DeltaEv(frames + 1)>> ELSE <<>>

LEMMA OpenAICallDoes ==
    ASSUME StreamTypeOK, NEW i \in Index, NEW has,
           OpenAICall(i, has)
    PROVE  /\ Fragment(i, OpenAITells(i, has))
           /\ acc'[i].type = "call"
           /\ acc'[i].parts = IF "args" \in has THEN Append(acc[i].parts, frames + 1) ELSE acc[i].parts
           /\ acc'[i].name = IF "name" \in has THEN Name(i) ELSE acc[i].name
           /\ acc'[i].started = (acc[i].started \/ acc'[i].name # NoId)
           /\ acc[i].started => acc'[i].id = acc[i].id
           /\ ~acc[i].started /\ ~acc'[i].started => acc'[i].id \in {acc[i].id, <<"given", i>>}
           /\ ~acc[i].started /\ acc'[i].started =>
                 \/ acc[i].id # NoId /\ acc'[i].id = acc[i].id
                 \/ acc'[i].id \in {<<"given", i>>, <<"call", i>>}
           /\ vendor = "openai" /\ frames' = frames + 1
           /\ order' = IF Contains(order, i) THEN order ELSE Append(order, i)
           /\ meant' = IF "args" \in has THEN [meant EXCEPT ![i] = Append(meant[i], frames + 1)] ELSE meant
<1> DEFINE got == WithCall(acc[i], i, has)
           starts == ~got.started /\ got.name # NoId
           b == [got EXCEPT !.started = TRUE, !.id = IF @ = NoId THEN <<"call", i>> ELSE @]
           a == IF starts THEN b ELSE got
<1>0. i \in Nat /\ acc[i] \in Slots /\ frames \in Nat /\ acc[i].parts \in Seq(Nat) /\ acc[i].started \in BOOLEAN
  BY SendsType, SlotFields, IndexType
<1>1. PICK g \in Slots :
         /\ g = got /\ g.type = "call" /\ g.started = acc[i].started
         /\ g.id = IF "id" \in has /\ ~acc[i].started THEN <<"given", i>> ELSE acc[i].id
         /\ g.name = IF "name" \in has THEN Name(i) ELSE acc[i].name
         /\ g.parts = IF "args" \in has THEN Append(acc[i].parts, frames + 1) ELSE acc[i].parts
  BY <1>0, CallGathered
<1>2. /\ g \in Slots /\ g.type = "call" /\ g.started = acc[i].started
      /\ g.id = IF "id" \in has /\ ~acc[i].started THEN <<"given", i>> ELSE acc[i].id
      /\ g.name = IF "name" \in has THEN Name(i) ELSE acc[i].name
      /\ g.parts = IF "args" \in has THEN Append(acc[i].parts, frames + 1) ELSE acc[i].parts
  BY <1>1
<1>3. PICK w \in Marks : w = IF g.id = NoId THEN <<"call", i>> ELSE g.id
  BY <1>0, <1>2, MarkTypes, SlotFields
<1>4. b = [g EXCEPT !.started = TRUE, !.id = w]
  BY <1>1, <1>3
<1>5. /\ b \in Slots /\ b.type = g.type /\ b.id = w /\ b.name = g.name /\ b.parts = g.parts /\ b.started = TRUE
  <2>1. ASSUME NEW c, c = [g EXCEPT !.started = TRUE, !.id = w]
        PROVE  c \in Slots /\ c.type = g.type /\ c.id = w /\ c.name = g.name /\ c.parts = g.parts /\ c.started = TRUE
    BY <1>2, <2>1 DEF Slots
  <2>. QED
    BY <1>4, <2>1
<1>6. /\ acc' = [acc EXCEPT ![i] = a]
      /\ Emit(IF starts THEN <<StartEv(a)>> \o Deltas(a.parts)
              ELSE IF "args" \in has /\ a.started THEN <<DeltaEv(frames + 1)>> ELSE <<>>)
  BY DEF OpenAICall
<1>7. acc'[i] = a
  BY <1>6 DEF StreamTypeOK
<1>8. starts = (~acc[i].started /\ g.name # NoId)
  BY <1>1, <1>2
<1>9. g = got
  BY <1>1
<1>. HIDE DEF got, b
<1>10. a = IF ~acc[i].started /\ g.name # NoId THEN b ELSE g
  BY <1>8, <1>9
<1>. HIDE DEF starts, a
<1>11. /\ a \in Slots /\ a.type = "call" /\ a.name = g.name /\ a.parts = g.parts
       /\ a.started = (acc[i].started \/ a.name # NoId)
  <2>1. CASE ~acc[i].started /\ g.name # NoId
    BY <1>2, <1>5, <1>10, <2>1
  <2>2. CASE ~(~acc[i].started /\ g.name # NoId)
    BY <1>0, <1>2, <1>10, <2>2
  <2>. QED
    BY <2>1, <2>2
<1>12. starts = (~acc[i].started /\ acc'[i].name # NoId)
  BY <1>7, <1>8, <1>11
<1>13. (IF starts THEN <<StartEv(a)>> \o Deltas(a.parts)
        ELSE IF "args" \in has /\ a.started THEN <<DeltaEv(frames + 1)>> ELSE <<>>) = OpenAITells(i, has)
  <2>1. ~starts => a.started = acc[i].started
    BY <1>0, <1>8, <1>11
  <2>. QED
    BY <1>7, <1>12, <2>1 DEF OpenAITells
<1>14. OpenAITells(i, has) \in Seq(Events)
  <2>1. <<DeltaEv(frames + 1)>> \in Seq(Events)
    BY <1>0, EventTypes, OneEvent
  <2>2. <<StartEv(a)>> \in Seq(Events)
    BY <1>11, EventTypes, OneEvent
  <2>3. Deltas(a.parts) \in Seq(Events)
    BY <1>11, SlotFields, DeltasType
  <2>4. <<StartEv(a)>> \o Deltas(a.parts) \in Seq(Events)
    BY <2>2, <2>3, TwoEvents
  <2>. QED
    BY <1>7, <2>1, <2>4, NoEvent DEF OpenAITells
<1>15. over = "open" /\ Emit(OpenAITells(i, has)) /\ events \in Seq(Events)
  <2>1. over = "open" /\ events \in Seq(Events)
    BY DEF OpenAICall, Frame, StreamTypeOK
  <2>. QED
    BY <1>6, <1>13, <2>1
<1>16. /\ events' \in Seq(Events)
       /\ \/ over' = "error"
          \/ over' = "open" /\ events' = events \o OpenAITells(i, has)
  BY <1>14, <1>15, EmitCases
<1>17. /\ vendor = "openai" /\ vendor' = vendor /\ finish' = finish /\ message' = message
       /\ frames' = frames + 1
       /\ order' = IF Contains(order, i) THEN order ELSE Append(order, i)
       /\ meant' = IF "args" \in has THEN [meant EXCEPT ![i] = Append(meant[i], frames + 1)] ELSE meant
  BY DEF OpenAICall, Frame, Sends
<1>18. Fragment(i, OpenAITells(i, has))
  BY <1>6, <1>7, <1>11, <1>14, <1>15, <1>16, <1>17 DEF Fragment
<1>19. acc[i].started => a.id = acc[i].id
  BY <1>2, <1>10
<1>20. ~acc[i].started /\ ~a.started => a.id \in {acc[i].id, <<"given", i>>}
  <2>. SUFFICES ASSUME ~acc[i].started, ~a.started
                PROVE  a.id \in {acc[i].id, <<"given", i>>}
    OBVIOUS
  <2>1. a = g
    BY <1>10, <1>11
  <2>. QED
    BY <1>2, <2>1
<1>21. ~acc[i].started /\ a.started =>
          \/ acc[i].id # NoId /\ a.id = acc[i].id
          \/ a.id \in {<<"given", i>>, <<"call", i>>}
  <2>. SUFFICES ASSUME ~acc[i].started, a.started
                PROVE  \/ acc[i].id # NoId /\ a.id = acc[i].id
                       \/ a.id \in {<<"given", i>>, <<"call", i>>}
    OBVIOUS
  <2>1. a.id = w
    BY <1>5, <1>10, <1>11
  <2>2. g.id = acc[i].id \/ g.id = <<"given", i>>
    BY <1>2
  <2>. QED
    BY <1>3, <2>1, <2>2
<1>. QED
  BY <1>2, <1>7, <1>11, <1>17, <1>18, <1>19, <1>20, <1>21

LEMMA BlockStartsDoes ==
    ASSUME StreamTypeOK, NEW i \in Index, BlockStarts(i)
    PROVE  /\ Fragment(i, IF Blocks[i] = "call" THEN <<StartEv(acc'[i])>> ELSE <<>>)
           /\ acc'[i].type = Blocks[i] /\ acc'[i].parts = acc[i].parts
           /\ acc'[i].id = <<"given", i>> /\ acc'[i].name = Name(i) /\ acc'[i].started = TRUE
           /\ vendor = "anthropic" /\ frames' = frames + 1 /\ order' = order /\ meant' = meant
           /\ ~acc[i].started /\ (Blocks[i] = "call" => meant[i] = <<>>)
<1> DEFINE a == [acc[i] EXCEPT !.type = Blocks[i], !.id = <<"given", i>>, !.name = Name(i), !.started = TRUE]
           evs == IF Blocks[i] = "call" THEN <<StartEv(a)>> ELSE <<>>
<1>1. acc[i] \in Slots /\ i \in Nat /\ Blocks[i] \in BlockTypes
  BY SendsType, IndexType DEF BlockTypes
<1>2. <<"given", i>> \in Marks /\ Name(i) \in Marks
  BY <1>1, MarkTypes
<1>3. acc' = [acc EXCEPT ![i] = a] /\ Emit(evs) /\ over = "open" /\ events \in Seq(Events)
  BY DEF BlockStarts, Frame, StreamTypeOK
<1>4. acc'[i] = a
  BY <1>3 DEF StreamTypeOK
<1>5. /\ a \in Slots /\ a.type = Blocks[i] /\ a.id = <<"given", i>> /\ a.name = Name(i)
      /\ a.parts = acc[i].parts /\ a.started = TRUE
  <2>1. PICK x \in Slots, t \in BlockTypes, id \in Marks, name \in Marks :
           x = acc[i] /\ t = Blocks[i] /\ id = <<"given", i>> /\ name = Name(i)
    BY <1>1, <1>2
  <2>2. a = [x EXCEPT !.type = t, !.id = id, !.name = name, !.started = TRUE]
    BY <2>1
  <2>. HIDE DEF a
  <2>3. a \in Slots /\ a.type = t /\ a.id = id /\ a.name = name /\ a.parts = x.parts /\ a.started = TRUE
    BY <2>2 DEF Slots
  <2>. QED
    BY <2>1, <2>3
<1>. HIDE DEF a
<1>6. evs \in Seq(Events)
  BY <1>5, EventTypes, OneEvent, NoEvent
<1>7. /\ events' \in Seq(Events)
      /\ \/ over' = "error"
         \/ over' = "open" /\ events' = events \o evs
  BY <1>3, <1>6, EmitCases
<1>8. /\ vendor = "anthropic" /\ vendor' = vendor /\ finish' = finish /\ message' = message
      /\ frames' = frames + 1 /\ order' = order /\ meant' = meant
      /\ ~acc[i].started /\ (Blocks[i] = "call" => meant[i] = <<>>)
  BY DEF BlockStarts, Frame
<1>. QED
  BY <1>3, <1>4, <1>5, <1>6, <1>7, <1>8 DEF Fragment

BlockTells(i) ==
    IF Blocks[i] = "call" THEN <<DeltaEv(frames + 1)>> ELSE <<TextEv(Blocks[i], <<frames + 1>>)>>

LEMMA BlockGrowsDoes ==
    ASSUME StreamTypeOK, NEW i \in Index, BlockGrows(i)
    PROVE  /\ vendor = "anthropic" /\ frames' = frames + 1 /\ order' = order /\ ~Contains(order, i)
           /\ meant' = [meant EXCEPT ![i] = Append(meant[i], frames + 1)]
           /\ \/ /\ Blocks[i] = "call" /\ acc[i] = Nothing
                 /\ Fragment(i, <<>>) /\ acc'[i] = acc[i]
              \/ /\ ~(Blocks[i] = "call" /\ acc[i] = Nothing)
                 /\ Fragment(i, BlockTells(i))
                 /\ acc'[i].type = Blocks[i] /\ acc'[i].parts = acc[i].parts \o <<frames + 1>>
                 /\ acc'[i].id = acc[i].id /\ acc'[i].name = acc[i].name /\ acc'[i].started = acc[i].started
<1>1. /\ acc[i] \in Slots /\ i \in Nat /\ Blocks[i] \in BlockTypes /\ Blocks[i] \in {"text", "thinking", "call"}
      /\ frames \in Nat /\ frames + 1 \in Nat /\ <<frames + 1>> \in Seq(Nat)
  BY SendsType, IndexType DEF BlockTypes
<1>2. /\ vendor = "anthropic" /\ vendor' = vendor /\ finish' = finish /\ message' = message /\ over = "open"
      /\ frames' = frames + 1 /\ order' = order /\ ~Contains(order, i)
      /\ meant' = [meant EXCEPT ![i] = Append(meant[i], frames + 1)]
      /\ events \in Seq(Events)
  BY DEF BlockGrows, Frame, Sends, StreamTypeOK
<1>3. CASE acc[i] = Nothing /\ Blocks[i] = "call"
  <2>1. acc' = acc /\ events' = events /\ over' = over
    BY <1>3 DEF BlockGrows
  <2>2. acc' = [acc EXCEPT ![i] = acc'[i]]
    BY <2>1 DEF StreamTypeOK
  <2>3. events \o <<>> = events /\ <<>> \in Seq(Events)
    BY <1>2, ConcatEmptySeq, NoEvent
  <2>. QED
    BY <1>1, <1>2, <1>3, <2>1, <2>2, <2>3 DEF Fragment
<1>4. CASE ~(acc[i] = Nothing /\ Blocks[i] = "call")
  <2>1. /\ acc' = [acc EXCEPT ![i] = Grown(acc[i], Blocks[i], <<frames + 1>>)]
        /\ Emit(<<IF Blocks[i] = "call" THEN DeltaEv(frames + 1) ELSE TextEv(Blocks[i], <<frames + 1>>)>>)
    BY <1>4 DEF BlockGrows
  <2>2. acc'[i] = Grown(acc[i], Blocks[i], <<frames + 1>>)
    BY <2>1 DEF StreamTypeOK
  <2>3. PICK a \in Slots, p \in Seq(Nat), t \in BlockTypes : a = acc[i] /\ p = <<frames + 1>> /\ t = Blocks[i]
    BY <1>1
  <2>4. acc'[i] = Grown(a, t, p)
    BY <2>2, <2>3
  <2>5. /\ acc'[i] \in Slots /\ acc'[i].type = t /\ acc'[i].parts = a.parts \o p
        /\ acc'[i].id = a.id /\ acc'[i].name = a.name /\ acc'[i].started = a.started
    BY <2>4, GrownFields
  <2>6. BlockTells(i) \in Seq(Events) /\ Emit(BlockTells(i))
    BY <1>1, <2>1, EventTypes, OneEvent DEF BlockTells
  <2>7. /\ events' \in Seq(Events)
        /\ \/ over' = "error"
           \/ over' = "open" /\ events' = events \o BlockTells(i)
    BY <1>2, <2>6, EmitCases
  <2>8. Fragment(i, BlockTells(i))
    BY <1>2, <2>1, <2>2, <2>5, <2>6, <2>7 DEF Fragment
  <2>. QED
    BY <1>2, <1>4, <2>3, <2>5, <2>8
<1>. QED
  BY <1>3, <1>4

LEMMA BlockStopsDoes ==
    ASSUME StreamTypeOK, NEW i \in Index, BlockStops(i)
    PROVE  /\ Fragment(i, IF acc[i].type = "call" THEN <<StopEv(acc[i])>> ELSE <<>>)
           /\ acc' = acc /\ meant' = meant
           /\ vendor = "anthropic" /\ frames' = frames + 1 /\ order' = Append(order, i)
           /\ acc[i].started /\ ~Contains(order, i)
<1> DEFINE evs == IF acc[i].type = "call" THEN <<StopEv(acc[i])>> ELSE <<>>
<1>1. acc[i] \in Slots
  BY SendsType
<1>2. evs \in Seq(Events)
  BY <1>1, EventTypes, OneEvent, NoEvent
<1>3. /\ vendor = "anthropic" /\ vendor' = vendor /\ finish' = finish /\ message' = message /\ over = "open"
      /\ frames' = frames + 1 /\ order' = Append(order, i) /\ ~Contains(order, i) /\ acc[i].started
      /\ acc' = acc /\ meant' = meant /\ Emit(evs) /\ events \in Seq(Events)
  BY DEF BlockStops, Frame, StreamTypeOK
<1>4. /\ events' \in Seq(Events)
      /\ \/ over' = "error"
         \/ over' = "open" /\ events' = events \o evs
  BY <1>2, <1>3, EmitCases
<1>5. acc' = [acc EXCEPT ![i] = acc'[i]]
  BY <1>3 DEF StreamTypeOK
<1>. QED
  BY <1>1, <1>2, <1>3, <1>4, <1>5 DEF Fragment

GoogleTells(i) ==
    IF Blocks[i] = "call" THEN <<StartEv(acc'[i]), DeltaEv(frames + 1), StopEv(acc'[i])>>
    ELSE <<TextEv(Blocks[i], <<frames + 1>>)>>

LEMMA GooglePartDoes ==
    ASSUME StreamTypeOK, NEW i \in Index, GooglePart(i)
    PROVE  /\ Fragment(i, GoogleTells(i))
           /\ acc'[i].type = Blocks[i] /\ acc'[i].parts = Append(acc[i].parts, frames + 1)
           /\ acc'[i].id \in {<<"given", i>>, <<"call", Len(order)>>}
           /\ acc'[i].name = Name(i) /\ acc'[i].started = TRUE
           /\ vendor = "google" /\ frames' = frames + 1
           /\ (Blocks[i] = "call" => acc[i] = Nothing)
           /\ order' = IF Blocks[i] = "call" THEN Append(order, i) ELSE order
           /\ meant' = [meant EXCEPT ![i] = Append(meant[i], frames + 1)]
<1> DEFINE Slot(id) == [type |-> Blocks[i], name |-> Name(i), started |-> TRUE,
                        id |-> IF id = NoId THEN <<"call", Len(order)>> ELSE id,
                        parts |-> Append(acc[i].parts, frames + 1)]
           Tells(a) == IF Blocks[i] = "call" THEN <<StartEv(a), DeltaEv(frames + 1), StopEv(a)>>
                       ELSE <<TextEv(Blocks[i], <<frames + 1>>)>>
<1>1. /\ i \in Nat /\ Blocks[i] \in BlockTypes /\ Blocks[i] \in {"text", "thinking", "call"}
      /\ frames \in Nat /\ frames + 1 \in Nat /\ <<frames + 1>> \in Seq(Nat)
      /\ Append(acc[i].parts, frames + 1) \in Seq(Nat)
  BY SendsType, IndexType DEF BlockTypes
<1>2. Len(order) \in Nat
  BY LenProperties DEF StreamTypeOK
<1>3. PICK id \in {NoId, <<"given", i>>} : acc' = [acc EXCEPT ![i] = Slot(id)] /\ Emit(Tells(Slot(id)))
  BY DEF GooglePart
<1>4. PICK w \in {<<"given", i>>, <<"call", Len(order)>>} : w = IF id = NoId THEN <<"call", Len(order)>> ELSE id
  OBVIOUS
<1>5. w \in Marks /\ Name(i) \in Marks
  BY <1>1, <1>2, MarkTypes
<1>6. acc'[i] = [type |-> Blocks[i], name |-> Name(i), started |-> TRUE, id |-> w,
                 parts |-> Append(acc[i].parts, frames + 1)]
  BY <1>3, <1>4 DEF StreamTypeOK
<1>7. acc'[i] \in Slots
  BY <1>1, <1>5, <1>6 DEF Slots
<1>8. acc'[i] = Slot(id)
  BY <1>3 DEF StreamTypeOK
<1>9. acc' = [acc EXCEPT ![i] = acc'[i]] /\ Emit(Tells(acc'[i]))
  BY <1>3, <1>8
<1>10. GoogleTells(i) \in Seq(Events)
  <2>1. \A a, b, c \in Events : <<a, b, c>> \in Seq(Events)
    OBVIOUS
  <2>2. <<TextEv(Blocks[i], <<frames + 1>>)>> \in Seq(Events) \/ Blocks[i] = "call"
    BY <1>1, EventTypes, OneEvent
  <2>3. StartEv(acc'[i]) \in Events /\ StopEv(acc'[i]) \in Events /\ DeltaEv(frames + 1) \in Events
    BY <1>1, <1>7, EventTypes
  <2>. QED
    BY <2>1, <2>2, <2>3 DEF GoogleTells
<1>11. Emit(GoogleTells(i)) /\ over = "open" /\ events \in Seq(Events)
  <2>1. GoogleTells(i) = Tells(acc'[i])
    BY DEF GoogleTells
  <2>. QED
    BY <1>9, <2>1 DEF GooglePart, Frame, StreamTypeOK
<1>12. /\ events' \in Seq(Events)
       /\ \/ over' = "error"
          \/ over' = "open" /\ events' = events \o GoogleTells(i)
  BY <1>10, <1>11, EmitCases
<1>13. /\ vendor = "google" /\ vendor' = vendor /\ finish' = finish /\ message' = message
       /\ frames' = frames + 1 /\ (Blocks[i] = "call" => acc[i] = Nothing)
       /\ order' = IF Blocks[i] = "call" THEN Append(order, i) ELSE order
       /\ meant' = [meant EXCEPT ![i] = Append(meant[i], frames + 1)]
  BY DEF GooglePart, Frame, Sends
<1>14. Fragment(i, GoogleTells(i))
  BY <1>7, <1>9, <1>10, <1>11, <1>12, <1>13 DEF Fragment
<1>15. /\ acc'[i].type = Blocks[i] /\ acc'[i].parts = Append(acc[i].parts, frames + 1)
       /\ acc'[i].id = w /\ acc'[i].name = Name(i) /\ acc'[i].started = TRUE
  BY <1>6
<1>. QED
  BY <1>4, <1>13, <1>14, <1>15

LEMMA GreatestExists ==
    ASSUME NEW n \in Nat, NEW S \in SUBSET (0 .. n), S # {}
    PROVE  \E x \in S : \A y \in S : x >= y
<1> DEFINE G == {m \in Nat : \A T \in SUBSET (0 .. m) : T # {} => \E x \in T : \A y \in T : x >= y}
<1>1. 0 \in G
  <2>1. ASSUME NEW T \in SUBSET (0 .. 0), NEW z \in T
        PROVE  \E x \in T : \A y \in T : x >= y
    <3>1. \A y \in T : y = 0
      OBVIOUS
    <3>2. \A y \in T : z >= y
      BY <2>1, <3>1
    <3>. QED
      BY <2>1, <3>2
  <2>. QED
    BY <2>1
<1>2. ASSUME NEW m \in Nat, m \in G
      PROVE  m + 1 \in G
  <2>. SUFFICES ASSUME NEW T \in SUBSET (0 .. m + 1), T # {}
                PROVE  \E x \in T : \A y \in T : x >= y
    OBVIOUS
  <2>1. CASE m + 1 \in T
    <3>1. \A y \in T : m + 1 >= y
      OBVIOUS
    <3>. QED
      BY <2>1, <3>1
  <2>2. CASE m + 1 \notin T
    <3>1. T \in SUBSET (0 .. m)
      BY <2>2
    <3>. QED
      BY <1>2, <3>1
  <2>. QED
    BY <2>1, <2>2
<1>. HIDE DEF G
<1>3. n \in G
  BY <1>1, <1>2, NumbersByInduction
<1>. QED
  BY <1>3 DEF G

\* The longest prefix that ends on a rune.
LEMMA CompletePrefixIs ==
    ASSUME NEW bytes \in Seq(Nat)
    PROVE  /\ CompletePrefix(bytes) \in Nat /\ CompletePrefix(bytes) <= Len(bytes)
           /\ CompletePrefix(bytes) # 0 => ~Inside(bytes[CompletePrefix(bytes)])
<1> DEFINE S == {0} \cup {k \in 1..Len(bytes) : ~Inside(bytes[k])}
<1>1. Len(bytes) \in Nat
  OBVIOUS
<1>2. S \in SUBSET (0 .. Len(bytes)) /\ S # {}
  BY <1>1
<1>3. \E x \in S : \A y \in S : x >= y
  BY <1>1, <1>2, GreatestExists
<1>4. Max(S) \in S
  BY <1>3 DEF Max
<1>5. CompletePrefix(bytes) = Max(S)
  BY DEF CompletePrefix
<1>. QED
  BY <1>1, <1>2, <1>4, <1>5

LEMMA ByteType == \A n \in Nat, cut \in Cut : Byte(n, cut) \in Nat
BY StreamAssumption DEF Byte, Cut

LEMMA CliReadDoes ==
    ASSUME StreamTypeOK, NEW i \in Index, NEW n \in 1..2, NEW cuts \in [1..n -> Cut], CliRead(i, cuts)
    PROVE  \E read \in Seq(Nat), told \in Seq(Nat) :
              /\ Fragment(i, IF told = <<>> THEN <<>> ELSE <<TextEv("text", told)>>)
              /\ order \o read = told \o order' /\ order' \in Seq(Nat)
              /\ told # <<>> => ~Inside(Last(told))
              /\ acc'[i].type = "text" /\ acc'[i].parts = acc[i].parts \o told
              /\ acc'[i].id = acc[i].id /\ acc'[i].name = acc[i].name /\ acc'[i].started = acc[i].started
              /\ vendor = "cli" /\ Blocks[i] = "text" /\ frames' \in Nat
              /\ meant' = [meant EXCEPT ![i] = meant[i] \o read]
<1> DEFINE read == [k \in 1..Len(cuts) |-> Byte(frames + k, cuts[k])]
           held == order \o read
           k == CompletePrefix(held)
           told == SubSeq(held, 1, k)
           rest == SubSeq(held, k + 1, Len(held))
           evs == IF k > 0 THEN <<TextEv("text", told)>> ELSE <<>>
<1>1. Len(cuts) = n /\ n \in Nat /\ frames \in Nat /\ MaxFrames \in Nat /\ acc[i] \in Slots /\ order \in Seq(Nat)
      /\ meant[i] \in Seq(Nat)
  BY StreamAssumption DEF StreamTypeOK
<1>2. read \in Seq(Nat)
  <2>1. \A j \in 1..Len(cuts) : frames + j \in Nat /\ cuts[j] \in Cut
    BY <1>1
  <2>2. \A j \in 1..Len(cuts) : Byte(frames + j, cuts[j]) \in Nat
    BY <2>1, ByteType
  <2>. QED
    BY <1>1, <2>2
<1>3. /\ acc' = [acc EXCEPT ![i] = Grown(acc[i], "text", told)]
      /\ meant' = [meant EXCEPT ![i] = meant[i] \o read]
      /\ Emit(evs) /\ order' = rest
  BY DEF CliRead
<1>4. /\ vendor = "cli" /\ vendor' = vendor /\ finish' = finish /\ message' = message /\ over = "open"
      /\ frames' = frames + Len(cuts) /\ Blocks[i] = "text" /\ events \in Seq(Events)
  BY DEF CliRead, StreamTypeOK
<1>. HIDE DEF read
<1>5. held \in Seq(Nat) /\ Len(held) \in Nat
  BY <1>1, <1>2, ConcatProperties, LenProperties
<1>. HIDE DEF held
<1>6. k \in Nat /\ k <= Len(held) /\ (k # 0 => ~Inside(held[k]))
  BY <1>5, CompletePrefixIs
<1>. HIDE DEF k
<1>7. told \in Seq(Nat) /\ Len(told) = k /\ (k > 0 => told[k] = held[k])
  <2>1. \A j \in 1 .. k : held[j] \in Nat
    <3>1. \A j \in 1 .. k : j \in 1 .. Len(held)
      BY <1>5, <1>6
    <3>. QED
      BY <1>5, <3>1, ElementOfSeq
  <2>2. /\ told \in Seq(Nat)
        /\ Len(told) = IF 1 <= k THEN k - 1 + 1 ELSE 0
        /\ \A j \in 1 .. k - 1 + 1 : told[j] = held[1 + j - 1]
    <3>1. k \in Int /\ 1 \in Int
      BY <1>6
    <3>. QED
      BY <2>1, <3>1, SubSeqProperties
  <2>3. k > 0 => k \in 1 .. k - 1 + 1 /\ 1 + k - 1 = k
    BY <1>6
  <2>4. Len(told) = k
    BY <1>6, <2>2
  <2>. HIDE DEF told
  <2>. QED
    BY <2>2, <2>3, <2>4
<1>8. told \o rest = held /\ rest \in Seq(Nat)
  <2>1. 1 \in 1 .. Len(held) + 1 /\ k \in 1 - 1 .. Len(held) /\ Len(held) \in k .. Len(held)
    BY <1>5, <1>6
  <2>2. told \o rest = SubSeq(held, 1, Len(held))
    BY <1>5, <2>1, ConcatAdjacentSubSeq
  <2>3. SubSeq(held, 1, Len(held)) = held
    BY <1>5, SubSeqFull
  <2>4. rest \in Seq(Nat)
    <3>1. \A j \in k + 1 .. Len(held) : j \in 1 .. Len(held)
      BY <1>5, <1>6
    <3>2. \A j \in k + 1 .. Len(held) : held[j] \in Nat
      BY <1>5, <3>1, ElementOfSeq
    <3>3. k + 1 \in Int /\ Len(held) \in Int
      BY <1>5, <1>6
    <3>. QED
      BY <3>2, <3>3, SubSeqProperties
  <2>. QED
    BY <2>2, <2>3, <2>4
<1>9. told = <<>> <=> ~(k > 0)
  BY <1>6, <1>7, EmptySeq
<1>. HIDE DEF told, rest
<1>10. acc'[i] = Grown(acc[i], "text", told)
  BY <1>3 DEF StreamTypeOK
<1>11. /\ acc'[i] \in Slots /\ acc'[i].type = "text" /\ acc'[i].parts = acc[i].parts \o told
       /\ acc'[i].id = acc[i].id /\ acc'[i].name = acc[i].name /\ acc'[i].started = acc[i].started
  <2>1. PICK a \in Slots, t \in Seq(Nat) : a = acc[i] /\ t = told
    BY <1>1, <1>7
  <2>2. "text" \in BlockTypes
    BY DEF BlockTypes
  <2>3. acc'[i] = Grown(a, "text", t)
    BY <1>10, <2>1
  <2>4. /\ acc'[i] \in Slots /\ acc'[i].type = "text" /\ acc'[i].parts = a.parts \o t
        /\ acc'[i].id = a.id /\ acc'[i].name = a.name /\ acc'[i].started = a.started
    BY <2>2, <2>3, GrownFields
  <2>. QED
    BY <2>1, <2>4
<1>12. evs \in Seq(Events) /\ evs = IF told = <<>> THEN <<>> ELSE <<TextEv("text", told)>>
  BY <1>7, <1>9, EventTypes, OneEvent, NoEvent
<1>. HIDE DEF evs
<1>13. /\ events' \in Seq(Events)
       /\ \/ over' = "error"
          \/ over' = "open" /\ events' = events \o evs
  BY <1>3, <1>4, <1>12, EmitCases
<1>14. Fragment(i, evs)
  BY <1>3, <1>4, <1>10, <1>11, <1>12, <1>13 DEF Fragment
<1>15. told # <<>> => ~Inside(Last(told))
  BY <1>6, <1>7, <1>9 DEF Last
<1>16. frames' \in Nat
  BY <1>1, <1>4
<1>17. order \o read = told \o order' /\ order' \in Seq(Nat)
  BY <1>3, <1>8 DEF held
<1>. QED
  BY <1>2, <1>3, <1>4, <1>7, <1>11, <1>12, <1>14, <1>15, <1>16, <1>17
-----------------------------------------------------------------------------
(* The message, and the types.                                             *)

SaidMap(type) == [i \in Index |-> IF acc[i].type = type THEN acc[i].parts ELSE <<>>]
BlockMap ==
    [i \in Index |-> IF acc[i].type # "none" /\ (acc[i].type = "text" => acc[i].parts # <<>>)
                     THEN <<Item(BlockContent(i))>> ELSE <<>>]
\* A block as it is put into a message.
Kept(i) == IF vendor = "anthropic" THEN BlockContent(i) ELSE acc[i]
CallMap == [i \in Index |-> IF acc[i].name # NoId THEN <<acc[i]>> ELSE <<>>]
AllBlocks == [i \in Index |-> i]

LEMMA AllBlocksAre ==
    /\ AllBlocks \in Seq(Index) /\ Len(AllBlocks) = Len(Blocks) /\ ToSet(AllBlocks) = Index
    /\ \A i \in Index : AllBlocks[i] = i
    /\ \A m, n \in 1 .. Len(AllBlocks) : AllBlocks[m] = AllBlocks[n] => m = n
<1>1. Len(Blocks) \in Nat
  BY IndexType
<1>2. AllBlocks \in Seq(Index) /\ Len(AllBlocks) = Len(Blocks) /\ \A i \in Index : AllBlocks[i] = i
  BY <1>1 DEF AllBlocks, Index
<1>3. DOMAIN AllBlocks = Index
  BY DEF AllBlocks
<1>4. ToSet(AllBlocks) = Index
  BY <1>2, <1>3 DEF ToSet
<1>5. 1 .. Len(AllBlocks) = Index
  BY <1>2 DEF Index
<1>. QED
  BY <1>2, <1>4, <1>5

\* Over all blocks, flattened is spread out.
LEMMA FlattenBlocks ==
    ASSUME NEW T, NEW h \in Maps(Index, T)
    PROVE  FlattenSeq(h) = Spread(h, AllBlocks) /\ h \in Seq(Seq(T))
<1>1. /\ Len(AllBlocks) = Len(Blocks) /\ \A i \in Index : AllBlocks[i] = i
  BY AllBlocksAre
<1>2. DOMAIN h = Index /\ h = [i \in Index |-> h[i]] /\ \A i \in Index : h[i] \in Seq(T)
  BY DEF Maps
<1>3. [k \in 1 .. Len(AllBlocks) |-> h[AllBlocks[k]]] = [k \in Index |-> h[k]]
  BY <1>1 DEF Index
<1>4. h \in Seq(Seq(T))
  <2>1. Len(Blocks) \in Nat
    BY IndexType
  <2>. QED
    BY <1>2, <2>1 DEF Index
<1>. QED
  BY <1>2, <1>3, <1>4 DEF Spread

LEMMA ItemTypes ==
    /\ \A a \in Slots : Item(a) \in Items /\ Item(a).type = a.type /\ Item(a).parts = a.parts
    /\ \A a \in Slots : a.type = "call" => Item(a).id = a.id /\ Item(a).name = a.name
    /\ \A t \in {"text", "thinking"}, p \in Seq(Nat) :
          TextItem(t, p) \in Items /\ TextItem(t, p).type = t /\ TextItem(t, p).parts = p
<1>1. ASSUME NEW a \in Slots
      PROVE  Item(a) \in Items /\ Item(a).type = a.type /\ Item(a).parts = a.parts
  <2>1. a.type \in BlockTypes /\ a.id \in Marks /\ a.name \in Marks /\ a.parts \in Seq(Nat)
    BY SlotFields
  <2>2. (IF a.type = "call" THEN a.id ELSE NoId) \in Marks /\ (IF a.type = "call" THEN a.name ELSE NoId) \in Marks
    BY <2>1, MarkTypes
  <2>. QED
    BY <2>1, <2>2 DEF Item, Items
<1>2. \A a \in Slots : a.type = "call" => Item(a).id = a.id /\ Item(a).name = a.name
  BY DEF Item
<1>3. ASSUME NEW t \in {"text", "thinking"}, NEW p \in Seq(Nat)
      PROVE  TextItem(t, p) \in Items /\ TextItem(t, p).type = t /\ TextItem(t, p).parts = p
  BY MarkTypes DEF TextItem, Items, BlockTypes
<1>. QED
  BY <1>1, <1>2, <1>3

LEMMA BlockContentIs ==
    ASSUME acc \in [Index -> Slots], NEW i \in Index
    PROVE  /\ BlockContent(i) \in Slots
           /\ BlockContent(i).type = acc[i].type /\ BlockContent(i).id = acc[i].id
           /\ BlockContent(i).name = acc[i].name
           /\ BlockContent(i).parts = IF acc[i].type = "call" /\ i \notin valid THEN <<>> ELSE acc[i].parts
<1>1. PICK a \in Slots : a = acc[i]
  OBVIOUS
<1>2. <<>> \in Seq(Nat)
  OBVIOUS
<1>3. /\ [a EXCEPT !.parts = <<>>] \in Slots
      /\ [a EXCEPT !.parts = <<>>].type = a.type /\ [a EXCEPT !.parts = <<>>].id = a.id
      /\ [a EXCEPT !.parts = <<>>].name = a.name /\ [a EXCEPT !.parts = <<>>].parts = <<>>
  BY <1>2 DEF Slots
<1>4. BlockContent(i) = IF a.type = "call" /\ i \notin valid THEN [a EXCEPT !.parts = <<>>] ELSE a
  BY <1>1 DEF BlockContent
<1>. QED
  BY <1>1, <1>3, <1>4

LEMMA KeptIs ==
    ASSUME acc \in [Index -> Slots], NEW i \in Index
    PROVE  /\ Kept(i) \in Slots
           /\ Kept(i).type = acc[i].type /\ Kept(i).id = acc[i].id /\ Kept(i).name = acc[i].name
           /\ Kept(i).parts = IF vendor = "anthropic" /\ acc[i].type = "call" /\ i \notin valid
                              THEN <<>> ELSE acc[i].parts
<1>1. acc[i] \in Slots
  OBVIOUS
<1>. QED
  BY <1>1, BlockContentIs DEF Kept

LEMMA SaidIs ==
    ASSUME acc \in [Index -> Slots], NEW type
    PROVE  /\ SaidMap(type) \in Maps(Index, Nat)
           /\ FlattenSeq([i \in Index |-> IF acc[i].type = type THEN acc[i].parts ELSE <<>>])
                 = Spread(SaidMap(type), AllBlocks)
           /\ Spread(SaidMap(type), AllBlocks) \in Seq(Nat)
<1>1. SaidMap(type) \in Maps(Index, Nat)
  <2>1. <<>> \in Seq(Nat)
    OBVIOUS
  <2>2. \A i \in Index : acc[i].parts \in Seq(Nat)
    BY SlotFields
  <2>. QED
    BY <2>1, <2>2 DEF SaidMap, Maps
<1>2. FlattenSeq(SaidMap(type)) = Spread(SaidMap(type), AllBlocks)
  BY <1>1, FlattenBlocks
<1>3. Spread(SaidMap(type), AllBlocks) \in Seq(Nat)
  BY <1>1, SpreadType, AllBlocksAre
<1>. QED
  BY <1>1, <1>2, <1>3 DEF SaidMap

LEMMA BlocksAre ==
    ASSUME acc \in [Index -> Slots]
    PROVE  BlockMap \in Maps(Index, Items)
<1>1. <<>> \in Seq(Items) /\ \A x \in Items : <<x>> \in Seq(Items)
  OBVIOUS
<1>2. \A i \in Index : Item(BlockContent(i)) \in Items
  BY BlockContentIs, ItemTypes
<1>. QED
  BY <1>1, <1>2 DEF BlockMap, Maps

LEMMA CallsAre ==
    ASSUME acc \in [Index -> Slots], order \in Seq(Index)
    PROVE  CallMap \in Maps(Index, Slots) /\ CallsMade = Spread(CallMap, order) /\ CallsMade \in Seq(Slots)
<1>1. CallMap \in Maps(Index, Slots)
  <2>1. <<>> \in Seq(Slots) /\ \A x \in Slots : <<x>> \in Seq(Slots)
    OBVIOUS
  <2>. QED
    BY <2>1 DEF CallMap, Maps
<1>2. \A k \in 1 .. Len(order) : order[k] \in Index
  BY ElementOfSeq
<1>3. [k \in 1 .. Len(order) |-> CallMap[order[k]]]
        = [k \in 1 .. Len(order) |-> IF acc[order[k]].name # NoId THEN <<acc[order[k]]>> ELSE <<>>]
  BY <1>2 DEF CallMap
<1>4. CallsMade = Spread(CallMap, order)
  BY <1>3 DEF CallsMade, Spread
<1>. QED
  BY <1>1, <1>4, SpreadType

LEMMA JoinedType ==
    ASSUME acc \in [Index -> Slots], NEW kind \in {"text", "thinking"}
    PROVE  /\ Joined(kind) \in Seq(Items)
           /\ Joined(kind) = IF Spread(SaidMap(kind), AllBlocks) = <<>> THEN <<>>
                             ELSE <<TextItem(kind, Spread(SaidMap(kind), AllBlocks))>>
<1>1. PICK p \in Seq(Nat) :
         /\ p = Spread(SaidMap(kind), AllBlocks)
         /\ p = FlattenSeq([i \in Index |-> IF acc[i].type = kind THEN acc[i].parts ELSE <<>>])
  BY SaidIs
<1>2. Joined(kind) = IF p = <<>> THEN <<>> ELSE <<TextItem(kind, p)>>
  BY <1>1 DEF Joined
<1>3. TextItem(kind, p) \in Items
  BY ItemTypes
<1>4. <<>> \in Seq(Items) /\ <<TextItem(kind, p)>> \in Seq(Items)
  BY <1>3
<1>. QED
  BY <1>1, <1>2, <1>4

CallItems == [k \in 1..Len(CallsMade) |-> Item(CallsMade[k])]
Stops == [k \in 1..Len(CallsMade) |-> StopEv(CallsMade[k])]

LEMMA AssembledType ==
    ASSUME acc \in [Index -> Slots], order \in Seq(Index)
    PROVE  /\ Assembled \in Seq(Items)
           /\ Joined("thinking") \in Seq(Items) /\ Joined("text") \in Seq(Items) /\ CallItems \in Seq(Items)
           /\ Assembled = IF vendor = "anthropic" THEN Spread(BlockMap, AllBlocks)
                          ELSE (Joined("thinking") \o Joined("text")) \o CallItems
           /\ Stops \in Seq(Events) /\ Ending \in Seq(Events)
           /\ Ending = (IF vendor = "openai" THEN Stops ELSE <<>>) \o <<DoneEv>>
<1>1. Joined("thinking") \in Seq(Items) /\ Joined("text") \in Seq(Items)
  BY JoinedType
<1>2. CallsMade \in Seq(Slots)
  BY CallsAre
<1>3. Len(CallsMade) \in Nat /\ \A k \in 1..Len(CallsMade) : CallsMade[k] \in Slots
  BY <1>2, ElementOfSeq
<1>4. CallItems \in Seq(Items)
  BY <1>3, ItemTypes DEF CallItems
<1>5. Stops \in Seq(Events)
  BY <1>3, EventTypes DEF Stops
<1>6. <<DoneEv>> \in Seq(Events)
  BY EventTypes, OneEvent
<1>7. (Joined("thinking") \o Joined("text")) \o CallItems \in Seq(Items)
  <2>1. Joined("thinking") \o Joined("text") \in Seq(Items)
    BY <1>1, ConcatProperties
  <2>. QED
    BY <1>4, <2>1, ConcatProperties
<1>8. Spread(BlockMap, AllBlocks) \in Seq(Items) /\ FlattenSeq(BlockMap) = Spread(BlockMap, AllBlocks)
  BY BlocksAre, AllBlocksAre, SpreadType, FlattenBlocks
<1>9. Assembled = IF vendor = "anthropic" THEN Spread(BlockMap, AllBlocks)
                  ELSE (Joined("thinking") \o Joined("text")) \o CallItems
  BY <1>8 DEF Assembled, BlockMap, CallItems
<1>10. Ending = (IF vendor = "openai" THEN Stops ELSE <<>>) \o <<DoneEv>>
  BY DEF Ending, Stops
<1>11. Ending \in Seq(Events)
  BY <1>5, <1>6, <1>10, NoEvent, TwoEvents
<1>. QED
  BY <1>1, <1>4, <1>5, <1>7, <1>8, <1>9, <1>10, <1>11

LEMMA EndsPartway ==
    ASSUME events \in Seq(Events), NEW last \in Seq(Events), NEW k \in Nat, k <= Len(last)
    PROVE  events \o SubSeq(last, 1, k) \in Seq(Events)
<1>1. SubSeq(last, 1, k) \in Seq(Events)
  BY PrefixType
<1>. QED
  BY <1>1, ConcatProperties

LEMMA StreamEndsDoes ==
    ASSUME StreamTypeOK, StreamEnds
    PROVE  /\ vendor \in {"openai", "anthropic", "google"} /\ over = "open"
           /\ vendor' = vendor /\ frames' = frames /\ meant' = meant /\ acc' = acc
           /\ valid' = valid /\ order' = order /\ finish' = finish
           /\ events' \in Seq(Events)
           /\ \/ over' = "error" /\ message' = message
              \/ over' = "ok" /\ finish /\ events' = events \o Ending /\ message' = Assembled
<1>1. /\ vendor \in {"openai", "anthropic", "google"} /\ over = "open"
      /\ vendor' = vendor /\ frames' = frames /\ meant' = meant /\ acc' = acc
      /\ valid' = valid /\ order' = order /\ finish' = finish
  BY DEF StreamEnds, StreamTypeOK, Vendors
<1>2. acc \in [Index -> Slots] /\ order \in Seq(Index) /\ events \in Seq(Events)
  BY <1>1 DEF StreamTypeOK
<1>3. Ending \in Seq(Events)
  BY <1>2, AssembledType
<1>4. events \o Ending \in Seq(Events)
  BY <1>2, <1>3, ConcatProperties
<1>5. \/ over' = "error" /\ UNCHANGED <<events, message>>
      \/ finish /\ events' = events \o Ending /\ over' = "ok" /\ message' = Assembled
      \/ (\E k \in 1..Len(Ending) : events' = events \o SubSeq(Ending, 1, k)) /\ over' = "error" /\ message' = message
  BY DEF StreamEnds
<1>6. CASE over' = "error" /\ UNCHANGED <<events, message>>
  BY <1>1, <1>2, <1>6
<1>7. CASE finish /\ events' = events \o Ending /\ over' = "ok" /\ message' = Assembled
  BY <1>1, <1>4, <1>7
<1>8. CASE (\E k \in 1..Len(Ending) : events' = events \o SubSeq(Ending, 1, k)) /\ over' = "error" /\ message' = message
  <2>1. PICK k \in 1..Len(Ending) : events' = events \o SubSeq(Ending, 1, k)
    BY <1>8
  <2>2. k \in Nat /\ k <= Len(Ending)
    BY <1>3, LenProperties
  <2>3. events' \in Seq(Events)
    BY <1>2, <1>3, <2>1, <2>2, EndsPartway
  <2>. QED
    BY <1>1, <1>8, <2>3
<1>. QED
  BY <1>5, <1>6, <1>7, <1>8

\* What a CLI has said, and the last that is told of it.
CliSaid == FlattenSeq([i \in Index |-> acc[i].parts]) \o order
CliLast == (IF order # <<>> THEN <<TextEv("text", order)>> ELSE <<>>) \o <<DoneEv>>

LEMMA LeastExists ==
    ASSUME NEW n \in Nat, NEW S \in SUBSET (0 .. n), S # {}
    PROVE  \E x \in S : \A y \in S : x <= y
<1> DEFINE T == {n - x : x \in S}
<1>0. \A x \in S : x \in Nat /\ x <= n /\ n - x \in 0 .. n
  OBVIOUS
<1>1. T \in SUBSET (0 .. n) /\ T # {}
  BY <1>0
<1>2. PICK t \in T : \A u \in T : t >= u
  BY <1>1, GreatestExists
<1>3. PICK x \in S : t = n - x
  OBVIOUS
<1>4. \A y \in S : n - x >= n - y
  BY <1>2, <1>3
<1>5. \A y \in S : x <= y
  BY <1>0, <1>4
<1>. QED
  BY <1>5

\* What is trimmed is blank, and at the ends.
LEMMA TrimmedIs ==
    ASSUME NEW said \in Seq(Nat)
    PROVE  /\ Trimmed(said) \in Seq(Nat)
           /\ \E first \in 1..(Len(said) + 1), last \in 0..Len(said) :
                 /\ Trimmed(said) = SubSeq(said, first, last)
                 /\ \A k \in DOMAIN said : k < first \/ k > last => Blank(said[k])
           /\ \A byte \in ToSet(said) : ~Blank(byte) => byte \in ToSet(Trimmed(said))
<1> DEFINE printed == {k \in DOMAIN said : ~Blank(said[k])}
<1>1. Len(said) \in Nat /\ DOMAIN said = 1 .. Len(said)
  BY LenProperties
<1>2. Trimmed(said) = IF printed = {} THEN <<>> ELSE SubSeq(said, Min(printed), Max(printed))
  BY DEF Trimmed
<1>3. CASE printed = {}
  <2>1. \A k \in DOMAIN said : Blank(said[k])
    BY <1>3
  <2>2. SubSeq(said, 1, 0) = <<>> /\ <<>> \in Seq(Nat)
    BY SubSeqEmpty
  <2>3. Trimmed(said) = <<>>
    BY <1>2, <1>3
  <2>4. \A byte \in ToSet(said) : Blank(byte)
    BY <2>1 DEF ToSet
  <2>5. 1 \in 1..(Len(said) + 1) /\ 0 \in 0..Len(said)
    BY <1>1
  <2>6. \E first \in 1..(Len(said) + 1), last \in 0..Len(said) :
                 /\ Trimmed(said) = SubSeq(said, first, last)
                 /\ \A k \in DOMAIN said : k < first \/ k > last => Blank(said[k])
    BY <2>1, <2>2, <2>3, <2>5
  <2>. QED
    BY <2>2, <2>3, <2>4, <2>6
<1>4. CASE printed # {}
  <2>1. printed \in SUBSET (0 .. Len(said)) /\ printed \subseteq 1 .. Len(said)
    BY <1>1
  <2>. HIDE DEF printed
  <2>2. (\E x \in printed : \A y \in printed : x <= y) /\ (\E x \in printed : \A y \in printed : x >= y)
    BY <1>1, <1>4, <2>1, LeastExists, GreatestExists
  <2>3. Min(printed) \in printed /\ \A y \in printed : Min(printed) <= y
    BY <2>2 DEF Min
  <2>4. Max(printed) \in printed /\ \A y \in printed : Max(printed) >= y
    BY <2>2 DEF Max
  <2>5. PICK first \in 1 .. Len(said), last \in 1 .. Len(said) :
           /\ first = Min(printed) /\ last = Max(printed)
           /\ \A y \in printed : first <= y /\ y <= last
    BY <2>1, <2>3, <2>4
  <2>6. Trimmed(said) = SubSeq(said, first, last)
    BY <1>2, <1>4, <2>5
  <2>7. first <= last
    BY <2>3, <2>5
  <2>8. \A k \in first .. last : said[k] \in Nat
    <3>1. \A k \in first .. last : k \in 1 .. Len(said)
      BY <1>1
    <3>. QED
      BY <3>1, ElementOfSeq
  <2>9. /\ SubSeq(said, first, last) \in Seq(Nat)
        /\ Len(SubSeq(said, first, last)) = IF first <= last THEN last - first + 1 ELSE 0
        /\ \A j \in 1 .. last - first + 1 : SubSeq(said, first, last)[j] = said[first + j - 1]
    <3>1. first \in Int /\ last \in Int
      BY <1>1
    <3>. QED
      BY <2>8, <3>1, SubSeqProperties
  <2>10. \A k \in DOMAIN said : k \in printed <=> ~Blank(said[k])
    BY DEF printed
  <2>11. \A k \in DOMAIN said : k < first \/ k > last => Blank(said[k])
    <3>. SUFFICES ASSUME NEW k \in DOMAIN said, k < first \/ k > last, ~Blank(said[k])
                  PROVE  FALSE
      OBVIOUS
    <3>1. first <= k /\ k <= last
      BY <2>5, <2>10
    <3>2. k \in Nat /\ first \in Nat /\ last \in Nat
      BY <1>1
    <3>. QED
      BY <3>1, <3>2
  <2>12. ASSUME NEW byte \in ToSet(said), ~Blank(byte)
         PROVE  byte \in ToSet(SubSeq(said, first, last))
    <3>1. PICK k \in DOMAIN said : byte = said[k]
      BY DEF ToSet
    <3>2. k \in Nat /\ first <= k /\ k <= last
      BY <1>1, <2>5, <2>10, <2>12, <3>1
    <3>3. k - first + 1 \in 1 .. last - first + 1 /\ first + (k - first + 1) - 1 = k
      BY <3>2
    <3>4. SubSeq(said, first, last)[k - first + 1] = said[k]
      BY <2>9, <3>3
    <3>5. k - first + 1 \in 1 .. Len(SubSeq(said, first, last))
      BY <2>7, <2>9, <3>3
    <3>6. DOMAIN SubSeq(said, first, last) = 1 .. Len(SubSeq(said, first, last))
      BY <2>9, LenProperties
    <3>. QED
      BY <3>1, <3>4, <3>5, <3>6 DEF ToSet
  <2>13. first \in 1..(Len(said) + 1) /\ last \in 0..Len(said)
    BY <1>1
  <2>14. \E a \in 1..(Len(said) + 1), b \in 0..Len(said) :
            /\ Trimmed(said) = SubSeq(said, a, b)
            /\ \A k \in DOMAIN said : k < a \/ k > b => Blank(said[k])
    BY <2>6, <2>11, <2>13
  <2>. QED
    BY <2>6, <2>9, <2>12, <2>14
<1>. QED
  BY <1>3, <1>4

LEMMA CliEndsDoes ==
    ASSUME StreamTypeOK, CliEnds
    PROVE  /\ vendor = "cli" /\ over = "open"
           /\ vendor' = vendor /\ frames' = frames /\ meant' = meant /\ acc' = acc /\ valid' = valid /\ order' = order
           /\ events' \in Seq(Events)
           /\ CliSaid \in Seq(Nat) /\ CliLast \in Seq(Events)
           /\ \/ over' = "error" /\ message' = message /\ finish' = finish
              \/ over' = "ok" /\ finish' = TRUE /\ events' = events \o CliLast /\ message' = <<TextItem("text", Trimmed(CliSaid))>>
<1>1. /\ vendor = "cli" /\ over = "open"
      /\ vendor' = vendor /\ frames' = frames /\ meant' = meant /\ acc' = acc /\ valid' = valid /\ order' = order
      /\ events \in Seq(Events) /\ order \in Seq(Nat) /\ acc \in [Index -> Slots]
  BY DEF CliEnds, StreamTypeOK
<1>2. CliLast \in Seq(Events)
  <2>1. <<TextEv("text", order)>> \in Seq(Events) /\ <<DoneEv>> \in Seq(Events)
    BY <1>1, EventTypes, OneEvent
  <2>. QED
    BY <2>1, NoEvent, TwoEvents DEF CliLast
<1>3. CliSaid \in Seq(Nat)
  <2>1. [i \in Index |-> acc[i].parts] \in Maps(Index, Nat)
    BY <1>1, SlotFields DEF Maps
  <2>2. [i \in Index |-> acc[i].parts] \in Seq(Seq(Nat))
    BY <2>1, FlattenBlocks
  <2>3. FlattenSeq([i \in Index |-> acc[i].parts]) \in Seq(Nat)
    BY <2>2, FlattenType
  <2>. QED
    BY <1>1, <2>3, ConcatProperties DEF CliSaid
<1>4. \/ events' = events \o CliLast /\ over' = "ok" /\ finish' = TRUE /\ message' = <<TextItem("text", Trimmed(CliSaid))>>
      \/ (\E k \in 0..Len(CliLast) : events' = events \o SubSeq(CliLast, 1, k))
         /\ over' = "error" /\ finish' = finish /\ message' = message
  BY Zenon DEF CliEnds, CliLast, CliSaid
<1>5. CASE events' = events \o CliLast /\ over' = "ok" /\ finish' = TRUE /\ message' = <<TextItem("text", Trimmed(CliSaid))>>
  <2>1. events \o CliLast \in Seq(Events)
    BY <1>1, <1>2, ConcatProperties
  <2>. QED
    BY <1>1, <1>2, <1>3, <1>5, <2>1
<1>6. CASE (\E k \in 0..Len(CliLast) : events' = events \o SubSeq(CliLast, 1, k))
           /\ over' = "error" /\ finish' = finish /\ message' = message
  <2>1. PICK k \in 0..Len(CliLast) : events' = events \o SubSeq(CliLast, 1, k)
    BY <1>6
  <2>2. k \in Nat /\ k <= Len(CliLast)
    BY <1>2, LenProperties
  <2>3. events' \in Seq(Events)
    BY <1>1, <1>2, <2>1, <2>2, EndsPartway
  <2>. QED
    BY <1>1, <1>2, <1>3, <1>6, <2>3
<1>. QED
  BY <1>4, <1>5, <1>6

\* A step is one of a block, or of the whole, or none.
LEMMA StreamSteps ==
    ASSUME [StreamNext]_streamVars
    PROVE  \/ \E i \in Index : OpenAIText(i) \/ BlockStarts(i) \/ BlockGrows(i) \/ BlockStops(i) \/ GooglePart(i)
           \/ \E i \in Index, n \in 1..2 : \E cuts \in [1..n -> Cut] : CliRead(i, cuts)
           \/ \E i \in Index, has \in SUBSET {"id", "name", "args"} : OpenAICall(i, has)
           \/ StreamBegins \/ Finishes \/ StreamEnds \/ StreamBreaks \/ CliEnds
           \/ UNCHANGED streamVars
BY DEF StreamNext

\* The types of a step of a block.
LEMMA BlockTypesKeep ==
    ASSUME StreamTypeOK, NEW i \in Index,
           \/ OpenAIText(i) \/ BlockStarts(i) \/ BlockGrows(i) \/ BlockStops(i) \/ GooglePart(i)
           \/ \E n \in 1..2 : \E cuts \in [1..n -> Cut] : CliRead(i, cuts)
           \/ \E has : OpenAICall(i, has)
    PROVE  StreamTypeOK' /\ Unborn'
<1>1. /\ frames \in Nat /\ frames + 1 \in Nat /\ meant \in [Index -> Seq(Nat)] /\ meant[i] \in Seq(Nat)
      /\ [meant EXCEPT ![i] = Append(meant[i], frames + 1)] \in [Index -> Seq(Nat)]
      /\ order \in Seq(Nat) /\ (vendor # "cli" => order \in Seq(Index))
  BY SendsType DEF StreamTypeOK
<1>2. vendor # "cli" => Append(order, i) \in Seq(Nat) /\ Append(order, i) \in Seq(Index)
  <2>. SUFFICES ASSUME vendor # "cli"
                PROVE  Append(order, i) \in Seq(Nat) /\ Append(order, i) \in Seq(Index)
    OBVIOUS
  <2>1. i \in Nat
    BY IndexType
  <2>. QED
    BY <1>1, <2>1, AppendProperties
<1>3. CASE OpenAIText(i)
  <2>1. /\ Fragment(i, <<TextEv("text", <<frames + 1>>)>>)
        /\ frames' = frames + 1 /\ order' = order
        /\ meant' = [meant EXCEPT ![i] = Append(meant[i], frames + 1)]
    BY <1>3, OpenAITextDoes
  <2>. QED
    BY <1>1, <2>1, FragmentType
<1>4. CASE BlockStarts(i)
  <2>1. PICK evs : Fragment(i, evs)
    BY <1>4, BlockStartsDoes
  <2>2. frames' = frames + 1 /\ order' = order /\ meant' = meant
    BY <1>4, BlockStartsDoes
  <2>. QED
    BY <1>1, <2>1, <2>2, FragmentType
<1>5. CASE BlockGrows(i)
  <2>1. PICK evs : Fragment(i, evs)
    BY <1>5, BlockGrowsDoes
  <2>2. /\ frames' = frames + 1 /\ order' = order
        /\ meant' = [meant EXCEPT ![i] = Append(meant[i], frames + 1)]
    BY <1>5, BlockGrowsDoes
  <2>. QED
    BY <1>1, <2>1, <2>2, FragmentType
<1>6. CASE BlockStops(i)
  <2>1. PICK evs : Fragment(i, evs)
    BY <1>6, BlockStopsDoes
  <2>2. frames' = frames + 1 /\ order' = Append(order, i) /\ meant' = meant /\ vendor = "anthropic"
    BY <1>6, BlockStopsDoes
  <2>. QED
    BY <1>1, <1>2, <2>1, <2>2, FragmentType
<1>7. CASE GooglePart(i)
  <2>1. PICK evs : Fragment(i, evs)
    BY <1>7, GooglePartDoes
  <2>2. /\ frames' = frames + 1 /\ order' \in {order, Append(order, i)} /\ vendor = "google"
        /\ meant' = [meant EXCEPT ![i] = Append(meant[i], frames + 1)]
    BY <1>7, GooglePartDoes
  <2>3. order' \in Seq(Nat) /\ order' \in Seq(Index)
    BY <1>1, <1>2, <2>2
  <2>. QED
    BY <1>1, <2>1, <2>2, <2>3, FragmentType
<1>8. ASSUME NEW n \in 1..2, NEW cuts \in [1..n -> Cut], CliRead(i, cuts)
      PROVE  StreamTypeOK' /\ Unborn'
  <2>1. PICK read \in Seq(Nat), told \in Seq(Nat) :
              /\ Fragment(i, IF told = <<>> THEN <<>> ELSE <<TextEv("text", told)>>)
              /\ order' \in Seq(Nat) /\ vendor = "cli" /\ frames' \in Nat
              /\ meant' = [meant EXCEPT ![i] = meant[i] \o read]
    BY <1>8, CliReadDoes
  <2>2. meant[i] \o read \in Seq(Nat)
    BY <1>1, ConcatProperties
  <2>3. meant' \in [Index -> Seq(Nat)]
    BY <1>1, <2>1, <2>2
  <2>. QED
    BY <2>1, <2>3, FragmentType
<1>9. ASSUME NEW has, OpenAICall(i, has)
      PROVE  StreamTypeOK' /\ Unborn'
  <2>1. Fragment(i, OpenAITells(i, has))
    BY <1>9, OpenAICallDoes
  <2>2. /\ frames' = frames + 1 /\ order' \in {order, Append(order, i)} /\ vendor = "openai"
        /\ meant' \in {[meant EXCEPT ![i] = Append(meant[i], frames + 1)], meant}
    BY <1>9, OpenAICallDoes
  <2>3. order' \in Seq(Nat) /\ order' \in Seq(Index)
    BY <1>1, <1>2, <2>2
  <2>. QED
    BY <1>1, <2>1, <2>2, <2>3, FragmentType
<1>. QED
  BY <1>3, <1>4, <1>5, <1>6, <1>7, <1>8, <1>9

LEMMA StreamTypesKeep ==
    ASSUME StreamTypeOK, Unborn, [StreamNext]_streamVars
    PROVE  StreamTypeOK' /\ Unborn'
<1>1. CASE \E i \in Index : OpenAIText(i) \/ BlockStarts(i) \/ BlockGrows(i) \/ BlockStops(i) \/ GooglePart(i)
  BY <1>1, BlockTypesKeep
<1>2. CASE \E i \in Index, n \in 1..2 : \E cuts \in [1..n -> Cut] : CliRead(i, cuts)
  BY <1>2, BlockTypesKeep
<1>3. CASE \E i \in Index, has \in SUBSET {"id", "name", "args"} : OpenAICall(i, has)
  BY <1>3, BlockTypesKeep
<1>4. CASE StreamBegins
  <2>1. order = <<>> /\ <<>> \in Seq(Index)
    BY <1>4 DEF StreamBegins, Unborn
  <2>. QED
    BY <1>4, <2>1 DEF StreamBegins, StreamTypeOK, Unborn, Vendors
<1>5. CASE Finishes
  BY <1>5 DEF Finishes, Frame, StreamTypeOK, Unborn
<1>6. CASE StreamEnds
  <2>1. /\ vendor \in {"openai", "anthropic", "google"} /\ vendor' = vendor /\ frames' = frames /\ meant' = meant
        /\ acc' = acc /\ order' = order /\ finish' = finish /\ events' \in Seq(Events)
        /\ over' \in {"error", "ok"} /\ message' \in {message, Assembled}
    BY <1>6, StreamEndsDoes
  <2>2. Assembled \in Seq(Items)
    BY <2>1, AssembledType DEF StreamTypeOK
  <2>. QED
    BY <2>1, <2>2 DEF StreamTypeOK, Unborn
<1>7. CASE StreamBreaks
  BY <1>7 DEF StreamBreaks, StreamTypeOK, Unborn
<1>8. CASE CliEnds
  <2>1. /\ vendor = "cli" /\ vendor' = vendor /\ frames' = frames /\ meant' = meant
        /\ acc' = acc /\ order' = order /\ finish' \in {finish, TRUE} /\ events' \in Seq(Events)
        /\ over' \in {"error", "ok"} /\ message' \in {message, <<TextItem("text", Trimmed(CliSaid))>>}
        /\ Trimmed(CliSaid) \in Seq(Nat)
    BY <1>8, CliEndsDoes, TrimmedIs
  <2>2. TextItem("text", Trimmed(CliSaid)) \in Items
    BY <2>1, ItemTypes
  <2>3. <<TextItem("text", Trimmed(CliSaid))>> \in Seq(Items)
    BY <2>2
  <2>. QED
    BY <2>1, <2>3 DEF StreamTypeOK, Unborn
<1>9. CASE UNCHANGED streamVars
  BY <1>9 DEF streamVars, StreamTypeOK, Unborn
<1>. QED
  BY <1>1, <1>2, <1>3, <1>4, <1>5, <1>6, <1>7, <1>8, <1>9, StreamSteps
-----------------------------------------------------------------------------
(* What is gathered stays sound.                                           *)

LEMMA OrderGrows ==
    ASSUME NEW S, NEW s \in Seq(S), NEW x \in S
    PROVE  /\ Append(s, x) \in Seq(S) /\ Len(Append(s, x)) = Len(s) + 1 /\ Len(s) \in Nat
           /\ \A n \in 1 .. Len(s) : Append(s, x)[n] = s[n] /\ n \in 1 .. Len(Append(s, x))
           /\ Append(s, x)[Len(s) + 1] = x /\ Len(s) + 1 \in 1 .. Len(Append(s, x))
           /\ \A n \in 1 .. Len(Append(s, x)) : n \in 1 .. Len(s) \/ n = Len(s) + 1
           /\ ToSet(Append(s, x)) = ToSet(s) \cup {x}
<1> DEFINE r == Append(s, x)
           m == Len(s)
<1>1. r \in Seq(S) /\ Len(r) = m + 1 /\ m \in Nat /\ r[m + 1] = x /\ \A n \in 1 .. m : r[n] = s[n]
  BY AppendProperties, LenProperties
<1>2. DOMAIN r = 1 .. m + 1 /\ DOMAIN s = 1 .. m
  BY <1>1, LenProperties
<1>. HIDE DEF r, m
<1>3. \A n \in 1 .. m + 1 : n \in 1 .. m \/ n = m + 1
  BY <1>1
<1>4. m + 1 \in 1 .. m + 1 /\ \A n \in 1 .. m : n \in 1 .. m + 1
  BY <1>1
<1>5. ToSet(r) = ToSet(s) \cup {x}
  BY <1>1, <1>2, <1>3, <1>4 DEF ToSet
<1>. QED
  BY <1>1, <1>3, <1>4, <1>5 DEF r, m

LEMMA ContainsIs ==
    ASSUME NEW S, NEW s \in Seq(S), NEW x
    PROVE  Contains(s, x) <=> x \in ToSet(s)
<1>1. DOMAIN s = 1 .. Len(s)
  BY LenProperties
<1>. QED
  BY <1>1 DEF Contains, ToSet

LEMMA FragmentFrame ==
    ASSUME StreamTypeOK, NEW i \in Index, NEW evs, Fragment(i, evs)
    PROVE  /\ \A j \in Index : j # i => acc'[j] = acc[j]
           /\ vendor' = vendor /\ acc'[i] \in Slots /\ acc[i] \in Slots
           /\ acc' \in [Index -> Slots]
<1>1. /\ acc' = [acc EXCEPT ![i] = acc'[i]] /\ vendor' = vendor /\ acc'[i] \in Slots
      /\ acc \in [Index -> Slots]
  BY DEF Fragment, StreamTypeOK
<1>2. \A a \in Slots : /\ [acc EXCEPT ![i] = a] \in [Index -> Slots]
                       /\ \A j \in Index : j # i => [acc EXCEPT ![i] = a][j] = acc[j]
  BY <1>1
<1>. QED
  BY <1>1, <1>2

\* A fragment of block i leaves the others as they are.
LEMMA OthersKeep ==
    ASSUME StreamTypeOK, NEW i \in Index, NEW evs, Fragment(i, evs), vendor # "cli",
           \A j \in Index : j # i => meant'[j] = meant[j],
           order' = order \/ order' = Append(order, i),
           NEW j \in Index, j # i, SlotIsSound(j), Identified(j), HasAll(j)
    PROVE  SlotIsSound(j)' /\ Identified(j)' /\ HasAll(j)'
<1>1. acc'[j] = acc[j] /\ vendor' = vendor /\ meant'[j] = meant[j]
  BY FragmentFrame
<1>2. SlotIsSound(j)'
  BY <1>1 DEF SlotIsSound
<1>3. HasAll(j)'
  BY <1>1 DEF HasAll
<1>4. \A n \in 1..Len(order) : n \in 1..Len(order') /\ order'[n] = order[n]
  <2>1. order \in Seq(Index)
    BY DEF StreamTypeOK
  <2>. QED
    BY <2>1, OrderGrows
<1>5. Identified(j)'
  BY <1>1, <1>4 DEF Identified, Called
<1>. QED
  BY <1>2, <1>3, <1>5

LEMMA PartsStayOwn ==
    ASSUME StreamTypeOK, PartsAreOwn, NEW i \in Index, NEW evs, Fragment(i, evs), frames' = frames + 1,
           acc'[i].parts \in {acc[i].parts, Append(acc[i].parts, frames + 1)}
    PROVE  PartsAreOwn'
<1>1. frames \in Nat /\ acc[i].parts \in Seq(Nat) /\ \A j \in Index : acc[j].parts \in Seq(Nat)
  BY SlotFields DEF StreamTypeOK
<1>2. \A j \in Index : j # i => acc'[j] = acc[j]
  BY FragmentFrame
<1>3. ToSet(acc'[i].parts) \subseteq ToSet(acc[i].parts) \cup {frames + 1}
  <2>1. ToSet(Append(acc[i].parts, frames + 1)) = ToSet(acc[i].parts) \cup {frames + 1}
    BY <1>1, OrderGrows
  <2>. QED
    BY <2>1
<1>4. \A j \in Index : \A part \in ToSet(acc[j].parts) : part \in Nat /\ part <= frames
  <2>1. \A j \in Index : \A part \in ToSet(acc[j].parts) : part \in Nat
    BY <1>1, ElementOfSeq, LenProperties DEF ToSet
  <2>. QED
    BY <2>1 DEF PartsAreOwn
<1>5. \A j \in Index : frames + 1 \notin ToSet(acc[j].parts)
  <2>. SUFFICES ASSUME NEW j \in Index, frames + 1 \in ToSet(acc[j].parts)
                PROVE  FALSE
    OBVIOUS
  <2>1. frames + 1 <= frames
    BY <1>4
  <2>. QED
    BY <1>1, <2>1
<1>6. \A j \in Index : \A part \in ToSet(acc'[j].parts) : part <= frames'
  <2>. SUFFICES ASSUME NEW j \in Index, NEW part \in ToSet(acc'[j].parts)
                PROVE  part <= frames + 1
    OBVIOUS
  <2>1. part \in ToSet(acc[j].parts) \/ part = frames + 1
    <3>1. CASE j = i
      BY <1>3, <3>1
    <3>2. CASE j # i
      BY <1>2, <3>2
    <3>. QED
      BY <3>1, <3>2
  <2>2. CASE part \in ToSet(acc[j].parts)
    <3>1. part \in Nat /\ part <= frames
      BY <1>4, <2>2
    <3>. QED
      BY <1>1, <3>1
  <2>3. CASE part = frames + 1
    BY <1>1, <2>3
  <2>. QED
    BY <2>1, <2>2, <2>3
<1>7. ASSUME NEW j \in Index, NEW k \in Index, j # k
      PROVE  ToSet(acc'[j].parts) \cap ToSet(acc'[k].parts) = {}
  <2>1. ToSet(acc[j].parts) \cap ToSet(acc[k].parts) = {}
    BY <1>7 DEF PartsAreOwn
  <2>2. CASE j = i
    BY <1>2, <1>3, <1>5, <1>7, <2>1, <2>2
  <2>3. CASE k = i
    BY <1>2, <1>3, <1>5, <1>7, <2>1, <2>3
  <2>4. CASE j # i /\ k # i
    BY <1>2, <2>1, <2>4
  <2>. QED
    BY <2>2, <2>3, <2>4
<1>. QED
  BY <1>6, <1>7 DEF PartsAreOwn

LEMMA OrderStaysSound ==
    ASSUME StreamTypeOK, OrderIsSound, NEW i \in Index, NEW evs, Fragment(i, evs), vendor # "cli",
           \/ order' = order
           \/ order' = Append(order, i) /\ ~Contains(order, i),
           vendor \in {"openai", "google"} => (i \in ToSet(order') <=> acc'[i].type = "call")
    PROVE  OrderIsSound'
<1>1. /\ \A j \in Index : j # i => acc'[j] = acc[j]
      /\ vendor' = vendor /\ order \in Seq(Index)
  BY FragmentFrame DEF StreamTypeOK
<1>a. ToSet(order') = ToSet(order) \/ ToSet(order') = ToSet(order) \cup {i}
  <2>1. ToSet(Append(order, i)) = ToSet(order) \cup {i}
    BY <1>1, OrderGrows
  <2>. QED
    BY <2>1
<1>2. \A j \in Index : j # i => (j \in ToSet(order') <=> j \in ToSet(order))
  BY <1>a
<1>3. ToSet(order') \subseteq Index
  <2>1. ToSet(order) \subseteq Index
    BY <1>1, ElementOfSeq, LenProperties DEF ToSet
  <2>. QED
    BY <1>a, <2>1
<1>4. vendor \in {"openai", "google"} => ToSet(order') = {j \in Index : acc'[j].type = "call"}
  <2>. SUFFICES ASSUME vendor \in {"openai", "google"}
                PROVE  ToSet(order') = {j \in Index : acc'[j].type = "call"}
    OBVIOUS
  <2>1. ToSet(order) = {j \in Index : acc[j].type = "call"}
    BY DEF OrderIsSound
  <2>2. \A j \in Index : j \in ToSet(order') <=> acc'[j].type = "call"
    BY <1>1, <1>2, <2>1
  <2>. QED
    BY <1>3, <2>2
<1>5. \A m, n \in 1..Len(order) : order[m] = order[n] => m = n
  BY DEF OrderIsSound
<1>6. \A m, n \in 1..Len(order') : order'[m] = order'[n] => m = n
  <2>1. CASE order' = order
    BY <1>5, <2>1
  <2>2. CASE order' = Append(order, i) /\ ~Contains(order, i)
    <3>1. \A n \in 1..Len(order) : order[n] # i
      BY <2>2 DEF Contains
    <3>2. /\ \A n \in 1 .. Len(order) : order'[n] = order[n]
          /\ order'[Len(order) + 1] = i
          /\ \A n \in 1 .. Len(order') : n \in 1 .. Len(order) \/ n = Len(order) + 1
      BY <1>1, <2>2, OrderGrows
    <3>. QED
      BY <1>5, <3>1, <3>2
  <2>. QED
    BY <2>1, <2>2
<1>. QED
  BY <1>1, <1>4, <1>6 DEF OrderIsSound

\* So it is enough to look at the block the fragment is of.
LEMMA GatheredStep ==
    ASSUME StreamTypeOK, Gathered, NEW i \in Index, NEW evs, Fragment(i, evs), vendor # "cli",
           frames' = frames + 1,
           acc'[i].parts \in {acc[i].parts, Append(acc[i].parts, frames + 1)},
           \A j \in Index : j # i => meant'[j] = meant[j],
           \/ order' = order
           \/ order' = Append(order, i) /\ ~Contains(order, i),
           SlotIsSound(i)', Identified(i)', HasAll(i)',
           vendor \in {"openai", "google"} => (i \in ToSet(order') <=> acc'[i].type = "call")
    PROVE  Gathered'
<1>1. /\ \A j \in Index : SlotIsSound(j) /\ Identified(j) /\ HasAll(j)
      /\ PartsAreOwn /\ OrderIsSound
  BY DEF Gathered
<1>2. \A j \in Index : SlotIsSound(j)' /\ Identified(j)' /\ HasAll(j)'
  <2>. SUFFICES ASSUME NEW j \in Index, j # i
                PROVE  SlotIsSound(j)' /\ Identified(j)' /\ HasAll(j)'
    OBVIOUS
  <2>1. order' = order \/ order' = Append(order, i)
    OBVIOUS
  <2>2. SlotIsSound(j) /\ Identified(j) /\ HasAll(j)
    BY <1>1
  <2>. QED
    BY <2>1, <2>2, OthersKeep
<1>3. PartsAreOwn'
  BY <1>1, PartsStayOwn
<1>4. OrderIsSound'
  BY <1>1, OrderStaysSound
<1>5. vendor' # "cli"
  BY FragmentFrame
<1>. QED
  BY <1>2, <1>3, <1>4, <1>5 DEF Gathered
-----------------------------------------------------------------------------
(* Each fragment leaves it sound.                                          *)

LEMMA SentIs ==
    ASSUME StreamTypeOK, NEW i \in Index, NEW more \in Seq(Nat), meant' = [meant EXCEPT ![i] = more]
    PROVE  /\ meant'[i] = more /\ (\A j \in Index : j # i => meant'[j] = meant[j])
           /\ meant' \in [Index -> Seq(Nat)]
BY DEF StreamTypeOK

\* What is known of a block before a fragment of it.
LEMMA BlockBefore ==
    ASSUME StreamTypeOK, Gathered, vendor # "cli", NEW i \in Index
    PROVE  /\ SlotIsSound(i) /\ Identified(i) /\ HasAll(i)
           /\ acc[i] \in Slots /\ acc[i].parts \in Seq(Nat) /\ meant[i] \in Seq(Nat) /\ frames \in Nat
           /\ acc[i].parts \o <<frames + 1>> = Append(acc[i].parts, frames + 1)
           /\ Append(acc[i].parts, frames + 1) \in Seq(Nat) /\ Append(acc[i].parts, frames + 1) # <<>>
           /\ (vendor \in {"openai", "google"} => (i \in ToSet(order) <=> acc[i].type = "call"))
           /\ order \in Seq(Index) /\ i \in Nat
           /\ (Contains(order, i) <=> i \in ToSet(order))
           /\ ToSet(Append(order, i)) = ToSet(order) \cup {i}
<1>1. SlotIsSound(i) /\ Identified(i) /\ HasAll(i) /\ OrderIsSound
  BY DEF Gathered
<1>2. order \in Seq(Index) /\ acc[i] \in Slots
  BY SendsType DEF StreamTypeOK
<1>3. acc[i].parts \in Seq(Nat) /\ meant[i] \in Seq(Nat) /\ frames + 1 \in Nat /\ frames \in Nat
      /\ Append(acc[i].parts, frames + 1) \in Seq(Nat)
  BY SendsType
<1>4. acc[i].parts \o <<frames + 1>> = Append(acc[i].parts, frames + 1)
  BY <1>3, AppendIsConcat
<1>5. Append(acc[i].parts, frames + 1) # <<>>
  <2>1. Len(Append(acc[i].parts, frames + 1)) = Len(acc[i].parts) + 1 /\ Len(acc[i].parts) \in Nat
    BY <1>3, AppendProperties, LenProperties
  <2>2. Len(Append(acc[i].parts, frames + 1)) # 0
    BY <2>1
  <2>. QED
    BY <1>3, <2>2, EmptySeq
<1>6. vendor \in {"openai", "google"} => (i \in ToSet(order) <=> acc[i].type = "call")
  BY <1>1 DEF OrderIsSound
<1>7. (Contains(order, i) <=> i \in ToSet(order)) /\ ToSet(Append(order, i)) = ToSet(order) \cup {i}
  BY <1>2, ContainsIs, OrderGrows
<1>8. i \in Nat
  BY IndexType
<1>. QED
  BY <1>1, <1>2, <1>3, <1>4, <1>5, <1>6, <1>7, <1>8

LEMMA OpenAITextGathers ==
    ASSUME StreamTypeOK, Gathered, NEW i \in Index, OpenAIText(i)
    PROVE  Gathered'
<1> DEFINE more == Append(acc[i].parts, frames + 1)
<1>1. PICK evs : Fragment(i, evs)
  BY OpenAITextDoes
<1>2. /\ acc'[i].type = "text" /\ acc'[i].parts = acc[i].parts \o <<frames + 1>>
      /\ acc'[i].name = acc[i].name /\ acc'[i].started = acc[i].started
      /\ vendor = "openai" /\ frames' = frames + 1 /\ order' = order
      /\ meant' = [meant EXCEPT ![i] = Append(meant[i], frames + 1)]
      /\ Blocks[i] = "text" /\ vendor' = vendor
  BY OpenAITextDoes DEF OpenAIText, Frame
<1>3. vendor # "cli"
  BY <1>2
<1>4. /\ SlotIsSound(i) /\ HasAll(i) /\ acc[i].parts \o <<frames + 1>> = Append(acc[i].parts, frames + 1)
      /\ (i \in ToSet(order) <=> acc[i].type = "call")
  BY <1>2, <1>3, BlockBefore
<1>5. acc[i].parts = meant[i]
  BY <1>2, <1>4 DEF HasAll
<1>6. meant'[i] = Append(meant[i], frames + 1) /\ \A j \in Index : j # i => meant'[j] = meant[j]
  <2>1. Append(meant[i], frames + 1) \in Seq(Nat)
    BY SendsType
  <2>. QED
    BY <1>2, <2>1, SentIs
<1>7. HasAll(i)'
  BY <1>2, <1>4, <1>5, <1>6 DEF HasAll
<1>8. SlotIsSound(i)'
  BY <1>2, <1>4 DEF SlotIsSound
<1>9. Identified(i)'
  BY <1>2 DEF Identified, Called
<1>10. i \in ToSet(order') <=> acc'[i].type = "call"
  BY <1>2, <1>4 DEF SlotIsSound
<1>. QED
  BY <1>1, <1>2, <1>3, <1>4, <1>6, <1>7, <1>8, <1>9, <1>10, GatheredStep

LEMMA OpenAICallGathers ==
    ASSUME StreamTypeOK, Gathered, NEW i \in Index, NEW has, OpenAICall(i, has)
    PROVE  Gathered'
<1>1. PICK evs : Fragment(i, evs)
  BY OpenAICallDoes
<1>2. /\ acc'[i].type = "call"
      /\ acc'[i].parts = IF "args" \in has THEN Append(acc[i].parts, frames + 1) ELSE acc[i].parts
      /\ acc'[i].name = IF "name" \in has THEN Name(i) ELSE acc[i].name
      /\ acc'[i].started = (acc[i].started \/ acc'[i].name # NoId)
      /\ vendor = "openai" /\ frames' = frames + 1
      /\ order' = IF Contains(order, i) THEN order ELSE Append(order, i)
      /\ meant' = IF "args" \in has THEN [meant EXCEPT ![i] = Append(meant[i], frames + 1)] ELSE meant
      /\ Blocks[i] = "call" /\ vendor' = vendor
  BY OpenAICallDoes DEF OpenAICall, Frame
<1>3. /\ acc[i].started => acc'[i].id = acc[i].id
      /\ ~acc[i].started /\ ~acc'[i].started => acc'[i].id \in {acc[i].id, <<"given", i>>}
      /\ ~acc[i].started /\ acc'[i].started =>
                 \/ acc[i].id # NoId /\ acc'[i].id = acc[i].id
                 \/ acc'[i].id \in {<<"given", i>>, <<"call", i>>}
  BY OpenAICallDoes
<1>4. vendor # "cli"
  BY <1>2
<1>5. /\ SlotIsSound(i) /\ HasAll(i) /\ Identified(i)
      /\ (Contains(order, i) <=> i \in ToSet(order))
      /\ ToSet(Append(order, i)) = ToSet(order) \cup {i} /\ i \in Nat
      /\ (i \in ToSet(order) <=> acc[i].type = "call")
  BY <1>2, <1>4, BlockBefore
<1>6. acc[i].parts = meant[i]
  BY <1>2, <1>5 DEF HasAll
<1>7. /\ meant'[i] = IF "args" \in has THEN Append(meant[i], frames + 1) ELSE meant[i]
      /\ \A j \in Index : j # i => meant'[j] = meant[j]
  <2>1. Append(meant[i], frames + 1) \in Seq(Nat)
    BY SendsType
  <2>2. CASE "args" \in has
    BY <1>2, <2>1, <2>2, SentIs
  <2>3. CASE "args" \notin has
    BY <1>2, <2>3
  <2>. QED
    BY <2>2, <2>3
<1>8. HasAll(i)'
  BY <1>2, <1>6, <1>7 DEF HasAll
<1>9. \/ acc[i].type = "call" /\ acc[i].started = (acc[i].name = Name(i)) /\ acc[i].name \in {NoId, Name(i)}
      \/ acc[i].type = "none" /\ acc[i].id = NoId /\ acc[i].name = NoId /\ acc[i].started = FALSE
  BY <1>2, <1>5, NothingIsSlot DEF SlotIsSound
<1>10. Name(i) # NoId /\ acc'[i].name \in {NoId, Name(i)} /\ acc'[i].started = (acc'[i].name = Name(i))
  <2>1. Name(i) # NoId
    BY <1>5, MarkTypes
  <2>. QED
    BY <1>2, <1>9, <2>1
<1>11. SlotIsSound(i)'
  BY <1>2, <1>10 DEF SlotIsSound
<1>12. acc'[i].started =>
           acc'[i].id = <<"given", i>> \/ acc'[i].id = <<"call", i>>
  <2>1. CASE acc[i].started
    <3>1. acc[i].type = "call" /\ acc'[i].id = acc[i].id
      BY <1>3, <1>9, <2>1
    <3>. QED
      BY <1>2, <1>5, <2>1, <3>1 DEF Identified, Called
  <2>2. CASE ~acc[i].started
    <3>1. acc[i].id \in {NoId, <<"given", i>>}
      BY <1>5, <1>9, <2>2 DEF Identified
    <3>. QED
      BY <1>3, <2>2, <3>1
  <2>. QED
    BY <2>1, <2>2
<1>13. ~acc'[i].started => acc'[i].id \in {NoId, <<"given", i>>}
  <2>. SUFFICES ASSUME ~acc'[i].started
                PROVE  acc'[i].id \in {NoId, <<"given", i>>}
    OBVIOUS
  <2>1. ~acc[i].started
    BY <1>2
  <2>2. acc[i].id \in {NoId, <<"given", i>>}
    BY <1>5, <1>9, <2>1 DEF Identified
  <2>. QED
    BY <1>3, <2>1, <2>2
<1>14. Identified(i)'
  BY <1>2, <1>12, <1>13 DEF Identified, Called
<1>15. i \in ToSet(order')
  BY <1>2, <1>5
<1>16. acc'[i].parts \in {acc[i].parts, Append(acc[i].parts, frames + 1)}
  BY <1>2
<1>17. \/ order' = order
       \/ order' = Append(order, i) /\ ~Contains(order, i)
  BY <1>2
<1>. QED
  BY <1>1, <1>2, <1>4, <1>7, <1>8, <1>11, <1>14, <1>15, <1>16, <1>17, GatheredStep

LEMMA BlockStartsGathers ==
    ASSUME StreamTypeOK, Gathered, NEW i \in Index, BlockStarts(i)
    PROVE  Gathered'
<1>1. PICK evs : Fragment(i, evs)
  BY BlockStartsDoes
<1>2. /\ acc'[i].type = Blocks[i] /\ acc'[i].parts = acc[i].parts
      /\ acc'[i].id = <<"given", i>> /\ acc'[i].name = Name(i) /\ acc'[i].started = TRUE
      /\ vendor = "anthropic" /\ frames' = frames + 1 /\ order' = order /\ meant' = meant
      /\ ~acc[i].started /\ (Blocks[i] = "call" => meant[i] = <<>>)
  BY BlockStartsDoes
<1>3. vendor' = vendor /\ vendor # "cli"
  BY <1>1, <1>2 DEF Fragment
<1>4. SlotIsSound(i) /\ HasAll(i)
  BY <1>3, BlockBefore
<1>5. HasAll(i)'
  <2>1. acc[i].parts = meant[i]
    BY <1>2, <1>4, NothingIsSlot DEF HasAll
  <2>. QED
    BY <1>2, <2>1 DEF HasAll
<1>6. SlotIsSound(i)'
  <2>1. Blocks[i] # "none"
    BY IndexType
  <2>. QED
    BY <1>2, <1>3, <2>1 DEF SlotIsSound
<1>7. Identified(i)'
  BY <1>2, <1>3 DEF Identified, Called
<1>8. acc'[i].parts \in {acc[i].parts, Append(acc[i].parts, frames + 1)}
  BY <1>2
<1>. QED
  BY <1>1, <1>2, <1>3, <1>5, <1>6, <1>7, <1>8, GatheredStep

LEMMA BlockGrowsGathers ==
    ASSUME StreamTypeOK, Gathered, NEW i \in Index, BlockGrows(i)
    PROVE  Gathered'
<1>1. /\ vendor = "anthropic" /\ frames' = frames + 1 /\ order' = order
      /\ meant' = [meant EXCEPT ![i] = Append(meant[i], frames + 1)]
  BY BlockGrowsDoes
<1>2. vendor # "cli"
  BY <1>1
<1>3. /\ SlotIsSound(i) /\ HasAll(i) /\ Identified(i)
      /\ acc[i].parts \o <<frames + 1>> = Append(acc[i].parts, frames + 1)
  BY <1>2, BlockBefore
<1>4. meant'[i] = Append(meant[i], frames + 1) /\ \A j \in Index : j # i => meant'[j] = meant[j]
  <2>1. Append(meant[i], frames + 1) \in Seq(Nat)
    BY SendsType
  <2>. QED
    BY <1>1, <2>1, SentIs
<1>5. CASE Blocks[i] = "call" /\ acc[i] = Nothing
  <2>1. Fragment(i, <<>>) /\ acc'[i] = acc[i]
    BY <1>5, BlockGrowsDoes
  <2>2. vendor' = vendor
    BY <2>1 DEF Fragment
  <2>3. SlotIsSound(i)' /\ HasAll(i)' /\ Identified(i)'
    <3>1. SlotIsSound(i)'
      BY <1>3, <2>1, <2>2 DEF SlotIsSound
    <3>2. HasAll(i)'
      BY <1>1, <1>5, <2>1, <2>2 DEF HasAll
    <3>3. Identified(i)'
      BY <1>1, <1>3, <2>1, <2>2 DEF Identified, Called
    <3>. QED
      BY <3>1, <3>2, <3>3
  <2>4. acc'[i].parts \in {acc[i].parts, Append(acc[i].parts, frames + 1)}
    BY <2>1
  <2>. QED
    BY <1>1, <1>2, <1>4, <2>1, <2>3, <2>4, GatheredStep
<1>6. CASE ~(Blocks[i] = "call" /\ acc[i] = Nothing)
  <2>1. /\ Fragment(i, BlockTells(i))
        /\ acc'[i].type = Blocks[i] /\ acc'[i].parts = acc[i].parts \o <<frames + 1>>
        /\ acc'[i].id = acc[i].id /\ acc'[i].name = acc[i].name /\ acc'[i].started = acc[i].started
    BY <1>6, BlockGrowsDoes
  <2>2. vendor' = vendor
    BY <2>1 DEF Fragment
  <2>3. HasAll(i)'
    <3>1. acc[i].parts = meant[i]
      BY <1>3, <1>6 DEF HasAll
    <3>. QED
      BY <1>3, <1>4, <2>1, <3>1 DEF HasAll
  <2>4. Blocks[i] = "call" => acc[i].type = "call"
    BY <1>3, <1>6 DEF SlotIsSound
  <2>5. SlotIsSound(i)'
    <3>1. Blocks[i] # "none"
      BY IndexType
    <3>. QED
      BY <1>1, <1>3, <2>1, <2>2, <2>4, <3>1 DEF SlotIsSound
  <2>6. Identified(i)'
    BY <1>1, <1>3, <2>1, <2>2, <2>4 DEF Identified, Called
  <2>7. acc'[i].parts \in {acc[i].parts, Append(acc[i].parts, frames + 1)}
    BY <1>3, <2>1
  <2>. QED
    BY <1>1, <1>2, <1>4, <2>1, <2>3, <2>5, <2>6, <2>7, GatheredStep
<1>. QED
  BY <1>5, <1>6

LEMMA BlockStopsGathers ==
    ASSUME StreamTypeOK, Gathered, NEW i \in Index, BlockStops(i)
    PROVE  Gathered'
<1>1. PICK evs : Fragment(i, evs)
  BY BlockStopsDoes
<1>2. /\ acc' = acc /\ meant' = meant
      /\ vendor = "anthropic" /\ frames' = frames + 1 /\ order' = Append(order, i)
      /\ acc[i].started /\ ~Contains(order, i)
  BY BlockStopsDoes
<1>3. vendor' = vendor /\ vendor # "cli"
  BY <1>1, <1>2 DEF Fragment
<1>4. SlotIsSound(i) /\ HasAll(i) /\ Identified(i)
  BY <1>3, BlockBefore
<1>5. HasAll(i)' /\ SlotIsSound(i)'
  BY <1>2, <1>3, <1>4 DEF HasAll, SlotIsSound
<1>6. Identified(i)'
  BY <1>2, <1>3, <1>4 DEF Identified, Called
<1>7. acc'[i].parts \in {acc[i].parts, Append(acc[i].parts, frames + 1)}
  BY <1>2
<1>. QED
  BY <1>1, <1>2, <1>3, <1>5, <1>6, <1>7, GatheredStep

LEMMA GooglePartGathers ==
    ASSUME StreamTypeOK, Gathered, NEW i \in Index, GooglePart(i)
    PROVE  Gathered'
<1>1. PICK evs : Fragment(i, evs)
  BY GooglePartDoes
<1>2. /\ acc'[i].type = Blocks[i] /\ acc'[i].parts = Append(acc[i].parts, frames + 1)
      /\ acc'[i].id \in {<<"given", i>>, <<"call", Len(order)>>}
      /\ acc'[i].name = Name(i) /\ acc'[i].started = TRUE
      /\ vendor = "google" /\ frames' = frames + 1
      /\ (Blocks[i] = "call" => acc[i] = Nothing)
      /\ order' = IF Blocks[i] = "call" THEN Append(order, i) ELSE order
      /\ meant' = [meant EXCEPT ![i] = Append(meant[i], frames + 1)]
  BY GooglePartDoes
<1>3. vendor' = vendor /\ vendor # "cli"
  BY <1>1, <1>2 DEF Fragment
<1>4. /\ SlotIsSound(i) /\ HasAll(i) /\ order \in Seq(Index)
      /\ (Contains(order, i) <=> i \in ToSet(order))
      /\ ToSet(Append(order, i)) = ToSet(order) \cup {i}
      /\ (i \in ToSet(order) <=> acc[i].type = "call")
  BY <1>2, <1>3, BlockBefore
<1>5. meant'[i] = Append(meant[i], frames + 1) /\ \A j \in Index : j # i => meant'[j] = meant[j]
  <2>1. Append(meant[i], frames + 1) \in Seq(Nat)
    BY SendsType
  <2>. QED
    BY <1>2, <2>1, SentIs
<1>6. HasAll(i)'
  <2>1. acc[i].parts = meant[i]
    BY <1>2, <1>4 DEF HasAll
  <2>. QED
    BY <1>2, <1>5, <2>1 DEF HasAll
<1>7. SlotIsSound(i)'
  <2>1. Blocks[i] # "none"
    BY IndexType
  <2>. QED
    BY <1>2, <1>3, <2>1 DEF SlotIsSound
<1>8. Identified(i)'
  <2>1. CASE Blocks[i] # "call"
    BY <1>2, <2>1 DEF Identified, Called
  <2>2. CASE Blocks[i] = "call"
    <3>1. /\ order'[Len(order) + 1] = i /\ Len(order) + 1 \in 1 .. Len(order') /\ Len(order) \in Nat
      BY <1>2, <1>4, <2>2, OrderGrows
    <3>2. (Len(order) + 1) - 1 = Len(order)
      BY <3>1
    <3>3. \/ acc'[i].id = <<"given", i>>
          \/ vendor' = "google" /\ \E n \in 1..Len(order') :
                           order'[n] = i /\ acc'[i].id = <<"call", n - 1>>
      BY <1>2, <1>3, <3>1, <3>2
    <3>. QED
      BY <1>2, <3>3 DEF Identified, Called
  <2>. QED
    BY <2>1, <2>2
<1>9. acc'[i].parts \in {acc[i].parts, Append(acc[i].parts, frames + 1)}
  BY <1>2
<1>10. /\ \/ order' = order
          \/ order' = Append(order, i) /\ ~Contains(order, i)
       /\ i \in ToSet(order') <=> acc'[i].type = "call"
  <2>1. i \notin ToSet(order)
    <3>1. CASE Blocks[i] = "call"
      BY <1>2, <1>4, <3>1, NothingIsSlot
    <3>2. CASE Blocks[i] # "call"
      BY <1>4, <3>2 DEF SlotIsSound
    <3>. QED
      BY <3>1, <3>2
  <2>. QED
    BY <1>2, <1>4, <2>1
<1>. QED
  BY <1>1, <1>2, <1>3, <1>5, <1>6, <1>7, <1>8, <1>9, <1>10, GatheredStep
-----------------------------------------------------------------------------
(* A CLI, and the steps that gather nothing.                               *)

LEMMA CliReadGathers ==
    ASSUME StreamTypeOK, Gathered, NEW i \in Index, NEW n \in 1..2, NEW cuts \in [1..n -> Cut], CliRead(i, cuts)
    PROVE  Gathered'
<1>1. PICK read \in Seq(Nat), told \in Seq(Nat) :
              /\ Fragment(i, IF told = <<>> THEN <<>> ELSE <<TextEv("text", told)>>)
              /\ order \o read = told \o order' /\ order' \in Seq(Nat)
              /\ acc'[i].type = "text" /\ acc'[i].parts = acc[i].parts \o told
              /\ acc'[i].id = acc[i].id /\ acc'[i].name = acc[i].name /\ acc'[i].started = acc[i].started
              /\ vendor = "cli" /\ Blocks[i] = "text"
              /\ meant' = [meant EXCEPT ![i] = meant[i] \o read]
  BY CliReadDoes
<1>2. \A j \in Index : SlotIsSound(j) /\ Identified(j)
  BY DEF Gathered
<1>3. /\ \A j \in Index : j # i => acc'[j] = acc[j]
      /\ vendor' = vendor
  BY <1>1, FragmentFrame
<1>4. \A j \in Index : SlotIsSound(j)'
  <2>1. SlotIsSound(i)'
    BY <1>1, <1>2, <1>3 DEF SlotIsSound
  <2>2. ASSUME NEW j \in Index, j # i
        PROVE  SlotIsSound(j)'
    BY <1>2, <1>3, <2>2 DEF SlotIsSound
  <2>. QED
    BY <2>1, <2>2
<1>5. \A j \in Index : Identified(j)'
  <2>1. \A j \in Index : acc'[j].type # "call"
    BY <1>1, <1>3, <1>4 DEF SlotIsSound
  <2>. QED
    BY <2>1 DEF Identified, Called
<1>6. CliHasAll
  BY <1>1 DEF Gathered
<1>7. /\ meant[i] \in Seq(Nat) /\ order \in Seq(Nat) /\ acc[i].parts \in Seq(Nat)
  BY SendsType DEF StreamTypeOK
<1>8. meant'[i] = meant[i] \o read /\ \A j \in Index : j # i => meant'[j] = meant[j]
  <2>1. meant[i] \o read \in Seq(Nat)
    BY <1>7, ConcatProperties
  <2>. QED
    BY <1>1, <2>1, SentIs
<1>9. /\ ToSet(meant'[i]) = ToSet(meant[i]) \cup ToSet(read)
      /\ ToSet(order) \cup ToSet(read) = ToSet(told) \cup ToSet(order')
      /\ ToSet(acc'[i].parts) = ToSet(acc[i].parts) \cup ToSet(told)
  <2>1. ToSet(meant[i] \o read) = ToSet(meant[i]) \cup ToSet(read)
    BY <1>7, SetOfConcat
  <2>2. ToSet(order \o read) = ToSet(order) \cup ToSet(read)
    BY <1>7, SetOfConcat
  <2>3. ToSet(told \o order') = ToSet(told) \cup ToSet(order')
    BY <1>1, SetOfConcat
  <2>4. ToSet(acc[i].parts \o told) = ToSet(acc[i].parts) \cup ToSet(told)
    BY <1>7, SetOfConcat
  <2>5. ToSet(order \o read) = ToSet(told \o order')
    BY <1>1
  <2>. QED
    BY <1>1, <1>8, <2>1, <2>2, <2>3, <2>4, <2>5
<1>10. CliHasAll'
  <2>1. \A j \in Index : Blocks[j] # "text" => meant'[j] = <<>>
    BY <1>1, <1>6, <1>8 DEF CliHasAll
  <2>2. ASSUME NEW byte, byte \in ToSet(order) \/ \E k \in Index : byte \in ToSet(acc[k].parts)
        PROVE  byte \in ToSet(order') \/ \E k \in Index : byte \in ToSet(acc'[k].parts)
    <3>1. CASE byte \in ToSet(order)
      BY <1>9, <3>1
    <3>2. CASE \E k \in Index : byte \in ToSet(acc[k].parts)
      <4>1. PICK k \in Index : byte \in ToSet(acc[k].parts)
        BY <3>2
      <4>2. byte \in ToSet(acc'[k].parts)
        BY <1>3, <1>9, <4>1
      <4>. QED
        BY <4>2
    <3>. QED
      BY <2>2, <3>1, <3>2
  <2>3. ASSUME NEW byte, byte \in ToSet(read)
        PROVE  byte \in ToSet(order') \/ \E k \in Index : byte \in ToSet(acc'[k].parts)
    BY <1>9, <2>3
  <2>4. ASSUME NEW j \in Index, NEW byte \in ToSet(meant'[j])
        PROVE  byte \in ToSet(order') \/ \E k \in Index : byte \in ToSet(acc'[k].parts)
    <3>1. byte \in ToSet(meant[j]) \/ byte \in ToSet(read)
      BY <1>8, <1>9
    <3>2. CASE byte \in ToSet(meant[j])
      <4>1. byte \in ToSet(order) \/ \E k \in Index : byte \in ToSet(acc[k].parts)
        BY <1>6, <3>2 DEF CliHasAll
      <4>. QED
        BY <2>2, <4>1
    <3>. QED
      BY <2>3, <3>1, <3>2
  <2>. QED
    BY <2>1, <2>4 DEF CliHasAll
<1>11. OrderIsSound'
  BY <1>1, <1>3 DEF OrderIsSound
<1>. QED
  BY <1>1, <1>3, <1>4, <1>5, <1>10, <1>11 DEF Gathered

LEMMA GatheredStays ==
    ASSUME StreamTypeOK, Gathered, vendor' = vendor, acc' = acc, meant' = meant, order' = order,
           frames' = frames \/ frames' = frames + 1
    PROVE  Gathered'
<1>1. \A i \in Index : SlotIsSound(i)' /\ Identified(i)'
  BY DEF Gathered, SlotIsSound, Identified, Called
<1>2. CASE vendor = "cli"
  <2>1. CliHasAll'
    BY <1>2 DEF Gathered, CliHasAll
  <2>. QED
    BY <1>1, <1>2, <2>1 DEF Gathered, OrderIsSound
<1>3. CASE vendor # "cli"
  <2>1. \A i \in Index : HasAll(i)'
    BY <1>3 DEF Gathered, HasAll
  <2>2. PartsAreOwn'
    <3>1. PartsAreOwn /\ frames \in Nat /\ \A i \in Index : acc[i].parts \in Seq(Nat)
      BY <1>3, SendsType DEF Gathered, StreamTypeOK
    <3>2. \A i \in Index : \A part \in ToSet(acc[i].parts) : part \in Nat
      BY <3>1, ElementOfSeq, LenProperties DEF ToSet
    <3>3. \A i \in Index : \A part \in ToSet(acc[i].parts) : part <= frames
      BY <3>1 DEF PartsAreOwn
    <3>4. \A part \in Nat : part <= frames => part <= frames'
      BY <3>1
    <3>5. \A i \in Index : \A part \in ToSet(acc[i].parts) : part <= frames'
      BY <3>2, <3>3, <3>4
    <3>. QED
      BY <3>1, <3>5 DEF PartsAreOwn
  <2>. QED
    BY <1>1, <1>3, <2>1, <2>2 DEF Gathered, OrderIsSound
<1>. QED
  BY <1>2, <1>3

\* A stream that has not begun has nothing.
LEMMA NothingIsSound ==
    ASSUME StreamTypeOK, acc = Nowhere, meant = [i \in Index |-> <<>>], order = <<>>
    PROVE  Gathered
<1>1. \A i \in Index : acc[i] = Nothing /\ meant[i] = <<>> /\ Blocks[i] # "none"
  BY IndexType DEF Nowhere
<1>2. \A i \in Index : SlotIsSound(i)
  BY <1>1, NothingIsSlot DEF SlotIsSound
<1>3. \A i \in Index : Identified(i)
  BY <1>1, NothingIsSlot DEF Identified, Called
<1>4. \A i \in Index : HasAll(i)
  BY <1>1, NothingIsSlot DEF HasAll
<1>5. \A x : x \notin ToSet(<<>>)
  BY DEF ToSet
<1>6. CliHasAll
  BY <1>1, <1>5 DEF CliHasAll
<1>7. PartsAreOwn
  BY <1>1, <1>5, NothingIsSlot DEF PartsAreOwn
<1>8. OrderIsSound
  <2>1. \A i \in Index : acc[i].type # "call"
    BY <1>1, NothingIsSlot
  <2>2. ToSet(order) = {i \in Index : acc[i].type = "call"}
    BY <1>5, <2>1
  <2>3. Len(order) = 0
    OBVIOUS
  <2>4. \A m, n \in 1..Len(order) : order[m] = order[n] => m = n
    BY <2>3
  <2>. QED
    BY <2>2, <2>4 DEF OrderIsSound
<1>. QED
  BY <1>2, <1>3, <1>4, <1>6, <1>7, <1>8 DEF Gathered

LEMMA GatheredKeeps ==
    ASSUME StreamTypeOK, Unborn, StreamTypeOK', Gathered, [StreamNext]_streamVars
    PROVE  Gathered'
<1>1. ASSUME NEW i \in Index, OpenAIText(i) \/ BlockStarts(i) \/ BlockGrows(i) \/ BlockStops(i) \/ GooglePart(i)
      PROVE  Gathered'
  BY <1>1, OpenAITextGathers, BlockStartsGathers, BlockGrowsGathers, BlockStopsGathers, GooglePartGathers
<1>2. ASSUME NEW i \in Index, NEW n \in 1..2, NEW cuts \in [1..n -> Cut], CliRead(i, cuts)
      PROVE  Gathered'
  BY <1>2, CliReadGathers
<1>3. ASSUME NEW i \in Index, NEW has \in SUBSET {"id", "name", "args"}, OpenAICall(i, has)
      PROVE  Gathered'
  BY <1>3, OpenAICallGathers
<1>4. ASSUME StreamBegins
      PROVE  Gathered'
  <2>1. acc' = Nowhere /\ meant' = [i \in Index |-> <<>>] /\ order' = <<>>
    BY <1>4 DEF StreamBegins, Unborn
  <2>2. (acc = Nowhere /\ meant = [i \in Index |-> <<>>] /\ order = <<>>)'
    BY <2>1 DEF Nowhere, Nothing, Index, NoId
  <2>. QED
    BY <2>2, NothingIsSound, PTL
<1>5. ASSUME Finishes \/ StreamEnds \/ StreamBreaks \/ CliEnds \/ UNCHANGED streamVars
      PROVE  Gathered'
  <2>1. CASE Finishes
    BY <2>1, GatheredStays DEF Finishes, Frame
  <2>2. CASE StreamEnds
    BY <2>2, GatheredStays, StreamEndsDoes
  <2>3. CASE StreamBreaks
    BY <2>3, GatheredStays DEF StreamBreaks
  <2>4. CASE CliEnds
    BY <2>4, GatheredStays, CliEndsDoes
  <2>5. CASE UNCHANGED streamVars
    BY <2>5, GatheredStays DEF streamVars
  <2>. QED
    BY <1>5, <2>1, <2>2, <2>3, <2>4, <2>5
<1>. QED
  BY <1>1, <1>2, <1>3, <1>4, <1>5, StreamSteps
-----------------------------------------------------------------------------
(* A message that is returned is whole.                                    *)

LEMMA SetOfOne == \A x : ToSet(<<x>>) = {x} /\ ToSet(<<>>) = {}
BY DEF ToSet

LEMMA SetOfThree ==
    ASSUME NEW S, NEW a \in Seq(S), NEW b \in Seq(S), NEW c \in Seq(S)
    PROVE  ToSet((a \o b) \o c) = (ToSet(a) \cup ToSet(b)) \cup ToSet(c)
<1>1. PICK ab \in Seq(S) : ab = a \o b
  BY ConcatProperties
<1>2. ToSet(ab) = ToSet(a) \cup ToSet(b)
  BY <1>1, SetOfConcat
<1>3. ToSet(ab \o c) = ToSet(ab) \cup ToSet(c)
  BY SetOfConcat
<1>. QED
  BY <1>1, <1>2, <1>3

LEMMA CallItemsAre ==
    ASSUME acc \in [Index -> Slots], order \in Seq(Index)
    PROVE  \A y \in ToSet(CallItems) : \E i \in ToSet(order) : acc[i].name # NoId /\ y = Item(acc[i])
<1>1. CallMap \in Maps(Index, Slots) /\ CallsMade = Spread(CallMap, order) /\ CallsMade \in Seq(Slots)
  BY CallsAre
<1>2. \A c : c \in ToSet(Spread(CallMap, order)) <=> \E i \in ToSet(order) : c \in ToSet(CallMap[i])
  BY <1>1, SpreadMembers
<1>3. ToSet(order) \subseteq Index
  BY ElementOfSeq, LenProperties DEF ToSet
<1>4. ASSUME NEW y \in ToSet(CallItems)
      PROVE  \E i \in ToSet(order) : acc[i].name # NoId /\ y = Item(acc[i])
  <2>1. PICK k \in 1..Len(CallsMade) : y = Item(CallsMade[k])
    BY DEF CallItems, ToSet
  <2>2. CallsMade[k] \in ToSet(CallsMade)
    BY <1>1, LenProperties DEF ToSet
  <2>3. PICK i \in ToSet(order) : CallsMade[k] \in ToSet(CallMap[i])
    BY <1>1, <1>2, <2>2
  <2>4. CallMap[i] = IF acc[i].name # NoId THEN <<acc[i]>> ELSE <<>>
    BY <1>3 DEF CallMap
  <2>5. acc[i].name # NoId /\ CallsMade[k] = acc[i]
    BY <2>3, <2>4, SetOfOne
  <2>. QED
    BY <2>1, <2>5
<1>. QED
  BY <1>4

\* The calls of a message are the calls that were told.
LEMMA AssembledCalls ==
    ASSUME StreamTypeOK, Gathered, vendor \in {"openai", "anthropic", "google"},
           NEW y \in ToSet(Assembled), y.type = "call"
    PROVE  \E i \in Index : Called(i) /\ y = Item(Kept(i))
<1>1. acc \in [Index -> Slots] /\ order \in Seq(Index)
  BY DEF StreamTypeOK
<1>2. \A i \in Index : acc[i] \in Slots /\ Item(Kept(i)).type = acc[i].type /\ SlotIsSound(i) /\ Name(i) # NoId
  BY <1>1, KeptIs, ItemTypes, MarkTypes, IndexType DEF Gathered
<1>3. CASE vendor = "anthropic"
  <2>1. Assembled = Spread(BlockMap, AllBlocks)
    BY <1>1, <1>3, AssembledType
  <2>2. BlockMap \in Maps(Index, Items) /\ AllBlocks \in Seq(Index) /\ ToSet(AllBlocks) = Index
    BY <1>1, BlocksAre, AllBlocksAre
  <2>3. \A z : z \in ToSet(Spread(BlockMap, AllBlocks)) <=> \E i \in ToSet(AllBlocks) : z \in ToSet(BlockMap[i])
    BY <2>2, SpreadMembers
  <2>4. PICK i \in Index : y \in ToSet(BlockMap[i])
    BY <2>1, <2>2, <2>3
  <2>5. y = Item(Kept(i))
    BY <1>3, <2>4, SetOfOne DEF BlockMap, Kept
  <2>6. acc[i].type = "call"
    BY <1>2, <2>5
  <2>7. Called(i)
    BY <1>2, <1>3, <2>6 DEF SlotIsSound, Called
  <2>. QED
    BY <2>5, <2>7
<1>4. CASE vendor # "anthropic"
  <2>1. /\ Assembled = (Joined("thinking") \o Joined("text")) \o CallItems
        /\ Joined("thinking") \in Seq(Items) /\ Joined("text") \in Seq(Items) /\ CallItems \in Seq(Items)
    BY <1>1, <1>4, AssembledType
  <2>2. ToSet(Assembled) = (ToSet(Joined("thinking")) \cup ToSet(Joined("text"))) \cup ToSet(CallItems)
    BY <2>1, SetOfThree
  <2>3. ASSUME NEW kind \in {"text", "thinking"}
        PROVE  y \notin ToSet(Joined(kind))
    <3>1. PICK p \in Seq(Nat) : p = Spread(SaidMap(kind), AllBlocks)
      BY <1>1, SaidIs
    <3>2. Joined(kind) = IF p = <<>> THEN <<>> ELSE <<TextItem(kind, p)>>
      BY <1>1, <3>1, JoinedType
    <3>3. TextItem(kind, p).type = kind
      BY ItemTypes
    <3>4. ToSet(Joined(kind)) \subseteq {TextItem(kind, p)}
      BY <3>2, SetOfOne
    <3>. QED
      BY <3>3, <3>4
  <2>4. y \in ToSet(CallItems)
    BY <2>2, <2>3
  <2>5. PICK i \in ToSet(order) : acc[i].name # NoId /\ y = Item(acc[i])
    BY <1>1, <2>4, CallItemsAre
  <2>6. i \in Index
    BY <1>1, ElementOfSeq, LenProperties DEF ToSet
  <2>a. Kept(i) = acc[i]
    BY <1>4 DEF Kept
  <2>7. acc[i].type = "call"
    BY <1>2, <2>5, <2>6, <2>a
  <2>8. Called(i)
    BY <1>2, <2>5, <2>6, <2>7 DEF SlotIsSound, Called
  <2>. QED
    BY <2>5, <2>6, <2>8, <2>a
<1>. QED
  BY <1>3, <1>4

\* Every text that was gathered is in the message.
LEMMA AssembledTexts ==
    ASSUME StreamTypeOK, Gathered, vendor \in {"openai", "anthropic", "google"},
           NEW i \in Index, Blocks[i] # "call", NEW part \in ToSet(acc[i].parts)
    PROVE  part \in ToSet(PartsOf(OfType(Blocks[i], Assembled)))
<1>1. acc \in [Index -> Slots] /\ order \in Seq(Index) /\ acc[i] \in Slots /\ acc[i].parts \in Seq(Nat)
  BY SendsType DEF StreamTypeOK
<1>2. acc[i].parts # <<>>
  BY <1>1, NoMembers
<1>3. acc[i].type = Blocks[i] /\ Blocks[i] \in {"text", "thinking"}
  BY <1>2, IndexType DEF Gathered, SlotIsSound
<1>4. \E x \in ToSet(Assembled) : x.type = Blocks[i] /\ part \in ToSet(x.parts)
  <2>1. CASE vendor = "anthropic"
    <3>1. Assembled = Spread(BlockMap, AllBlocks)
      BY <1>1, <2>1, AssembledType
    <3>2. BlockMap \in Maps(Index, Items) /\ AllBlocks \in Seq(Index) /\ ToSet(AllBlocks) = Index
      BY <1>1, BlocksAre, AllBlocksAre
    <3>3. \A z : z \in ToSet(Spread(BlockMap, AllBlocks)) <=> \E k \in ToSet(AllBlocks) : z \in ToSet(BlockMap[k])
      BY <3>2, SpreadMembers
    <3>a. BlockContent(i) = acc[i]
      BY <1>3 DEF BlockContent
    <3>4. BlockMap[i] = <<Item(acc[i])>>
      BY <1>2, <1>3, <3>a DEF BlockMap
    <3>5. Item(acc[i]) \in ToSet(Assembled)
      BY <3>1, <3>2, <3>3, <3>4, SetOfOne
    <3>6. Item(acc[i]).type = acc[i].type /\ Item(acc[i]).parts = acc[i].parts
      BY <1>1, ItemTypes
    <3>. QED
      BY <1>3, <3>5, <3>6
  <2>2. CASE vendor # "anthropic"
    <3>1. /\ Assembled = (Joined("thinking") \o Joined("text")) \o CallItems
          /\ Joined("thinking") \in Seq(Items) /\ Joined("text") \in Seq(Items) /\ CallItems \in Seq(Items)
      BY <1>1, <2>2, AssembledType
    <3>2. ToSet(Joined("thinking")) \subseteq ToSet(Assembled) /\ ToSet(Joined("text")) \subseteq ToSet(Assembled)
      <4>1. ToSet(Assembled) = (ToSet(Joined("thinking")) \cup ToSet(Joined("text"))) \cup ToSet(CallItems)
        BY <3>1, SetOfThree
      <4>. QED
        BY <4>1
    <3>3. PICK kind \in {"text", "thinking"} : kind = Blocks[i]
      BY <1>3
    <3>4. PICK p \in Seq(Nat) : p = Spread(SaidMap(kind), AllBlocks)
      BY <1>1, SaidIs
    <3>5. SaidMap(kind) \in Maps(Index, Nat) /\ AllBlocks \in Seq(Index) /\ ToSet(AllBlocks) = Index
      BY <1>1, SaidIs, AllBlocksAre
    <3>6. part \in ToSet(p)
      <4>1. \A z : z \in ToSet(Spread(SaidMap(kind), AllBlocks))
                       <=> \E k \in ToSet(AllBlocks) : z \in ToSet(SaidMap(kind)[k])
        BY <3>5, SpreadMembers
      <4>2. SaidMap(kind)[i] = acc[i].parts
        BY <1>3, <3>3 DEF SaidMap
      <4>. QED
        BY <3>4, <3>5, <4>1, <4>2
    <3>7. Joined(kind) = IF p = <<>> THEN <<>> ELSE <<TextItem(kind, p)>>
      BY <1>1, <3>4, JoinedType
    <3>8. p # <<>>
      BY <3>6, SetOfOne
    <3>9. TextItem(kind, p) \in ToSet(Joined(kind))
      BY <3>7, <3>8, SetOfOne
    <3>10. TextItem(kind, p) \in ToSet(Assembled)
      BY <3>2, <3>9
    <3>11. TextItem(kind, p).type = kind /\ TextItem(kind, p).parts = p
      BY ItemTypes
    <3>. QED
      BY <3>3, <3>6, <3>10, <3>11
  <2>. QED
    BY <2>1, <2>2
<1>5. Assembled \in Seq(Items) /\ \A x \in Items : x.parts \in Seq(Nat)
  BY <1>1, AssembledType, EventTypes
<1>6. \A y : y \in ToSet(PartsOf(OfType(Blocks[i], Assembled)))
                  <=> \E x \in ToSet(Assembled) : x.type = Blocks[i] /\ y \in ToSet(x.parts)
  BY <1>5, PartsMembers
<1>. QED
  BY <1>4, <1>6

LEMMA EndIsWhole ==
    ASSUME StreamTypeOK, Gathered, StreamEnds, over' = "ok"
    PROVE  StreamIsWhole'
<1>1. /\ vendor \in {"openai", "anthropic", "google"} /\ over = "open"
      /\ vendor' = vendor /\ meant' = meant /\ acc' = acc /\ valid' = valid /\ finish' = finish
      /\ finish /\ message' = Assembled
  BY StreamEndsDoes
<1>2. vendor # "cli" /\ Assembled \in Seq(Items)
  BY <1>1, AssembledType DEF StreamTypeOK
<1>3. \A i \in Index : HasAll(i) /\ SlotIsSound(i) /\ acc[i] \in Slots
  BY <1>2, SendsType DEF Gathered
<1>4. ASSUME NEW i \in Index, Blocks[i] = "call", NEW call \in ToSet(OfType("call", Assembled)), call.name = Name(i)
      PROVE  call.parts = IF i \in Discarded THEN <<>> ELSE meant[i]
  <2>1. call \in ToSet(Assembled) /\ call.type = "call"
    BY <1>2, OfTypeMembers
  <2>2. PICK j \in Index : Called(j) /\ call = Item(Kept(j))
    BY <1>1, <2>1, AssembledCalls
  <2>a. acc \in [Index -> Slots]
    BY DEF StreamTypeOK
  <2>b. /\ Kept(j) \in Slots /\ Kept(j).type = "call" /\ Kept(j).name = acc[j].name
        /\ Kept(j).parts = IF vendor = "anthropic" /\ j \notin valid THEN <<>> ELSE acc[j].parts
    BY <2>2, <2>a, KeptIs DEF Called
  <2>3. call.name = acc[j].name /\ call.parts = Kept(j).parts
    BY <2>2, <2>b, ItemTypes
  <2>4. j = i
    <3>1. acc[j].name \in {NoId, Name(j)}
      BY <1>3 DEF SlotIsSound
    <3>2. Name(i) # NoId /\ (Name(i) = Name(j) => i = j)
      BY IndexType, MarkTypes
    <3>. QED
      BY <1>4, <2>3, <3>1, <3>2
  <2>5. acc[i].parts = meant[i]
    BY <1>3, <2>2, <2>4, NothingIsSlot DEF HasAll, Called
  <2>6. i \in Discarded <=> vendor = "anthropic" /\ i \notin valid
    BY <1>4 DEF Discarded
  <2>. QED
    BY <2>3, <2>4, <2>5, <2>6, <2>b
<1>5. ASSUME NEW i \in Index, Blocks[i] # "call"
      PROVE  {part \in ToSet(meant[i]) : ~Blank(part)} \subseteq ToSet(PartsOf(OfType(Blocks[i], Assembled)))
  <2>1. acc[i].parts = meant[i]
    BY <1>3, <1>5 DEF HasAll
  <2>. QED
    BY <1>1, <1>5, <2>1, AssembledTexts
<1>6. \A type : Returned(type)' = OfType(type, Assembled)
  BY <1>1 DEF Returned, OfType
<1>7. Discarded' = Discarded
  BY <1>1 DEF Discarded
<1>. QED
  BY <1>1, <1>4, <1>5, <1>6, <1>7 DEF StreamIsWhole

\* What a CLI has said is all that is gathered, and the rest.
LEMMA CliSaidIs ==
    ASSUME StreamTypeOK
    PROVE  \A byte : byte \in ToSet(CliSaid)
              <=> byte \in ToSet(order) \/ \E i \in Index : byte \in ToSet(acc[i].parts)
<1> DEFINE h == [i \in Index |-> acc[i].parts]
<1>1. h \in Maps(Index, Nat) /\ order \in Seq(Nat)
  BY SendsType DEF Maps, StreamTypeOK
<1>2. FlattenSeq(h) = Spread(h, AllBlocks)
  BY <1>1, FlattenBlocks
<1>3. \A i \in Index : h[i] = acc[i].parts
  OBVIOUS
<1>4. CliSaid = FlattenSeq(h) \o order
  BY DEF CliSaid
<1>. HIDE DEF h
<1>5. AllBlocks \in Seq(Index) /\ ToSet(AllBlocks) = Index
  BY AllBlocksAre
<1>6. \A z : z \in ToSet(Spread(h, AllBlocks)) <=> \E k \in ToSet(AllBlocks) : z \in ToSet(h[k])
  BY <1>1, <1>5, SpreadMembers
<1>7. Spread(h, AllBlocks) \in Seq(Nat)
  BY <1>1, <1>5, SpreadType
<1>8. ToSet(CliSaid) = ToSet(Spread(h, AllBlocks)) \cup ToSet(order)
  BY <1>1, <1>2, <1>4, <1>7, SetOfConcat
<1>. QED
  BY <1>3, <1>5, <1>6, <1>8

LEMMA CliEndIsWhole ==
    ASSUME StreamTypeOK, Gathered, CliEnds, over' = "ok"
    PROVE  StreamIsWhole'
<1>1. /\ vendor = "cli" /\ vendor' = vendor /\ meant' = meant /\ CliSaid \in Seq(Nat)
      /\ finish' = TRUE /\ message' = <<TextItem("text", Trimmed(CliSaid))>>
  BY CliEndsDoes
<1>2. CliHasAll
  BY <1>1 DEF Gathered
<1>3. PICK said \in Seq(Nat) : said = Trimmed(CliSaid)
  BY <1>1, TrimmedIs
<1>4. TextItem("text", said).type = "text" /\ TextItem("text", said).parts = said
  BY ItemTypes
<1>5. OfType("call", <<TextItem("text", said)>>) = <<>>
  BY <1>4, OfTypeOne
<1>6. PartsOf(OfType("text", <<TextItem("text", said)>>)) = said
  BY <1>4, PartsOne
<1>7. ToSet(<<>>) = {}
  BY SetOfOne
<1>8. \A type : Returned(type)' = OfType(type, <<TextItem("text", said)>>)
  BY <1>1, <1>3 DEF Returned, OfType
<1>9. ASSUME NEW i \in Index, Blocks[i] # "call"
      PROVE  {part \in ToSet(meant[i]) : ~Blank(part)} \subseteq ToSet(PartsOf(OfType(Blocks[i], <<TextItem("text", said)>>)))
  <2>1. CASE Blocks[i] = "text"
    <3>1. ToSet(meant[i]) \subseteq ToSet(CliSaid)
      BY <1>2, CliSaidIs DEF CliHasAll
    <3>2. \A byte \in ToSet(CliSaid) : ~Blank(byte) => byte \in ToSet(said)
      BY <1>1, <1>3, TrimmedIs
    <3>. QED
      BY <1>6, <2>1, <3>1, <3>2
  <2>2. CASE Blocks[i] # "text"
    BY <1>2, <1>7, <2>2 DEF CliHasAll
  <2>. QED
    BY <2>1, <2>2
<1>10. \A i \in Index : \A call \in ToSet(OfType("call", <<TextItem("text", said)>>)) : FALSE
  BY <1>5, <1>7
<1>. QED
  BY <1>1, <1>8, <1>9, <1>10 DEF StreamIsWhole

\* What is over does not change.
LEMMA OverStays ==
    ASSUME StreamTypeOK, Unborn, [StreamNext]_streamVars, over' = "ok",
           ~(StreamEnds /\ over = "open"), ~(CliEnds /\ over = "open")
    PROVE  over = "ok" /\ UNCHANGED streamVars
<1>1. ASSUME NEW i \in Index, NEW evs, Fragment(i, evs)
      PROVE  FALSE
  BY <1>1 DEF Fragment
<1>2. ASSUME NEW i \in Index, OpenAIText(i) \/ BlockStarts(i) \/ BlockGrows(i) \/ BlockStops(i) \/ GooglePart(i)
      PROVE  FALSE
  BY <1>1, <1>2, OpenAITextDoes, BlockStartsDoes, BlockGrowsDoes, BlockStopsDoes, GooglePartDoes
<1>3. ASSUME NEW i \in Index, NEW n \in 1..2, NEW cuts \in [1..n -> Cut], CliRead(i, cuts)
      PROVE  FALSE
  BY <1>1, <1>3, CliReadDoes
<1>4. ASSUME NEW i \in Index, NEW has \in SUBSET {"id", "name", "args"}, OpenAICall(i, has)
      PROVE  FALSE
  BY <1>1, <1>4, OpenAICallDoes
<1>5. ASSUME StreamBegins
      PROVE  FALSE
  BY <1>5 DEF StreamBegins, Unborn
<1>6. ASSUME Finishes \/ StreamEnds \/ StreamBreaks \/ CliEnds
      PROVE  FALSE
  BY <1>6, StreamEndsDoes, CliEndsDoes DEF Finishes, Frame, StreamBreaks
<1>7. UNCHANGED streamVars
  BY <1>2, <1>3, <1>4, <1>5, <1>6, StreamSteps
<1>. QED
  BY <1>7 DEF streamVars

LEMMA WholeKeeps ==
    ASSUME StreamTypeOK, Unborn, Gathered, StreamIsWhole, [StreamNext]_streamVars
    PROVE  StreamIsWhole'
<1>1. CASE over' # "ok"
  BY <1>1 DEF StreamIsWhole
<1>2. CASE over' = "ok" /\ StreamEnds
  BY <1>2, EndIsWhole
<1>3. CASE over' = "ok" /\ CliEnds
  BY <1>3, CliEndIsWhole
<1>4. CASE over' = "ok" /\ ~StreamEnds /\ ~CliEnds
  <2>1. over = "ok" /\ UNCHANGED streamVars
    BY <1>4, OverStays
  <2>. QED
    BY <2>1 DEF StreamIsWhole, Discarded, Returned, OfType, PartsOf, streamVars
<1>. QED
  BY <1>1, <1>2, <1>3, <1>4

\* Of a reply that is returned the server's end was seen, and nothing it has sent is
\* lost but the white space around a CLI's output, and of Anthropic's calls the
\* inputs that are not JSON, which go as a whole.
THEOREM StreamReturnsAllOfIt == StreamSpec => []StreamIsWhole
<1> DEFINE I == StreamTypeOK /\ Unborn /\ Gathered /\ StreamIsWhole
<1>1. StreamInit => I
  <2>. SUFFICES ASSUME StreamInit
                PROVE  I
    OBVIOUS
  <2>1. StreamTypeOK /\ Unborn
    BY StreamInitInv
  <2>2. Gathered
    BY <2>1, NothingIsSound DEF StreamInit
  <2>3. StreamIsWhole
    BY DEF StreamInit, StreamIsWhole
  <2>. QED
    BY <2>1, <2>2, <2>3
<1>2. I /\ [StreamNext]_streamVars => I'
  BY StreamTypesKeep, GatheredKeeps, WholeKeeps
<1>. QED
  BY <1>1, <1>2, PTL DEF StreamSpec
-----------------------------------------------------------------------------
(* What the callback has been told.                                        *)

Where(s, e) == {p \in 1 .. Len(s) : s[p] = e}
CalledOnes == {i \in Index : Called(i)}

\* The texts so far, in order.
TextsAreTold == \A type \in {"text", "thinking"} : Told(type) = Spread(SaidMap(type), AllBlocks)

\* Of every call with a start all the input there is, and no other.
DeltasHaveCalls ==
    \A p \in 1 .. Len(events) : events[p].type = "delta" =>
        \E i \in CalledOnes : \E part \in ToSet(acc[i].parts) : events[p] = DeltaEv(part)
DeltasAreAll ==
    \A i \in CalledOnes : \A part \in ToSet(acc[i].parts) : Where(events, DeltaEv(part)) # {}

\* Its start once, and before its input.
StartsHaveCalls ==
    \A p \in 1 .. Len(events) : events[p].type = "start" =>
        \E i \in CalledOnes : events[p] = StartEv(acc[i])
StartsComeFirst ==
    \A i \in CalledOnes : \E p \in 1 .. Len(events) :
        /\ Where(events, StartEv(acc[i])) = {p}
        /\ \A part \in ToSet(acc[i].parts) : \A d \in Where(events, DeltaEv(part)) : p < d
StartsAreCounted == Len(Given("start")) = Cardinality(CalledOnes)

\* A stop after all of its input; Google's comes with the call.
StopsComeLast ==
    \A p \in 1 .. Len(events) : events[p].type = "stop" =>
        /\ vendor # "openai"
        /\ \E i \in CalledOnes :
              /\ events[p] = StopEv(acc[i]) /\ Contains(order, i)
              /\ \A part \in ToSet(acc[i].parts) : \A d \in Where(events, DeltaEv(part)) : d < p
GoogleStops ==
    vendor = "google" => \A i \in CalledOnes : \E p \in 1 .. Len(events) : Where(events, StopEv(acc[i])) = {p}

CallsAreTold ==
    /\ DeltasHaveCalls /\ DeltasAreAll
    /\ StartsHaveCalls /\ StartsComeFirst /\ StartsAreCounted
    /\ StopsComeLast /\ GoogleStops

NotDone ==
    \A p \in 1 .. Len(events) :
        /\ events[p].type # "done"
        /\ vendor = "cli" => events[p].type = "text" /\ ~Inside(Last(events[p].parts))

Heard == TextsAreTold /\ CallsAreTold /\ NotDone

LEMMA Positions ==
    ASSUME NEW S, NEW s \in Seq(S), NEW t \in Seq(S)
    PROVE  /\ Len(s) \in Nat /\ Len(t) \in Nat /\ Len(s \o t) = Len(s) + Len(t)
           /\ \A p \in 1 .. Len(s) : p \in 1 .. Len(s \o t) /\ (s \o t)[p] = s[p]
           /\ \A k \in 1 .. Len(t) : Len(s) + k \in 1 .. Len(s \o t) /\ (s \o t)[Len(s) + k] = t[k]
           /\ \A q \in 1 .. Len(s \o t) :
                 \/ q \in 1 .. Len(s)
                 \/ \E k \in 1 .. Len(t) : q = Len(s) + k
<1>1. Len(s) \in Nat /\ Len(t) \in Nat
  BY LenProperties
<1>2. Len(s \o t) = Len(s) + Len(t) /\ \A n \in 1 .. Len(s) + Len(t) : (s \o t)[n] = IF n <= Len(s) THEN s[n] ELSE t[n - Len(s)]
  BY ConcatProperties
<1>. DEFINE m == Len(s)
            l == Len(t)
            r == s \o t
<1>3. m \in Nat /\ l \in Nat /\ Len(r) = m + l /\ \A n \in 1 .. m + l : r[n] = IF n <= m THEN s[n] ELSE t[n - m]
  BY <1>1, <1>2
<1>. HIDE DEF m, l, r
<1>4. \A p \in 1 .. m : p \in 1 .. m + l /\ p <= m
  BY <1>3
<1>5. \A k \in 1 .. l : m + k \in 1 .. m + l /\ ~(m + k <= m) /\ (m + k) - m = k
  BY <1>3
<1>6. \A q \in 1 .. m + l : q \in 1 .. m \/ (q - m \in 1 .. l /\ q = m + (q - m))
  BY <1>3
<1>7. \A q \in 1 .. m + l : q \in 1 .. m \/ \E k \in 1 .. l : q = m + k
  BY <1>6
<1>8. \A p \in 1 .. m : p \in 1 .. Len(r) /\ r[p] = s[p]
  BY <1>3, <1>4
<1>9. \A k \in 1 .. l : m + k \in 1 .. Len(r) /\ r[m + k] = t[k]
  BY <1>3, <1>5
<1>. QED
  BY <1>3, <1>7, <1>8, <1>9 DEF m, l, r

LEMMA WhereConcat ==
    ASSUME NEW S, NEW s \in Seq(S), NEW t \in Seq(S), NEW e
    PROVE  /\ \A q : q \in Where(s \o t, e) <=> q \in Where(s, e) \/ \E k \in Where(t, e) : q = Len(s) + k
           /\ Where(s, e) \subseteq 1 .. Len(s)
<1>. DEFINE m == Len(s)
            l == Len(t)
            r == s \o t
<1>1. /\ \A p \in 1 .. m : p \in 1 .. Len(r) /\ r[p] = s[p]
      /\ \A k \in 1 .. l : m + k \in 1 .. Len(r) /\ r[m + k] = t[k]
      /\ \A q \in 1 .. Len(r) : q \in 1 .. m \/ \E k \in 1 .. l : q = m + k
  <2>1. /\ Len(s) \in Nat /\ Len(t) \in Nat /\ Len(s \o t) = Len(s) + Len(t)
        /\ \A p \in 1 .. Len(s) : p \in 1 .. Len(s \o t) /\ (s \o t)[p] = s[p]
        /\ \A k \in 1 .. Len(t) : Len(s) + k \in 1 .. Len(s \o t) /\ (s \o t)[Len(s) + k] = t[k]
        /\ \A q \in 1 .. Len(s \o t) :
              \/ q \in 1 .. Len(s)
              \/ \E k \in 1 .. Len(t) : q = Len(s) + k
    BY Positions
  <2>. QED
    BY ONLY <2>1
<1>. HIDE DEF m, l, r
<1>2. ASSUME NEW q \in Where(r, e)
      PROVE  q \in {p \in 1 .. m : s[p] = e} \/ \E k \in {p \in 1 .. l : t[p] = e} : q = m + k
  BY <1>1 DEF Where
<1>3. ASSUME NEW q \in {p \in 1 .. m : s[p] = e}
      PROVE  q \in Where(r, e)
  BY <1>1 DEF Where
<1>4. ASSUME NEW k \in {p \in 1 .. l : t[p] = e}
      PROVE  m + k \in Where(r, e)
  BY <1>1 DEF Where
<1>5. Where(s, e) = {p \in 1 .. m : s[p] = e} /\ Where(t, e) = {p \in 1 .. l : t[p] = e}
  BY DEF Where, m, l
<1>6. \A q : q \in Where(r, e) <=> q \in Where(s, e) \/ \E k \in Where(t, e) : q = m + k
  BY <1>2, <1>3, <1>4, <1>5
<1>. QED
  BY <1>6 DEF m, r, Where

\* What has been called, and how it is known.
LEMMA CalledIs ==
    ASSUME StreamTypeOK, Gathered
    PROVE  \A i \in CalledOnes : /\ i \in Index /\ acc[i] \in Slots /\ acc[i].name = Name(i)
                                 /\ acc[i].type = "call" /\ acc[i].started /\ acc[i].parts \in Seq(Nat)
                                 /\ Blocks[i] = "call"
BY SendsType DEF CalledOnes, Called, Gathered, SlotIsSound

LEMMA CalledApart ==
    ASSUME StreamTypeOK, Gathered
    PROVE  \A i, j \in CalledOnes : i # j => /\ acc[i].id # acc[j].id
                                             /\ StartEv(acc[i]) # StartEv(acc[j])
                                             /\ StopEv(acc[i]) # StopEv(acc[j])
<1>. SUFFICES ASSUME NEW i \in CalledOnes, NEW j \in CalledOnes, i # j
              PROVE  acc[i].id # acc[j].id
  BY EventFields
<1>1. Called(i) /\ Called(j) /\ Identified(i) /\ Identified(j) /\ i \in Nat /\ j \in Nat
  BY IndexType DEF CalledOnes, Gathered
<1>2. \A n \in 1..Len(order) : n \in Nat /\ n - 1 \in Nat
  <2>1. Len(order) \in Nat
    BY LenProperties DEF StreamTypeOK
  <2>. QED
    BY <2>1
<1>3. /\ <<"given", i>> # <<"given", j>> /\ <<"call", i>> # <<"call", j>>
      /\ \A a, b \in Nat : <<"given", a>> # <<"call", b>>
      /\ \A a, b \in Nat : <<"call", a>> = <<"call", b>> => a = b
  BY <1>1, MarkTypes
<1>4. CASE vendor = "google"
  <2>1. \/ acc[i].id = <<"given", i>>
        \/ \E n \in 1..Len(order) : order[n] = i /\ acc[i].id = <<"call", n - 1>>
    BY <1>1, <1>4 DEF Identified
  <2>2. \/ acc[j].id = <<"given", j>>
        \/ \E n \in 1..Len(order) : order[n] = j /\ acc[j].id = <<"call", n - 1>>
    BY <1>1, <1>4 DEF Identified
  <2>3. ASSUME NEW n \in 1..Len(order), NEW m \in 1..Len(order), order[n] = i, order[m] = j
        PROVE  <<"call", n - 1>> # <<"call", m - 1>>
    <3>1. n # m /\ n \in Nat /\ m \in Nat
      BY <1>2, <2>3
    <3>2. n - 1 # m - 1
      BY <3>1
    <3>. QED
      BY <1>2, <1>3, <3>2
  <2>. QED
    BY <1>1, <1>2, <1>3, <2>1, <2>2, <2>3
<1>5. CASE vendor # "google"
  BY <1>1, <1>3, <1>5 DEF Identified
<1>. QED
  BY <1>4, <1>5

\* No event so far has the fragment that comes.
LEMMA PartsAreOld ==
    ASSUME StreamTypeOK, Gathered, vendor # "cli"
    PROVE  /\ \A i \in Index : \A part \in ToSet(acc[i].parts) : part \in Nat /\ part # frames + 1
           /\ \A i, j \in Index : i # j => ToSet(acc[i].parts) \cap ToSet(acc[j].parts) = {}
<1>1. frames \in Nat /\ \A i \in Index : acc[i].parts \in Seq(Nat)
  BY SendsType DEF StreamTypeOK
<1>2. \A i \in Index : \A part \in ToSet(acc[i].parts) : part \in Nat
  BY <1>1, ElementOfSeq, LenProperties DEF ToSet
<1>3. \A i \in Index : \A part \in ToSet(acc[i].parts) : part <= frames
  BY DEF Gathered, PartsAreOwn
<1>4. ASSUME NEW i \in Index, NEW part \in ToSet(acc[i].parts)
      PROVE  part # frames + 1
  <2>1. part \in Nat /\ part <= frames
    BY <1>2, <1>3
  <2>. QED
    BY <1>1, <2>1
<1>. QED
  BY <1>2, <1>4 DEF Gathered, PartsAreOwn

\* The same, to be said of the next state.
CallsKnown ==
    /\ \A i \in CalledOnes : /\ i \in Index /\ acc[i] \in Slots /\ acc[i].name = Name(i)
                             /\ acc[i].type = "call" /\ acc[i].started /\ acc[i].parts \in Seq(Nat)
    /\ \A i, j \in CalledOnes : i # j => /\ acc[i].id # acc[j].id
                                         /\ StartEv(acc[i]) # StartEv(acc[j])
                                         /\ StopEv(acc[i]) # StopEv(acc[j])
    /\ vendor # "cli" => \A i, j \in Index : i # j => ToSet(acc[i].parts) \cap ToSet(acc[j].parts) = {}

LEMMA CallsAreKnown == StreamTypeOK /\ Gathered => CallsKnown
<1>. SUFFICES ASSUME StreamTypeOK, Gathered
              PROVE  CallsKnown
  OBVIOUS
<1>1. vendor # "cli" => \A i, j \in Index : i # j => ToSet(acc[i].parts) \cap ToSet(acc[j].parts) = {}
  BY PartsAreOld
<1>. QED
  BY <1>1, CalledIs, CalledApart DEF CallsKnown
-----------------------------------------------------------------------------
(* A step that tells of no call, and one that tells of its input.          *)

Tells(i, evs) ==
    /\ Fragment(i, evs) /\ over' = "open"
    /\ order' = order \/ order' = Append(order, i)

LEMMA TellsIs ==
    ASSUME StreamTypeOK, NEW i \in Index, NEW evs, Tells(i, evs), vendor # "cli"
    PROVE  /\ events \in Seq(Events) /\ evs \in Seq(Events) /\ events' = events \o evs /\ vendor' = vendor
           /\ (\A j \in Index : j # i => acc'[j] = acc[j])
           /\ (\A j \in Index : Contains(order, j) => Contains(order', j))
           /\ Len(events) \in Nat
<1>1. /\ events \in Seq(Events) /\ evs \in Seq(Events) /\ events' = events \o evs /\ vendor' = vendor
      /\ \A j \in Index : j # i => acc'[j] = acc[j]
  BY FragmentFrame DEF Tells, Fragment, StreamTypeOK
<1>2. \A n \in 1..Len(order) : n \in 1..Len(order') /\ order'[n] = order[n]
  <2>1. order \in Seq(Index)
    BY DEF StreamTypeOK
  <2>. QED
    BY <2>1, OrderGrows DEF Tells
<1>3. \A j \in Index : Contains(order, j) => Contains(order', j)
  BY <1>2 DEF Contains
<1>. QED
  BY <1>1, <1>3, LenProperties

\* What is told of other calls stays where it is.
LEMMA OldPlaces ==
    ASSUME events \in Seq(Events), NEW evs \in Seq(Events), events' = events \o evs, NEW e,
           \A k \in 1 .. Len(evs) : evs[k] # e
    PROVE  Where(events', e) = Where(events, e)
<1>1. \A q : q \in Where(events', e) <=> q \in Where(events, e) \/ \E k \in Where(evs, e) : q = Len(events) + k
  BY WhereConcat
<1>2. Where(evs, e) = {}
  BY DEF Where
<1>. QED
  BY <1>1, <1>2

LEMMA NewPlace ==
    ASSUME events \in Seq(Events), NEW evs \in Seq(Events), events' = events \o evs
    PROVE  /\ Len(events) \in Nat /\ Len(evs) \in Nat /\ Len(events') = Len(events) + Len(evs)
           /\ \A p \in 1 .. Len(events) : p \in 1 .. Len(events') /\ events'[p] = events[p]
           /\ \A k \in 1 .. Len(evs) : Len(events) + k \in 1 .. Len(events') /\ events'[Len(events) + k] = evs[k]
           /\ \A q \in 1 .. Len(events') :
                 q \in 1 .. Len(events) \/ \E k \in 1 .. Len(evs) : q = Len(events) + k
           /\ \A e : \A q : q \in Where(events', e)
                  <=> q \in Where(events, e) \/ \E k \in Where(evs, e) : q = Len(events) + k
           /\ \A e : Where(events, e) \subseteq 1 .. Len(events)
<1>1. /\ Len(events) \in Nat /\ Len(evs) \in Nat /\ Len(events \o evs) = Len(events) + Len(evs)
      /\ \A p \in 1 .. Len(events) : p \in 1 .. Len(events \o evs) /\ (events \o evs)[p] = events[p]
      /\ \A k \in 1 .. Len(evs) :
            Len(events) + k \in 1 .. Len(events \o evs) /\ (events \o evs)[Len(events) + k] = evs[k]
      /\ \A q \in 1 .. Len(events \o evs) :
            \/ q \in 1 .. Len(events)
            \/ \E k \in 1 .. Len(evs) : q = Len(events) + k
  BY Positions
<1>2. \A e : /\ \A q : q \in Where(events \o evs, e)
                      <=> q \in Where(events, e) \/ \E k \in Where(evs, e) : q = Len(events) + k
             /\ Where(events, e) \subseteq 1 .. Len(events)
  BY WhereConcat
<1>3. events' = events \o evs
  OBVIOUS
<1>4. \A e : \A q : q \in Where(events', e)
                  <=> q \in Where(events, e) \/ \E k \in Where(evs, e) : q = Len(events) + k
  BY <1>2, <1>3
<1>5. /\ Len(events) \in Nat /\ Len(evs) \in Nat /\ Len(events') = Len(events) + Len(evs)
      /\ \A p \in 1 .. Len(events) : p \in 1 .. Len(events') /\ events'[p] = events[p]
      /\ \A k \in 1 .. Len(evs) : Len(events) + k \in 1 .. Len(events') /\ events'[Len(events) + k] = evs[k]
  BY <1>1, <1>3
<1>6. \A q \in 1 .. Len(events') :
         q \in 1 .. Len(events) \/ \E k \in 1 .. Len(evs) : q = Len(events) + k
  BY <1>1, <1>3
<1>. QED
  BY <1>2, <1>4, <1>5, <1>6

QuietEvents(evs) == \A k \in 1 .. Len(evs) : evs[k].type \notin {"delta", "start", "stop"}

LEMMA QuietSteps ==
    ASSUME StreamTypeOK, Gathered, CallsAreTold, NEW evs \in Seq(Events),
           events' = events \o evs, QuietEvents(evs), vendor' = vendor,
           CalledOnes' = CalledOnes, \A i \in CalledOnes : acc'[i] = acc[i],
           \A i \in CalledOnes : Contains(order, i) => Contains(order', i)
    PROVE  CallsAreTold'
<1>1. events \in Seq(Events)
  BY DEF StreamTypeOK
<1>2. /\ \A p \in 1 .. Len(events) : p \in 1 .. Len(events') /\ events'[p] = events[p]
      /\ \A k \in 1 .. Len(evs) : events'[Len(events) + k] = evs[k]
      /\ \A q \in 1 .. Len(events') : q \in 1 .. Len(events) \/ \E k \in 1 .. Len(evs) : q = Len(events) + k
  BY <1>1, NewPlace
<1>3. \A q \in 1 .. Len(events') :
          events'[q].type \in {"delta", "start", "stop"} => q \in 1 .. Len(events) /\ events'[q] = events[q]
  BY <1>2 DEF QuietEvents
<1>4. \A e : e.type \in {"delta", "start", "stop"} => Where(events', e) = Where(events, e)
  <2>. SUFFICES ASSUME NEW e, e.type \in {"delta", "start", "stop"}
                PROVE  Where(events', e) = Where(events, e)
    OBVIOUS
  <2>1. \A k \in 1 .. Len(evs) : evs[k] # e
    BY DEF QuietEvents
  <2>. QED
    BY <1>1, <2>1, OldPlaces
<1>5. /\ \A n : Where(events', DeltaEv(n)) = Where(events, DeltaEv(n))
      /\ \A a : Where(events', StartEv(a)) = Where(events, StartEv(a))
      /\ \A a : Where(events', StopEv(a)) = Where(events, StopEv(a))
  <2>1. /\ \A n : DeltaEv(n).type \in {"delta", "start", "stop"}
        /\ \A a : StartEv(a).type \in {"delta", "start", "stop"}
        /\ \A a : StopEv(a).type \in {"delta", "start", "stop"}
    BY EventFields
  <2>2. \A n : Where(events', DeltaEv(n)) = Where(events, DeltaEv(n))
    BY <1>4, <2>1
  <2>3. \A a : Where(events', StartEv(a)) = Where(events, StartEv(a))
    BY <1>4, <2>1
  <2>4. \A a : Where(events', StopEv(a)) = Where(events, StopEv(a))
    BY <1>4, <2>1
  <2>. QED
    BY <2>2, <2>3, <2>4
<1>6. DeltasHaveCalls'
  <2>. SUFFICES ASSUME NEW q \in 1 .. Len(events'), events'[q].type = "delta"
                PROVE  \E i \in CalledOnes' : \E part \in ToSet(acc'[i].parts) : events'[q] = DeltaEv(part)
    BY DEF DeltasHaveCalls
  <2>1. q \in 1 .. Len(events) /\ events'[q] = events[q]
    BY <1>3
  <2>2. PICK i \in CalledOnes : \E part \in ToSet(acc[i].parts) : events[q] = DeltaEv(part)
    BY <2>1 DEF CallsAreTold, DeltasHaveCalls
  <2>. QED
    BY <2>1, <2>2
<1>7. DeltasAreAll'
  BY <1>5 DEF CallsAreTold, DeltasAreAll
<1>8. StartsHaveCalls'
  <2>. SUFFICES ASSUME NEW q \in 1 .. Len(events'), events'[q].type = "start"
                PROVE  \E i \in CalledOnes' : events'[q] = StartEv(acc'[i])
    BY DEF StartsHaveCalls
  <2>1. q \in 1 .. Len(events) /\ events'[q] = events[q]
    BY <1>3
  <2>2. PICK i \in CalledOnes : events[q] = StartEv(acc[i])
    BY <2>1 DEF CallsAreTold, StartsHaveCalls
  <2>. QED
    BY <2>1, <2>2
<1>9. StartsComeFirst'
  <2>. SUFFICES ASSUME NEW i \in CalledOnes
                PROVE  \E p \in 1 .. Len(events') :
                          /\ Where(events', StartEv(acc'[i])) = {p}
                          /\ \A part \in ToSet(acc'[i].parts) : \A d \in Where(events', DeltaEv(part)) : p < d
    BY DEF StartsComeFirst
  <2>1. PICK p \in 1 .. Len(events) :
           /\ Where(events, StartEv(acc[i])) = {p}
           /\ \A part \in ToSet(acc[i].parts) : \A d \in Where(events, DeltaEv(part)) : p < d
    BY DEF CallsAreTold, StartsComeFirst
  <2>2. acc'[i] = acc[i] /\ p \in 1 .. Len(events')
    BY <1>2
  <2>. QED
    BY <1>5, <2>1, <2>2
<1>10. StartsAreCounted'
  <2>1. OfType("start", evs) = <<>>
    <3>1. OfType("start", evs) \in Seq(Events)
      BY OfTypeType
    <3>2. \A y : y \in ToSet(OfType("start", evs)) <=> y \in ToSet(evs) /\ y.type = "start"
      BY OfTypeMembers
    <3>3. \A y \in ToSet(evs) : y.type # "start"
      BY LenProperties DEF QuietEvents, ToSet
    <3>4. ToSet(OfType("start", evs)) = {}
      BY <3>2, <3>3
    <3>. QED
      BY <3>1, <3>4, NoMembers
  <2>2. OfType("start", events \o evs) = OfType("start", events) \o OfType("start", evs)
    BY <1>1, OfTypeConcat
  <2>3. OfType("start", events) \in Seq(Events)
    BY <1>1, OfTypeType
  <2>4. OfType("start", events \o evs) = OfType("start", events)
    BY <2>1, <2>2, <2>3, ConcatEmptySeq
  <2>5. Given("start") = OfType("start", events) /\ Given("start")' = OfType("start", events')
    BY DEF Given, OfType
  <2>. QED
    BY <2>4, <2>5 DEF CallsAreTold, StartsAreCounted
<1>11. StopsComeLast'
  <2>. SUFFICES ASSUME NEW q \in 1 .. Len(events'), events'[q].type = "stop"
                PROVE  /\ vendor' # "openai"
                       /\ \E i \in CalledOnes' :
                             /\ events'[q] = StopEv(acc'[i]) /\ Contains(order', i)
                             /\ \A part \in ToSet(acc'[i].parts) : \A d \in Where(events', DeltaEv(part)) : d < q
    BY DEF StopsComeLast
  <2>1. q \in 1 .. Len(events) /\ events'[q] = events[q]
    BY <1>3
  <2>2. vendor # "openai"
    BY <2>1 DEF CallsAreTold, StopsComeLast
  <2>3. PICK i \in CalledOnes :
           /\ events[q] = StopEv(acc[i]) /\ Contains(order, i)
           /\ \A part \in ToSet(acc[i].parts) : \A d \in Where(events, DeltaEv(part)) : d < q
    BY <2>1 DEF CallsAreTold, StopsComeLast
  <2>. QED
    BY <1>5, <2>1, <2>2, <2>3
<1>12. GoogleStops'
  BY <1>2, <1>5 DEF CallsAreTold, GoogleStops
<1>. QED
  BY <1>6, <1>7, <1>8, <1>9, <1>10, <1>11, <1>12 DEF CallsAreTold

\* The input of a call that goes on.
LEMMA DeltaSteps ==
    ASSUME StreamTypeOK, Gathered, CallsAreTold, NEW i \in CalledOnes,
           vendor \in {"openai", "anthropic"},
           Tells(i, <<DeltaEv(frames + 1)>>),
           acc'[i].type = acc[i].type, acc'[i].id = acc[i].id, acc'[i].name = acc[i].name,
           acc'[i].started = acc[i].started, acc'[i].parts = Append(acc[i].parts, frames + 1),
           vendor = "anthropic" => ~Contains(order, i)
    PROVE  CallsAreTold'
<1> DEFINE evs == <<DeltaEv(frames + 1)>>
           m == Len(events)
<1>1. /\ events \in Seq(Events) /\ evs \in Seq(Events) /\ events' = events \o evs /\ vendor' = vendor
      /\ \A j \in Index : j # i => acc'[j] = acc[j]
      /\ \A j \in Index : Contains(order, j) => Contains(order', j)
  BY TellsIs DEF CalledOnes
<1>2. Len(evs) = 1 /\ evs[1] = DeltaEv(frames + 1) /\ frames + 1 \in Nat
  BY DEF StreamTypeOK
<1>. HIDE DEF evs
<1>3. /\ m \in Nat
      /\ \A p \in 1 .. m : p \in 1 .. Len(events') /\ events'[p] = events[p]
      /\ m + 1 \in 1 .. Len(events') /\ events'[m + 1] = DeltaEv(frames + 1)
      /\ \A q \in 1 .. Len(events') : q \in 1 .. m \/ q = m + 1
  <2>1. /\ m \in Nat
        /\ \A p \in 1 .. m : p \in 1 .. Len(events') /\ events'[p] = events[p]
        /\ \A k \in 1 .. Len(evs) : m + k \in 1 .. Len(events') /\ events'[m + k] = evs[k]
        /\ \A q \in 1 .. Len(events') : q \in 1 .. m \/ \E k \in 1 .. Len(evs) : q = m + k
    BY <1>1, NewPlace
  <2>2. \A k \in 1 .. Len(evs) : k = 1
    BY <1>2
  <2>3. 1 \in 1 .. Len(evs)
    BY <1>2
  <2>. QED
    BY <1>2, <2>1, <2>2, <2>3
<1>. HIDE DEF m
<1>4. \A j \in CalledOnes : j \in Index /\ acc[j].parts \in Seq(Nat) /\ acc[j].type = "call" /\ acc[j].started
  BY CalledIs
<1>5. CalledOnes' = CalledOnes
  BY <1>1, <1>4 DEF CalledOnes, Called
<1>6. \A j \in CalledOnes : StartEv(acc'[j]) = StartEv(acc[j]) /\ StopEv(acc'[j]) = StopEv(acc[j])
  <2>. SUFFICES ASSUME NEW j \in CalledOnes
                PROVE  StartEv(acc'[j]) = StartEv(acc[j]) /\ StopEv(acc'[j]) = StopEv(acc[j])
    OBVIOUS
  <2>1. acc'[j].id = acc[j].id /\ acc'[j].name = acc[j].name
    BY <1>1, <1>4
  <2>. QED
    BY <2>1, EventFields
<1>7. /\ ToSet(acc'[i].parts) = ToSet(acc[i].parts) \cup {frames + 1}
      /\ \A j \in CalledOnes : ToSet(acc[j].parts) \subseteq ToSet(acc'[j].parts)
      /\ \A j \in CalledOnes : j # i => ToSet(acc'[j].parts) = ToSet(acc[j].parts)
  <2>1. ToSet(acc'[i].parts) = ToSet(acc[i].parts) \cup {frames + 1}
    BY <1>2, <1>4, OrderGrows
  <2>. QED
    BY <1>1, <1>4, <2>1
<1>8. /\ \A a : Where(events', StartEv(a)) = Where(events, StartEv(a))
      /\ \A a : Where(events', StopEv(a)) = Where(events, StopEv(a))
      /\ \A n \in Nat : n # frames + 1 => Where(events', DeltaEv(n)) = Where(events, DeltaEv(n))
      /\ \A d \in Where(events', DeltaEv(frames + 1)) : d = m + 1
      /\ m + 1 \in Where(events', DeltaEv(frames + 1))
  <2>1. \A e : e # DeltaEv(frames + 1) => Where(events', e) = Where(events, e)
    <3>. SUFFICES ASSUME NEW e, e # DeltaEv(frames + 1)
                  PROVE  Where(events', e) = Where(events, e)
      OBVIOUS
    <3>1. \A k \in 1 .. Len(evs) : evs[k] # e
      BY <1>2
    <3>. QED
      BY <1>1, <3>1, OldPlaces
  <2>2. \A p \in 1 .. m : events[p] # DeltaEv(frames + 1)
    <3>. SUFFICES ASSUME NEW p \in 1 .. m, events[p] = DeltaEv(frames + 1)
                  PROVE  FALSE
      OBVIOUS
    <3>1. events[p].type = "delta"
      BY EventFields
    <3>2. PICK j \in CalledOnes : \E part \in ToSet(acc[j].parts) : events[p] = DeltaEv(part)
      BY <3>1 DEF CallsAreTold, DeltasHaveCalls, m
    <3>3. PICK part \in ToSet(acc[j].parts) : events[p] = DeltaEv(part)
      BY <3>2
    <3>4. part \in Nat /\ part # frames + 1
      BY <1>4, PartsAreOld
    <3>. QED
      BY <1>2, <3>3, <3>4, EventFields
  <2>3. \A d \in Where(events', DeltaEv(frames + 1)) : d = m + 1
    BY <1>3, <2>2 DEF Where
  <2>4. m + 1 \in Where(events', DeltaEv(frames + 1))
    BY <1>3 DEF Where
  <2>5. /\ \A a : StartEv(a) # DeltaEv(frames + 1) /\ StopEv(a) # DeltaEv(frames + 1)
        /\ \A n \in Nat : n # frames + 1 => DeltaEv(n) # DeltaEv(frames + 1)
    BY <1>2, EventFields
  <2>. QED
    BY <2>1, <2>3, <2>4, <2>5
<1>9. DeltasHaveCalls'
  <2>. SUFFICES ASSUME NEW q \in 1 .. Len(events'), events'[q].type = "delta"
                PROVE  \E j \in CalledOnes' : \E part \in ToSet(acc'[j].parts) : events'[q] = DeltaEv(part)
    BY DEF DeltasHaveCalls
  <2>1. CASE q \in 1 .. m
    <3>1. PICK j \in CalledOnes : \E part \in ToSet(acc[j].parts) : events[q] = DeltaEv(part)
      BY <1>3, <2>1 DEF CallsAreTold, DeltasHaveCalls, m
    <3>. QED
      BY <1>3, <1>5, <1>7, <2>1, <3>1
  <2>2. CASE q = m + 1
    BY <1>3, <1>5, <1>7, <2>2
  <2>. QED
    BY <1>3, <2>1, <2>2
<1>10. DeltasAreAll'
  <2>. SUFFICES ASSUME NEW j \in CalledOnes, NEW part \in ToSet(acc'[j].parts)
                PROVE  Where(events', DeltaEv(part)) # {}
    BY <1>5 DEF DeltasAreAll
  <2>1. CASE part = frames + 1
    BY <1>8, <2>1
  <2>2. CASE part # frames + 1
    <3>1. part \in ToSet(acc[j].parts) /\ part \in Nat
      <4>1. part \in ToSet(acc[j].parts)
        BY <1>7, <2>2
      <4>. QED
        BY <1>4, <4>1, PartsAreOld
    <3>. QED
      BY <1>8, <2>2, <3>1 DEF CallsAreTold, DeltasAreAll
  <2>. QED
    BY <2>1, <2>2
<1>11. StartsHaveCalls'
  <2>. SUFFICES ASSUME NEW q \in 1 .. Len(events'), events'[q].type = "start"
                PROVE  \E j \in CalledOnes' : events'[q] = StartEv(acc'[j])
    BY DEF StartsHaveCalls
  <2>1. q \in 1 .. m /\ events'[q] = events[q]
    BY <1>3, EventFields
  <2>2. PICK j \in CalledOnes : events[q] = StartEv(acc[j])
    BY <2>1 DEF CallsAreTold, StartsHaveCalls, m
  <2>. QED
    BY <1>5, <1>6, <2>1, <2>2
<1>12. StartsComeFirst'
  <2>. SUFFICES ASSUME NEW j \in CalledOnes
                PROVE  \E p \in 1 .. Len(events') :
                          /\ Where(events', StartEv(acc'[j])) = {p}
                          /\ \A part \in ToSet(acc'[j].parts) : \A d \in Where(events', DeltaEv(part)) : p < d
    BY <1>5 DEF StartsComeFirst
  <2>1. PICK p \in 1 .. m :
           /\ Where(events, StartEv(acc[j])) = {p}
           /\ \A part \in ToSet(acc[j].parts) : \A d \in Where(events, DeltaEv(part)) : p < d
    BY DEF CallsAreTold, StartsComeFirst, m
  <2>2. Where(events', StartEv(acc'[j])) = {p}
    BY <1>6, <1>8, <2>1
  <2>3. ASSUME NEW part \in ToSet(acc'[j].parts), NEW d \in Where(events', DeltaEv(part))
        PROVE  p < d
    <3>1. CASE part = frames + 1
      <4>1. d = m + 1
        BY <1>8, <3>1
      <4>. QED
        BY <1>3, <4>1
    <3>2. CASE part # frames + 1
      <4>1. part \in ToSet(acc[j].parts)
        BY <1>7, <3>2
      <4>2. part \in Nat
        BY <1>4, <4>1, PartsAreOld
      <4>. QED
        BY <1>8, <2>1, <3>2, <4>1, <4>2
    <3>. QED
      BY <3>1, <3>2
  <2>. QED
    BY <1>3, <2>2, <2>3
<1>13. StartsAreCounted'
  <2>1. DeltaEv(frames + 1).type # "start"
    BY EventFields
  <2>2. OfType("start", evs) = <<>>
    BY <2>1, OfTypeOne DEF evs
  <2>3. OfType("start", events \o evs) = OfType("start", events) \o OfType("start", evs)
    BY <1>1, OfTypeConcat
  <2>4. OfType("start", events) \in Seq(Events)
    BY <1>1, OfTypeType
  <2>5. OfType("start", events \o evs) = OfType("start", events)
    BY <2>2, <2>3, <2>4, ConcatEmptySeq
  <2>6. Given("start") = OfType("start", events) /\ Given("start")' = OfType("start", events')
    BY DEF Given, OfType
  <2>. QED
    BY <1>1, <1>5, <2>5, <2>6 DEF CallsAreTold, StartsAreCounted
<1>14. StopsComeLast'
  <2>. SUFFICES ASSUME NEW q \in 1 .. Len(events'), events'[q].type = "stop"
                PROVE  /\ vendor' # "openai"
                       /\ \E j \in CalledOnes' :
                             /\ events'[q] = StopEv(acc'[j]) /\ Contains(order', j)
                             /\ \A part \in ToSet(acc'[j].parts) : \A d \in Where(events', DeltaEv(part)) : d < q
    BY DEF StopsComeLast
  <2>1. q \in 1 .. m /\ events'[q] = events[q]
    BY <1>3, EventFields
  <2>2. vendor # "openai"
    BY <2>1 DEF CallsAreTold, StopsComeLast, m
  <2>3. PICK j \in CalledOnes :
           /\ events[q] = StopEv(acc[j]) /\ Contains(order, j)
           /\ \A part \in ToSet(acc[j].parts) : \A d \in Where(events, DeltaEv(part)) : d < q
    BY <2>1 DEF CallsAreTold, StopsComeLast, m
  <2>4. j # i
    BY <2>2, <2>3
  <2>5. ToSet(acc'[j].parts) = ToSet(acc[j].parts)
    BY <1>7, <2>4
  <2>6. \A part \in ToSet(acc[j].parts) : part \in Nat /\ part # frames + 1
    BY <1>4, PartsAreOld
  <2>7. \A part \in ToSet(acc'[j].parts) : \A d \in Where(events', DeltaEv(part)) : d < q
    BY <1>8, <2>3, <2>5, <2>6
  <2>. QED
    BY <1>1, <1>4, <1>5, <1>6, <2>1, <2>2, <2>3, <2>7
<1>15. GoogleStops'
  BY <1>1 DEF GoogleStops
<1>. QED
  BY <1>9, <1>10, <1>11, <1>12, <1>13, <1>14, <1>15 DEF CallsAreTold
-----------------------------------------------------------------------------
(* A step that tells of a call for the first time.                         *)

\* The start of a call, what there is of its input, and for Google its stop.
StartsCall(a, rest) ==
    /\ rest \in Seq(Events)
    /\ \A k \in 1 .. Len(rest) :
          \/ \E part \in ToSet(a.parts) : rest[k] = DeltaEv(part)
          \/ vendor = "google" /\ k = Len(rest) /\ rest[k] = StopEv(a)
    /\ \A part \in ToSet(a.parts) : \E k \in 1 .. Len(rest) : rest[k] = DeltaEv(part)
    /\ vendor = "google" => Len(rest) \in 1 .. Len(rest) /\ rest[Len(rest)] = StopEv(a)

LEMMA StartSteps ==
    ASSUME StreamTypeOK, Gathered, StreamTypeOK', Gathered', CallsAreTold, NEW i \in Index,
           ~Called(i), Called(i)', vendor \in {"openai", "anthropic", "google"},
           NEW rest, StartsCall(acc'[i], rest), Tells(i, <<StartEv(acc'[i])>> \o rest)
    PROVE  CallsAreTold'
<1> DEFINE a == acc'[i]
           m == Len(events)
           l == Len(rest)
           first == StartEv(acc'[i])
<1>0. vendor # "cli"
  OBVIOUS
<1>1. /\ events \in Seq(Events) /\ events' = events \o (<<first>> \o rest) /\ vendor' = vendor
      /\ \A j \in Index : j # i => acc'[j] = acc[j]
      /\ \A j \in Index : Contains(order, j) => Contains(order', j)
  BY <1>0, TellsIs
<1>a. CallsKnown'
  BY CallsAreKnown, PTL
<1>2. /\ a \in Slots /\ a.type = "call" /\ a.started /\ a.name = Name(i) /\ a.parts \in Seq(Nat)
      /\ i \in CalledOnes'
  <2>1. i \in CalledOnes'
    BY DEF CalledOnes
  <2>. QED
    BY <1>a, <2>1 DEF CallsKnown
<1>3. \A j \in CalledOnes :
         /\ j \in Index /\ j # i /\ acc'[j] = acc[j] /\ acc[j].name = Name(j) /\ acc[j].type = "call"
         /\ acc[j].parts \in Seq(Nat) /\ acc[j] \in Slots
  BY <1>1, CalledIs DEF CalledOnes
<1>4. CalledOnes' = CalledOnes \cup {i}
  BY <1>1 DEF CalledOnes, Called
<1>5. \A j \in CalledOnes :
         /\ ToSet(a.parts) \cap ToSet(acc[j].parts) = {}
         /\ a.id # acc[j].id /\ StartEv(a) # StartEv(acc[j]) /\ StopEv(a) # StopEv(acc[j])
  <2>1. \A j, k \in CalledOnes' : j # k => /\ acc'[j].id # acc'[k].id
                                            /\ StartEv(acc'[j]) # StartEv(acc'[k])
                                            /\ StopEv(acc'[j]) # StopEv(acc'[k])
    BY <1>a DEF CallsKnown
  <2>2. \A j, k \in Index : j # k => ToSet(acc'[j].parts) \cap ToSet(acc'[k].parts) = {}
    BY <1>0, <1>1, <1>a DEF CallsKnown
  <2>. QED
    BY <1>2, <1>3, <1>4, <2>1, <2>2
<1>6. /\ rest \in Seq(Events) /\ first \in Events /\ <<first>> \o rest \in Seq(Events)
      /\ <<first>> \in Seq(Events) /\ Len(<<first>>) = 1 /\ <<first>>[1] = first
  <2>1. rest \in Seq(Events) /\ first \in Events
    BY <1>2, EventTypes DEF StartsCall
  <2>2. <<first>> \in Seq(Events)
    BY <2>1
  <2>. QED
    BY <2>1, <2>2, ConcatProperties
<1>7. /\ \A k \in 1 .. l :
            \/ \E part \in ToSet(a.parts) : rest[k] = DeltaEv(part)
            \/ vendor = "google" /\ k = l /\ rest[k] = StopEv(a)
      /\ \A part \in ToSet(a.parts) : \E k \in 1 .. l : rest[k] = DeltaEv(part)
      /\ vendor = "google" => l \in 1 .. l /\ rest[l] = StopEv(a)
  BY DEF StartsCall
<1>. HIDE DEF first
<1>8. PICK new \in Seq(Events) : new = <<first>> \o rest
  BY <1>6
<1>9. /\ l \in Nat /\ Len(new) = 1 + l /\ new[1] = first /\ 1 \in 1 .. Len(new)
      /\ \A k \in 1 .. l : 1 + k \in 1 .. Len(new) /\ new[1 + k] = rest[k]
      /\ \A k \in 1 .. Len(new) : k = 1 \/ \E n \in 1 .. l : k = 1 + n
  <2>1. /\ l \in Nat /\ Len(<<first>> \o rest) = Len(<<first>>) + l
        /\ \A p \in 1 .. Len(<<first>>) : p \in 1 .. Len(<<first>> \o rest) /\ (<<first>> \o rest)[p] = <<first>>[p]
        /\ \A k \in 1 .. l : Len(<<first>>) + k \in 1 .. Len(<<first>> \o rest)
                             /\ (<<first>> \o rest)[Len(<<first>>) + k] = rest[k]
        /\ \A q \in 1 .. Len(<<first>> \o rest) :
              \/ q \in 1 .. Len(<<first>>)
              \/ \E k \in 1 .. l : q = Len(<<first>>) + k
    BY <1>6, Positions
  <2>2. 1 \in 1 .. 1 /\ \A q \in 1 .. 1 : q = 1
    OBVIOUS
  <2>. QED
    BY <1>6, <1>8, <2>1, <2>2
<1>10. /\ m \in Nat
       /\ \A p \in 1 .. m : p \in 1 .. Len(events') /\ events'[p] = events[p]
       /\ \A k \in 1 .. Len(new) : m + k \in 1 .. Len(events') /\ events'[m + k] = new[k]
       /\ \A q \in 1 .. Len(events') : q \in 1 .. m \/ \E k \in 1 .. Len(new) : q = m + k
  BY <1>1, <1>8, NewPlace
<1>. HIDE DEF a, m, l
<1>11. /\ \A k \in 1 .. l : k \in Nat /\ m + (1 + k) = m + 1 + k
       /\ \A p \in 1 .. m : p \in Nat /\ p < m + 1 /\ \A k \in 1 .. l : p < m + 1 + k
  BY <1>9, <1>10
<1>12. /\ \A p \in 1 .. m : p \in 1 .. Len(events') /\ events'[p] = events[p]
       /\ m + 1 \in 1 .. Len(events') /\ events'[m + 1] = first
       /\ \A k \in 1 .. l : m + 1 + k \in 1 .. Len(events') /\ events'[m + 1 + k] = rest[k]
       /\ \A q \in 1 .. Len(events') : q \in 1 .. m \/ q = m + 1 \/ \E k \in 1 .. l : q = m + 1 + k
  <2>1. \A k \in 1 .. l : m + 1 + k \in 1 .. Len(events') /\ events'[m + 1 + k] = rest[k]
    BY <1>9, <1>10, <1>11
  <2>2. \A q \in 1 .. Len(events') : q \in 1 .. m \/ q = m + 1 \/ \E k \in 1 .. l : q = m + 1 + k
    <3>. SUFFICES ASSUME NEW q \in 1 .. Len(events'), q \notin 1 .. m
                  PROVE  q = m + 1 \/ \E k \in 1 .. l : q = m + 1 + k
      OBVIOUS
    <3>1. PICK k \in 1 .. Len(new) : q = m + k
      BY <1>10
    <3>. QED
      BY <1>9, <1>11, <3>1
  <2>. QED
    BY <1>9, <1>10, <2>1, <2>2
<1>b. \A e : first # e /\ (\A k \in 1 .. l : rest[k] # e) => Where(events', e) = Where(events, e)
  <2>. SUFFICES ASSUME NEW e, first # e, \A k \in 1 .. l : rest[k] # e
                PROVE  Where(events', e) = Where(events, e)
    OBVIOUS
  <2>1. ASSUME NEW k \in 1 .. Len(new)
        PROVE  new[k] # e
    <3>1. CASE k = 1
      BY <1>9, <3>1
    <3>2. CASE \E n \in 1 .. l : k = 1 + n
      <4>1. PICK n \in 1 .. l : k = 1 + n
        BY <3>2
      <4>2. new[1 + n] = rest[n]
        BY <1>9
      <4>. QED
        BY <4>1, <4>2
    <3>. QED
      BY <1>9, <3>1, <3>2
  <2>. QED
    BY <1>1, <1>8, <2>1, OldPlaces
<1>13. first = StartEv(a) /\ first.type = "start"
  BY EventFields DEF first, a
<1>14. \A k \in 1 .. l : rest[k].type \in {"delta", "stop"} /\ (rest[k].type = "stop" => vendor = "google" /\ k = l /\ rest[k] = StopEv(a))
  BY <1>7, EventFields
<1>15. \A j \in CalledOnes : \A part \in ToSet(acc[j].parts) :
          Where(events', DeltaEv(part)) = Where(events, DeltaEv(part))
  <2>. SUFFICES ASSUME NEW j \in CalledOnes, NEW part \in ToSet(acc[j].parts)
                PROVE  Where(events', DeltaEv(part)) = Where(events, DeltaEv(part))
    OBVIOUS
  <2>1. DeltaEv(part).type = "delta" /\ part \in Nat
    BY <1>0, <1>3, EventFields, PartsAreOld
  <2>2. \A k \in 1 .. l : rest[k] # DeltaEv(part)
    <3>. SUFFICES ASSUME NEW k \in 1 .. l, rest[k] = DeltaEv(part)
                  PROVE  FALSE
      OBVIOUS
    <3>1. PICK other \in ToSet(a.parts) : rest[k] = DeltaEv(other)
      BY <1>7, <2>1, EventFields
    <3>2. other \in Nat
      BY <1>2, ElementOfSeq, LenProperties DEF ToSet
    <3>3. other = part
      BY <2>1, <3>1, <3>2, EventFields
    <3>. QED
      BY <1>5, <3>3
  <2>3. first # DeltaEv(part)
    BY <1>13, <2>1
  <2>. QED
    BY <1>b, <2>2, <2>3
<1>16. \A part \in ToSet(a.parts) : \A d \in Where(events', DeltaEv(part)) :
          \E k \in 1 .. l : d = m + 1 + k /\ rest[k] = DeltaEv(part)
  <2>. SUFFICES ASSUME NEW part \in ToSet(a.parts), NEW d \in Where(events', DeltaEv(part))
                PROVE  \E k \in 1 .. l : d = m + 1 + k /\ rest[k] = DeltaEv(part)
    OBVIOUS
  <2>1. DeltaEv(part).type = "delta" /\ part \in Nat
    BY <1>2, ElementOfSeq, LenProperties, EventFields DEF ToSet
  <2>2. d \in 1 .. Len(events') /\ events'[d] = DeltaEv(part)
    BY DEF Where
  <2>3. d \notin 1 .. m
    <3>. SUFFICES ASSUME d \in 1 .. m
                  PROVE  FALSE
      OBVIOUS
    <3>1. events[d] = DeltaEv(part)
      BY <1>12, <2>2
    <3>2. PICK j \in CalledOnes : \E other \in ToSet(acc[j].parts) : events[d] = DeltaEv(other)
      BY <2>1, <3>1 DEF CallsAreTold, DeltasHaveCalls, m
    <3>3. PICK other \in ToSet(acc[j].parts) : events[d] = DeltaEv(other)
      BY <3>2
    <3>4. other \in Nat
      BY <1>0, <1>3, PartsAreOld
    <3>5. other = part
      BY <2>1, <3>1, <3>3, <3>4, EventFields
    <3>. QED
      BY <1>5, <3>5
  <2>4. d # m + 1
    BY <1>12, <1>13, <2>1, <2>2
  <2>5. PICK k \in 1 .. l : d = m + 1 + k
    BY <1>12, <2>2, <2>3, <2>4
  <2>6. events'[m + 1 + k] = rest[k]
    BY <1>12
  <2>. QED
    BY <2>2, <2>5, <2>6
<1>17. /\ \A j \in CalledOnes : Where(events', StartEv(acc[j])) = Where(events, StartEv(acc[j]))
       /\ Where(events', first) = {m + 1}
  <2>1. ASSUME NEW j \in CalledOnes
        PROVE  Where(events', StartEv(acc[j])) = Where(events, StartEv(acc[j]))
    <3>1. StartEv(acc[j]).type = "start" /\ first # StartEv(acc[j])
      BY <1>5, <1>13, EventFields
    <3>2. \A k \in 1 .. l : rest[k] # StartEv(acc[j])
      BY <1>14, <3>1
    <3>. QED
      BY <1>b, <3>1, <3>2
  <2>2. \A p \in 1 .. m : events[p] # first
    <3>. SUFFICES ASSUME NEW p \in 1 .. m, events[p] = first
                  PROVE  FALSE
      OBVIOUS
    <3>1. PICK j \in CalledOnes : events[p] = StartEv(acc[j])
      BY <1>13 DEF CallsAreTold, StartsHaveCalls, m
    <3>. QED
      BY <1>5, <1>13, <3>1
  <2>3. \A k \in 1 .. l : rest[k] # first
    BY <1>13, <1>14
  <2>4. ASSUME NEW q \in Where(events', first)
        PROVE  q = m + 1
    <3>1. q \in 1 .. Len(events') /\ events'[q] = first
      BY DEF Where
    <3>2. q \notin 1 .. m
      BY <1>12, <2>2, <3>1
    <3>3. ASSUME NEW k \in 1 .. l, q = m + 1 + k
          PROVE  FALSE
      <4>1. events'[m + 1 + k] = rest[k] /\ rest[k] # first
        BY <1>12, <2>3
      <4>. QED
        BY <3>1, <3>3, <4>1
    <3>. QED
      BY <1>12, <3>1, <3>2, <3>3
  <2>5. m + 1 \in Where(events', first)
    BY <1>12 DEF Where
  <2>. QED
    BY <2>1, <2>4, <2>5
<1>18. DeltasHaveCalls'
  <2>. SUFFICES ASSUME NEW q \in 1 .. Len(events'), events'[q].type = "delta"
                PROVE  \E j \in CalledOnes' : \E part \in ToSet(acc'[j].parts) : events'[q] = DeltaEv(part)
    BY DEF DeltasHaveCalls
  <2>1. CASE q \in 1 .. m
    <3>1. PICK j \in CalledOnes : \E part \in ToSet(acc[j].parts) : events[q] = DeltaEv(part)
      BY <1>12, <2>1 DEF CallsAreTold, DeltasHaveCalls, m
    <3>. QED
      BY <1>3, <1>4, <1>12, <2>1, <3>1
  <2>2. CASE q = m + 1
    BY <1>12, <1>13, <2>2
  <2>3. CASE \E k \in 1 .. l : q = m + 1 + k
    <3>1. PICK k \in 1 .. l : q = m + 1 + k
      BY <2>3
    <3>2. rest[k].type = "delta" /\ StopEv(a).type # "delta"
      BY <1>12, <3>1, EventFields
    <3>3. \E part \in ToSet(a.parts) : rest[k] = DeltaEv(part)
      BY <1>7, <3>1, <3>2
    <3>. QED
      BY <1>4, <1>12, <3>1, <3>3 DEF a
  <2>. QED
    BY <1>12, <2>1, <2>2, <2>3
<1>19. DeltasAreAll'
  <2>. SUFFICES ASSUME NEW j \in CalledOnes', NEW part \in ToSet(acc'[j].parts)
                PROVE  Where(events', DeltaEv(part)) # {}
    BY DEF DeltasAreAll
  <2>1. CASE j \in CalledOnes
    BY <1>3, <1>15, <2>1 DEF CallsAreTold, DeltasAreAll
  <2>2. CASE j = i
    <3>1. PICK k \in 1 .. l : rest[k] = DeltaEv(part)
      BY <1>7, <2>2 DEF a
    <3>. QED
      BY <1>12, <3>1 DEF Where
  <2>. QED
    BY <1>4, <2>1, <2>2
<1>20. StartsHaveCalls'
  <2>. SUFFICES ASSUME NEW q \in 1 .. Len(events'), events'[q].type = "start"
                PROVE  \E j \in CalledOnes' : events'[q] = StartEv(acc'[j])
    BY DEF StartsHaveCalls
  <2>1. CASE q \in 1 .. m
    <3>1. PICK j \in CalledOnes : events[q] = StartEv(acc[j])
      BY <1>12, <2>1 DEF CallsAreTold, StartsHaveCalls, m
    <3>. QED
      BY <1>3, <1>4, <1>12, <2>1, <3>1
  <2>2. CASE q = m + 1
    BY <1>4, <1>12, <2>2 DEF first
  <2>3. CASE \E k \in 1 .. l : q = m + 1 + k
    BY <1>12, <1>14, <2>3
  <2>. QED
    BY <1>12, <2>1, <2>2, <2>3
<1>21. StartsComeFirst'
  <2>. SUFFICES ASSUME NEW j \in CalledOnes'
                PROVE  \E p \in 1 .. Len(events') :
                          /\ Where(events', StartEv(acc'[j])) = {p}
                          /\ \A part \in ToSet(acc'[j].parts) : \A d \in Where(events', DeltaEv(part)) : p < d
    BY DEF StartsComeFirst
  <2>1. CASE j \in CalledOnes
    <3>1. PICK p \in 1 .. m :
             /\ Where(events, StartEv(acc[j])) = {p}
             /\ \A part \in ToSet(acc[j].parts) : \A d \in Where(events, DeltaEv(part)) : p < d
      BY <2>1 DEF CallsAreTold, StartsComeFirst, m
    <3>2. acc'[j] = acc[j] /\ Where(events', StartEv(acc[j])) = {p} /\ p \in 1 .. Len(events')
      BY <1>3, <1>12, <1>17, <2>1, <3>1
    <3>3. \A part \in ToSet(acc[j].parts) : \A d \in Where(events', DeltaEv(part)) : p < d
      BY <1>15, <2>1, <3>1
    <3>. QED
      BY <3>2, <3>3
  <2>2. CASE j = i
    <3>1. Where(events', StartEv(acc'[j])) = {m + 1} /\ m + 1 \in 1 .. Len(events')
      BY <1>12, <1>17, <2>2 DEF first
    <3>2. ASSUME NEW part \in ToSet(a.parts), NEW d \in Where(events', DeltaEv(part))
          PROVE  m + 1 < d
      <4>1. PICK k \in 1 .. l : d = m + 1 + k
        BY <1>16
      <4>. QED
        BY <1>9, <1>10, <4>1 DEF m
    <3>. QED
      BY <2>2, <3>1, <3>2 DEF a
  <2>. QED
    BY <1>4, <2>1, <2>2
<1>22. StopsComeLast'
  <2>. SUFFICES ASSUME NEW q \in 1 .. Len(events'), events'[q].type = "stop"
                PROVE  /\ vendor' # "openai"
                       /\ \E j \in CalledOnes' :
                             /\ events'[q] = StopEv(acc'[j]) /\ Contains(order', j)
                             /\ \A part \in ToSet(acc'[j].parts) : \A d \in Where(events', DeltaEv(part)) : d < q
    BY DEF StopsComeLast
  <2>1. CASE q \in 1 .. m
    <3>1. vendor # "openai"
      BY <1>12, <2>1 DEF CallsAreTold, StopsComeLast, m
    <3>2. PICK j \in CalledOnes :
             /\ events[q] = StopEv(acc[j]) /\ Contains(order, j)
             /\ \A part \in ToSet(acc[j].parts) : \A d \in Where(events, DeltaEv(part)) : d < q
      BY <1>12, <2>1 DEF CallsAreTold, StopsComeLast, m
    <3>3. acc'[j] = acc[j] /\ Contains(order', j) /\ j \in CalledOnes'
      BY <1>1, <1>3, <1>4, <3>2
    <3>4. \A part \in ToSet(acc[j].parts) : \A d \in Where(events', DeltaEv(part)) : d < q
      BY <1>15, <3>2
    <3>. QED
      BY <1>1, <1>12, <2>1, <3>1, <3>2, <3>3, <3>4
  <2>2. CASE q = m + 1
    BY <1>12, <1>13, <2>2
  <2>3. CASE \E k \in 1 .. l : q = m + 1 + k
    <3>1. PICK k \in 1 .. l : q = m + 1 + k
      BY <2>3
    <3>2. vendor = "google" /\ k = l /\ rest[k] = StopEv(a)
      BY <1>12, <1>14, <3>1
    <3>3. Contains(order', i)
      <4>1. OrderIsSound' /\ vendor' = "google" /\ order' \in Seq(Index)
        BY <1>1, <3>2 DEF Gathered, StreamTypeOK
      <4>2. i \in ToSet(order')
        BY <1>2, <4>1 DEF OrderIsSound, a
      <4>. QED
        BY <4>1, <4>2, ContainsIs
    <3>4. ASSUME NEW part \in ToSet(a.parts), NEW d \in Where(events', DeltaEv(part))
          PROVE  d < q
      <4>1. PICK n \in 1 .. l : d = m + 1 + n /\ rest[n] = DeltaEv(part)
        BY <1>16
      <4>2. DeltaEv(part).type = "delta" /\ StopEv(a).type = "stop"
        BY EventFields
      <4>3. n # l
        BY <3>2, <4>1, <4>2
      <4>. QED
        BY <1>9, <1>10, <3>1, <3>2, <4>1, <4>3 DEF m
    <3>. QED
      BY <1>1, <1>4, <1>12, <3>1, <3>2, <3>3, <3>4 DEF a
  <2>. QED
    BY <1>12, <2>1, <2>2, <2>3
<1>23. GoogleStops'
  <2>. SUFFICES ASSUME vendor = "google", NEW j \in CalledOnes'
                PROVE  \E p \in 1 .. Len(events') : Where(events', StopEv(acc'[j])) = {p}
    BY <1>1 DEF GoogleStops
  <2>0. l \in 1 .. l /\ rest[l] = StopEv(a) /\ StopEv(a).type = "stop"
    BY <1>7, EventFields
  <2>1. CASE j \in CalledOnes
    <3>1. PICK p \in 1 .. m : Where(events, StopEv(acc[j])) = {p}
      BY <2>1 DEF CallsAreTold, GoogleStops, m
    <3>2. StopEv(acc[j]).type = "stop" /\ StopEv(a) # StopEv(acc[j])
      BY <1>5, <2>1, EventFields
    <3>3. \A k \in 1 .. l : rest[k] # StopEv(acc[j])
      BY <1>14, <3>2
    <3>4. first # StopEv(acc[j])
      BY <1>13, <3>2
    <3>5. Where(events', StopEv(acc[j])) = Where(events, StopEv(acc[j]))
      BY <1>b, <3>3, <3>4
    <3>. QED
      BY <1>3, <1>12, <2>1, <3>1, <3>5
  <2>2. CASE j = i
    <3>1. \A p \in 1 .. m : events[p] # StopEv(a)
      <4>. SUFFICES ASSUME NEW p \in 1 .. m, events[p] = StopEv(a)
                    PROVE  FALSE
        OBVIOUS
      <4>1. PICK k \in CalledOnes : events[p] = StopEv(acc[k])
        BY <2>0 DEF CallsAreTold, StopsComeLast, m
      <4>. QED
        BY <1>5, <4>1
    <3>2. first # StopEv(a)
      BY <1>13, <2>0
    <3>3. \A k \in 1 .. l : rest[k] = StopEv(a) => k = l
      BY <1>14, <2>0
    <3>4. Where(events', StopEv(a)) = {m + 1 + l}
      <4>1. ASSUME NEW q \in Where(events', StopEv(a))
            PROVE  q = m + 1 + l
        <5>1. q \in 1 .. Len(events') /\ events'[q] = StopEv(a)
          BY DEF Where
        <5>2. q \notin 1 .. m
          BY <1>12, <3>1, <5>1
        <5>3. q # m + 1
          BY <1>12, <3>2, <5>1
        <5>4. PICK k \in 1 .. l : q = m + 1 + k
          BY <1>12, <5>1, <5>2, <5>3
        <5>. QED
          BY <1>12, <3>3, <5>1, <5>4
      <4>2. m + 1 + l \in Where(events', StopEv(a))
        BY <1>12, <2>0 DEF Where
      <4>. QED
        BY <4>1, <4>2
    <3>. QED
      BY <1>12, <2>0, <2>2, <3>4 DEF a
  <2>. QED
    BY <1>4, <2>1, <2>2
<1>24. StartsAreCounted'
  <2>1. OfType("start", rest) = <<>>
    <3>1. OfType("start", rest) \in Seq(Events)
      BY <1>6, OfTypeType
    <3>2. \A y : y \in ToSet(OfType("start", rest)) <=> y \in ToSet(rest) /\ y.type = "start"
      BY <1>6, OfTypeMembers
    <3>3. \A y \in ToSet(rest) : y.type # "start"
      BY <1>6, <1>14, LenProperties DEF ToSet, l
    <3>4. ToSet(OfType("start", rest)) = {}
      BY <3>2, <3>3
    <3>. QED
      BY <3>1, <3>4, NoMembers
  <2>2. OfType("start", <<first>>) = <<first>>
    BY <1>13, OfTypeOne
  <2>3. OfType("start", new) = <<first>>
    <3>1. OfType("start", <<first>> \o rest) = OfType("start", <<first>>) \o OfType("start", rest)
      BY <1>6, OfTypeConcat
    <3>2. <<first>> \o <<>> = <<first>>
      BY <1>6, ConcatEmptySeq
    <3>. QED
      BY <1>8, <2>1, <2>2, <3>1, <3>2
  <2>4. PICK before \in Seq(Events) : before = OfType("start", events)
    BY <1>1, OfTypeType
  <2>5. OfType("start", events \o new) = before \o <<first>>
    <3>1. OfType("start", events \o new) = OfType("start", events) \o OfType("start", new)
      BY <1>1, OfTypeConcat
    <3>. QED
      BY <2>3, <2>4, <3>1
  <2>6. Len(before \o <<first>>) = Len(before) + 1
    BY <1>6, ConcatProperties
  <2>7. Given("start") = OfType("start", events) /\ Given("start")' = OfType("start", events')
    BY DEF Given, OfType
  <2>8. IsFiniteSet(CalledOnes)
    <3>1. IsFiniteSet(Index)
      BY IndexType, FS_Interval DEF Index
    <3>. QED
      BY <3>1, FS_Subset DEF CalledOnes
  <2>9. i \notin CalledOnes
    BY DEF CalledOnes
  <2>10. Cardinality(CalledOnes \cup {i}) = Cardinality(CalledOnes) + 1
    BY <2>8, <2>9, FS_AddElement
  <2>11. Len(before) = Cardinality(CalledOnes)
    BY <2>4, <2>7 DEF CallsAreTold, StartsAreCounted
  <2>. QED
    BY <1>1, <1>4, <1>8, <2>5, <2>6, <2>7, <2>10, <2>11 DEF StartsAreCounted
<1>. QED
  BY <1>18, <1>19, <1>20, <1>21, <1>22, <1>23, <1>24 DEF CallsAreTold
-----------------------------------------------------------------------------
(* The stop of a call; the texts; and that nothing is done yet.            *)

LEMMA StopSteps ==
    ASSUME StreamTypeOK, Gathered, CallsAreTold, NEW i \in CalledOnes,
           vendor = "anthropic", Tells(i, <<StopEv(acc[i])>>), acc' = acc, order' = Append(order, i)
    PROVE  CallsAreTold'
<1> DEFINE evs == <<StopEv(acc[i])>>
           m == Len(events)
<1>1. /\ events \in Seq(Events) /\ evs \in Seq(Events) /\ events' = events \o evs /\ vendor' = vendor
      /\ \A j \in Index : Contains(order, j) => Contains(order', j)
  BY TellsIs DEF CalledOnes
<1>2. Len(evs) = 1 /\ evs[1] = StopEv(acc[i])
  OBVIOUS
<1>. HIDE DEF evs
<1>3. /\ m \in Nat
      /\ \A p \in 1 .. m : p \in 1 .. Len(events') /\ events'[p] = events[p]
      /\ m + 1 \in 1 .. Len(events') /\ events'[m + 1] = StopEv(acc[i])
      /\ \A q \in 1 .. Len(events') : q \in 1 .. m \/ q = m + 1
  <2>1. /\ m \in Nat
        /\ \A p \in 1 .. m : p \in 1 .. Len(events') /\ events'[p] = events[p]
        /\ \A k \in 1 .. Len(evs) : m + k \in 1 .. Len(events') /\ events'[m + k] = evs[k]
        /\ \A q \in 1 .. Len(events') : q \in 1 .. m \/ \E k \in 1 .. Len(evs) : q = m + k
    BY <1>1, NewPlace
  <2>2. \A k \in 1 .. Len(evs) : k = 1
    BY <1>2
  <2>3. 1 \in 1 .. Len(evs)
    BY <1>2
  <2>. QED
    BY <1>2, <2>1, <2>2, <2>3
<1>. HIDE DEF m
<1>4. CalledOnes' = CalledOnes
  BY DEF CalledOnes, Called
<1>5. StopEv(acc[i]).type = "stop"
  BY EventFields
<1>6. \A e : e.type # "stop" => Where(events', e) = Where(events, e)
  <2>. SUFFICES ASSUME NEW e, e.type # "stop"
                PROVE  Where(events', e) = Where(events, e)
    OBVIOUS
  <2>1. \A k \in 1 .. Len(evs) : evs[k] # e
    BY <1>2, <1>5
  <2>. QED
    BY <1>1, <2>1, OldPlaces
<1>7. /\ \A n : Where(events', DeltaEv(n)) = Where(events, DeltaEv(n))
      /\ \A a : Where(events', StartEv(a)) = Where(events, StartEv(a))
  <2>1. (\A n : DeltaEv(n).type # "stop") /\ \A a : StartEv(a).type # "stop"
    BY EventFields
  <2>2. \A n : Where(events', DeltaEv(n)) = Where(events, DeltaEv(n))
    BY <1>6, <2>1
  <2>3. \A a : Where(events', StartEv(a)) = Where(events, StartEv(a))
    BY <1>6, <2>1
  <2>. QED
    BY <2>2, <2>3
<1>8. DeltasHaveCalls' /\ StartsHaveCalls'
  <2>1. ASSUME NEW q \in 1 .. Len(events'), events'[q].type # "stop"
        PROVE  q \in 1 .. Len(events) /\ events'[q] = events[q]
    BY <1>3, <1>5, <2>1 DEF m
  <2>2. DeltasHaveCalls'
    <3>. SUFFICES ASSUME NEW q \in 1 .. Len(events'), events'[q].type = "delta"
                  PROVE  \E j \in CalledOnes' : \E part \in ToSet(acc'[j].parts) : events'[q] = DeltaEv(part)
      BY DEF DeltasHaveCalls
    <3>1. q \in 1 .. Len(events) /\ events'[q] = events[q]
      BY <2>1
    <3>. QED
      BY <1>4, <3>1 DEF CallsAreTold, DeltasHaveCalls
  <2>3. StartsHaveCalls'
    <3>. SUFFICES ASSUME NEW q \in 1 .. Len(events'), events'[q].type = "start"
                  PROVE  \E j \in CalledOnes' : events'[q] = StartEv(acc'[j])
      BY DEF StartsHaveCalls
    <3>1. q \in 1 .. Len(events) /\ events'[q] = events[q]
      BY <2>1
    <3>. QED
      BY <1>4, <3>1 DEF CallsAreTold, StartsHaveCalls
  <2>. QED
    BY <2>2, <2>3
<1>9. DeltasAreAll'
  BY <1>4, <1>7 DEF CallsAreTold, DeltasAreAll
<1>10. StartsComeFirst'
  <2>. SUFFICES ASSUME NEW j \in CalledOnes
                PROVE  \E p \in 1 .. Len(events') :
                          /\ Where(events', StartEv(acc'[j])) = {p}
                          /\ \A part \in ToSet(acc'[j].parts) : \A d \in Where(events', DeltaEv(part)) : p < d
    BY <1>4 DEF StartsComeFirst
  <2>1. PICK p \in 1 .. m :
           /\ Where(events, StartEv(acc[j])) = {p}
           /\ \A part \in ToSet(acc[j].parts) : \A d \in Where(events, DeltaEv(part)) : p < d
    BY DEF CallsAreTold, StartsComeFirst, m
  <2>. QED
    BY <1>3, <1>7, <2>1
<1>11. StartsAreCounted'
  <2>2. OfType("start", evs) = <<>>
    BY <1>5, OfTypeOne DEF evs
  <2>3. OfType("start", events \o evs) = OfType("start", events) \o OfType("start", evs)
    BY <1>1, OfTypeConcat
  <2>4. OfType("start", events) \in Seq(Events)
    BY <1>1, OfTypeType
  <2>5. OfType("start", events \o evs) = OfType("start", events)
    BY <2>2, <2>3, <2>4, ConcatEmptySeq
  <2>6. Given("start") = OfType("start", events) /\ Given("start")' = OfType("start", events')
    BY DEF Given, OfType
  <2>. QED
    BY <1>1, <1>4, <2>5, <2>6 DEF CallsAreTold, StartsAreCounted
<1>12. StopsComeLast'
  <2>. SUFFICES ASSUME NEW q \in 1 .. Len(events'), events'[q].type = "stop"
                PROVE  /\ vendor' # "openai"
                       /\ \E j \in CalledOnes' :
                             /\ events'[q] = StopEv(acc'[j]) /\ Contains(order', j)
                             /\ \A part \in ToSet(acc'[j].parts) : \A d \in Where(events', DeltaEv(part)) : d < q
    BY DEF StopsComeLast
  <2>1. CASE q \in 1 .. m
    <3>1. PICK j \in CalledOnes :
             /\ events[q] = StopEv(acc[j]) /\ Contains(order, j)
             /\ \A part \in ToSet(acc[j].parts) : \A d \in Where(events, DeltaEv(part)) : d < q
      BY <1>3, <2>1 DEF CallsAreTold, StopsComeLast, m
    <3>2. j \in Index
      BY DEF CalledOnes
    <3>. QED
      BY <1>1, <1>3, <1>4, <1>7, <2>1, <3>1, <3>2
  <2>2. CASE q = m + 1
    <3>1. Contains(order', i)
      <4>1. order \in Seq(Index) /\ i \in Index
        BY DEF StreamTypeOK, CalledOnes
      <4>2. order' \in Seq(Index) /\ i \in ToSet(order')
        BY <4>1, OrderGrows
      <4>. QED
        BY <4>2, ContainsIs
    <3>2. ASSUME NEW part \in ToSet(acc[i].parts), NEW d \in Where(events', DeltaEv(part))
          PROVE  d < q
      <4>1. d \in 1 .. m
        BY <1>7 DEF Where, m
      <4>. QED
        BY <1>3, <2>2, <4>1
    <3>. QED
      BY <1>1, <1>3, <1>4, <2>2, <3>1, <3>2
  <2>. QED
    BY <1>3, <2>1, <2>2
<1>13. GoogleStops'
  BY <1>1 DEF GoogleStops
<1>. QED
  BY <1>8, <1>9, <1>10, <1>11, <1>12, <1>13 DEF CallsAreTold

\* To a text something is added, and to the other nothing.
LEMMA SaidGrows ==
    ASSUME acc \in [Index -> Slots], acc' \in [Index -> Slots], NEW i \in Index,
           \A j \in Index : j # i => acc'[j] = acc[j],
           NEW kind \in {"text", "thinking"}, NEW more \in Seq(Nat),
           acc[i].type \in {"none", kind}, acc[i].type = "none" => acc[i].parts = <<>>,
           acc'[i].type = kind, acc'[i].parts = acc[i].parts \o more,
           \A j \in Index : j > i => acc[j] = Nothing
    PROVE  \A type \in {"text", "thinking"} :
              Spread(SaidMap(type)', AllBlocks)
                 = IF type = kind THEN Spread(SaidMap(type), AllBlocks) \o more ELSE Spread(SaidMap(type), AllBlocks)
<1>. SUFFICES ASSUME NEW type \in {"text", "thinking"}
              PROVE  Spread(SaidMap(type)', AllBlocks)
                 = IF type = kind THEN Spread(SaidMap(type), AllBlocks) \o more ELSE Spread(SaidMap(type), AllBlocks)
  OBVIOUS
<1>1. PICK h \in Maps(Index, Nat) : h = SaidMap(type)
  BY SaidIs
<1>2. PICK g \in Maps(Index, Nat) : g = [j \in Index |-> IF acc'[j].type = type THEN acc'[j].parts ELSE <<>>]
  <2>1. <<>> \in Seq(Nat)
    OBVIOUS
  <2>2. \A j \in Index : acc'[j].parts \in Seq(Nat)
    BY SlotFields
  <2>. QED
    BY <2>1, <2>2 DEF Maps
<1>3. SaidMap(type)' = g
  BY <1>2 DEF SaidMap
<1>4. h \in [Index -> Seq(Nat)] /\ g \in [Index -> Seq(Nat)]
  BY DEF Maps
<1>5. \A j \in Index : h[j] = IF acc[j].type = type THEN acc[j].parts ELSE <<>>
  BY <1>1 DEF SaidMap
<1>6. \A j \in Index : g[j] = IF acc'[j].type = type THEN acc'[j].parts ELSE <<>>
  BY <1>2
<1>7. \A j \in Index : j # i => g[j] = h[j]
  BY <1>5, <1>6
<1>8. Spread(h, AllBlocks) = FlattenSeq(h) /\ Spread(g, AllBlocks) = FlattenSeq(g)
  BY FlattenBlocks
<1>9. CASE type = kind
  <2>1. h[i] = acc[i].parts /\ g[i] = h[i] \o more
    BY <1>5, <1>6, <1>9
  <2>3. \A j \in Index : j > i => h[j] = <<>>
    BY <1>5, NothingIsSlot
  <2>4. Len(Blocks) \in Nat
    BY IndexType
  <2>5. FlattenSeq(g) = FlattenSeq(h) \o more
    <3>1. PICK N \in Nat : N = Len(Blocks)
      BY <2>4
    <3>2. h \in Maps(1 .. N, Nat) /\ g \in Maps(1 .. N, Nat) /\ i \in 1 .. N /\ GrowsAt(1 .. N, h, g, i, more)
      BY <1>7, <2>1, <2>3, <3>1 DEF Index, GrowsAt
    <3>. QED
      BY <3>2, FlattenGrows
  <2>. QED
    BY <1>1, <1>3, <1>8, <1>9, <2>5
<1>10. CASE type # kind
  <2>1. h[i] = <<>> /\ g[i] = <<>>
    BY <1>5, <1>6, <1>10
  <2>2. g = h
    BY <1>4, <1>7, <2>1
  <2>. QED
    BY <1>1, <1>3, <1>10, <2>2
<1>. QED
  BY <1>9, <1>10

LEMMA SaidStays ==
    ASSUME acc \in [Index -> Slots], acc' \in [Index -> Slots], NEW i \in Index,
           \A j \in Index : j # i => acc'[j] = acc[j],
           acc[i].type \notin {"text", "thinking"}, acc'[i].type \notin {"text", "thinking"}
    PROVE  \A type \in {"text", "thinking"} : SaidMap(type)' = SaidMap(type)
<1>. SUFFICES ASSUME NEW type \in {"text", "thinking"}
              PROVE  SaidMap(type)' = SaidMap(type)
  OBVIOUS
<1>1. \A j \in Index : (IF acc'[j].type = type THEN acc'[j].parts ELSE <<>>)
                     = (IF acc[j].type = type THEN acc[j].parts ELSE <<>>)
  OBVIOUS
<1>. QED
  BY <1>1 DEF SaidMap

LEMMA ToldGrows ==
    ASSUME events \in Seq(Events), NEW evs \in Seq(Events), events' = events \o evs
    PROVE  \A type : /\ Told(type)' = Told(type) \o PartsOf(OfType(type, evs))
                     /\ Told(type) \in Seq(Nat)
<1>. SUFFICES ASSUME NEW type
              PROVE  Told(type)' = Told(type) \o PartsOf(OfType(type, evs)) /\ Told(type) \in Seq(Nat)
  OBVIOUS
<1>1. \A x \in Events : x.parts \in Seq(Nat)
  BY EventTypes
<1>2. /\ PartsOf(OfType(type, events \o evs)) = PartsOf(OfType(type, events)) \o PartsOf(OfType(type, evs))
      /\ PartsOf(OfType(type, events)) \in Seq(Nat)
  BY <1>1, PiecesConcat
<1>3. Told(type) = PartsOf(OfType(type, events)) /\ Told(type)' = PartsOf(OfType(type, events'))
  BY DEF Told, Given, PartsOf, OfType
<1>. QED
  BY <1>2, <1>3

\* A step that tells of no text.
LEMMA NoTextSteps ==
    ASSUME TextsAreTold, events \in Seq(Events), NEW evs \in Seq(Events), events' = events \o evs,
           \A k \in 1 .. Len(evs) : evs[k].type \notin {"text", "thinking"},
           \A type \in {"text", "thinking"} : SaidMap(type)' = SaidMap(type)
    PROVE  TextsAreTold'
<1>. SUFFICES ASSUME NEW type \in {"text", "thinking"}
              PROVE  Told(type)' = Spread(SaidMap(type)', AllBlocks)
  BY DEF TextsAreTold, AllBlocks, Index
<1>1. Told(type)' = Told(type) \o PartsOf(OfType(type, evs)) /\ Told(type) \in Seq(Nat)
  BY ToldGrows
<1>2. OfType(type, evs) = <<>>
  <2>1. OfType(type, evs) \in Seq(Events)
    BY OfTypeType
  <2>2. \A y : y \in ToSet(OfType(type, evs)) <=> y \in ToSet(evs) /\ y.type = type
    BY OfTypeMembers
  <2>3. \A y \in ToSet(evs) : y.type # type
    BY LenProperties DEF ToSet
  <2>4. ToSet(OfType(type, evs)) = {}
    BY <2>2, <2>3
  <2>. QED
    BY <2>1, <2>4, NoMembers
<1>3. PartsOf(OfType(type, evs)) = <<>>
  BY <1>2, PiecesOfNothing, OfTypeNothing
<1>4. Told(type)' = Told(type)
  BY <1>1, <1>3, ConcatEmptySeq
<1>. QED
  BY <1>4 DEF TextsAreTold

\* A step that tells of a text all that is added to it.
LEMMA TextSteps ==
    ASSUME TextsAreTold, events \in Seq(Events), NEW evs \in Seq(Events), events' = events \o evs,
           acc \in [Index -> Slots], acc' \in [Index -> Slots], NEW i \in Index,
           \A j \in Index : j # i => acc'[j] = acc[j],
           NEW kind \in {"text", "thinking"}, NEW more \in Seq(Nat),
           acc[i].type \in {"none", kind}, acc[i].type = "none" => acc[i].parts = <<>>,
           acc'[i].type = kind, acc'[i].parts = acc[i].parts \o more,
           \A j \in Index : j > i => acc[j] = Nothing,
           evs = (IF more = <<>> THEN <<>> ELSE <<TextEv(kind, more)>>)
    PROVE  TextsAreTold'
<1>. SUFFICES ASSUME NEW type \in {"text", "thinking"}
              PROVE  Told(type)' = Spread(SaidMap(type)', AllBlocks)
  BY DEF TextsAreTold, AllBlocks, Index
<1>1. Told(type)' = Told(type) \o PartsOf(OfType(type, evs)) /\ Told(type) \in Seq(Nat)
  BY ToldGrows
<1>2. Spread(SaidMap(type)', AllBlocks)
         = IF type = kind THEN Spread(SaidMap(type), AllBlocks) \o more ELSE Spread(SaidMap(type), AllBlocks)
  BY SaidGrows
<1>3. PartsOf(OfType(type, evs)) = IF type = kind THEN more ELSE <<>>
  <2>1. CASE more = <<>>
    BY <2>1, PiecesOfNothing
  <2>2. CASE more # <<>>
    <3>1. TextEv(kind, more).type = kind /\ TextEv(kind, more).parts = more
      BY EventFields
    <3>2. PartsOf(OfType(type, <<TextEv(kind, more)>>)) = IF kind = type THEN more ELSE <<>>
      BY <3>1, PartsOne
    <3>. QED
      BY <2>2, <3>2
  <2>. QED
    BY <2>1, <2>2
<1>4. Told(type) = Spread(SaidMap(type), AllBlocks)
  BY DEF TextsAreTold
<1>5. CASE type = kind
  BY <1>1, <1>2, <1>3, <1>4, <1>5
<1>6. CASE type # kind
  BY <1>1, <1>2, <1>3, <1>4, <1>6, ConcatEmptySeq
<1>. QED
  BY <1>5, <1>6

LEMMA NotDoneSteps ==
    ASSUME NotDone, events \in Seq(Events), NEW evs \in Seq(Events), events' = events \o evs, vendor' = vendor,
           \A k \in 1 .. Len(evs) : /\ evs[k].type # "done"
                                    /\ vendor = "cli" => evs[k].type = "text" /\ ~Inside(Last(evs[k].parts))
    PROVE  NotDone'
<1>. SUFFICES ASSUME NEW q \in 1 .. Len(events')
              PROVE  /\ events'[q].type # "done"
                     /\ vendor' = "cli" => events'[q].type = "text" /\ ~Inside(Last(events'[q].parts))
  BY DEF NotDone
<1>1. /\ \A p \in 1 .. Len(events) : p \in 1 .. Len(events') /\ events'[p] = events[p]
      /\ \A k \in 1 .. Len(evs) : events'[Len(events) + k] = evs[k]
      /\ q \in 1 .. Len(events) \/ \E k \in 1 .. Len(evs) : q = Len(events) + k
  BY NewPlace
<1>2. CASE q \in 1 .. Len(events)
  BY <1>1, <1>2 DEF NotDone
<1>3. CASE \E k \in 1 .. Len(evs) : q = Len(events) + k
  <2>1. PICK k \in 1 .. Len(evs) : q = Len(events) + k
    BY <1>3
  <2>2. events'[q] = evs[k]
    BY <1>1, <2>1
  <2>. QED
    BY <2>2
<1>. QED
  BY <1>1, <1>2, <1>3
-----------------------------------------------------------------------------
(* So the callback goes on being told what is gathered.                    *)

LEMMA BlockOf ==
    ASSUME StreamTypeOK, Gathered, NEW i \in Index
    PROVE  /\ acc[i] \in Slots /\ acc[i].parts \in Seq(Nat) /\ SlotIsSound(i)
           /\ acc[i].type \in {"none", Blocks[i]} /\ Blocks[i] \in {"text", "thinking", "call"}
           /\ acc[i].type = "none" => acc[i].parts = <<>>
<1>1. acc[i] \in Slots /\ acc[i].parts \in Seq(Nat) /\ SlotIsSound(i) /\ Blocks[i] \in {"text", "thinking", "call"}
  BY SendsType, IndexType DEF Gathered
<1>. QED
  BY <1>1 DEF SlotIsSound

LEMMA NoPlaces == QuietEvents(<<>>) /\ <<>> \in Seq(Events) /\ Len(<<>>) = 0
<1>1. <<>> \in Seq(Events) /\ Len(<<>>) = 0
  OBVIOUS
<1>. QED
  BY <1>1 DEF QuietEvents

\* Nothing is told, and nothing that was told has changed.
LEMMA SilentHeard ==
    ASSUME StreamTypeOK, StreamTypeOK', Gathered, Heard, events' = events \o <<>>, vendor' = vendor,
           CalledOnes' = CalledOnes, \A i \in CalledOnes : acc'[i] = acc[i],
           \A i \in CalledOnes : Contains(order, i) => Contains(order', i),
           \A type \in {"text", "thinking"} : SaidMap(type)' = SaidMap(type)
    PROVE  Heard'
<1>1. QuietEvents(<<>>) /\ <<>> \in Seq(Events) /\ Len(<<>>) = 0
  BY NoPlaces
<1>2. events \in Seq(Events) /\ TextsAreTold /\ CallsAreTold /\ NotDone
  BY DEF StreamTypeOK, Heard
<1>3. CallsAreTold'
  BY <1>1, <1>2, QuietSteps
<1>4. \A k \in 1 .. Len(<<>>) : FALSE
  BY <1>1
<1>5. TextsAreTold'
  BY <1>1, <1>2, <1>4, NoTextSteps
<1>6. NotDone'
  BY <1>1, <1>2, <1>4, NotDoneSteps
<1>. QED
  BY <1>3, <1>5, <1>6 DEF Heard

\* A text, and what is told of it.
LEMMA TextHeard ==
    ASSUME StreamTypeOK, StreamTypeOK', Gathered, Heard, NEW i \in Index,
           NEW kind \in {"text", "thinking"}, Blocks[i] = kind, NEW more \in Seq(Nat),
           NEW evs, evs = (IF more = <<>> THEN <<>> ELSE <<TextEv(kind, more)>>),
           Fragment(i, evs), over' = "open", InTurn(i),
           acc'[i].type = kind, acc'[i].parts = acc[i].parts \o more,
           vendor = "cli" => kind = "text" /\ (more # <<>> => ~Inside(Last(more))),
           vendor # "cli" => order' = order \/ order' = Append(order, i)
    PROVE  Heard'
<1>1. /\ events \in Seq(Events) /\ evs \in Seq(Events) /\ events' = events \o evs
      /\ TextsAreTold /\ CallsAreTold /\ NotDone
  BY DEF StreamTypeOK, Heard, Fragment
<1>2. /\ acc \in [Index -> Slots] /\ acc' \in [Index -> Slots] /\ vendor' = vendor
      /\ \A j \in Index : j # i => acc'[j] = acc[j]
  BY FragmentFrame DEF StreamTypeOK
<1>3. \A k \in 1 .. Len(evs) : evs[k] = TextEv(kind, more) /\ more # <<>>
  OBVIOUS
<1>4. TextEv(kind, more).type = kind /\ TextEv(kind, more).parts = more
  BY EventFields
<1>5. acc[i].type \in {"none", kind} /\ (acc[i].type = "none" => acc[i].parts = <<>>)
  BY BlockOf
<1>6. CalledOnes' = CalledOnes /\ i \notin CalledOnes /\ \A j \in CalledOnes : j \in Index /\ acc'[j] = acc[j]
  BY <1>2, <1>5 DEF CalledOnes, Called
<1>7. \A j \in CalledOnes : Contains(order, j) => Contains(order', j)
  <2>1. CASE vendor = "cli"
    <3>1. \A j \in CalledOnes : acc[j].type = "call" /\ SlotIsSound(j)
      BY DEF CalledOnes, Called, Gathered
    <3>2. CalledOnes = {}
      BY <2>1, <3>1 DEF SlotIsSound
    <3>. QED
      BY <3>2
  <2>2. CASE vendor # "cli"
    <3>1. Tells(i, evs)
      BY <2>2 DEF Tells
    <3>. QED
      BY <1>6, <2>2, <3>1, TellsIs
  <2>. QED
    BY <2>1, <2>2
<1>8. CallsAreTold'
  <2>1. QuietEvents(evs)
    BY <1>3, <1>4 DEF QuietEvents
  <2>. QED
    BY <1>1, <1>2, <1>6, <1>7, <2>1, QuietSteps
<1>9. TextsAreTold'
  <2>1. \A j \in Index : j > i => acc[j] = Nothing
    BY DEF InTurn
  <2>. QED
    BY <1>1, <1>2, <1>5, <2>1, TextSteps
<1>10. NotDone'
  <2>1. \A k \in 1 .. Len(evs) : /\ evs[k].type # "done"
                                 /\ vendor = "cli" => evs[k].type = "text" /\ ~Inside(Last(evs[k].parts))
    BY <1>3, <1>4
  <2>. QED
    BY <1>1, <1>2, <2>1, NotDoneSteps
<1>. QED
  BY <1>8, <1>9, <1>10 DEF Heard

\* A call, and what is told of it.
CallEvents(evs) == \A k \in 1 .. Len(evs) : evs[k].type \in {"delta", "start", "stop"}

LEMMA CallEventsAre ==
    /\ \A n : CallEvents(<<DeltaEv(n)>>)
    /\ \A a : CallEvents(<<StopEv(a)>>)
    /\ \A a \in Slots : \A rest \in Seq(Events) : CallEvents(rest) => CallEvents(<<StartEv(a)>> \o rest)
<1>1. \A e : \A k \in 1 .. Len(<<e>>) : <<e>>[k] = e
  OBVIOUS
<1>2. \A n : CallEvents(<<DeltaEv(n)>>)
  BY <1>1, EventFields DEF CallEvents
<1>3. \A a : CallEvents(<<StopEv(a)>>)
  BY <1>1, EventFields DEF CallEvents
<1>4. ASSUME NEW a \in Slots, NEW rest \in Seq(Events), CallEvents(rest)
      PROVE  CallEvents(<<StartEv(a)>> \o rest)
  <2>1. StartEv(a) \in Events /\ StartEv(a).type = "start"
    BY EventTypes, EventFields
  <2>. DEFINE s == <<StartEv(a)>>
  <2>2. s \in Seq(Events)
    BY <2>1, OneEvent
  <2>3. \A k \in 1 .. Len(s) : s[k] = StartEv(a)
    BY <1>1
  <2>. HIDE DEF s
  <2>4. /\ \A p \in 1 .. Len(s) : (s \o rest)[p] = s[p]
        /\ \A k \in 1 .. Len(rest) : (s \o rest)[Len(s) + k] = rest[k]
        /\ \A q \in 1 .. Len(s \o rest) :
              \/ q \in 1 .. Len(s)
              \/ \E k \in 1 .. Len(rest) : q = Len(s) + k
    BY <2>2, Positions
  <2>5. ASSUME NEW q \in 1 .. Len(s \o rest)
        PROVE  (s \o rest)[q].type \in {"delta", "start", "stop"}
    <3>1. CASE q \in 1 .. Len(s)
      BY <2>1, <2>3, <2>4, <3>1
    <3>2. CASE \E k \in 1 .. Len(rest) : q = Len(s) + k
      <4>1. PICK k \in 1 .. Len(rest) : q = Len(s) + k
        BY <3>2
      <4>2. (s \o rest)[Len(s) + k] = rest[k]
        BY <2>4
      <4>. QED
        BY <1>4, <4>1, <4>2 DEF CallEvents
    <3>. QED
      BY <2>4, <3>1, <3>2
  <2>6. CallEvents(s \o rest)
    BY <2>5 DEF CallEvents
  <2>. QED
    BY <2>6 DEF s
<1>. QED
  BY <1>2, <1>3, <1>4

LEMMA CallHeard ==
    ASSUME StreamTypeOK, StreamTypeOK', Gathered, Gathered', Heard, NEW i \in Index, Blocks[i] = "call",
           NEW evs, Fragment(i, evs), over' = "open", CallEvents(evs), vendor # "cli", CallsAreTold'
    PROVE  Heard'
<1>1. /\ events \in Seq(Events) /\ evs \in Seq(Events) /\ events' = events \o evs
      /\ TextsAreTold /\ NotDone
  BY DEF StreamTypeOK, Heard, Fragment
<1>2. /\ acc \in [Index -> Slots] /\ acc' \in [Index -> Slots] /\ vendor' = vendor
      /\ \A j \in Index : j # i => acc'[j] = acc[j]
  BY FragmentFrame DEF StreamTypeOK
<1>3. acc[i].type \notin {"text", "thinking"} /\ acc'[i].type \notin {"text", "thinking"}
  <2>1. SlotIsSound(i) /\ SlotIsSound(i)'
    BY DEF Gathered
  <2>. QED
    BY <2>1 DEF SlotIsSound
<1>4. \A type \in {"text", "thinking"} : SaidMap(type)' = SaidMap(type)
  BY <1>2, <1>3, SaidStays
<1>5. TextsAreTold'
  <2>1. \A k \in 1 .. Len(evs) : evs[k].type \notin {"text", "thinking"}
    BY DEF CallEvents
  <2>. QED
    BY <1>1, <1>4, <2>1, NoTextSteps
<1>6. NotDone'
  <2>1. \A k \in 1 .. Len(evs) : /\ evs[k].type # "done"
                                 /\ vendor = "cli" => evs[k].type = "text" /\ ~Inside(Last(evs[k].parts))
    BY DEF CallEvents
  <2>. QED
    BY <1>1, <1>2, <2>1, NotDoneSteps
<1>. QED
  BY <1>5, <1>6 DEF Heard

LEMMA NothingHeard ==
    ASSUME acc = Nowhere, events = <<>>
    PROVE  Heard
<1>1. \A i \in Index : acc[i] = Nothing
  BY DEF Nowhere
<1>2. CalledOnes = {}
  BY <1>1, NothingIsSlot DEF CalledOnes, Called
<1>3. \A p \in 1 .. Len(events) : FALSE
  OBVIOUS
<1>4. \A type : OfType(type, events) = <<>>
  BY OfTypeNothing
<1>5. CallsAreTold
  <2>1. StartsAreCounted
    <3>1. Given("start") = <<>>
      BY <1>4 DEF Given
    <3>2. Len(<<>>) = 0
      OBVIOUS
    <3>. QED
      BY <1>2, <3>1, <3>2, FS_EmptySet DEF StartsAreCounted
  <2>2. DeltasHaveCalls /\ StartsHaveCalls /\ StopsComeLast
    BY <1>3 DEF DeltasHaveCalls, StartsHaveCalls, StopsComeLast
  <2>3. DeltasAreAll /\ StartsComeFirst /\ GoogleStops
    BY <1>2 DEF DeltasAreAll, StartsComeFirst, GoogleStops
  <2>. QED
    BY <2>1, <2>2, <2>3 DEF CallsAreTold
<1>6. TextsAreTold
  <2>. SUFFICES ASSUME NEW type \in {"text", "thinking"}
                PROVE  Told(type) = Spread(SaidMap(type), AllBlocks)
    BY DEF TextsAreTold
  <2>1. Told(type) = <<>>
    BY PiecesOfNothing DEF Told, Given
  <2>2. acc \in [Index -> Slots]
    BY NothingIsSlot DEF Nowhere
  <2>3. SaidMap(type) \in Maps(Index, Nat) /\ AllBlocks \in Seq(Index) /\ ToSet(AllBlocks) = Index
    BY <2>2, SaidIs, AllBlocksAre
  <2>4. \A i \in Index : SaidMap(type)[i] = <<>>
    BY <1>1, NothingIsSlot DEF SaidMap
  <2>5. Spread(SaidMap(type), AllBlocks) = <<>>
    BY <2>3, <2>4, SpreadEmpty
  <2>. QED
    BY <2>1, <2>5
<1>7. NotDone
  BY <1>3 DEF NotDone
<1>. QED
  BY <1>5, <1>6, <1>7 DEF Heard
-----------------------------------------------------------------------------
(* Each step tells of what it gathers.                                     *)

LEMMA StartHeard ==
    ASSUME StreamTypeOK, StreamTypeOK', Gathered, Gathered', Heard, NEW i \in Index, Blocks[i] = "call",
           ~Called(i), Called(i)', vendor \in {"openai", "anthropic", "google"},
           NEW rest, StartsCall(acc'[i], rest), CallEvents(rest),
           NEW evs, evs = <<StartEv(acc'[i])>> \o rest, Fragment(i, evs), over' = "open",
           order' = order \/ order' = Append(order, i)
    PROVE  Heard'
<1>1. Tells(i, <<StartEv(acc'[i])>> \o rest) /\ vendor # "cli" /\ acc'[i] \in Slots /\ rest \in Seq(Events)
  BY DEF Tells, Fragment, StartsCall
<1>2. CallsAreTold'
  BY <1>1, StartSteps DEF Heard
<1>3. CallEvents(evs)
  BY <1>1, CallEventsAre
<1>. QED
  BY <1>1, <1>2, <1>3, CallHeard

LEMMA DeltaHeard ==
    ASSUME StreamTypeOK, StreamTypeOK', Gathered, Gathered', Heard, NEW i \in Index, Blocks[i] = "call",
           Called(i), vendor \in {"openai", "anthropic"},
           Fragment(i, <<DeltaEv(frames + 1)>>), over' = "open",
           acc'[i].type = acc[i].type, acc'[i].id = acc[i].id, acc'[i].name = acc[i].name,
           acc'[i].started = acc[i].started, acc'[i].parts = Append(acc[i].parts, frames + 1),
           vendor = "anthropic" => ~Contains(order, i),
           order' = order \/ order' = Append(order, i)
    PROVE  Heard'
<1>1. Tells(i, <<DeltaEv(frames + 1)>>) /\ vendor # "cli" /\ i \in CalledOnes
  BY DEF Tells, CalledOnes
<1>2. CallsAreTold'
  BY <1>1, DeltaSteps DEF Heard
<1>3. CallEvents(<<DeltaEv(frames + 1)>>)
  BY CallEventsAre
<1>. QED
  BY <1>1, <1>2, <1>3, CallHeard

\* A fragment of a call of which nothing can be told yet, or nothing is new.
LEMMA SilentCallHeard ==
    ASSUME StreamTypeOK, StreamTypeOK', Gathered, Gathered', Heard, NEW i \in Index, Blocks[i] = "call",
           Fragment(i, <<>>), over' = "open", vendor # "cli",
           Called(i) => acc'[i] = acc[i], ~Called(i) => ~Called(i)',
           order' = order \/ order' = Append(order, i)
    PROVE  Heard'
<1>1. Tells(i, <<>>)
  BY DEF Tells
<1>2. /\ events' = events \o <<>> /\ vendor' = vendor
      /\ \A j \in Index : j # i => acc'[j] = acc[j]
      /\ \A j \in Index : Contains(order, j) => Contains(order', j)
  BY <1>1, TellsIs
<1>3. CalledOnes' = CalledOnes
  BY <1>2 DEF CalledOnes, Called
<1>4. \A j \in CalledOnes : j \in Index /\ acc'[j] = acc[j]
  BY <1>2 DEF CalledOnes
<1>5. \A type \in {"text", "thinking"} : SaidMap(type)' = SaidMap(type)
  <2>1. acc[i].type \notin {"text", "thinking"} /\ acc'[i].type \notin {"text", "thinking"}
    BY DEF Gathered, SlotIsSound
  <2>. QED
    BY <1>2, <2>1, SaidStays DEF StreamTypeOK
<1>. QED
  BY <1>2, <1>3, <1>4, <1>5, SilentHeard

LEMMA OpenAITextHeard ==
    ASSUME StreamTypeOK, StreamTypeOK', Gathered, Heard, NEW i \in Index, OpenAIText(i), over' = "open"
    PROVE  Heard'
<1>1. Blocks[i] = "text" /\ InTurn(i)
  BY DEF OpenAIText
<1>2. /\ Fragment(i, <<TextEv("text", <<frames + 1>>)>>) /\ vendor = "openai"
      /\ acc'[i].type = "text" /\ acc'[i].parts = acc[i].parts \o <<frames + 1>> /\ order' = order
  BY OpenAITextDoes
<1>3. PICK more \in Seq(Nat) : more = <<frames + 1>>
  BY SendsType
<1>4. more # <<>>
  BY <1>3
<1>. QED
  BY <1>1, <1>2, <1>3, <1>4, TextHeard

LEMMA BlockStartsHeard ==
    ASSUME StreamTypeOK, StreamTypeOK', Gathered, Gathered', Heard, NEW i \in Index, BlockStarts(i), over' = "open"
    PROVE  Heard'
<1>1. /\ Fragment(i, IF Blocks[i] = "call" THEN <<StartEv(acc'[i])>> ELSE <<>>)
      /\ acc'[i].type = Blocks[i] /\ acc'[i].parts = acc[i].parts /\ acc'[i].started = TRUE
      /\ vendor = "anthropic" /\ order' = order /\ ~acc[i].started /\ (Blocks[i] = "call" => meant[i] = <<>>)
  BY BlockStartsDoes
<1>2. InTurn(i)
  BY DEF BlockStarts
<1>3. acc[i] \in Slots /\ acc[i].parts \in Seq(Nat) /\ Blocks[i] \in {"text", "thinking", "call"} /\ HasAll(i)
  BY <1>1, BlockOf DEF Gathered
<1>4. CASE Blocks[i] = "call"
  <2>1. acc[i].parts = <<>>
    BY <1>1, <1>3, <1>4, NothingIsSlot DEF HasAll
  <2>2. ~Called(i) /\ Called(i)'
    BY <1>1, <1>4 DEF Called
  <2>3. StartEv(acc'[i]) \in Events
    BY <1>1, EventTypes DEF Fragment
  <2>4. <<StartEv(acc'[i])>> = <<StartEv(acc'[i])>> \o <<>>
    BY <2>3, OneEvent, ConcatEmptySeq
  <2>5. /\ <<>> \in Seq(Events) /\ Len(<<>>) = 0 /\ \A k \in 1 .. 0 : FALSE
        /\ \A part \in ToSet(<<>>) : FALSE
    BY SetOfOne
  <2>6. StartsCall(acc'[i], <<>>) /\ CallEvents(<<>>)
    BY <1>1, <2>1, <2>5 DEF StartsCall, CallEvents
  <2>. QED
    BY <1>1, <1>4, <2>2, <2>4, <2>6, StartHeard
<1>5. CASE Blocks[i] # "call"
  <2>1. <<>> \in Seq(Nat) /\ acc[i].parts = acc[i].parts \o <<>>
    BY <1>3, ConcatEmptySeq
  <2>2. PICK more \in Seq(Nat) : more = <<>>
    BY <2>1
  <2>. QED
    BY <1>1, <1>2, <1>3, <1>5, <2>1, <2>2, TextHeard
<1>. QED
  BY <1>4, <1>5

LEMMA BlockGrowsHeard ==
    ASSUME StreamTypeOK, StreamTypeOK', Gathered, Gathered', Heard, NEW i \in Index, BlockGrows(i), over' = "open"
    PROVE  Heard'
<1>1. vendor = "anthropic" /\ order' = order /\ ~Contains(order, i) /\ InTurn(i)
  BY BlockGrowsDoes DEF BlockGrows
<1>2. /\ acc[i] \in Slots /\ acc[i].parts \in Seq(Nat) /\ SlotIsSound(i)
      /\ acc[i].type \in {"none", Blocks[i]} /\ Blocks[i] \in {"text", "thinking", "call"}
  BY BlockOf
<1>3. CASE Blocks[i] = "call" /\ acc[i] = Nothing
  <2>1. Fragment(i, <<>>) /\ acc'[i] = acc[i]
    BY <1>3, BlockGrowsDoes
  <2>2. ~Called(i) => ~Called(i)'
    BY <2>1 DEF Called
  <2>. QED
    BY <1>1, <1>3, <2>1, <2>2, SilentCallHeard
<1>4. CASE ~(Blocks[i] = "call" /\ acc[i] = Nothing)
  <2>1. /\ Fragment(i, BlockTells(i))
        /\ acc'[i].type = Blocks[i] /\ acc'[i].parts = acc[i].parts \o <<frames + 1>>
        /\ acc'[i].id = acc[i].id /\ acc'[i].name = acc[i].name /\ acc'[i].started = acc[i].started
    BY <1>4, BlockGrowsDoes
  <2>2. CASE Blocks[i] = "call"
    <3>1. acc[i].type = "call" /\ acc[i].started
      BY <1>1, <1>2, <1>4, <2>2 DEF SlotIsSound
    <3>2. acc[i].parts \o <<frames + 1>> = Append(acc[i].parts, frames + 1)
      BY <1>1, BlockBefore
    <3>3. BlockTells(i) = <<DeltaEv(frames + 1)>>
      BY <2>2 DEF BlockTells
    <3>4. Called(i)
      BY <3>1 DEF Called
    <3>. QED
      BY <1>1, <2>1, <2>2, <3>1, <3>2, <3>3, <3>4, DeltaHeard
  <2>3. CASE Blocks[i] # "call"
    <3>1. BlockTells(i) = <<TextEv(Blocks[i], <<frames + 1>>)>>
      BY <2>3 DEF BlockTells
    <3>2. PICK more \in Seq(Nat) : more = <<frames + 1>>
      BY SendsType
    <3>3. more # <<>>
      BY <3>2
    <3>. QED
      BY <1>1, <1>2, <2>1, <2>3, <3>1, <3>2, <3>3, TextHeard
  <2>. QED
    BY <2>2, <2>3
<1>. QED
  BY <1>3, <1>4

LEMMA BlockStopsHeard ==
    ASSUME StreamTypeOK, StreamTypeOK', Gathered, Gathered', Heard, NEW i \in Index, BlockStops(i), over' = "open"
    PROVE  Heard'
<1>1. /\ Fragment(i, IF acc[i].type = "call" THEN <<StopEv(acc[i])>> ELSE <<>>)
      /\ acc' = acc /\ vendor = "anthropic" /\ order' = Append(order, i) /\ acc[i].started
  BY BlockStopsDoes
<1>2. /\ acc[i] \in Slots /\ acc[i].parts \in Seq(Nat) /\ SlotIsSound(i) /\ InTurn(i)
      /\ Blocks[i] \in {"text", "thinking", "call"} /\ acc[i].type = Blocks[i]
  BY <1>1, BlockOf DEF SlotIsSound, BlockStops
<1>3. CASE Blocks[i] = "call"
  <2>1. i \in CalledOnes /\ Fragment(i, <<StopEv(acc[i])>>) /\ vendor # "cli"
    BY <1>1, <1>2, <1>3 DEF CalledOnes, Called
  <2>2. Tells(i, <<StopEv(acc[i])>>)
    BY <1>1, <2>1 DEF Tells
  <2>3. CallsAreTold'
    BY <1>1, <2>1, <2>2, StopSteps DEF Heard
  <2>4. CallEvents(<<StopEv(acc[i])>>)
    BY CallEventsAre
  <2>. QED
    BY <1>3, <2>1, <2>3, <2>4, CallHeard
<1>4. CASE Blocks[i] # "call"
  <2>1. <<>> \in Seq(Nat) /\ acc[i].parts = acc[i].parts \o <<>>
    BY <1>2, ConcatEmptySeq
  <2>2. PICK more \in Seq(Nat) : more = <<>>
    BY <2>1
  <2>3. Fragment(i, <<>>)
    BY <1>1, <1>2, <1>4
  <2>. QED
    BY <1>1, <1>2, <1>4, <2>1, <2>2, <2>3, TextHeard
<1>. QED
  BY <1>3, <1>4

LEMMA TwoAfterOne ==
    ASSUME NEW S, NEW a \in S, NEW b \in S, NEW c \in S
    PROVE  /\ <<b, c>> \in Seq(S) /\ <<a>> \o <<b, c>> = <<a, b, c>>
           /\ Len(<<b, c>>) = 2 /\ <<b, c>>[1] = b /\ <<b, c>>[2] = c
<1>1. /\ <<b, c>> \in Seq(S) /\ <<a>> \in Seq(S) /\ <<a, b, c>> \in Seq(S)
      /\ Len(<<b, c>>) = 2 /\ <<b, c>>[1] = b /\ <<b, c>>[2] = c /\ Len(<<a>>) = 1 /\ <<a>>[1] = a
      /\ Len(<<a, b, c>>) = 3 /\ <<a, b, c>>[1] = a /\ <<a, b, c>>[2] = b /\ <<a, b, c>>[3] = c
  OBVIOUS
<1>2. /\ <<a>> \o <<b, c>> \in Seq(S) /\ Len(<<a>> \o <<b, c>>) = 3
      /\ \A k \in 1 .. 3 : (<<a>> \o <<b, c>>)[k] = IF k <= 1 THEN <<a>>[k] ELSE <<b, c>>[k - 1]
  BY <1>1, ConcatProperties
<1>3. \A k \in 1 .. 3 : (<<a>> \o <<b, c>>)[k] = <<a, b, c>>[k]
  BY <1>1, <1>2
<1>. QED
  BY <1>1, <1>2, <1>3, SeqEqual

LEMMA GooglePartHeard ==
    ASSUME StreamTypeOK, StreamTypeOK', Gathered, Gathered', Heard, NEW i \in Index, GooglePart(i), over' = "open"
    PROVE  Heard'
<1>1. /\ Fragment(i, GoogleTells(i))
      /\ acc'[i].type = Blocks[i] /\ acc'[i].parts = Append(acc[i].parts, frames + 1)
      /\ acc'[i].started = TRUE /\ vendor = "google"
      /\ (Blocks[i] = "call" => acc[i] = Nothing)
      /\ order' = IF Blocks[i] = "call" THEN Append(order, i) ELSE order
  BY GooglePartDoes
<1>2. /\ acc[i] \in Slots /\ acc[i].parts \in Seq(Nat) /\ Blocks[i] \in {"text", "thinking", "call"}
      /\ InTurn(i) /\ frames \in Nat /\ frames + 1 \in Nat /\ <<frames + 1>> \in Seq(Nat)
  BY BlockOf, SendsType DEF GooglePart
<1>3. CASE Blocks[i] = "call"
  <2> DEFINE a == acc'[i]
             d == DeltaEv(frames + 1)
  <2>1. a \in Slots /\ StartEv(a) \in Events /\ StopEv(a) \in Events /\ d \in Events
    BY <1>1, <1>2, EventTypes DEF Fragment
  <2>2. ToSet(a.parts) = {frames + 1}
    <3>a. acc[i].parts = <<>>
      BY <1>1, <1>3, NothingIsSlot
    <3>1. a.parts = Append(<<>>, frames + 1) /\ <<>> \in Seq(Nat)
      BY <1>1, <3>a
    <3>2. ToSet(Append(<<>>, frames + 1)) = ToSet(<<>>) \cup {frames + 1}
      BY <1>2, <3>1, OrderGrows
    <3>. QED
      BY <3>1, <3>2, SetOfOne
  <2>3. /\ <<d, StopEv(a)>> \in Seq(Events) /\ <<StartEv(a)>> \o <<d, StopEv(a)>> = <<StartEv(a), d, StopEv(a)>>
        /\ Len(<<d, StopEv(a)>>) = 2 /\ <<d, StopEv(a)>>[1] = d /\ <<d, StopEv(a)>>[2] = StopEv(a)
    BY <2>1, TwoAfterOne
  <2>4. GoogleTells(i) = <<StartEv(a)>> \o <<d, StopEv(a)>>
    BY <1>3, <2>3 DEF GoogleTells
  <2>5. d.type = "delta" /\ StopEv(a).type = "stop"
    BY EventFields
  <2>. HIDE DEF d
  <2>6. PICK rest \in Seq(Events) : rest = <<d, StopEv(a)>>
    BY <2>3
  <2>7. Len(rest) = 2 /\ rest[1] = d /\ rest[2] = StopEv(a)
    BY <2>3, <2>6
  <2>8. CallEvents(rest)
    BY <2>5, <2>7 DEF CallEvents
  <2>9. StartsCall(a, rest)
    <3>1. \A part \in ToSet(a.parts) : part = frames + 1 /\ d = DeltaEv(part)
      BY <2>2 DEF d
    <3>2. frames + 1 \in ToSet(a.parts) /\ d = DeltaEv(frames + 1)
      BY <2>2 DEF d
    <3>3. 1 \in 1 .. 2 /\ 2 \in 1 .. 2 /\ \A k \in 1 .. 2 : k = 1 \/ k = 2
      OBVIOUS
    <3>. HIDE DEF a
    <3>. QED
      BY <1>1, <2>7, <3>1, <3>2, <3>3 DEF StartsCall
  <2>10. ~Called(i) /\ Called(i)'
    BY <1>1, <1>3, NothingIsSlot DEF Called
  <2>. QED
    BY <1>1, <1>3, <2>4, <2>6, <2>8, <2>9, <2>10, StartHeard
<1>4. CASE Blocks[i] # "call"
  <2>1. GoogleTells(i) = <<TextEv(Blocks[i], <<frames + 1>>)>>
    BY <1>4 DEF GoogleTells
  <2>2. acc[i].parts \o <<frames + 1>> = Append(acc[i].parts, frames + 1)
    BY <1>1, BlockBefore
  <2>3. PICK more \in Seq(Nat) : more = <<frames + 1>>
    BY <1>2
  <2>4. more # <<>>
    BY <2>3
  <2>. QED
    BY <1>1, <1>2, <1>4, <2>1, <2>2, <2>3, <2>4, TextHeard
<1>. QED
  BY <1>3, <1>4

LEMMA OpenAICallHeard ==
    ASSUME StreamTypeOK, StreamTypeOK', Gathered, Gathered', Heard, NEW i \in Index, NEW has, OpenAICall(i, has),
           over' = "open"
    PROVE  Heard'
<1>1. /\ Fragment(i, OpenAITells(i, has))
      /\ acc'[i].type = "call"
      /\ acc'[i].parts = IF "args" \in has THEN Append(acc[i].parts, frames + 1) ELSE acc[i].parts
      /\ acc'[i].name = IF "name" \in has THEN Name(i) ELSE acc[i].name
      /\ acc'[i].started = (acc[i].started \/ acc'[i].name # NoId)
      /\ acc[i].started => acc'[i].id = acc[i].id
      /\ vendor = "openai"
      /\ order' = IF Contains(order, i) THEN order ELSE Append(order, i)
  BY OpenAICallDoes
<1>2. /\ acc[i] \in Slots /\ acc[i].parts \in Seq(Nat) /\ SlotIsSound(i) /\ Blocks[i] = "call"
      /\ acc'[i] \in Slots
      /\ order' = order \/ order' = Append(order, i)
  BY <1>1, BlockOf DEF OpenAICall, Fragment
<1>3. CASE ~acc[i].started /\ acc'[i].name # NoId
  <2>1. OpenAITells(i, has) = <<StartEv(acc'[i])>> \o Deltas(acc'[i].parts)
    BY <1>3 DEF OpenAITells
  <2>2. acc'[i].parts \in Seq(Nat)
    BY <1>2, SlotFields
  <2>3. PICK p \in Seq(Nat) : p = acc'[i].parts
    BY <2>2
  <2>4. /\ Deltas(p) \in Seq(Events) /\ Len(Deltas(p)) = Len(p)
        /\ \A k \in 1 .. Len(p) : Deltas(p)[k] = DeltaEv(p[k])
    BY DeltasType
  <2>5. \A k \in 1 .. Len(p) : p[k] \in ToSet(p)
    BY DEF ToSet
  <2>6. \A part \in ToSet(p) : \E k \in 1 .. Len(p) : part = p[k]
    BY DEF ToSet
  <2>7. CallEvents(Deltas(p))
    BY <2>4, EventFields DEF CallEvents
  <2>8. StartsCall(acc'[i], Deltas(p))
    <3>1. /\ \A k \in 1 .. Len(Deltas(p)) : \E part \in ToSet(p) : Deltas(p)[k] = DeltaEv(part)
          /\ \A part \in ToSet(p) : \E k \in 1 .. Len(Deltas(p)) : Deltas(p)[k] = DeltaEv(part)
      BY <2>4, <2>5, <2>6
    <3>2. PICK s \in Seq(Events) : s = Deltas(p)
      BY <2>4
    <3>. QED
      BY <1>1, <2>3, <3>1, <3>2 DEF StartsCall
  <2>9. ~Called(i) /\ Called(i)'
    BY <1>1, <1>3 DEF Called
  <2>. QED
    BY <1>1, <1>2, <2>1, <2>3, <2>7, <2>8, <2>9, StartHeard
<1>4. CASE ~acc[i].started /\ acc'[i].name = NoId
  <2>1. OpenAITells(i, has) = <<>>
    BY <1>4 DEF OpenAITells
  <2>2. ~Called(i) /\ ~Called(i)'
    BY <1>1, <1>4 DEF Called
  <2>. QED
    BY <1>1, <1>2, <2>1, <2>2, SilentCallHeard
<1>5. CASE acc[i].started
  <2>1. acc[i].type = "call" /\ Called(i) /\ acc[i].name = Name(i)
    BY <1>2, <1>5 DEF SlotIsSound, Called
  <2>2. /\ acc'[i].type = acc[i].type /\ acc'[i].id = acc[i].id /\ acc'[i].name = acc[i].name
        /\ acc'[i].started = acc[i].started
    <3>1. acc[i].started = TRUE
      BY <1>2, <1>5, SlotFields
    <3>2. acc'[i].started = TRUE
      BY <1>1, <3>1
    <3>. QED
      BY <1>1, <1>5, <2>1, <3>1, <3>2
  <2>3. CASE "args" \in has
    <3>1. OpenAITells(i, has) = <<DeltaEv(frames + 1)>>
      BY <1>5, <2>3 DEF OpenAITells
    <3>. QED
      BY <1>1, <1>2, <2>1, <2>2, <2>3, <3>1, DeltaHeard
  <2>4. CASE "args" \notin has
    <3>1. OpenAITells(i, has) = <<>>
      BY <1>5, <2>4 DEF OpenAITells
    <3>2. acc'[i] = acc[i]
      <4>1. acc'[i].parts = acc[i].parts
        BY <1>1, <2>4
      <4>2. PICK a \in Slots, b \in Slots : a = acc[i] /\ b = acc'[i]
        BY <1>2
      <4>3. /\ a.type = b.type /\ a.id = b.id /\ a.name = b.name /\ a.parts = b.parts
            /\ a.started = b.started
        BY <2>2, <4>1, <4>2
      <4>. QED
        BY <4>2, <4>3, SlotsEqual
    <3>. QED
      BY <1>1, <1>2, <2>1, <3>1, <3>2, SilentCallHeard
  <2>. QED
    BY <2>3, <2>4
<1>. QED
  BY <1>2, <1>3, <1>4, <1>5

LEMMA CliReadHeard ==
    ASSUME StreamTypeOK, StreamTypeOK', Gathered, Heard, NEW i \in Index,
           NEW n \in 1..2, NEW cuts \in [1..n -> Cut], CliRead(i, cuts), over' = "open"
    PROVE  Heard'
<1>1. PICK read \in Seq(Nat), told \in Seq(Nat) :
              /\ Fragment(i, IF told = <<>> THEN <<>> ELSE <<TextEv("text", told)>>)
              /\ told # <<>> => ~Inside(Last(told))
              /\ acc'[i].type = "text" /\ acc'[i].parts = acc[i].parts \o told
              /\ vendor = "cli" /\ Blocks[i] = "text"
  BY CliReadDoes
<1>2. InTurn(i)
  BY DEF CliRead
<1>. QED
  BY <1>1, <1>2, TextHeard

\* Nothing is read or gathered.
LEMMA StillHeard ==
    ASSUME StreamTypeOK, StreamTypeOK', Gathered, Heard,
           events' = events, vendor' = vendor, acc' = acc, order' = order
    PROVE  Heard'
<1>1. events' = events \o <<>>
  BY ConcatEmptySeq DEF StreamTypeOK
<1>2. CalledOnes' = CalledOnes /\ \A type \in {"text", "thinking"} : SaidMap(type)' = SaidMap(type)
  BY DEF CalledOnes, Called, SaidMap
<1>. QED
  BY <1>1, <1>2, SilentHeard

LEMMA HeardKeeps ==
    ASSUME StreamTypeOK, Unborn, Gathered, StreamTypeOK', Gathered', over = "open" => Heard,
           [StreamNext]_streamVars, over' = "open"
    PROVE  Heard'
<1>1. ASSUME NEW i \in Index, OpenAIText(i) \/ BlockStarts(i) \/ BlockGrows(i) \/ BlockStops(i) \/ GooglePart(i)
      PROVE  Heard'
  <2>1. over = "open"
    BY <1>1 DEF OpenAIText, BlockStarts, BlockGrows, BlockStops, GooglePart, Frame
  <2>. QED
    BY <1>1, <2>1, OpenAITextHeard, BlockStartsHeard, BlockGrowsHeard, BlockStopsHeard, GooglePartHeard
<1>2. ASSUME NEW i \in Index, NEW n \in 1..2, NEW cuts \in [1..n -> Cut], CliRead(i, cuts)
      PROVE  Heard'
  <2>1. over = "open"
    BY <1>2 DEF CliRead
  <2>. QED
    BY <1>2, <2>1, CliReadHeard
<1>3. ASSUME NEW i \in Index, NEW has, OpenAICall(i, has)
      PROVE  Heard'
  <2>1. over = "open"
    BY <1>3 DEF OpenAICall, Frame
  <2>. QED
    BY <1>3, <2>1, OpenAICallHeard
<1>4. ASSUME StreamBegins
      PROVE  Heard'
  <2>1. acc' = Nowhere /\ events' = <<>>
    BY <1>4 DEF StreamBegins, Unborn
  <2>2. (acc = Nowhere /\ events = <<>>) => Heard
    BY NothingHeard
  <2>3. (acc = Nowhere /\ events = <<>>)' => Heard'
    BY <2>2, NothingHeard, PTL
  <2>. QED
    BY <2>1, <2>3 DEF Nowhere, Index
<1>5. ASSUME Finishes
      PROVE  Heard'
  <2>1. over = "open" /\ events' = events /\ vendor' = vendor /\ acc' = acc /\ order' = order
    BY <1>5 DEF Finishes, Frame
  <2>. QED
    BY <2>1, StillHeard
<1>6. ~StreamEnds /\ ~StreamBreaks /\ ~CliEnds
  <2>1. ~StreamEnds
    BY StreamEndsDoes
  <2>2. ~CliEnds
    BY CliEndsDoes
  <2>. QED
    BY <2>1, <2>2 DEF StreamBreaks
<1>7. ASSUME UNCHANGED streamVars
      PROVE  Heard'
  <2>1. over = "open" /\ events' = events /\ vendor' = vendor /\ acc' = acc /\ order' = order
    BY <1>7 DEF streamVars
  <2>. QED
    BY <2>1, StillHeard
<1>. QED
  BY <1>1, <1>2, <1>3, <1>4, <1>5, <1>6, <1>7, StreamSteps
-----------------------------------------------------------------------------
(* The message that is returned, type by type.                             *)

\* Without repetition it stays when every member gives at most one, of its own.
LEMMA SpreadOnce ==
    ASSUME NEW S, NEW T, NEW h \in Maps(S, T), \A x \in S : Len(h[x]) <= 1,
           \A x, y \in S : x # y => ToSet(h[x]) \cap ToSet(h[y]) = {}
    PROVE  \A s \in Seq(S) : (\A m, n \in 1 .. Len(s) : s[m] = s[n] => m = n) =>
              \A m, n \in 1 .. Len(Spread(h, s)) : Spread(h, s)[m] = Spread(h, s)[n] => m = n
<1> DEFINE Once(s) == \A m, n \in 1 .. Len(s) : s[m] = s[n] => m = n
           G == {s \in Seq(S) : Once(s) => Once(Spread(h, s))}
<1>1. <<>> \in G
  BY SpreadNothing
<1>2. ASSUME NEW s \in Seq(S), NEW x \in S, s \in G
      PROVE  Append(s, x) \in G
  <2>1. /\ Append(s, x) \in Seq(S) /\ Len(s) \in Nat
        /\ \A n \in 1 .. Len(s) : Append(s, x)[n] = s[n] /\ n \in 1 .. Len(Append(s, x))
        /\ Append(s, x)[Len(s) + 1] = x /\ Len(s) + 1 \in 1 .. Len(Append(s, x))
    BY OrderGrows
  <2>. SUFFICES ASSUME Once(Append(s, x))
                PROVE  Once(Spread(h, Append(s, x)))
    BY <2>1
  <2>2. Once(s)
    BY <2>1
  <2>3. x \notin ToSet(s)
    <3>1. \A n \in 1 .. Len(s) : n # Len(s) + 1
      BY <2>1
    <3>2. \A n \in 1 .. Len(s) : s[n] # x
      BY <2>1, <3>1
    <3>. QED
      BY <3>2, LenProperties DEF ToSet
  <2>4. /\ Spread(h, Append(s, x)) = Spread(h, s) \o h[x] /\ Spread(h, s) \in Seq(T)
        /\ h[x] \in Seq(T) /\ Len(h[x]) <= 1
    BY SpreadAppend, SpreadType DEF Maps
  <2>5. PICK t \in Seq(T), u \in Seq(T) : t = Spread(h, s) /\ u = h[x]
    BY <2>4
  <2>6. Once(t)
    BY <1>2, <2>2, <2>5
  <2>7. \A k \in 1 .. Len(t), l \in 1 .. Len(u) : t[k] # u[l]
    <3>1. \A y : y \in ToSet(Spread(h, s)) <=> \E z \in ToSet(s) : y \in ToSet(h[z])
      BY SpreadMembers
    <3>2. \A z \in ToSet(s) : z \in S /\ z # x
      BY <2>3, ElementOfSeq, LenProperties DEF ToSet
    <3>3. ToSet(t) \cap ToSet(u) = {}
      BY <2>5, <3>1, <3>2
    <3>4. (\A k \in 1 .. Len(t) : t[k] \in ToSet(t)) /\ (\A l \in 1 .. Len(u) : u[l] \in ToSet(u))
      BY LenProperties DEF ToSet
    <3>. QED
      BY <3>3, <3>4
  <2>8. /\ Len(t) \in Nat /\ Len(u) \in Nat
        /\ \A p \in 1 .. Len(t) : (t \o u)[p] = t[p]
        /\ \A k \in 1 .. Len(u) : (t \o u)[Len(t) + k] = u[k]
        /\ \A q \in 1 .. Len(t \o u) : q \in 1 .. Len(t) \/ \E k \in 1 .. Len(u) : q = Len(t) + k
    BY Positions
  <2>9. \A k, l \in 1 .. Len(u) : k = l
    BY <2>4, <2>5, <2>8
  <2>. SUFFICES ASSUME NEW p \in 1 .. Len(t \o u), NEW q \in 1 .. Len(t \o u), (t \o u)[p] = (t \o u)[q]
                PROVE  p = q
    BY <2>4, <2>5
  <2>10. CASE p \in 1 .. Len(t)
    BY <2>6, <2>7, <2>8, <2>10
  <2>11. CASE q \in 1 .. Len(t)
    BY <2>6, <2>7, <2>8, <2>11
  <2>12. CASE p \notin 1 .. Len(t) /\ q \notin 1 .. Len(t)
    BY <2>8, <2>9, <2>12
  <2>. QED
    BY <2>10, <2>11, <2>12
<1>. HIDE DEF G
<1>3. Seq(S) \subseteq G
  BY <1>1, <1>2, SequencesByInduction
<1>. QED
  BY <1>3 DEF G

\* None of the type, and nothing of it.
LEMMA NoneOfType ==
    ASSUME NEW S, NEW s \in Seq(S), NEW type, \A x \in ToSet(s) : x.type # type
    PROVE  OfType(type, s) = <<>> /\ PartsOf(OfType(type, s)) = <<>>
<1>1. OfType(type, s) \in Seq(S) /\ \A y : y \in ToSet(OfType(type, s)) <=> y \in ToSet(s) /\ y.type = type
  BY OfTypeType, OfTypeMembers
<1>2. ToSet(OfType(type, s)) = {}
  BY <1>1
<1>3. OfType(type, s) = <<>>
  BY <1>1, <1>2, NoMembers
<1>. QED
  BY <1>3, PiecesOfNothing, OfTypeNothing

\* All of the type, and all of it.
LEMMA AllOfType ==
    ASSUME NEW S, NEW type
    PROVE  \A s \in Seq(S) : (\A x \in ToSet(s) : x.type = type) => OfType(type, s) = s
<1> DEFINE G == {s \in Seq(S) : (\A x \in ToSet(s) : x.type = type) => OfType(type, s) = s}
<1>1. <<>> \in G
  <2>1. <<>> \in Seq(S)
    OBVIOUS
  <2>. QED
    BY <2>1, OfTypeNothing
<1>2. ASSUME NEW s \in Seq(S), NEW x \in S, s \in G
      PROVE  Append(s, x) \in G
  <2>1. Append(s, x) \in Seq(S) /\ ToSet(Append(s, x)) = ToSet(s) \cup {x} /\ <<x>> \in Seq(S)
    BY OrderGrows
  <2>. SUFFICES ASSUME \A y \in ToSet(Append(s, x)) : y.type = type
                PROVE  OfType(type, Append(s, x)) = Append(s, x)
    BY <2>1
  <2>2. Append(s, x) = s \o <<x>>
    BY AppendIsConcat
  <2>3. OfType(type, s \o <<x>>) = OfType(type, s) \o OfType(type, <<x>>)
    BY <2>1, OfTypeConcat
  <2>4. OfType(type, s) = s
    BY <1>2, <2>1
  <2>5. OfType(type, <<x>>) = <<x>>
    BY <2>1, OfTypeOne
  <2>. QED
    BY <2>2, <2>3, <2>4, <2>5
<1>. HIDE DEF G
<1>3. Seq(S) \subseteq G
  BY <1>1, <1>2, SequencesByInduction
<1>. QED
  BY <1>3 DEF G

\* The calls are the called ones, each once.
LEMMA CallsAreCalled ==
    ASSUME StreamTypeOK, Gathered, vendor \in {"openai", "google"}
    PROVE  /\ CallsMade \in Seq(Slots) /\ Len(CallsMade) = Cardinality(CalledOnes)
           /\ \A a : a \in ToSet(CallsMade) <=> \E i \in CalledOnes : a = acc[i]
           /\ \A m, n \in 1 .. Len(CallsMade) : CallsMade[m] = CallsMade[n] => m = n
<1>1. /\ acc \in [Index -> Slots] /\ order \in Seq(Index)
      /\ ToSet(order) = {i \in Index : acc[i].type = "call"}
      /\ \A m, n \in 1 .. Len(order) : order[m] = order[n] => m = n
  BY DEF StreamTypeOK, Gathered, OrderIsSound
<1>2. \A i \in Index : SlotIsSound(i) /\ Name(i) # NoId /\ i \in Nat
  BY MarkTypes, IndexType DEF Gathered
<1>3. CallMap \in Maps(Index, Slots) /\ CallsMade = Spread(CallMap, order) /\ CallsMade \in Seq(Slots)
  BY <1>1, CallsAre
<1>4. \A i \in Index :
         \/ acc[i].name # NoId /\ CallMap[i] = <<acc[i]>>
         \/ acc[i].name = NoId /\ CallMap[i] = <<>>
  BY DEF CallMap
<1>a. (\A a : Len(<<a>>) = 1 /\ <<a>> # <<>>) /\ Len(<<>>) = 0
  OBVIOUS
<1>b. \A i \in Index : Len(CallMap[i]) <= 1
  <2>. SUFFICES ASSUME NEW i \in Index
                PROVE  Len(CallMap[i]) <= 1
    OBVIOUS
  <2>1. PICK l \in {0, 1} : l = Len(CallMap[i])
    BY <1>4, <1>a
  <2>2. l <= 1
    OBVIOUS
  <2>. QED
    BY <2>1, <2>2
<1>5. \A i \in ToSet(order) : i \in CalledOnes <=> acc[i].name # NoId
  BY <1>1, <1>2 DEF CalledOnes, Called, SlotIsSound
<1>6. \A i \in CalledOnes : i \in ToSet(order)
  BY <1>1 DEF CalledOnes, Called
<1>7. \A i \in ToSet(order) : i \in Index
  BY <1>1
<1>8. Len(CallsMade) = Cardinality(CalledOnes)
  <2>1. \A s \in Seq(Index) : (\A m, n \in 1 .. Len(s) : s[m] = s[n] => m = n) =>
            Len(Spread(CallMap, s)) = Cardinality(Givers(CallMap, s))
    BY <1>3, <1>b, SpreadCount
  <2>2. Len(Spread(CallMap, order)) = Cardinality(Givers(CallMap, order))
    BY <1>1, <2>1
  <2>3. Givers(CallMap, order) = CalledOnes
    <3>1. \A i \in ToSet(order) : CallMap[i] # <<>> <=> acc[i].name # NoId
      BY <1>4, <1>7, <1>a
    <3>. QED
      BY <1>5, <1>6, <3>1 DEF Givers, CalledOnes
  <2>. QED
    BY <1>3, <2>2, <2>3
<1>9. \A a : a \in ToSet(CallsMade) <=> \E i \in CalledOnes : a = acc[i]
  <2>1. \A a : a \in ToSet(Spread(CallMap, order)) <=> \E i \in ToSet(order) : a \in ToSet(CallMap[i])
    BY <1>1, <1>3, SpreadMembers
  <2>2. \A i \in Index : \A a : a \in ToSet(CallMap[i]) <=> acc[i].name # NoId /\ a = acc[i]
    BY <1>4, SetOfOne
  <2>. QED
    BY <1>3, <1>5, <1>6, <1>7, <2>1, <2>2
<1>10. \A m, n \in 1 .. Len(CallsMade) : CallsMade[m] = CallsMade[n] => m = n
  <2>1. \A i, j \in Index : i # j => ToSet(CallMap[i]) \cap ToSet(CallMap[j]) = {}
    <3>1. ASSUME NEW i \in Index, NEW a \in ToSet(CallMap[i])
          PROVE  a.name = Name(i)
      <4>1. acc[i].name # NoId /\ a = acc[i]
        BY <1>4, SetOfOne
      <4>. QED
        BY <1>2, <4>1 DEF SlotIsSound
    <3>2. \A i, j \in Index : Name(i) = Name(j) => i = j
      BY <1>2, MarkTypes
    <3>. QED
      BY <3>1, <3>2
  <2>2. \A s \in Seq(Index) : (\A m, n \in 1 .. Len(s) : s[m] = s[n] => m = n) =>
            \A m, n \in 1 .. Len(Spread(CallMap, s)) : Spread(CallMap, s)[m] = Spread(CallMap, s)[n] => m = n
    BY <1>3, <1>b, <2>1, SpreadOnce
  <2>3. \A m, n \in 1 .. Len(Spread(CallMap, order)) :
            Spread(CallMap, order)[m] = Spread(CallMap, order)[n] => m = n
    BY <1>1, <2>2
  <2>. QED
    BY <1>3, <2>3
<1>. QED
  BY <1>3, <1>8, <1>9, <1>10

\* Of a vendor that gathers call by call, the texts and then the calls.
LEMMA CallItemsAll ==
    ASSUME StreamTypeOK, Gathered, vendor \in {"openai", "google"}
    PROVE  /\ CallItems \in Seq(Items) /\ Len(CallItems) = Cardinality(CalledOnes)
           /\ \A x \in ToSet(CallItems) : x.type = "call"
           /\ \A i \in CalledOnes : Item(acc[i]) \in ToSet(CallItems)
<1>1. /\ CallsMade \in Seq(Slots) /\ Len(CallsMade) = Cardinality(CalledOnes) /\ Len(CallsMade) \in Nat
      /\ \A a : a \in ToSet(CallsMade) <=> \E i \in CalledOnes : a = acc[i]
  BY CallsAreCalled
<1>2. CallItems \in Seq(Items)
  BY AssembledType DEF StreamTypeOK
<1>3. Len(CallItems) = Len(CallsMade) /\ \A k \in 1 .. Len(CallsMade) : CallItems[k] = Item(CallsMade[k])
  BY <1>1 DEF CallItems
<1>4. \A k \in 1 .. Len(CallsMade) : CallsMade[k] \in ToSet(CallsMade) /\ CallsMade[k] \in Slots
  BY <1>1, LenProperties, ElementOfSeq DEF ToSet
<1>5. \A x \in ToSet(CallItems) : x.type = "call"
  <2>. SUFFICES ASSUME NEW x \in ToSet(CallItems)
                PROVE  x.type = "call"
    OBVIOUS
  <2>1. PICK k \in 1 .. Len(CallsMade) : x = CallItems[k]
    BY <1>2, <1>3, LenProperties DEF ToSet
  <2>2. PICK i \in CalledOnes : CallsMade[k] = acc[i]
    BY <1>1, <1>4
  <2>. QED
    BY <1>3, <1>4, <2>1, <2>2, ItemTypes DEF CalledOnes, Called
<1>6. ASSUME NEW i \in CalledOnes
      PROVE  Item(acc[i]) \in ToSet(CallItems)
  <2>1. acc[i] \in ToSet(CallsMade)
    BY <1>1
  <2>2. PICK k \in 1 .. Len(CallsMade) : CallsMade[k] = acc[i]
    BY <1>1, <2>1, LenProperties DEF ToSet
  <2>3. CallItems[k] \in ToSet(CallItems)
    BY <1>2, <1>3, LenProperties DEF ToSet
  <2>. QED
    BY <1>3, <2>2, <2>3
<1>. QED
  BY <1>1, <1>2, <1>3, <1>5, <1>6

LEMMA JoinedParts ==
    ASSUME acc \in [Index -> Slots], NEW kind \in {"text", "thinking"}, NEW type
    PROVE  /\ PartsOf(OfType(type, Joined(kind))) = IF kind = type THEN Spread(SaidMap(kind), AllBlocks) ELSE <<>>
           /\ type = "call" => OfType(type, Joined(kind)) = <<>>
<1>1. PICK p \in Seq(Nat) : p = Spread(SaidMap(kind), AllBlocks)
  BY SaidIs
<1>2. Joined(kind) = IF p = <<>> THEN <<>> ELSE <<TextItem(kind, p)>>
  BY <1>1, JoinedType
<1>3. PICK x \in Items : x = TextItem(kind, p)
  BY ItemTypes
<1>4. x.type = kind /\ x.parts = p
  BY <1>3, ItemTypes
<1>5. PartsOf(OfType(type, <<x>>)) = IF x.type = type THEN x.parts ELSE <<>>
  BY <1>4, PartsOne
<1>6. OfType(type, <<x>>) = IF x.type = type THEN <<x>> ELSE <<>>
  BY OfTypeOne
<1>7. CASE p = <<>>
  BY <1>1, <1>2, <1>7, PiecesOfNothing, OfTypeNothing
<1>8. CASE p # <<>>
  BY <1>1, <1>2, <1>3, <1>4, <1>5, <1>6, <1>8
<1>. QED
  BY <1>7, <1>8

\* What a block is in Anthropic's message.
LEMMA BlockParts ==
    ASSUME StreamTypeOK, Gathered, vendor = "anthropic", NEW i \in Index, NEW type \in {"text", "thinking"}
    PROVE  /\ Spread(PartsMap(Items, type), BlockMap[i]) = SaidMap(type)[i]
           /\ Spread(TypeMap(Items, "call"), BlockMap[i])
                 = IF i \in CalledOnes THEN <<Item(Kept(i))>> ELSE <<>>
<1>1. acc[i] \in Slots /\ SlotIsSound(i) /\ acc \in [Index -> Slots]
  BY BlockOf DEF StreamTypeOK
<1>a. /\ Kept(i) \in Slots /\ Kept(i).type = acc[i].type /\ Kept(i) = BlockContent(i)
      /\ acc[i].type # "call" => Kept(i).parts = acc[i].parts
  BY <1>1, KeptIs DEF Kept
<1>2. PICK x \in Items : x = Item(Kept(i))
  BY <1>a, ItemTypes
<1>3. x.type = acc[i].type /\ (acc[i].type # "call" => x.parts = acc[i].parts)
  BY <1>2, <1>a, ItemTypes
<1>4. \/ BlockMap[i] = <<x>> /\ acc[i].type # "none"
      \/ BlockMap[i] = <<>> /\ (acc[i].type = "none" \/ (acc[i].type = "text" /\ acc[i].parts = <<>>))
  BY <1>2, <1>a DEF BlockMap
<1>5. /\ \A y \in Items : y.parts \in Seq(Nat)
      /\ <<x>> \in Seq(Items)
  BY EventTypes
<1>6. /\ PartsMap(Items, type) \in Maps(Items, Nat) /\ TypeMap(Items, "call") \in Maps(Items, Items)
  BY <1>5, PartsAreSpread, OfTypeIsSpread
<1>7. /\ Spread(PartsMap(Items, type), <<x>>) = PartsMap(Items, type)[x]
      /\ Spread(TypeMap(Items, "call"), <<x>>) = TypeMap(Items, "call")[x]
      /\ Spread(PartsMap(Items, type), <<>>) = <<>>
      /\ Spread(TypeMap(Items, "call"), <<>>) = <<>>
  BY <1>6, SpreadOne, SpreadNothing
<1>8. /\ PartsMap(Items, type)[x] = IF acc[i].type = type THEN acc[i].parts ELSE <<>>
      /\ TypeMap(Items, "call")[x] = IF acc[i].type = "call" THEN <<x>> ELSE <<>>
  BY <1>3 DEF PartsMap, TypeMap
<1>9. i \in CalledOnes <=> acc[i].type = "call"
  BY <1>1 DEF CalledOnes, Called, SlotIsSound
<1>10. SaidMap(type)[i] = IF acc[i].type = type THEN acc[i].parts ELSE <<>>
  BY DEF SaidMap
<1>11. CASE BlockMap[i] = <<x>> /\ acc[i].type # "none"
  BY <1>2, <1>7, <1>8, <1>9, <1>10, <1>11
<1>12. CASE BlockMap[i] = <<>> /\ (acc[i].type = "none" \/ (acc[i].type = "text" /\ acc[i].parts = <<>>))
  BY <1>7, <1>9, <1>10, <1>12
<1>. QED
  BY <1>4, <1>11, <1>12

\* The texts of the message are the texts that were gathered, in order.
LEMMA AssembledSays ==
    ASSUME StreamTypeOK, Gathered, vendor \in {"openai", "anthropic", "google"}, NEW type \in {"text", "thinking"}
    PROVE  PartsOf(OfType(type, Assembled)) = Spread(SaidMap(type), AllBlocks)
<1>1. acc \in [Index -> Slots] /\ order \in Seq(Index)
  BY DEF StreamTypeOK
<1>2. \A y \in Items : y.parts \in Seq(Nat)
  BY EventTypes
<1>3. SaidMap(type) \in Maps(Index, Nat) /\ Spread(SaidMap(type), AllBlocks) \in Seq(Nat)
  BY <1>1, SaidIs
<1>4. CASE vendor = "anthropic"
  <2>1. Assembled = Spread(BlockMap, AllBlocks)
    BY <1>1, <1>4, AssembledType
  <2>2. BlockMap \in Maps(Index, Items) /\ AllBlocks \in Seq(Index)
    BY <1>1, BlocksAre, AllBlocksAre
  <2>3. Spread(BlockMap, AllBlocks) \in Seq(Items)
    BY <2>2, SpreadType
  <2>4. /\ PartsMap(Items, type) \in Maps(Items, Nat)
        /\ PartsOf(OfType(type, Spread(BlockMap, AllBlocks)))
              = Spread(PartsMap(Items, type), Spread(BlockMap, AllBlocks))
    BY <1>2, <2>3, PartsAreSpread
  <2>5. Spread(PartsMap(Items, type), Spread(BlockMap, AllBlocks))
           = Spread([i \in Index |-> Spread(PartsMap(Items, type), BlockMap[i])], AllBlocks)
    BY <2>2, <2>4, SpreadSpread
  <2>6. [i \in Index |-> Spread(PartsMap(Items, type), BlockMap[i])] = SaidMap(type)
    <3>1. \A i \in Index : Spread(PartsMap(Items, type), BlockMap[i]) = SaidMap(type)[i]
      BY <1>4, BlockParts
    <3>. QED
      BY <3>1 DEF SaidMap
  <2>. QED
    BY <2>1, <2>4, <2>5, <2>6
<1>5. CASE vendor # "anthropic"
  <2>1. /\ Assembled = (Joined("thinking") \o Joined("text")) \o CallItems
        /\ Joined("thinking") \in Seq(Items) /\ Joined("text") \in Seq(Items) /\ CallItems \in Seq(Items)
        /\ Joined("thinking") \o Joined("text") \in Seq(Items)
    BY <1>1, <1>5, AssembledType, ConcatProperties
  <2>2. \A x \in ToSet(CallItems) : x.type = "call"
    BY <1>5, CallItemsAll
  <2>3. PartsOf(OfType(type, CallItems)) = <<>>
    BY <2>1, <2>2, NoneOfType
  <2>4. /\ PartsOf(OfType(type, Joined("thinking")))
              = IF "thinking" = type THEN Spread(SaidMap("thinking"), AllBlocks) ELSE <<>>
        /\ PartsOf(OfType(type, Joined("text")))
              = IF "text" = type THEN Spread(SaidMap("text"), AllBlocks) ELSE <<>>
    BY <1>1, JoinedParts
  <2>5. /\ PartsOf(OfType(type, Joined("thinking") \o Joined("text")))
              = PartsOf(OfType(type, Joined("thinking"))) \o PartsOf(OfType(type, Joined("text")))
        /\ PartsOf(OfType(type, (Joined("thinking") \o Joined("text")) \o CallItems))
              = PartsOf(OfType(type, Joined("thinking") \o Joined("text"))) \o PartsOf(OfType(type, CallItems))
    BY <1>2, <2>1, PiecesConcat
  <2>6. \A s \in Seq(Nat) : s \o <<>> = s /\ <<>> \o s = s
    BY ConcatEmptySeq
  <2>. QED
    BY <1>3, <2>1, <2>3, <2>4, <2>5, <2>6
<1>. QED
  BY <1>4, <1>5

\* Its calls are the called ones.
LEMMA AssembledCounts ==
    ASSUME StreamTypeOK, Gathered, vendor \in {"openai", "anthropic", "google"}
    PROVE  Len(OfType("call", Assembled)) = Cardinality(CalledOnes)
<1>1. acc \in [Index -> Slots] /\ order \in Seq(Index)
  BY DEF StreamTypeOK
<1>2. CASE vendor = "anthropic"
  <2> DEFINE g == [i \in Index |-> IF i \in CalledOnes THEN <<Item(Kept(i))>> ELSE <<>>]
  <2>1. Assembled = Spread(BlockMap, AllBlocks)
    BY <1>1, <1>2, AssembledType
  <2>2. /\ BlockMap \in Maps(Index, Items) /\ AllBlocks \in Seq(Index) /\ ToSet(AllBlocks) = Index
        /\ \A m, n \in 1 .. Len(AllBlocks) : AllBlocks[m] = AllBlocks[n] => m = n
    BY <1>1, BlocksAre, AllBlocksAre
  <2>3. Spread(BlockMap, AllBlocks) \in Seq(Items)
    BY <2>2, SpreadType
  <2>4. /\ TypeMap(Items, "call") \in Maps(Items, Items)
        /\ OfType("call", Spread(BlockMap, AllBlocks))
              = Spread(TypeMap(Items, "call"), Spread(BlockMap, AllBlocks))
    BY <2>3, OfTypeIsSpread
  <2>5. Spread(TypeMap(Items, "call"), Spread(BlockMap, AllBlocks))
           = Spread([i \in Index |-> Spread(TypeMap(Items, "call"), BlockMap[i])], AllBlocks)
    BY <2>2, <2>4, SpreadSpread
  <2>6. [i \in Index |-> Spread(TypeMap(Items, "call"), BlockMap[i])] = g
    <3>1. \A i \in Index : Spread(TypeMap(Items, "call"), BlockMap[i])
                              = IF i \in CalledOnes THEN <<Item(Kept(i))>> ELSE <<>>
      BY <1>2, BlockParts
    <3>. QED
      BY <3>1
  <2>7. \A i \in Index : \/ i \in CalledOnes /\ g[i] = <<Item(Kept(i))>>
                         \/ i \notin CalledOnes /\ g[i] = <<>>
    OBVIOUS
  <2>8. (\A a : Len(<<a>>) = 1 /\ <<a>> # <<>>) /\ Len(<<>>) = 0
    OBVIOUS
  <2>9. g \in Maps(Index, Items)
    <3>1. \A i \in Index : Item(Kept(i)) \in Items
      BY <1>1, KeptIs, ItemTypes
    <3>2. \A i \in Index : (IF i \in CalledOnes THEN <<Item(Kept(i))>> ELSE <<>>) \in Seq(Items)
      BY <3>1
    <3>. QED
      BY <3>2 DEF Maps
  <2>. HIDE DEF g
  <2>10. ASSUME NEW i \in Index
         PROVE  Len(g[i]) <= 1
    <3>1. PICK l \in {0, 1} : l = Len(g[i])
      BY <2>7, <2>8
    <3>2. l <= 1
      OBVIOUS
    <3>. QED
      BY <3>1, <3>2
  <2>11. \A s \in Seq(Index) : (\A m, n \in 1 .. Len(s) : s[m] = s[n] => m = n) =>
            Len(Spread(g, s)) = Cardinality(Givers(g, s))
    BY <2>9, <2>10, SpreadCount
  <2>12. Len(Spread(g, AllBlocks)) = Cardinality(Givers(g, AllBlocks))
    BY <2>2, <2>11
  <2>13. Givers(g, AllBlocks) = CalledOnes
    <3>1. \A i \in Index : g[i] # <<>> <=> i \in CalledOnes
      BY <2>7, <2>8
    <3>. QED
      BY <2>2, <3>1 DEF Givers, CalledOnes
  <2>. QED
    BY <2>1, <2>4, <2>5, <2>6, <2>12, <2>13
<1>3. CASE vendor # "anthropic"
  <2>1. /\ Assembled = (Joined("thinking") \o Joined("text")) \o CallItems
        /\ Joined("thinking") \in Seq(Items) /\ Joined("text") \in Seq(Items) /\ CallItems \in Seq(Items)
        /\ Joined("thinking") \o Joined("text") \in Seq(Items)
    BY <1>1, <1>3, AssembledType, ConcatProperties
  <2>2. Len(CallItems) = Cardinality(CalledOnes) /\ \A x \in ToSet(CallItems) : x.type = "call"
    BY <1>3, CallItemsAll
  <2>3. OfType("call", CallItems) = CallItems
    BY <2>1, <2>2, AllOfType
  <2>4. OfType("call", Joined("thinking")) = <<>> /\ OfType("call", Joined("text")) = <<>>
    BY <1>1, JoinedParts
  <2>5. /\ OfType("call", Joined("thinking") \o Joined("text"))
              = OfType("call", Joined("thinking")) \o OfType("call", Joined("text"))
        /\ OfType("call", (Joined("thinking") \o Joined("text")) \o CallItems)
              = OfType("call", Joined("thinking") \o Joined("text")) \o OfType("call", CallItems)
    BY <2>1, OfTypeConcat
  <2>6. \A s \in Seq(Items) : s \o <<>> = s /\ <<>> \o s = s
    BY ConcatEmptySeq
  <2>7. <<>> \o <<>> = <<>>
    BY <2>1, <2>6
  <2>. QED
    BY <2>1, <2>2, <2>3, <2>4, <2>5, <2>6, <2>7
<1>. QED
  BY <1>2, <1>3

LEMMA CallsAssembled ==
    ASSUME StreamTypeOK, Gathered, vendor \in {"openai", "anthropic", "google"}, NEW i \in CalledOnes
    PROVE  Item(Kept(i)) \in ToSet(Assembled) /\ Item(Kept(i)).type = "call"
<1>1. acc \in [Index -> Slots] /\ order \in Seq(Index) /\ i \in Index /\ acc[i] \in Slots /\ acc[i].type = "call"
  BY DEF StreamTypeOK, CalledOnes, Called
<1>2. Item(Kept(i)).type = "call"
  BY <1>1, KeptIs, ItemTypes
<1>3. CASE vendor = "anthropic"
  <2>1. Assembled = Spread(BlockMap, AllBlocks)
    BY <1>1, <1>3, AssembledType
  <2>2. BlockMap \in Maps(Index, Items) /\ AllBlocks \in Seq(Index) /\ ToSet(AllBlocks) = Index
    BY <1>1, BlocksAre, AllBlocksAre
  <2>3. \A z : z \in ToSet(Spread(BlockMap, AllBlocks)) <=> \E j \in ToSet(AllBlocks) : z \in ToSet(BlockMap[j])
    BY <2>2, SpreadMembers
  <2>4. BlockMap[i] = <<Item(Kept(i))>>
    BY <1>1, <1>3 DEF BlockMap, Kept
  <2>5. Item(Kept(i)) \in ToSet(BlockMap[i])
    BY <2>4, SetOfOne
  <2>. QED
    BY <1>1, <1>2, <2>1, <2>2, <2>3, <2>5
<1>4. CASE vendor # "anthropic"
  <2>1. /\ Assembled = (Joined("thinking") \o Joined("text")) \o CallItems
        /\ Joined("thinking") \in Seq(Items) /\ Joined("text") \in Seq(Items) /\ CallItems \in Seq(Items)
    BY <1>1, <1>4, AssembledType
  <2>2. ToSet(Assembled) = (ToSet(Joined("thinking")) \cup ToSet(Joined("text"))) \cup ToSet(CallItems)
    BY <2>1, SetOfThree
  <2>3. Item(Kept(i)) \in ToSet(CallItems)
    BY <1>4, CallItemsAll DEF Kept
  <2>. QED
    BY <1>2, <2>2, <2>3
<1>. QED
  BY <1>3, <1>4
-----------------------------------------------------------------------------
(* What the callback has been told, when the message is returned.          *)

\* OpenAI's stops, and that it is done.
Closing == IF vendor = "openai" THEN Stops ELSE <<>>

LEMMA ClosingIs ==
    ASSUME StreamTypeOK, Gathered, vendor \in {"openai", "anthropic", "google"}
    PROVE  /\ Closing \in Seq(Events) /\ Ending \in Seq(Events) /\ Ending = Closing \o <<DoneEv>>
           /\ \A k \in 1 .. Len(Closing) : /\ Closing[k].type = "stop" /\ vendor = "openai"
                                           /\ k \in 1 .. Len(CallsMade) /\ Closing[k] = StopEv(CallsMade[k])
           /\ vendor = "openai" => Len(Closing) = Len(CallsMade)
           /\ \A e \in ToSet(Ending) : e.type \in {"stop", "done"}
<1>1. Stops \in Seq(Events) /\ Ending \in Seq(Events) /\ Ending = (IF vendor = "openai" THEN Stops ELSE <<>>) \o <<DoneEv>>
  BY AssembledType DEF StreamTypeOK
<1>2. Closing \in Seq(Events) /\ Ending = Closing \o <<DoneEv>> /\ <<DoneEv>> \in Seq(Events)
  BY <1>1, EventTypes, OneEvent, NoEvent DEF Closing
<1>3. vendor = "openai" => /\ Len(Closing) = Len(CallsMade)
                           /\ \A k \in 1 .. Len(CallsMade) : Closing[k] = StopEv(CallsMade[k])
  BY CallsAreCalled DEF Closing, Stops
<1>4. vendor # "openai" => Closing = <<>> /\ Len(<<>>) = 0
  BY DEF Closing
<1>5. \A k \in 1 .. Len(Closing) : /\ Closing[k].type = "stop" /\ vendor = "openai"
                                   /\ k \in 1 .. Len(CallsMade) /\ Closing[k] = StopEv(CallsMade[k])
  BY <1>3, <1>4, EventFields
<1>6. \A e \in ToSet(Ending) : e.type \in {"stop", "done"}
  <2>a. PICK d \in Seq(Events) : d = <<DoneEv>>
    BY <1>2
  <2>b. ToSet(Closing \o d) = ToSet(Closing) \cup ToSet(d)
    BY <1>2, SetOfConcat
  <2>c. ToSet(d) = {DoneEv}
    BY <2>a, SetOfOne
  <2>1. ToSet(Ending) = ToSet(Closing) \cup {DoneEv}
    BY <1>2, <2>a, <2>b, <2>c
  <2>2. \A e \in ToSet(Closing) : e.type = "stop"
    BY <1>2, <1>5, LenProperties DEF ToSet
  <2>. QED
    BY <2>1, <2>2, EventFields
<1>. QED
  BY <1>1, <1>2, <1>3, <1>5, <1>6

LEMMA Places ==
    ASSUME NEW S, NEW s \in Seq(S)
    PROVE  \A e : {p \in DOMAIN s : s[p] = e} = Where(s, e)
BY LenProperties DEF Where

\* It is done once, at the end.
LEMMA DoneOnce ==
    ASSUME NEW S, NEW s \in Seq(S), NEW e \in S, \A p \in 1 .. Len(s) : s[p] # e
    PROVE  Where(s \o <<e>>, e) = {Len(s \o <<e>>)}
<1>1. <<e>> \in Seq(S) /\ Len(<<e>>) = 1 /\ <<e>>[1] = e
  OBVIOUS
<1>2. PICK t \in Seq(S) : t = <<e>>
  BY <1>1
<1>3. /\ Len(s) \in Nat /\ Len(s \o t) = Len(s) + 1
      /\ \A p \in 1 .. Len(s) : (s \o t)[p] = s[p]
      /\ \A k \in 1 .. 1 : Len(s) + k \in 1 .. Len(s \o t) /\ (s \o t)[Len(s) + k] = t[k]
      /\ \A q \in 1 .. Len(s \o t) : q \in 1 .. Len(s) \/ \E k \in 1 .. 1 : q = Len(s) + k
  BY <1>1, <1>2, Positions
<1>4. 1 \in 1 .. 1 /\ \A k \in 1 .. 1 : k = 1
  OBVIOUS
<1>5. /\ Len(s) + 1 \in 1 .. Len(s \o t) /\ (s \o t)[Len(s) + 1] = e
      /\ \A q \in 1 .. Len(s \o t) : (s \o t)[q] = e => q = Len(s) + 1
  BY <1>1, <1>2, <1>3, <1>4
<1>. QED
  BY <1>2, <1>3, <1>5 DEF Where

\* The next step returns a message, and tells what is left of it.
Returns ==
    /\ vendor \in {"openai", "anthropic", "google"} /\ vendor' = vendor
    /\ events' = events \o Ending /\ message' = Assembled
    /\ acc' = acc /\ valid' = valid

LEMMA ReturnsAt ==
    ASSUME StreamTypeOK, StreamTypeOK', Gathered, Returns
    PROVE  /\ events \in Seq(Events) /\ Ending \in Seq(Events) /\ events' \in Seq(Events)
           /\ \A e : At(e)' = Where(events', e)
           /\ \A e : e.type \notin {"stop", "done"} => At(e)' = Where(events, e)
<1>1. /\ events \in Seq(Events) /\ Ending \in Seq(Events) /\ events' \in Seq(Events) /\ events' = events \o Ending
      /\ \A e \in ToSet(Ending) : e.type \in {"stop", "done"}
  BY ClosingIs DEF StreamTypeOK, Returns
<1>2. \A e : At(e)' = Where(events', e)
  BY <1>1, Places DEF At
<1>3. \A k \in 1 .. Len(Ending) : Ending[k] \in ToSet(Ending)
  BY <1>1, LenProperties DEF ToSet
<1>4. ASSUME NEW e, e.type \notin {"stop", "done"}
      PROVE  Where(events', e) = Where(events, e)
  <2>1. \A k \in 1 .. Len(Ending) : Ending[k] # e
    BY <1>1, <1>3, <1>4
  <2>. QED
    BY <1>1, <2>1, OldPlaces
<1>. QED
  BY <1>1, <1>2, <1>4

\* Nothing is left out.
LEMMA AllIsTold ==
    ASSUME NEW s \in Seq(Nat)
    PROVE  \E first \in 1..(Len(s) + 1), last \in 0..Len(s) :
              /\ s = SubSeq(s, first, last)
              /\ \A k \in DOMAIN s : ~(k < first \/ k > last)
<1>1. Len(s) \in Nat /\ DOMAIN s = 1 .. Len(s)
  BY LenProperties
<1>2. s = SubSeq(s, 1, Len(s))
  BY SubSeqFull
<1>3. 1 \in 1..(Len(s) + 1) /\ Len(s) \in 0..Len(s) /\ \A k \in 1 .. Len(s) : ~(k < 1 \/ k > Len(s))
  BY <1>1
<1>. QED
  BY <1>1, <1>2, <1>3

LEMMA ReturnsTexts ==
    ASSUME StreamTypeOK, Gathered, Heard, Returns
    PROVE  \A type \in {"text", "thinking"} : TextIsTold(type)'
<1>. SUFFICES ASSUME NEW type \in {"text", "thinking"}
              PROVE  TextIsTold(type)'
  OBVIOUS
<1>1. /\ events \in Seq(Events) /\ Ending \in Seq(Events) /\ events' = events \o Ending
      /\ \A e \in ToSet(Ending) : e.type \in {"stop", "done"}
  BY ClosingIs DEF StreamTypeOK, Returns
<1>2. Told(type)' = Told(type) \o PartsOf(OfType(type, Ending)) /\ Told(type) \in Seq(Nat)
  BY <1>1, ToldGrows
<1>3. PartsOf(OfType(type, Ending)) = <<>>
  BY <1>1, NoneOfType
<1>4. Told(type) = Spread(SaidMap(type), AllBlocks)
  BY DEF Heard, TextsAreTold
<1>5. PartsOf(OfType(type, Assembled)) = Spread(SaidMap(type), AllBlocks)
  BY AssembledSays DEF Returns
<1>6. PartsOf(Returned(type))' = PartsOf(OfType(type, Assembled))
  BY DEF Returned, Returns
<1>7. Told(type)' = PartsOf(Returned(type))' /\ Told(type)' \in Seq(Nat)
  BY <1>2, <1>3, <1>4, <1>5, <1>6, ConcatEmptySeq
<1>8. PICK s \in Seq(Nat) : s = Told(type)'
  BY <1>7
<1>9. \E first \in 1..(Len(s) + 1), last \in 0..Len(s) :
         /\ s = SubSeq(s, first, last)
         /\ \A k \in DOMAIN s : ~(k < first \/ k > last)
  BY AllIsTold
<1>. QED
  BY <1>7, <1>8, <1>9 DEF TextIsTold

LEMMA ReturnsInputs ==
    ASSUME StreamTypeOK, Gathered, Heard, Returns
    PROVE  (ToSet(Told("delta")) \ UNION {ToSet(acc[i].parts) : i \in Discarded})'
              = ToSet(PartsOf(Returned("call")))'
<1>1. /\ events \in Seq(Events) /\ Ending \in Seq(Events) /\ events' = events \o Ending
      /\ \A e \in ToSet(Ending) : e.type \in {"stop", "done"}
      /\ vendor \in {"openai", "anthropic", "google"} /\ Assembled \in Seq(Items)
      /\ \A x \in Events : x.parts \in Seq(Nat)
      /\ \A x \in Items : x.parts \in Seq(Nat)
  BY ClosingIs, AssembledType, EventTypes DEF StreamTypeOK, Returns
<1>2. ToSet(Told("delta"))' = ToSet(Told("delta"))
  <2>1. Told("delta")' = Told("delta") \o PartsOf(OfType("delta", Ending)) /\ Told("delta") \in Seq(Nat)
    BY <1>1, ToldGrows
  <2>2. PartsOf(OfType("delta", Ending)) = <<>>
    BY <1>1, NoneOfType
  <2>. QED
    BY <2>1, <2>2, ConcatEmptySeq
<1>3. ToSet(PartsOf(Returned("call")))' = ToSet(PartsOf(OfType("call", Assembled)))
  BY DEF Returned, Returns
<1>4. \A y : y \in ToSet(PartsOf(OfType("delta", events)))
                <=> \E e \in ToSet(events) : e.type = "delta" /\ y \in ToSet(e.parts)
  BY <1>1, PartsMembers
<1>5. \A y : y \in ToSet(PartsOf(OfType("call", Assembled)))
                <=> \E x \in ToSet(Assembled) : x.type = "call" /\ y \in ToSet(x.parts)
  BY <1>1, PartsMembers
<1>a. /\ acc' = acc /\ Discarded' = Discarded /\ acc \in [Index -> Slots]
      /\ \A i \in CalledOnes : i \in Discarded <=> vendor = "anthropic" /\ i \notin valid
      /\ Discarded \subseteq Index /\ (Discarded # {} => vendor = "anthropic")
  BY CalledIs DEF Returns, Discarded, StreamTypeOK
<1>6. \A i \in CalledOnes : /\ acc[i] \in Slots
                            /\ Item(Kept(i)).parts = IF i \in Discarded THEN <<>> ELSE acc[i].parts
  <2>1. \A i \in CalledOnes : i \in Index /\ acc[i] \in Slots /\ acc[i].type = "call"
    BY CalledIs
  <2>2. \A i \in CalledOnes : /\ Kept(i) \in Slots
                              /\ Kept(i).parts = IF i \in Discarded THEN <<>> ELSE acc[i].parts
    BY <1>a, <2>1, KeptIs
  <2>. QED
    BY <2>1, <2>2, ItemTypes
<1>7. \A x : x \in ToSet(Assembled) /\ x.type = "call" <=> \E i \in CalledOnes : x = Item(Kept(i))
  BY <1>1, AssembledCalls, CallsAssembled DEF CalledOnes
<1>8. \A p \in 1 .. Len(events) : events[p] \in ToSet(events)
  BY <1>1, LenProperties DEF ToSet
<1>9. \A e \in ToSet(events) : \E p \in 1 .. Len(events) : e = events[p]
  BY <1>1, LenProperties DEF ToSet
<1>10. ASSUME NEW y, NEW e \in ToSet(events), e.type = "delta", y \in ToSet(e.parts)
       PROVE  \E i \in CalledOnes : y \in ToSet(acc[i].parts)
  <2>1. PICK p \in 1 .. Len(events) : e = events[p]
    BY <1>9
  <2>2. PICK i \in CalledOnes : \E part \in ToSet(acc[i].parts) : e = DeltaEv(part)
    BY <1>10, <2>1 DEF Heard, CallsAreTold, DeltasHaveCalls
  <2>3. PICK part \in ToSet(acc[i].parts) : e = DeltaEv(part)
    BY <2>2
  <2>4. e.parts = <<part>> /\ ToSet(<<part>>) = {part}
    BY <2>3, EventFields, SetOfOne
  <2>5. y = part
    BY <1>10, <2>4
  <2>. QED
    BY <2>5
<1>11. ASSUME NEW i \in CalledOnes, NEW y \in ToSet(acc[i].parts)
       PROVE  \E e \in ToSet(events) : e.type = "delta" /\ y \in ToSet(e.parts)
  <2>1. Where(events, DeltaEv(y)) # {}
    BY DEF Heard, CallsAreTold, DeltasAreAll
  <2>2. PICK p \in 1 .. Len(events) : events[p] = DeltaEv(y)
    BY <2>1 DEF Where
  <2>3. events[p].type = "delta" /\ events[p].parts = <<y>> /\ ToSet(<<y>>) = {y}
    BY <2>2, EventFields, SetOfOne
  <2>4. y \in ToSet(events[p].parts)
    BY <2>3
  <2>. QED
    BY <1>8, <2>3, <2>4
<1>12. \A y : y \in ToSet(PartsOf(OfType("delta", events))) <=> \E i \in CalledOnes : y \in ToSet(acc[i].parts)
  BY <1>4, <1>10, <1>11
<1>13. \A y : y \in ToSet(PartsOf(OfType("call", Assembled)))
                <=> \E i \in CalledOnes \ Discarded : y \in ToSet(acc[i].parts)
  <2>1. \A i \in CalledOnes : \A y : y \in ToSet(Item(Kept(i)).parts) <=> i \notin Discarded /\ y \in ToSet(acc[i].parts)
    BY <1>6, SetOfOne
  <2>. QED
    BY <1>5, <1>7, <2>1
<1>14. \A i \in CalledOnes \ Discarded, j \in Discarded : ToSet(acc[i].parts) \cap ToSet(acc[j].parts) = {}
  <2>. SUFFICES ASSUME NEW i \in CalledOnes \ Discarded, NEW j \in Discarded
                PROVE  ToSet(acc[i].parts) \cap ToSet(acc[j].parts) = {}
    OBVIOUS
  <2>1. i # j /\ i \in Index /\ j \in Index /\ vendor # "cli"
    BY <1>1, <1>a, CalledIs
  <2>. QED
    BY <2>1 DEF Gathered, PartsAreOwn
<1>15. ToSet(PartsOf(OfType("delta", events))) \ UNION {ToSet(acc[i].parts) : i \in Discarded}
          = ToSet(PartsOf(OfType("call", Assembled)))
  BY <1>12, <1>13, <1>14
<1>16. (ToSet(Told("delta")) \ UNION {ToSet(acc[i].parts) : i \in Discarded})'
          = ToSet(Told("delta"))' \ UNION {ToSet(acc[i].parts) : i \in Discarded}
  BY <1>a
<1>. QED
  BY <1>2, <1>3, <1>15, <1>16 DEF Told, Given

LEMMA ReturnsStarts ==
    ASSUME StreamTypeOK, Gathered, Heard, Returns
    PROVE  Len(Given("start"))' = Len(Returned("call"))'
<1>1. /\ events \in Seq(Events) /\ Ending \in Seq(Events) /\ events' = events \o Ending
      /\ \A e \in ToSet(Ending) : e.type \in {"stop", "done"}
  BY ClosingIs DEF StreamTypeOK, Returns
<1>2. OfType("start", events \o Ending) = OfType("start", events) \o OfType("start", Ending)
  BY <1>1, OfTypeConcat
<1>3. OfType("start", Ending) = <<>> /\ OfType("start", events) \in Seq(Events)
  BY <1>1, NoneOfType, OfTypeType
<1>4. Given("start")' = Given("start")
  BY <1>1, <1>2, <1>3, ConcatEmptySeq DEF Given
<1>5. Len(Given("start")) = Cardinality(CalledOnes)
  BY DEF Heard, CallsAreTold, StartsAreCounted
<1>6. Len(OfType("call", Assembled)) = Cardinality(CalledOnes)
  BY AssembledCounts DEF Returns
<1>7. Returned("call")' = OfType("call", Assembled)
  BY DEF Returned, Returns
<1>. QED
  BY <1>4, <1>5, <1>6, <1>7

\* Where the stops of a call are, in the end.
LEMMA EndingPlaces ==
    ASSUME StreamTypeOK, Gathered, vendor \in {"openai", "anthropic", "google"}, NEW e, e.type # "done"
    PROVE  Where(Ending, e) = Where(Closing, e)
<1>1. Closing \in Seq(Events) /\ Ending = Closing \o <<DoneEv>> /\ <<DoneEv>> \in Seq(Events)
  BY ClosingIs, EventTypes, OneEvent
<1>2. PICK d \in Seq(Events) : d = <<DoneEv>>
  BY <1>1
<1>3. \A q : q \in Where(Closing \o d, e) <=> q \in Where(Closing, e) \/ \E k \in Where(d, e) : q = Len(Closing) + k
  BY <1>1, WhereConcat
<1>4. Where(d, e) = {}
  <2>1. \A k \in 1 .. Len(d) : d[k] = DoneEv
    BY <1>2
  <2>2. DoneEv # e
    BY EventFields
  <2>. QED
    BY <2>1, <2>2 DEF Where
<1>. QED
  BY <1>1, <1>2, <1>3, <1>4

LEMMA ClosingPlaces ==
    ASSUME StreamTypeOK, Gathered, vendor \in {"openai", "anthropic", "google"}, NEW i \in CalledOnes
    PROVE  /\ vendor # "openai" => Where(Closing, StopEv(acc[i])) = {}
           /\ vendor = "openai" => \E k \in 1 .. Len(Closing) : Where(Closing, StopEv(acc[i])) = {k}
<1>1. \A k \in 1 .. Len(Closing) : /\ vendor = "openai" /\ k \in 1 .. Len(CallsMade) /\ Closing[k] = StopEv(CallsMade[k])
  BY ClosingIs
<1>2. CASE vendor # "openai"
  BY <1>1, <1>2 DEF Where
<1>3. CASE vendor = "openai"
  <2>1. /\ CallsMade \in Seq(Slots)
        /\ \A a : a \in ToSet(CallsMade) <=> \E j \in CalledOnes : a = acc[j]
        /\ \A m, n \in 1 .. Len(CallsMade) : CallsMade[m] = CallsMade[n] => m = n
        /\ Len(Closing) = Len(CallsMade)
    BY <1>3, CallsAreCalled, ClosingIs
  <2>2. acc[i] \in ToSet(CallsMade)
    BY <2>1
  <2>3. PICK k \in 1 .. Len(CallsMade) : CallsMade[k] = acc[i]
    BY <2>1, <2>2, LenProperties DEF ToSet
  <2>4. ASSUME NEW n \in 1 .. Len(Closing), Closing[n] = StopEv(acc[i])
        PROVE  n = k
    <3>1. n \in 1 .. Len(CallsMade) /\ StopEv(CallsMade[n]) = StopEv(acc[i])
      BY <1>1, <2>4
    <3>2. CallsMade[n] \in ToSet(CallsMade)
      BY <2>1, <3>1, LenProperties DEF ToSet
    <3>3. PICK j \in CalledOnes : CallsMade[n] = acc[j]
      BY <2>1, <3>2
    <3>4. StopEv(acc[j]) = StopEv(acc[i])
      BY <3>1, <3>3
    <3>5. j = i
      BY <3>4, CalledApart
    <3>. QED
      BY <2>1, <2>3, <3>1, <3>3, <3>5
  <2>5. k \in 1 .. Len(Closing) /\ Closing[k] = StopEv(acc[i])
    BY <1>1, <2>1, <2>3
  <2>6. Where(Closing, StopEv(acc[i])) = {k}
    BY <2>4, <2>5 DEF Where
  <2>. QED
    BY <1>3, <2>5, <2>6
<1>. QED
  BY <1>2, <1>3

\* Of each of its calls one start, before its input, and a stop after.
LEMMA ReturnsEach ==
    ASSUME StreamTypeOK, StreamTypeOK', Gathered, Heard, Returns, NEW i \in CalledOnes, NEW call, call = Item(Kept(i))
    PROVE  /\ Cardinality(At(StartEv(call))') = 1
           /\ \A start \in At(StartEv(call))', part \in ToSet(call.parts) :
                 \A delta \in At(DeltaEv(part))' : start < delta
           /\ vendor # "anthropic" => Cardinality(At(StopEv(call))') = 1
           /\ \A stop \in At(StopEv(call))', part \in ToSet(call.parts) :
                 \A delta \in At(DeltaEv(part))' : delta < stop
<1>1. /\ events \in Seq(Events) /\ Ending \in Seq(Events) /\ events' = events \o Ending
      /\ \A e : At(e)' = Where(events', e)
      /\ \A e : e.type \notin {"stop", "done"} => At(e)' = Where(events, e)
      /\ vendor \in {"openai", "anthropic", "google"}
  BY ReturnsAt DEF Returns
<1>2. i \in Index /\ acc[i] \in Slots /\ acc[i].type = "call" /\ acc \in [Index -> Slots]
  BY CalledIs DEF StreamTypeOK
<1>a. /\ Kept(i) \in Slots /\ Kept(i).type = "call" /\ Kept(i).id = acc[i].id /\ Kept(i).name = acc[i].name
      /\ Kept(i).parts \in {<<>>, acc[i].parts}
  BY <1>2, KeptIs
<1>3. /\ call.id = acc[i].id /\ call.name = acc[i].name
      /\ \A part \in ToSet(call.parts) : part \in ToSet(acc[i].parts)
  <2>1. call.id = Kept(i).id /\ call.name = Kept(i).name /\ call.parts = Kept(i).parts
    BY <1>a, ItemTypes
  <2>. QED
    BY <1>a, <2>1, SetOfOne
<1>4. StartEv(call) = StartEv(acc[i]) /\ StopEv(call) = StopEv(acc[i])
  BY <1>3, EventFields
<1>5. /\ StartEv(acc[i]).type = "start" /\ StopEv(acc[i]).type = "stop"
      /\ \A part : DeltaEv(part).type = "delta"
  BY EventFields
<1>6. /\ At(StartEv(call))' = Where(events, StartEv(acc[i]))
      /\ \A part : At(DeltaEv(part))' = Where(events, DeltaEv(part))
      /\ At(StopEv(call))' = Where(events', StopEv(acc[i]))
  BY <1>1, <1>4, <1>5
<1>7. PICK p \in 1 .. Len(events) :
         /\ Where(events, StartEv(acc[i])) = {p}
         /\ \A part \in ToSet(acc[i].parts) : \A d \in Where(events, DeltaEv(part)) : p < d
  BY DEF Heard, CallsAreTold, StartsComeFirst
<1>8. \A x : Cardinality({x}) = 1
  BY FS_Singleton
<1>9. /\ Len(events) \in Nat
      /\ \A q : q \in Where(events', StopEv(acc[i]))
            <=> q \in Where(events, StopEv(acc[i])) \/ \E k \in Where(Ending, StopEv(acc[i])) : q = Len(events) + k
      /\ \A e : Where(events, e) \subseteq 1 .. Len(events)
  BY <1>1, NewPlace
<1>10. Where(Ending, StopEv(acc[i])) = Where(Closing, StopEv(acc[i]))
  BY <1>1, <1>5, EndingPlaces
<1>11. vendor # "anthropic" => Cardinality(At(StopEv(call))') = 1
  <2>1. CASE vendor = "openai"
    <3>1. Where(events, StopEv(acc[i])) = {}
      BY <1>5, <2>1 DEF Heard, CallsAreTold, StopsComeLast, Where
    <3>2. PICK k \in 1 .. Len(Closing) : Where(Closing, StopEv(acc[i])) = {k}
      BY <1>1, <2>1, ClosingPlaces
    <3>3. Where(events', StopEv(acc[i])) = {Len(events) + k}
      BY <1>9, <1>10, <3>1, <3>2
    <3>. QED
      BY <1>6, <1>8, <3>3
  <2>2. CASE vendor = "google"
    <3>1. PICK n \in 1 .. Len(events) : Where(events, StopEv(acc[i])) = {n}
      BY <2>2 DEF Heard, CallsAreTold, GoogleStops
    <3>2. Where(Closing, StopEv(acc[i])) = {}
      BY <1>1, <2>2, ClosingPlaces
    <3>3. Where(events', StopEv(acc[i])) = {n}
      BY <1>9, <1>10, <3>1, <3>2
    <3>. QED
      BY <1>6, <1>8, <3>3
  <2>. QED
    BY <1>1, <2>1, <2>2
<1>12. ASSUME NEW stop \in Where(events', StopEv(acc[i])), NEW part \in ToSet(acc[i].parts),
              NEW delta \in Where(events, DeltaEv(part))
       PROVE  delta < stop
  <2>1. CASE stop \in Where(events, StopEv(acc[i]))
    <3>1. stop \in 1 .. Len(events) /\ events[stop] = StopEv(acc[i])
      BY <2>1 DEF Where
    <3>2. PICK j \in CalledOnes :
             /\ events[stop] = StopEv(acc[j])
             /\ \A q \in ToSet(acc[j].parts) : \A d \in Where(events, DeltaEv(q)) : d < stop
      BY <1>5, <3>1 DEF Heard, CallsAreTold, StopsComeLast
    <3>3. j = i
      BY <3>1, <3>2, CalledApart
    <3>. QED
      BY <3>2, <3>3
  <2>2. CASE \E k \in Where(Ending, StopEv(acc[i])) : stop = Len(events) + k
    <3>1. PICK k \in Where(Ending, StopEv(acc[i])) : stop = Len(events) + k
      BY <2>2
    <3>2. k \in 1 .. Len(Ending) /\ Len(Ending) \in Nat
      BY <1>1 DEF Where
    <3>3. delta \in 1 .. Len(events)
      BY <1>9
    <3>. QED
      BY <1>9, <3>1, <3>2, <3>3
  <2>. QED
    BY <1>9, <2>1, <2>2
<1>13. Cardinality(At(StartEv(call))') = 1
  BY <1>6, <1>7, <1>8
<1>14. \A start \in At(StartEv(call))', part \in ToSet(call.parts) :
          \A delta \in At(DeltaEv(part))' : start < delta
  BY <1>3, <1>6, <1>7
<1>15. \A stop \in At(StopEv(call))', part \in ToSet(call.parts) :
          \A delta \in At(DeltaEv(part))' : delta < stop
  BY <1>3, <1>6, <1>12
<1>. QED
  BY <1>11, <1>13, <1>14, <1>15

LEMMA EventsInTurn == \A a, b, c \in Seq(Events) : (a \o b) \o c = a \o (b \o c)
BY ConcatAssociative

LEMMA ReturnsDone ==
    ASSUME StreamTypeOK, StreamTypeOK', Gathered, Heard, Returns
    PROVE  At(DoneEv)' = {Len(events')}
<1>1. /\ events \in Seq(Events) /\ events' = events \o Ending /\ vendor \in {"openai", "anthropic", "google"}
      /\ At(DoneEv)' = Where(events', DoneEv)
  BY ReturnsAt DEF Returns
<1>2. /\ Closing \in Seq(Events) /\ Ending = Closing \o <<DoneEv>>
      /\ \A k \in 1 .. Len(Closing) : Closing[k].type = "stop"
      /\ DoneEv \in Events /\ <<DoneEv>> \in Seq(Events) /\ DoneEv.type = "done"
  BY <1>1, ClosingIs, EventTypes, OneEvent, EventFields
<1>3. PICK s \in Seq(Events) : s = events \o Closing
  BY <1>1, <1>2, ConcatProperties
<1>4. \A p \in 1 .. Len(s) : s[p] # DoneEv
  <2>1. /\ \A p \in 1 .. Len(events) : (events \o Closing)[p] = events[p]
        /\ \A k \in 1 .. Len(Closing) : (events \o Closing)[Len(events) + k] = Closing[k]
        /\ \A q \in 1 .. Len(events \o Closing) :
              q \in 1 .. Len(events) \/ \E k \in 1 .. Len(Closing) : q = Len(events) + k
    BY <1>1, <1>2, Positions
  <2>2. \A p \in 1 .. Len(events) : events[p].type # "done"
    BY DEF Heard, NotDone
  <2>. QED
    BY <1>2, <1>3, <2>1, <2>2
<1>5. Where(s \o <<DoneEv>>, DoneEv) = {Len(s \o <<DoneEv>>)}
  BY <1>2, <1>4, DoneOnce
<1>6. (events \o Closing) \o <<DoneEv>> = events \o (Closing \o <<DoneEv>>)
  BY <1>1, <1>2, EventsInTurn
<1>. QED
  BY <1>1, <1>2, <1>3, <1>5, <1>6

LEMMA ReturnsAndTells ==
    ASSUME StreamTypeOK, StreamTypeOK', Gathered, Heard, Returns
    PROVE  StreamTellsTheMessage'
<1>1. vendor \in {"openai", "anthropic", "google"} /\ vendor' = vendor
  BY DEF Returns
<1>2. Returned("call")' = OfType("call", Assembled) /\ Assembled \in Seq(Items)
  BY AssembledType DEF Returned, Returns, StreamTypeOK
<1>3. \A call \in ToSet(Returned("call"))' :
         /\ Cardinality(At(StartEv(call)))' = 1
         /\ \A start \in At(StartEv(call))', part \in ToSet(call.parts) :
               \A delta \in At(DeltaEv(part))' : start < delta
         /\ vendor # "anthropic" => Cardinality(At(StopEv(call)))' = 1
         /\ \A stop \in At(StopEv(call))', part \in ToSet(call.parts) :
               \A delta \in At(DeltaEv(part))' : delta < stop
  <2>1. ASSUME NEW call \in ToSet(Returned("call"))'
        PROVE  \E i \in CalledOnes : call = Item(Kept(i))
    <3>1. call \in ToSet(Assembled) /\ call.type = "call"
      BY <1>2, OfTypeMembers
    <3>. QED
      BY <1>1, <3>1, AssembledCalls DEF CalledOnes
  <2>. QED
    BY <2>1, ReturnsEach
<1>. QED
  BY <1>1, <1>3, ReturnsTexts, ReturnsInputs, ReturnsStarts, ReturnsDone DEF StreamTellsTheMessage

\* A CLI says it all in texts, and ends with what it held back.
CliReturns ==
    /\ vendor = "cli" /\ vendor' = vendor
    /\ events' = events \o CliLast /\ message' = <<TextItem("text", Trimmed(CliSaid))>>

LEMMA CliLastIs ==
    ASSUME StreamTypeOK
    PROVE  /\ CliLast \in Seq(Events)
           /\ \E rest \in Seq(Events) :
                 /\ CliLast = rest \o <<DoneEv>> /\ Len(rest) <= 1
                 /\ rest = (IF order # <<>> THEN <<TextEv("text", order)>> ELSE <<>>)
                 /\ \A k \in 1 .. Len(rest) : rest[k].type = "text"
           /\ \A type \in {"text", "thinking"} :
                 PartsOf(OfType(type, CliLast)) = IF type = "text" THEN order ELSE <<>>
<1> DEFINE r == IF order # <<>> THEN <<TextEv("text", order)>> ELSE <<>>
<1>1. order \in Seq(Nat)
  BY DEF StreamTypeOK
<1>2. PICK e \in Events : e = TextEv("text", order)
  BY <1>1, EventTypes
<1>3. e.type = "text" /\ e.parts = order
  BY <1>2, EventFields
<1>4. <<e>> \in Seq(Events) /\ Len(<<e>>) = 1 /\ <<e>>[1] = e /\ <<>> \in Seq(Events) /\ Len(<<>>) = 0
  OBVIOUS
<1>5. \/ order # <<>> /\ r = <<e>>
      \/ order = <<>> /\ r = <<>>
  BY <1>2
<1>6. CliLast = r \o <<DoneEv>>
  BY DEF CliLast
<1>. HIDE DEF r
<1>7. /\ r \in Seq(Events)
      /\ Len(r) \in {0, 1}
      /\ \A k \in 1 .. Len(r) : r[k].type = "text"
  <2>1. CASE r = <<e>>
    <3>1. \A k \in 1 .. 1 : k = 1
      OBVIOUS
    <3>. QED
      BY <1>3, <1>4, <2>1, <3>1
  <2>2. CASE r = <<>>
    BY <1>4, <2>2
  <2>. QED
    BY <1>5, <2>1, <2>2
<1>8. DoneEv \in Events /\ <<DoneEv>> \in Seq(Events) /\ DoneEv.type = "done" /\ DoneEv.parts = <<>>
  BY EventTypes, EventFields, OneEvent
<1>9. CliLast \in Seq(Events)
  BY <1>6, <1>7, <1>8, ConcatProperties
<1>10. ASSUME NEW type \in {"text", "thinking"}
       PROVE  PartsOf(OfType(type, CliLast)) = IF type = "text" THEN order ELSE <<>>
  <2>1. \A x \in Events : x.parts \in Seq(Nat)
    BY EventTypes
  <2>2. /\ PartsOf(OfType(type, r \o <<DoneEv>>)) = PartsOf(OfType(type, r)) \o PartsOf(OfType(type, <<DoneEv>>))
        /\ PartsOf(OfType(type, r)) \in Seq(Nat)
    BY <1>7, <1>8, <2>1, PiecesConcat
  <2>3. PartsOf(OfType(type, <<DoneEv>>)) = <<>>
    BY <1>8, <2>1, PartsOne
  <2>4. PartsOf(OfType(type, <<e>>)) = IF type = "text" THEN order ELSE <<>>
    BY <1>1, <1>3, PartsOne
  <2>5. PartsOf(OfType(type, r)) = IF type = "text" THEN order ELSE <<>>
    BY <1>5, <2>4, PiecesOfNothing
  <2>. QED
    BY <1>6, <2>2, <2>3, <2>5, ConcatEmptySeq
<1>11. Len(r) <= 1
  <2>1. PICK l \in {0, 1} : l = Len(r)
    BY <1>7
  <2>2. l <= 1
    OBVIOUS
  <2>. QED
    BY <2>1, <2>2
<1>12. r = (IF order # <<>> THEN <<TextEv("text", order)>> ELSE <<>>)
  BY DEF r
<1>. QED
  BY <1>6, <1>7, <1>9, <1>10, <1>11, <1>12

LEMMA CliSaidType ==
    ASSUME StreamTypeOK
    PROVE  CliSaid \in Seq(Nat)
<1>1. acc \in [Index -> Slots] /\ order \in Seq(Nat)
  BY DEF StreamTypeOK
<1>2. \A i \in Index : acc[i].parts \in Seq(Nat)
  BY <1>1, SlotFields
<1>3. [i \in Index |-> acc[i].parts] \in Maps(Index, Nat)
  BY <1>2 DEF Maps
<1>4. PICK h \in Maps(Index, Nat) : h = [i \in Index |-> acc[i].parts]
  BY <1>3
<1>5. FlattenSeq(h) = Spread(h, AllBlocks) /\ Spread(h, AllBlocks) \in Seq(Nat)
  BY FlattenBlocks, SpreadType, AllBlocksAre
<1>. QED
  BY <1>1, <1>4, <1>5, ConcatProperties DEF CliSaid

LEMMA CliReturnsTexts ==
    ASSUME StreamTypeOK, Gathered, Heard, CliReturns
    PROVE  \A type \in {"text", "thinking"} : TextIsTold(type)'
<1>1. /\ events \in Seq(Events) /\ CliLast \in Seq(Events) /\ events' = events \o CliLast
      /\ acc \in [Index -> Slots] /\ order \in Seq(Nat) /\ vendor = "cli"
  BY CliLastIs DEF StreamTypeOK, CliReturns
<1>2. /\ AllBlocks \in Seq(Index) /\ ToSet(AllBlocks) = Index
      /\ SaidMap("text") \in Maps(Index, Nat) /\ SaidMap("thinking") \in Maps(Index, Nat)
      /\ Spread(SaidMap("text"), AllBlocks) \in Seq(Nat)
  BY <1>1, AllBlocksAre, SaidIs
<1>3. \A i \in Index : acc[i].type \in {"none", "text"} /\ (acc[i].type = "none" => acc[i].parts = <<>>)
  BY <1>1, BlockOf DEF SlotIsSound
<1>4. Spread(SaidMap("thinking"), AllBlocks) = <<>>
  <2>1. \A i \in ToSet(AllBlocks) : SaidMap("thinking")[i] = <<>>
    BY <1>2, <1>3 DEF SaidMap
  <2>. QED
    BY <1>2, <2>1, SpreadEmpty
<1>5. CliSaid = Spread(SaidMap("text"), AllBlocks) \o order
  <2>1. [i \in Index |-> acc[i].parts] = SaidMap("text")
    <3>1. \A i \in Index : acc[i].parts = IF acc[i].type = "text" THEN acc[i].parts ELSE <<>>
      BY <1>3
    <3>. QED
      BY <3>1 DEF SaidMap
  <2>2. FlattenSeq(SaidMap("text")) = Spread(SaidMap("text"), AllBlocks)
    BY <1>2, FlattenBlocks
  <2>. QED
    BY <2>1, <2>2 DEF CliSaid
<1>6. CliSaid \in Seq(Nat)
  BY <1>1, <1>2, <1>5, ConcatProperties
<1>a. PICK said \in Seq(Nat) : said = CliSaid
  BY <1>6
<1>b. /\ Trimmed(said) \in Seq(Nat)
      /\ \E first \in 1..(Len(said) + 1), last \in 0..Len(said) :
            /\ Trimmed(said) = SubSeq(said, first, last)
            /\ \A k \in DOMAIN said : k < first \/ k > last => Blank(said[k])
  BY TrimmedIs
<1>7. PICK x \in Items : x = TextItem("text", Trimmed(said))
  BY <1>b, ItemTypes
<1>8. x.type = "text" /\ x.parts = Trimmed(said)
  BY <1>7, <1>b, ItemTypes
<1>9. ASSUME NEW type \in {"text", "thinking"}
      PROVE  TextIsTold(type)'
  <2>1. Told(type)' = Told(type) \o PartsOf(OfType(type, CliLast))
    BY <1>1, ToldGrows
  <2>2. PartsOf(OfType(type, CliLast)) = IF type = "text" THEN order ELSE <<>>
    BY CliLastIs
  <2>3. Told(type) = Spread(SaidMap(type), AllBlocks)
    BY DEF Heard, TextsAreTold
  <2>4. PartsOf(OfType(type, <<x>>)) = IF x.type = type THEN x.parts ELSE <<>>
    BY <1>8, <1>b, PartsOne
  <2>5. PartsOf(Returned(type))' = PartsOf(OfType(type, <<x>>))
    BY <1>7, <1>a DEF Returned, CliReturns
  <2>6. <<>> \o <<>> = <<>>
    OBVIOUS
  <2>7. CASE type = "text"
    <3>1. Told(type)' = said /\ PartsOf(Returned(type))' = Trimmed(said) /\ vendor' = "cli"
      BY <1>1, <1>5, <1>8, <1>a, <2>1, <2>2, <2>3, <2>4, <2>5, <2>7 DEF CliReturns
    <3>. QED
      BY <1>b, <3>1 DEF TextIsTold, Blank
  <2>8. CASE type = "thinking"
    <3>1. Told(type)' = <<>> /\ PartsOf(Returned(type))' = <<>>
      BY <1>4, <1>8, <2>1, <2>2, <2>3, <2>4, <2>5, <2>6, <2>8
    <3>2. <<>> \in Seq(Nat)
      OBVIOUS
    <3>3. PICK s \in Seq(Nat) : s = Told(type)'
      BY <3>1, <3>2
    <3>4. \E first \in 1..(Len(s) + 1), last \in 0..Len(s) :
             /\ s = SubSeq(s, first, last)
             /\ \A k \in DOMAIN s : ~(k < first \/ k > last)
      BY AllIsTold
    <3>. QED
      BY <3>1, <3>3, <3>4 DEF TextIsTold
  <2>. QED
    BY <2>7, <2>8
<1>. QED
  BY <1>9

LEMMA CliReturnsAndTells ==
    ASSUME StreamTypeOK, StreamTypeOK', Gathered, Heard, CliReturns
    PROVE  StreamTellsTheMessage'
<1>1. /\ events \in Seq(Events) /\ events' \in Seq(Events) /\ events' = events \o CliLast
      /\ vendor = "cli" /\ vendor' = vendor
  BY DEF StreamTypeOK, CliReturns
<1>2. PICK rest \in Seq(Events) :
         CliLast = rest \o <<DoneEv>> /\ Len(rest) <= 1 /\ \A k \in 1 .. Len(rest) : rest[k].type = "text"
  BY CliLastIs
<1>3. DoneEv \in Events /\ <<DoneEv>> \in Seq(Events) /\ DoneEv.type = "done"
  BY EventTypes, EventFields, OneEvent
<1>4. PICK s \in Seq(Events) : s = events \o rest
  BY <1>1, <1>2, ConcatProperties
<1>5. /\ Len(events) \in Nat /\ Len(rest) \in Nat /\ Len(s) = Len(events) + Len(rest)
      /\ \A p \in 1 .. Len(events) : s[p] = events[p] /\ p \in 1 .. Len(s)
      /\ \A q \in 1 .. Len(s) : q \in 1 .. Len(events) \/ \E k \in 1 .. Len(rest) : q = Len(events) + k
      /\ \A k \in 1 .. Len(rest) : s[Len(events) + k] = rest[k]
  <2>1. /\ Len(events) \in Nat /\ Len(rest) \in Nat /\ Len(events \o rest) = Len(events) + Len(rest)
        /\ \A p \in 1 .. Len(events) : p \in 1 .. Len(events \o rest) /\ (events \o rest)[p] = events[p]
        /\ \A k \in 1 .. Len(rest) :
              Len(events) + k \in 1 .. Len(events \o rest) /\ (events \o rest)[Len(events) + k] = rest[k]
        /\ \A q \in 1 .. Len(events \o rest) :
              \/ q \in 1 .. Len(events)
              \/ \E k \in 1 .. Len(rest) : q = Len(events) + k
    BY <1>1, <1>2, Positions
  <2>. QED
    BY ONLY <1>4, <2>1
<1>6. /\ \A p \in 1 .. Len(events) : events[p].type = "text" /\ ~Inside(Last(events[p].parts))
      /\ \A p \in 1 .. Len(s) : s[p].type = "text"
  <2>1. \A p \in 1 .. Len(events) : events[p].type = "text" /\ ~Inside(Last(events[p].parts))
    BY <1>1 DEF Heard, NotDone
  <2>2. \A p \in 1 .. Len(s) : s[p].type = "text"
    <3>. SUFFICES ASSUME NEW q \in 1 .. Len(s)
                  PROVE  s[q].type = "text"
      OBVIOUS
    <3>1. CASE q \in 1 .. Len(events)
      BY <1>5, <2>1, <3>1
    <3>2. CASE \E k \in 1 .. Len(rest) : q = Len(events) + k
      <4>1. PICK k \in 1 .. Len(rest) : q = Len(events) + k
        BY <3>2
      <4>2. s[q] = rest[k]
        BY <1>5, <4>1
      <4>. QED
        BY <1>2, <4>2
    <3>. QED
      BY <1>5, <3>1, <3>2
  <2>. QED
    BY <2>1, <2>2
<1>7. events' = s \o <<DoneEv>>
  <2>1. PICK d \in Seq(Events) : d = <<DoneEv>>
    BY <1>3
  <2>a. PICK a \in Seq(Events) : a = events
    BY <1>1
  <2>b. PICK b \in Seq(Events) : b = rest
    OBVIOUS
  <2>c. (a \o b) \o d = a \o (b \o d)
    BY EventsInTurn
  <2>2. (events \o rest) \o d = events \o (rest \o d)
    BY <2>a, <2>b, <2>c
  <2>. QED
    BY <1>1, <1>2, <1>4, <2>1, <2>2
<1>8. PICK d \in Seq(Events) : d = <<DoneEv>>
  BY <1>3
<1>9. /\ Len(events') = Len(s) + 1 /\ Len(s) \in Nat
      /\ \A p \in 1 .. Len(s) : events'[p] = s[p]
  <2>1. Len(d) = 1
    BY <1>8
  <2>2. /\ Len(s \o d) = Len(s) + Len(d) /\ Len(s) \in Nat
        /\ \A p \in 1 .. Len(s) : (s \o d)[p] = s[p]
    BY Positions
  <2>. QED
    BY <1>7, <1>8, <2>1, <2>2
<1>10. \A e \in ToSet(events') : e.type \in {"text", "done"}
  <2>1. ToSet(s \o d) = ToSet(s) \cup ToSet(d)
    BY SetOfConcat
  <2>2. ToSet(d) = {DoneEv}
    BY <1>8, SetOfOne
  <2>3. \A e \in ToSet(s) : e.type = "text"
    BY <1>6, LenProperties DEF ToSet
  <2>. QED
    BY <1>3, <1>7, <1>8, <2>1, <2>2, <2>3
<1>11. Returned("call")' = <<>> /\ PartsOf(<<>>) = <<>> /\ ToSet(<<>>) = {} /\ Len(<<>>) = 0
  <2>1. Trimmed(CliSaid) \in Seq(Nat)
    BY <1>1, CliSaidType, TrimmedIs
  <2>2. TextItem("text", Trimmed(CliSaid)).type = "text"
    BY <2>1, ItemTypes
  <2>3. OfType("call", <<TextItem("text", Trimmed(CliSaid))>>) = <<>>
    BY <2>2, OfTypeOne
  <2>. QED
    BY <2>3, SetOfOne, PiecesOfNothing, OfTypeNothing DEF Returned, CliReturns
<1>12. Given("start")' = <<>> /\ Told("delta")' = <<>>
  <2>1. \A e \in ToSet(events') : e.type # "start" /\ e.type # "delta"
    BY <1>10
  <2>2. OfType("start", events') = <<>> /\ PartsOf(OfType("delta", events')) = <<>>
    BY <1>1, <2>1, NoneOfType
  <2>. QED
    BY <2>2 DEF Given, Told
<1>13. At(DoneEv)' = {Len(events')}
  <2>1. At(DoneEv)' = Where(events', DoneEv)
    BY <1>1, Places DEF At
  <2>2. \A p \in 1 .. Len(s) : s[p] # DoneEv
    BY <1>3, <1>6
  <2>3. Where(s \o <<DoneEv>>, DoneEv) = {Len(s \o <<DoneEv>>)}
    BY <1>3, <2>2, DoneOnce
  <2>. QED
    BY <1>7, <2>1, <2>3
<1>14. \A p \in 1 .. (Len(events') - 2) : ~Inside(Last(events'[p].parts))
  <2>. SUFFICES ASSUME NEW p \in 1 .. (Len(events') - 2)
                PROVE  ~Inside(Last(events'[p].parts))
    OBVIOUS
  <2>1. p \in 1 .. Len(events)
    BY <1>2, <1>5, <1>9
  <2>2. events'[p] = events[p]
    BY <1>5, <1>9, <2>1
  <2>. QED
    BY <1>6, <2>1, <2>2
<1>15. \A type \in {"text", "thinking"} : TextIsTold(type)'
  BY CliReturnsTexts
<1>16. /\ (ToSet(Told("delta")) \ UNION {ToSet(acc[i].parts) : i \in Discarded})' = ToSet(PartsOf(Returned("call")))'
       /\ Len(Given("start"))' = Len(Returned("call"))'
       /\ ToSet(Returned("call"))' = {}
  BY <1>11, <1>12
<1>17. (vendor = "cli" => \A p \in 1 .. (Len(events) - 2) : ~Inside(Last(events[p].parts)))'
  BY <1>14 DEF Inside
<1>. QED
  BY <1>13, <1>15, <1>16, <1>17 DEF StreamTellsTheMessage

LEMMA TellsKeeps ==
    ASSUME StreamTypeOK, Unborn, StreamTypeOK', Gathered, over = "open" => Heard,
           StreamTellsTheMessage, [StreamNext]_streamVars
    PROVE  StreamTellsTheMessage'
<1>. SUFFICES ASSUME over' = "ok"
              PROVE  StreamTellsTheMessage'
  BY DEF StreamTellsTheMessage
<1>1. CASE StreamEnds /\ over = "open"
  <2>1. Returns
    BY <1>1, StreamEndsDoes DEF Returns
  <2>. QED
    BY <1>1, <2>1, ReturnsAndTells
<1>2. CASE CliEnds /\ over = "open"
  <2>1. CliReturns
    BY <1>2, CliEndsDoes DEF CliReturns
  <2>. QED
    BY <1>2, <2>1, CliReturnsAndTells
<1>3. CASE ~(StreamEnds /\ over = "open") /\ ~(CliEnds /\ over = "open")
  <2>1. over = "ok" /\ UNCHANGED streamVars
    BY <1>3, OverStays
  <2>2. events' = events /\ message' = message /\ vendor' = vendor /\ acc' = acc /\ valid' = valid
    BY <2>1 DEF streamVars
  <2>3. \A type : Told(type)' = Told(type) /\ Given(type)' = Given(type) /\ Returned(type)' = Returned(type)
    BY <2>2 DEF Told, Given, Returned
  <2>4. \A e : At(e)' = At(e)
    BY <2>2 DEF At
  <2>5. Discarded' = Discarded /\ \A type : TextIsTold(type)' <=> TextIsTold(type)
    BY <2>2, <2>3 DEF Discarded, TextIsTold, Blank
  <2>. QED
    BY <2>1, <2>2, <2>3, <2>4, <2>5 DEF StreamTellsTheMessage
<1>. QED
  BY <1>1, <1>2, <1>3

\* What goes to the callback, and what is returned in the end, say the same, but for
\* the white space around a CLI's output and Anthropic's inputs that are not JSON.
THEOREM StreamSaysTheSame == StreamSpec => []StreamTellsTheMessage
<1> DEFINE I == /\ StreamTypeOK /\ Unborn /\ Gathered
                /\ over = "open" => Heard
                /\ StreamTellsTheMessage
<1>1. StreamInit => I
  <2>. SUFFICES ASSUME StreamInit PROVE I
    OBVIOUS
  <2>1. StreamTypeOK /\ Unborn
    BY StreamInitInv
  <2>2. Gathered
    BY <2>1, NothingIsSound DEF StreamInit
  <2>3. Heard
    BY NothingHeard DEF StreamInit
  <2>4. StreamTellsTheMessage
    BY DEF StreamInit, StreamTellsTheMessage
  <2>. QED
    BY <2>1, <2>2, <2>3, <2>4
<1>2. I /\ [StreamNext]_streamVars => I'
  <2>. SUFFICES ASSUME I, [StreamNext]_streamVars
                PROVE  I'
    OBVIOUS
  <2>1. StreamTypeOK' /\ Unborn'
    BY StreamTypesKeep
  <2>2. Gathered'
    BY <2>1, GatheredKeeps
  <2>3. (over = "open" => Heard)'
    BY <2>1, <2>2, HeardKeeps
  <2>4. StreamTellsTheMessage'
    BY <2>1, TellsKeeps
  <2>. QED
    BY <2>1, <2>2, <2>3, <2>4
<1>3. I => StreamTellsTheMessage
  OBVIOUS
<1>. QED
  BY <1>1, <1>2, <1>3, PTL DEF StreamSpec
-----------------------------------------------------------------------------
(* SseScanner: what a flattened function is, and the lines of a stream.    *)

Chars == Bytes \ {"LF", "CR"}
SseLines == Seq(Chars)
SseEvents == [data : Seq(SseLines), type : SseLines]

LEMMA FlattenNext ==
    ASSUME NEW T, NEW n \in Nat, NEW f \in Maps(1 .. n + 1, T), NEW g \in Maps(1 .. n, T),
           \A k \in 1 .. n : g[k] = f[k]
    PROVE  /\ FlattenSeq(g) \in Seq(T)
           /\ FlattenSeq(f) = FlattenSeq(g) \o f[n + 1]
<1>1. f \in [1 .. n + 1 -> Seq(T)] /\ g \in [1 .. n -> Seq(T)]
  BY DEF Maps
<1>2. f[n + 1] \in Seq(T) /\ g \in Seq(Seq(T))
  BY <1>1
<1>3. f = Append([k \in 1 .. n |-> f[k]], f[n + 1])
  BY <1>1, FunctionAppend
<1>4. g = [k \in 1 .. n |-> f[k]]
  BY <1>1
<1>5. f = Append(g, f[n + 1])
  BY <1>3, <1>4
<1>6. FlattenSeq(Append(g, f[n + 1])) = FlattenSeq(g) \o f[n + 1]
  BY <1>2, FlattenAppend
<1>7. FlattenSeq(g) \in Seq(T)
  BY <1>2, FlattenType
<1>. QED
  BY <1>5, <1>6, <1>7

LEMMA FlattenOfNothing ==
    ASSUME NEW n \in Nat, NEW f, f = [k \in 1 .. n |-> <<>>]
    PROVE  FlattenSeq(f) = <<>>
<1>1. <<>> \in Seq({})
  OBVIOUS
<1>2. f \in Seq(Seq({})) /\ Len(f) = n /\ \A k \in 1 .. n : f[k] = <<>>
  BY <1>1
<1>3. FlattenSeq(f) \in Seq({})
  BY <1>2, FlattenType
<1>4. ToSet(FlattenSeq(f)) = UNION {ToSet(f[k]) : k \in 1 .. Len(f)}
  BY <1>2, FlattenMembers
<1>5. \A k \in 1 .. n : ToSet(f[k]) = {}
  BY <1>2 DEF ToSet
<1>6. ToSet(FlattenSeq(f)) = {}
  BY <1>2, <1>4, <1>5
<1>. QED
  BY <1>3, <1>6, NoMembers

\* The pieces of the line ahead of place p.
LinePieces(s, p) ==
    [q \in 1 .. (p - 1) |->
        IF s[q] \notin {"LF", "CR"} /\ LineEnds(s) \cap (q .. (p - 1)) = {} THEN <<s[q]>> ELSE <<>>]

LEMMA LinePiecesType ==
    ASSUME NEW s \in Seq(Bytes), NEW p \in 1 .. Len(s) + 1
    PROVE  /\ p - 1 \in Nat
           /\ LinePieces(s, p) \in Maps(1 .. (p - 1), Chars)
           /\ LineBefore(s, p) = FlattenSeq(LinePieces(s, p))
           /\ LineBefore(s, p) \in SseLines
<1>1. \A q \in 1 .. (p - 1) : s[q] \notin {"LF", "CR"} => s[q] \in Chars
  <2>1. \A q \in 1 .. (p - 1) : q \in 1 .. Len(s)
    OBVIOUS
  <2>. QED
    BY <2>1, ElementOfSeq DEF Chars
<1>2. \A c \in Chars : <<c>> \in Seq(Chars)
  OBVIOUS
<1>3. <<>> \in Seq(Chars)
  OBVIOUS
<1>4. LinePieces(s, p) \in [1 .. (p - 1) -> Seq(Chars)]
  BY <1>1, <1>2, <1>3 DEF LinePieces
<1>5. LineBefore(s, p) = FlattenSeq(LinePieces(s, p))
  BY DEF LineBefore, LinePieces
<1>6. p - 1 \in Nat
  OBVIOUS
<1>7. LinePieces(s, p) \in Seq(Seq(Chars))
  BY <1>4, <1>6
<1>. QED
  BY <1>4, <1>5, <1>6, <1>7, FlattenType DEF Maps, SseLines

\* A line is over after an end; any byte but the return ahead of its line feed
\* is one more of it.
LEMMA LineAfter ==
    ASSUME NEW s \in Seq(Bytes), NEW p \in 1 .. Len(s)
    PROVE  /\ p \in LineEnds(s) => LineBefore(s, p + 1) = <<>>
           /\ p \notin LineEnds(s) /\ s[p] \in Chars => LineBefore(s, p + 1) = Append(LineBefore(s, p), s[p])
           /\ p \notin LineEnds(s) /\ s[p] \notin Chars => LineBefore(s, p + 1) = LineBefore(s, p)
<1> DEFINE E == LineEnds(s)
           f == LinePieces(s, p + 1)
           g == LinePieces(s, p)
<1>1. /\ p \in Nat /\ (p + 1) - 1 = p /\ (p - 1) + 1 = p /\ p - 1 \in Nat
      /\ p \in 1 .. Len(s) + 1 /\ p + 1 \in 1 .. Len(s) + 1
  OBVIOUS
<1>2. /\ f = [q \in 1 .. p |-> IF s[q] \notin {"LF", "CR"} /\ E \cap (q .. p) = {} THEN <<s[q]>> ELSE <<>>]
      /\ LineBefore(s, p + 1) = FlattenSeq(f) /\ f \in Maps(1 .. p, Chars)
  BY <1>1, LinePiecesType DEF LinePieces
<1>3. /\ g = [q \in 1 .. (p - 1) |->
                IF s[q] \notin {"LF", "CR"} /\ E \cap (q .. (p - 1)) = {} THEN <<s[q]>> ELSE <<>>]
      /\ LineBefore(s, p) = FlattenSeq(g) /\ g \in Maps(1 .. (p - 1), Chars)
      /\ LineBefore(s, p) \in SseLines
  BY <1>1, LinePiecesType DEF LinePieces
<1>. HIDE DEF E, f, g
<1>4. ASSUME p \in E
      PROVE  LineBefore(s, p + 1) = <<>>
  <2>1. \A q \in 1 .. p : E \cap (q .. p) # {}
    <3>1. \A q \in 1 .. p : p \in q .. p
      BY <1>1
    <3>. QED
      BY <1>4, <3>1
  <2>2. f = [q \in 1 .. p |-> <<>>]
    BY <1>2, <2>1
  <2>. QED
    BY <1>1, <1>2, <2>2, FlattenOfNothing
<1>5. ASSUME p \notin E
      PROVE  FlattenSeq(f) = FlattenSeq(g) \o f[p]
  <2>1. \A q \in 1 .. (p - 1) : q \in 1 .. p /\ q .. p = (q .. (p - 1)) \cup {p}
    BY <1>1
  <2>2. \A q \in 1 .. (p - 1) : E \cap (q .. p) = E \cap (q .. (p - 1))
    BY <1>5, <2>1
  <2>3. \A q \in 1 .. (p - 1) : g[q] = f[q]
    BY <1>2, <1>3, <2>1, <2>2
  <2>4. PICK n \in Nat : n = p - 1
    BY <1>1
  <2>5. n + 1 = p
    BY <1>1, <2>4
  <2>6. f \in Maps(1 .. n + 1, Chars) /\ g \in Maps(1 .. n, Chars) /\ \A k \in 1 .. n : g[k] = f[k]
    BY <1>2, <1>3, <2>3, <2>4, <2>5
  <2>7. FlattenSeq(f) = FlattenSeq(g) \o f[n + 1]
    BY <2>6, FlattenNext
  <2>. QED
    BY <2>5, <2>7
<1>6. ASSUME p \notin E
      PROVE  f[p] = IF s[p] \in Chars THEN <<s[p]>> ELSE <<>>
  <2>1. p \in 1 .. p /\ p .. p = {p}
    BY <1>1
  <2>2. E \cap (p .. p) = {}
    BY <1>6, <2>1
  <2>3. s[p] \in Bytes
    BY ElementOfSeq
  <2>. QED
    BY <1>2, <2>1, <2>2, <2>3 DEF Chars
<1>7. ASSUME p \notin E, s[p] \in Chars
      PROVE  LineBefore(s, p + 1) = Append(LineBefore(s, p), s[p])
  <2>1. LineBefore(s, p + 1) = LineBefore(s, p) \o <<s[p]>>
    BY <1>2, <1>3, <1>5, <1>6, <1>7
  <2>2. LineBefore(s, p) \in Seq(Chars)
    BY <1>3 DEF SseLines
  <2>3. Append(LineBefore(s, p), s[p]) = LineBefore(s, p) \o <<s[p]>>
    BY <1>7, <2>2, AppendIsConcat
  <2>. QED
    BY <2>1, <2>3
<1>8. ASSUME p \notin E, s[p] \notin Chars
      PROVE  LineBefore(s, p + 1) = LineBefore(s, p)
  BY <1>2, <1>3, <1>5, <1>6, <1>8, ConcatEmptySeq DEF SseLines
<1>. QED
  BY <1>4, <1>7, <1>8 DEF E

-----------------------------------------------------------------------------
(* The lines of a stream, up to a place of it.                             *)

LinesUpto(s, n) ==
    FlattenSeq([p \in 1 .. n |-> IF p \in LineEnds(s) \cup {Len(s) + 1} THEN <<LineBefore(s, p)>> ELSE <<>>])

LEMMA LinesNext ==
    ASSUME NEW s \in Seq(Bytes), NEW n \in 0 .. Len(s)
    PROVE  /\ LinesUpto(s, n) \in Seq(SseLines)
           /\ LinesUpto(s, n + 1) =
                LinesUpto(s, n) \o
                (IF n + 1 \in LineEnds(s) \cup {Len(s) + 1} THEN <<LineBefore(s, n + 1)>> ELSE <<>>)
           /\ LinesUpto(s, n + 1) \in Seq(SseLines)
<1> DEFINE E == LineEnds(s) \cup {Len(s) + 1}
           f == [p \in 1 .. n + 1 |-> IF p \in E THEN <<LineBefore(s, p)>> ELSE <<>>]
           g == [p \in 1 .. n |-> IF p \in E THEN <<LineBefore(s, p)>> ELSE <<>>]
<1>1. n \in Nat /\ n + 1 \in 1 .. n + 1 /\ \A p \in 1 .. n : p \in 1 .. n + 1
  OBVIOUS
<1>2. LinesUpto(s, n + 1) = FlattenSeq(f) /\ LinesUpto(s, n) = FlattenSeq(g)
  BY DEF LinesUpto
<1>3. \A p \in 1 .. n + 1 : LineBefore(s, p) \in SseLines
  <2>1. \A p \in 1 .. n + 1 : p \in 1 .. Len(s) + 1
    OBVIOUS
  <2>. QED
    BY <2>1, LinePiecesType
<1>4. \A l \in SseLines : <<l>> \in Seq(SseLines)
  OBVIOUS
<1>5. <<>> \in Seq(SseLines)
  OBVIOUS
<1>. HIDE DEF E
<1>6. f \in Maps(1 .. n + 1, SseLines) /\ g \in Maps(1 .. n, SseLines)
  BY <1>1, <1>3, <1>4, <1>5 DEF Maps
<1>7. (\A k \in 1 .. n : g[k] = f[k]) /\ f[n + 1] = IF n + 1 \in E THEN <<LineBefore(s, n + 1)>> ELSE <<>>
  BY <1>1
<1>8. f[n + 1] \in Seq(SseLines)
  BY <1>1, <1>6 DEF Maps
<1>. HIDE DEF f, g
<1>9. FlattenSeq(g) \in Seq(SseLines) /\ FlattenSeq(f) = FlattenSeq(g) \o f[n + 1]
  BY <1>1, <1>6, <1>7, FlattenNext
<1>10. FlattenSeq(g) \o f[n + 1] \in Seq(SseLines)
  BY <1>8, <1>9, ConcatProperties
<1>. QED
  BY <1>2, <1>7, <1>9, <1>10 DEF E

LEMMA NoLines == ASSUME NEW s PROVE LinesUpto(s, 0) = <<>>
<1>1. [p \in 1 .. 0 |-> IF p \in LineEnds(s) \cup {Len(s) + 1} THEN <<LineBefore(s, p)>> ELSE <<>>]
        = [p \in 1 .. 0 |-> <<>>]
  OBVIOUS
<1>. QED
  BY <1>1, FlattenOfNothing DEF LinesUpto

LEMMA LinesInTurn == \A a, b, c \in Seq(SseLines) : (a \o b) \o c = a \o (b \o c)
BY ConcatAssociative

\* All the lines are those up to a place and some more.
LEMMA LinesGrow ==
    ASSUME NEW s \in Seq(Bytes), NEW n \in 0 .. Len(s)
    PROVE  \E u \in Seq(SseLines) : Lines(s) = LinesUpto(s, n) \o u
<1> DEFINE T == Seq(SseLines)
           G == {m \in Nat : n + m <= Len(s) + 1 => \E u \in T : LinesUpto(s, n + m) = LinesUpto(s, n) \o u}
<1>1. 0 \in G
  <2>1. LinesUpto(s, n) \o <<>> = LinesUpto(s, n) /\ <<>> \in T
    BY LinesNext, ConcatEmptySeq
  <2>2. n + 0 = n
    OBVIOUS
  <2>. QED
    BY <2>1, <2>2
<1>2. ASSUME NEW m \in Nat, m \in G
      PROVE  m + 1 \in G
  <2>. SUFFICES ASSUME n + (m + 1) <= Len(s) + 1
                PROVE  \E u \in T : LinesUpto(s, n + (m + 1)) = LinesUpto(s, n) \o u
    OBVIOUS
  <2>1. n + m \in 0 .. Len(s) /\ n + (m + 1) = (n + m) + 1 /\ n + m <= Len(s) + 1
    OBVIOUS
  <2>2. PICK u \in T : LinesUpto(s, n + m) = LinesUpto(s, n) \o u
    BY <1>2, <2>1
  <2> DEFINE t == IF (n + m) + 1 \in LineEnds(s) \cup {Len(s) + 1} THEN <<LineBefore(s, (n + m) + 1)>> ELSE <<>>
  <2>3. LinesUpto(s, (n + m) + 1) = LinesUpto(s, n + m) \o t
    BY <2>1, LinesNext
  <2>4. t \in T
    <3>1. (n + m) + 1 \in 1 .. Len(s) + 1
      BY <2>1
    <3>2. LineBefore(s, (n + m) + 1) \in SseLines
      BY <3>1, LinePiecesType
    <3>3. <<LineBefore(s, (n + m) + 1)>> \in T
      BY <3>2
    <3>4. <<>> \in T
      OBVIOUS
    <3>. QED
      BY <3>3, <3>4
  <2>. HIDE DEF t
  <2>5. LinesUpto(s, n) \in T
    BY LinesNext
  <2>6. (LinesUpto(s, n) \o u) \o t = LinesUpto(s, n) \o (u \o t)
    <3>. HIDE DEF G
    <3>. QED
      BY <2>2, <2>4, <2>5, LinesInTurn
  <2>7. u \o t \in T
    BY <2>2, <2>4, ConcatProperties
  <2>. QED
    BY <2>1, <2>2, <2>3, <2>6, <2>7
<1>. HIDE DEF G
<1>3. Nat \subseteq G
  BY <1>1, <1>2, NumbersByInduction
<1>4. PICK m \in Nat : n + m = Len(s) + 1
  <2>1. (Len(s) + 1) - n \in Nat /\ n + ((Len(s) + 1) - n) = Len(s) + 1
    OBVIOUS
  <2>. QED
    BY <2>1
<1>5. Lines(s) = LinesUpto(s, Len(s) + 1)
  BY DEF Lines, LinesUpto
<1>6. n + m <= Len(s) + 1
  BY <1>4
<1>7. \E u \in T : LinesUpto(s, n + m) = LinesUpto(s, n) \o u
  <2>1. m \in G
    BY <1>3
  <2>. HIDE DEF T
  <2>. QED
    BY ONLY <1>6, <2>1 DEF G
<1>. QED
  BY <1>4, <1>5, <1>7

\* The end of the line that is ahead of place n + 1: a line feed, a carriage
\* return, or the two of them.
LEMMA LineOver ==
    ASSUME NEW s \in Seq(Bytes), NEW n \in 0 .. Len(s), n < Len(s), NEW m,
           \/ s[n + 1] = "LF" /\ m = n + 1
           \/ /\ s[n + 1] = "CR"
              /\ m = IF n + 1 < Len(s) /\ s[(n + 1) + 1] = "LF" THEN (n + 1) + 1 ELSE n + 1
    PROVE  /\ m \in 0 .. Len(s)
           /\ LinesUpto(s, m) = Append(LinesUpto(s, n), LineBefore(s, n + 1))
           /\ LineBefore(s, m + 1) = <<>>
<1>1. n + 1 \in 1 .. Len(s) /\ n + 1 \in 0 .. Len(s) /\ n + 1 \in 1 .. Len(s) + 1 /\ n + 1 # Len(s) + 1
  OBVIOUS
<1>2. DOMAIN s = 1 .. Len(s)
  BY LenProperties
<1>3. LineEnds(s) = {p \in 1 .. Len(s) : s[p] = "LF" \/ (s[p] = "CR" /\ (p = Len(s) \/ s[p + 1] # "LF"))}
  BY <1>2 DEF LineEnds
<1>4. LinesUpto(s, n) \in Seq(SseLines) /\ LineBefore(s, n + 1) \in SseLines
  BY <1>1, LinesNext, LinePiecesType
<1>5. Append(LinesUpto(s, n), LineBefore(s, n + 1)) = LinesUpto(s, n) \o <<LineBefore(s, n + 1)>>
  BY <1>4, AppendIsConcat
<1>6. CASE n + 1 \in LineEnds(s)
  <2>1. m = n + 1
    BY <1>1, <1>3, <1>6
  <2>2. LinesUpto(s, n + 1) = LinesUpto(s, n) \o <<LineBefore(s, n + 1)>>
    BY <1>6, LinesNext
  <2>3. LineBefore(s, (n + 1) + 1) = <<>>
    BY <1>1, <1>6, LineAfter
  <2>. QED
    BY <1>1, <1>5, <2>1, <2>2, <2>3
<1>7. CASE n + 1 \notin LineEnds(s)
  <2>1. s[n + 1] = "CR" /\ n + 1 < Len(s) /\ s[(n + 1) + 1] = "LF" /\ m = (n + 1) + 1
    BY <1>1, <1>3, <1>7
  <2>2. (n + 1) + 1 \in 1 .. Len(s) /\ m \in 0 .. Len(s)
    BY <2>1
  <2>3. (n + 1) + 1 \in LineEnds(s)
    BY <1>3, <2>1, <2>2
  <2>4. LinesUpto(s, n + 1) = LinesUpto(s, n)
    <3>1. LinesUpto(s, n + 1) = LinesUpto(s, n) \o <<>>
      BY <1>1, <1>7, LinesNext
    <3>. QED
      BY <1>4, <3>1, ConcatEmptySeq
  <2>5. LineBefore(s, (n + 1) + 1) = LineBefore(s, n + 1)
    BY <1>1, <1>7, <2>1, LineAfter DEF Chars
  <2>6. LinesUpto(s, (n + 1) + 1) = LinesUpto(s, n + 1) \o <<LineBefore(s, (n + 1) + 1)>>
    BY <1>1, <2>3, LinesNext
  <2>7. LineBefore(s, ((n + 1) + 1) + 1) = <<>>
    BY <2>2, <2>3, LineAfter
  <2>. QED
    BY <1>5, <2>1, <2>2, <2>4, <2>5, <2>6, <2>7
<1>. QED
  BY <1>6, <1>7

-----------------------------------------------------------------------------
(* The events of lines: what one more line makes of them.                  *)

\* What has been gathered after all of the lines, and the event it makes.
OpenFields(lines, name) == Fields(lines, Len(lines) + 1, name)
EventAfter(lines) == [data |-> OpenFields(lines, "data"), type |-> LastOf(OpenFields(lines, "event"))]
Dispatched(lines) == IF OpenFields(lines, "data") # <<>> THEN <<EventAfter(lines)>> ELSE <<>>

\* The pieces of the fields ahead of line k, and those of the events.
FieldPieces(lines, k, name) ==
    [j \in 1 .. (k - 1) |->
        IF lines[j] # <<>> /\ lines[j][1] = name /\ (\A m \in j .. (k - 1) : lines[m] # <<>>)
        THEN <<lines[j]>> ELSE <<>>]
DispatchPieces(lines) ==
    [k \in 1 .. Len(lines) |->
        IF lines[k] = <<>> /\ Fields(lines, k, "data") # <<>> THEN <<EventBefore(lines, k)>> ELSE <<>>]

LEMMA FieldPiecesType ==
    ASSUME NEW s \in Seq(SseLines), NEW k \in 1 .. Len(s) + 1, NEW name
    PROVE  /\ k - 1 \in Nat
           /\ FieldPieces(s, k, name) \in Maps(1 .. (k - 1), SseLines)
           /\ Fields(s, k, name) = FlattenSeq(FieldPieces(s, k, name))
           /\ Fields(s, k, name) \in Seq(SseLines)
<1>1. \A j \in 1 .. (k - 1) : s[j] \in SseLines
  <2>1. \A j \in 1 .. (k - 1) : j \in 1 .. Len(s)
    OBVIOUS
  <2>. QED
    BY <2>1, ElementOfSeq
<1>2. \A l \in SseLines : <<l>> \in Seq(SseLines)
  OBVIOUS
<1>3. <<>> \in Seq(SseLines)
  OBVIOUS
<1>4. FieldPieces(s, k, name) \in [1 .. (k - 1) -> Seq(SseLines)]
  BY <1>1, <1>2, <1>3 DEF FieldPieces
<1>5. Fields(s, k, name) = FlattenSeq(FieldPieces(s, k, name))
  BY DEF Fields, FieldPieces
<1>6. k - 1 \in Nat
  OBVIOUS
<1>7. FieldPieces(s, k, name) \in Seq(Seq(SseLines))
  BY <1>4, <1>6
<1>. QED
  BY <1>4, <1>5, <1>6, <1>7, FlattenType DEF Maps

LEMMA LastOfType ==
    ASSUME NEW s \in Seq(SseLines)
    PROVE  LastOf(s) \in SseLines
<1>1. <<>> \in SseLines
  BY DEF SseLines
<1>2. s # <<>> => Len(s) \in 1 .. Len(s)
  BY EmptySeq, LenProperties
<1>3. s # <<>> => s[Len(s)] \in SseLines
  BY <1>2, ElementOfSeq
<1>. QED
  BY <1>1, <1>3 DEF LastOf, Last

LEMMA LastOfOneMore ==
    ASSUME NEW s \in Seq(SseLines), NEW l \in SseLines
    PROVE  LastOf(s \o <<l>>) = l
<1>1. /\ s \o <<l>> = Append(s, l)
  BY AppendIsConcat
<1>2. Append(s, l) \in Seq(SseLines) /\ Len(Append(s, l)) = Len(s) + 1 /\ Append(s, l)[Len(s) + 1] = l
  BY AppendProperties
<1>3. Append(s, l) # <<>>
  BY <1>2, EmptySeq, LenProperties
<1>. QED
  BY <1>1, <1>2, <1>3 DEF LastOf, Last

LEMMA EventBeforeType ==
    ASSUME NEW s \in Seq(SseLines), NEW k \in 1 .. Len(s) + 1
    PROVE  EventBefore(s, k) \in SseEvents
<1>1. Fields(s, k, "data") \in Seq(SseLines) /\ Fields(s, k, "event") \in Seq(SseLines)
  BY FieldPiecesType
<1>2. LastOf(Fields(s, k, "event")) \in SseLines
  BY <1>1, LastOfType
<1>. QED
  BY <1>1, <1>2 DEF EventBefore, SseEvents

\* One more line leaves what was gathered ahead of the others as it was.
LEMMA FieldsBefore ==
    ASSUME NEW s \in Seq(SseLines), NEW l \in SseLines, NEW k \in 1 .. Len(s) + 1, NEW name
    PROVE  Fields(Append(s, l), k, name) = Fields(s, k, name)
<1>1. \A j \in 1 .. (k - 1) : Append(s, l)[j] = s[j]
  <2>1. \A j \in 1 .. (k - 1) : j \in 1 .. Len(s)
    OBVIOUS
  <2>. QED
    BY <2>1, AppendProperties
<1>2. \A j \in 1 .. (k - 1) : \A m \in j .. (k - 1) : m \in 1 .. (k - 1)
  OBVIOUS
<1>3. \A j \in 1 .. (k - 1) :
        (\A m \in j .. (k - 1) : Append(s, l)[m] # <<>>) <=> (\A m \in j .. (k - 1) : s[m] # <<>>)
  BY <1>1, <1>2
<1>4. FieldPieces(Append(s, l), k, name) = FieldPieces(s, k, name)
  BY <1>1, <1>3 DEF FieldPieces
<1>. QED
  BY <1>4 DEF Fields, FieldPieces

\* An empty line ends what was gathered; any other may add a field to it.
LEMMA FieldsAfter ==
    ASSUME NEW s \in Seq(SseLines), NEW l \in SseLines, NEW name
    PROVE  OpenFields(Append(s, l), name) =
             IF l = <<>> THEN <<>>
             ELSE IF l[1] = name THEN OpenFields(s, name) \o <<l>> ELSE OpenFields(s, name)
<1> DEFINE n == Len(s)
           r == Append(s, l)
           f == FieldPieces(r, n + 2, name)
           g == FieldPieces(s, n + 1, name)
<1>1. /\ r \in Seq(SseLines) /\ Len(r) = n + 1 /\ n \in Nat /\ r[n + 1] = l
      /\ \A j \in 1 .. n : r[j] = s[j]
  BY AppendProperties, LenProperties
<1>2. /\ n + 2 \in 1 .. Len(r) + 1 /\ n + 1 \in 1 .. Len(s) + 1
      /\ (n + 2) - 1 = n + 1 /\ (n + 1) - 1 = n /\ (n + 1) + 1 = n + 2
  BY <1>1
<1>3. OpenFields(r, name) = FlattenSeq(f) /\ f \in Maps(1 .. n + 1, SseLines)
  BY <1>1, <1>2, FieldPiecesType DEF OpenFields
<1>4. OpenFields(s, name) = FlattenSeq(g) /\ g \in Maps(1 .. n, SseLines) /\ OpenFields(s, name) \in Seq(SseLines)
  BY <1>1, <1>2, FieldPiecesType DEF OpenFields
<1>5. f = [j \in 1 .. n + 1 |->
             IF r[j] # <<>> /\ r[j][1] = name /\ (\A m \in j .. n + 1 : r[m] # <<>>) THEN <<r[j]>> ELSE <<>>]
  BY <1>2 DEF FieldPieces
<1>6. g = [j \in 1 .. n |->
             IF s[j] # <<>> /\ s[j][1] = name /\ (\A m \in j .. n : s[m] # <<>>) THEN <<s[j]>> ELSE <<>>]
  BY <1>2 DEF FieldPieces
<1>. HIDE DEF f, g, r, n
<1>7. CASE l = <<>>
  <2>1. \A j \in 1 .. n + 1 : n + 1 \in j .. n + 1
    BY <1>1
  <2>2. \A j \in 1 .. n + 1 : ~(\A m \in j .. n + 1 : r[m] # <<>>)
    BY <1>1, <1>7, <2>1
  <2>3. f = [j \in 1 .. n + 1 |-> <<>>]
    BY <1>5, <2>2
  <2>4. n + 1 \in Nat
    BY <1>1
  <2>5. FlattenSeq(f) = <<>>
    BY <2>3, <2>4, FlattenOfNothing
  <2>. QED
    BY <1>3, <1>7, <2>5 DEF r
<1>8. CASE l # <<>>
  <2>1. \A j \in 1 .. n : j \in 1 .. n + 1 /\ j .. n + 1 = (j .. n) \cup {n + 1} /\ \A m \in j .. n : m \in 1 .. n
    BY <1>1
  <2>2. \A j \in 1 .. n : (\A m \in j .. n + 1 : r[m] # <<>>) <=> (\A m \in j .. n : s[m] # <<>>)
    BY <1>1, <1>8, <2>1
  <2>3. \A j \in 1 .. n : g[j] = f[j]
    BY <1>1, <1>5, <1>6, <2>1, <2>2
  <2>4. FlattenSeq(f) = FlattenSeq(g) \o f[n + 1]
    BY <1>1, <1>3, <1>4, <2>3, FlattenNext
  <2>5. f[n + 1] = IF l[1] = name THEN <<l>> ELSE <<>>
    <3>1. n + 1 \in 1 .. n + 1 /\ (n + 1) .. (n + 1) = {n + 1}
      BY <1>1
    <3>2. \A m \in (n + 1) .. (n + 1) : r[m] # <<>>
      BY <1>1, <1>8, <3>1
    <3>. QED
      BY <1>1, <1>5, <1>8, <3>1, <3>2
  <2>6. OpenFields(s, name) \o <<>> = OpenFields(s, name)
    BY <1>4, ConcatEmptySeq
  <2>. QED
    BY <1>3, <1>4, <1>8, <2>4, <2>5, <2>6 DEF r
<1>. QED
  BY <1>7, <1>8

LEMMA EventsAfter ==
    ASSUME NEW s \in Seq(SseLines), NEW l \in SseLines
    PROVE  /\ EventsOf(s) \in Seq(SseEvents)
           /\ EventAfter(s) \in SseEvents
           /\ EventsOf(Append(s, l)) = EventsOf(s) \o (IF l = <<>> THEN Dispatched(s) ELSE <<>>)
<1> DEFINE n == Len(s)
           r == Append(s, l)
           f == DispatchPieces(r)
           g == DispatchPieces(s)
<1>1. /\ r \in Seq(SseLines) /\ Len(r) = n + 1 /\ n \in Nat /\ r[n + 1] = l
      /\ \A j \in 1 .. n : r[j] = s[j]
  BY AppendProperties, LenProperties
<1>2. n + 1 \in 1 .. Len(s) + 1 /\ \A k \in 1 .. n : k \in 1 .. Len(s) + 1 /\ k \in 1 .. n + 1
  BY <1>1
<1>3. EventsOf(r) = FlattenSeq(f) /\ EventsOf(s) = FlattenSeq(g)
  BY DEF EventsOf, DispatchPieces
<1>4. \A k \in 1 .. n + 1 : /\ Fields(r, k, "data") = Fields(s, k, "data")
                            /\ EventBefore(r, k) = EventBefore(s, k) /\ EventBefore(s, k) \in SseEvents
  <2>. SUFFICES ASSUME NEW k \in 1 .. n + 1
                PROVE  /\ Fields(r, k, "data") = Fields(s, k, "data")
                       /\ EventBefore(r, k) = EventBefore(s, k) /\ EventBefore(s, k) \in SseEvents
    OBVIOUS
  <2>1. k \in 1 .. Len(s) + 1
    OBVIOUS
  <2>2. \A name : Fields(r, k, name) = Fields(s, k, name)
    BY <2>1, FieldsBefore
  <2>3. EventBefore(s, k) \in SseEvents
    BY <2>1, EventBeforeType
  <2>. HIDE DEF r
  <2>. QED
    BY <2>2, <2>3 DEF EventBefore
<1>5. /\ f = [k \in 1 .. n + 1 |->
                IF r[k] = <<>> /\ Fields(r, k, "data") # <<>> THEN <<EventBefore(r, k)>> ELSE <<>>]
      /\ g = [k \in 1 .. n |-> IF s[k] = <<>> /\ Fields(s, k, "data") # <<>> THEN <<EventBefore(s, k)>> ELSE <<>>]
  BY <1>1 DEF DispatchPieces
<1>6. OpenFields(s, "data") = Fields(s, n + 1, "data") /\ EventAfter(s) = EventBefore(s, n + 1)
  BY DEF OpenFields, EventAfter, EventBefore
<1>7. EventAfter(s) \in SseEvents
  BY <1>2, <1>4, <1>6
<1>8. \A e \in SseEvents : <<e>> \in Seq(SseEvents)
  OBVIOUS
<1>9. <<>> \in Seq(SseEvents)
  OBVIOUS
<1>. HIDE DEF f, g, r, n
<1>10. f \in Maps(1 .. n + 1, SseEvents)
  BY <1>4, <1>5, <1>8, <1>9 DEF Maps
<1>11. g \in Maps(1 .. n, SseEvents)
  BY <1>2, <1>4, <1>5, <1>8, <1>9 DEF Maps
<1>12. \A k \in 1 .. n : g[k] = f[k]
  BY <1>1, <1>2, <1>4, <1>5
<1>13. FlattenSeq(g) \in Seq(SseEvents) /\ FlattenSeq(f) = FlattenSeq(g) \o f[n + 1]
  BY <1>1, <1>10, <1>11, <1>12, FlattenNext
<1>14. f[n + 1] = IF l = <<>> THEN Dispatched(s) ELSE <<>>
  <2>1. n + 1 \in 1 .. n + 1
    BY <1>1
  <2>. QED
    BY <1>1, <1>4, <1>5, <1>6, <2>1 DEF Dispatched
<1>. QED
  BY <1>3, <1>7, <1>13, <1>14 DEF r

LEMMA DispatchedType ==
    ASSUME NEW s \in Seq(SseLines)
    PROVE  Dispatched(s) \in Seq(SseEvents)
<1>1. <<>> \in SseLines
  BY DEF SseLines
<1>2. EventAfter(s) \in SseEvents
  BY <1>1, EventsAfter
<1>3. <<EventAfter(s)>> \in Seq(SseEvents)
  BY <1>2
<1>4. <<>> \in Seq(SseEvents)
  OBVIOUS
<1>. QED
  BY <1>3, <1>4 DEF Dispatched

LEMMA ToldInTurn == \A a, b, c \in Seq(SseEvents) : (a \o b) \o c = a \o (b \o c)
BY ConcatAssociative

\* More lines make more events, and leave those there are.
LEMMA EventsGrow ==
    ASSUME NEW s \in Seq(SseLines)
    PROVE  \A u \in Seq(SseLines) : \E v \in Seq(SseEvents) : EventsOf(s \o u) = EventsOf(s) \o v
<1> DEFINE T == Seq(SseEvents)
           G == {u \in Seq(SseLines) : \E v \in T : EventsOf(s \o u) = EventsOf(s) \o v}
<1>1. \A r \in Seq(SseLines) : EventsOf(r) \in Seq(SseEvents)
  <2>1. <<>> \in SseLines
    BY DEF SseLines
  <2>. QED
    BY <2>1, EventsAfter
<1>2. <<>> \in G
  <2>1. s \o <<>> = s /\ <<>> \in Seq(SseLines) /\ <<>> \in T
    BY ConcatEmptySeq
  <2>2. EventsOf(s) \o <<>> = EventsOf(s)
    BY <1>1, ConcatEmptySeq
  <2>. QED
    BY <2>1, <2>2
<1>3. ASSUME NEW u \in Seq(SseLines), NEW l \in SseLines, u \in G
      PROVE  Append(u, l) \in G
  <2>1. PICK v \in T : EventsOf(s \o u) = EventsOf(s) \o v
    BY <1>3
  <2>2. s \o u \in Seq(SseLines) /\ Append(u, l) \in Seq(SseLines) /\ s \o Append(u, l) = Append(s \o u, l)
    BY ConcatProperties, AppendProperties, ConcatAppend
  <2> DEFINE w == IF l = <<>> THEN Dispatched(s \o u) ELSE <<>>
  <2>3. EventsOf(Append(s \o u, l)) = EventsOf(s \o u) \o w
    BY <2>2, EventsAfter
  <2>4. w \in T
    <3>1. Dispatched(s \o u) \in T
      BY <2>2, DispatchedType
    <3>2. <<>> \in T
      OBVIOUS
    <3>. QED
      BY <3>1, <3>2
  <2>. HIDE DEF w
  <2>5. (EventsOf(s) \o v) \o w = EventsOf(s) \o (v \o w)
    <3>1. EventsOf(s) \in T
      BY <1>1
    <3>. QED
      BY <2>1, <2>4, <3>1, ToldInTurn
  <2>6. v \o w \in T
    BY <2>1, <2>4, ConcatProperties
  <2>. QED
    BY <2>1, <2>2, <2>3, <2>5, <2>6
<1>. HIDE DEF G
<1>4. Seq(SseLines) \subseteq G
  BY <1>2, <1>3, SequencesByInduction
<1>. QED
  BY <1>4 DEF G

LEMMA PrefixOfMore ==
    ASSUME NEW T, NEW s \in Seq(T), NEW t \in Seq(T)
    PROVE  IsPrefix(s, s \o t)
<1> DEFINE r == s \o t
           m == Len(s)
<1>1. /\ r \in Seq(T) /\ m \in Nat /\ Len(t) \in Nat /\ Len(r) = m + Len(t)
      /\ \A i \in 1 .. m + Len(t) : r[i] = IF i <= m THEN s[i] ELSE t[i - m]
  BY ConcatProperties, LenProperties
<1>. HIDE DEF r
<1>2. m <= Len(r) /\ 1 \in 1 .. Len(r) + 1 /\ \A i \in 1 .. m : i \in 1 .. m + Len(t) /\ i <= m
  BY <1>1
<1>3. SubSeq(r, 1, m) = SubSeq(s, 1, m)
  <2>1. \A i \in 1 .. m : s[i] \in T /\ r[i] = s[i]
    BY <1>1, <1>2, ElementOfSeq
  <2>2. /\ SubSeq(s, 1, m) \in Seq(T) /\ Len(SubSeq(s, 1, m)) = IF 1 <= m THEN m - 1 + 1 ELSE 0
        /\ \A i \in 1 .. m - 1 + 1 : SubSeq(s, 1, m)[i] = s[1 + i - 1]
    BY <1>1, <2>1, SubSeqProperties
  <2>3. /\ SubSeq(r, 1, m) \in Seq(T) /\ Len(SubSeq(r, 1, m)) = IF 1 <= m THEN m - 1 + 1 ELSE 0
        /\ \A i \in 1 .. m - 1 + 1 : SubSeq(r, 1, m)[i] = r[1 + i - 1]
    BY <1>1, <2>1, SubSeqProperties
  <2>4. \A i \in 1 .. m : i \in 1 .. m - 1 + 1 /\ 1 + i - 1 = i
    BY <1>1
  <2>5. \A i \in 1 .. m : SubSeq(r, 1, m)[i] = SubSeq(s, 1, m)[i]
    BY <2>1, <2>2, <2>3, <2>4
  <2>6. \A i \in 1 .. Len(SubSeq(s, 1, m)) : i \in 1 .. m
    BY <1>1, <2>2
  <2>. QED
    BY <2>2, <2>3, <2>5, <2>6, SeqEqual
<1>. QED
  BY <1>2, <1>3 DEF IsPrefix, r

LEMMA NothingGathered ==
    /\ EventsOf(<<>>) = <<>>
    /\ \A name : OpenFields(<<>>, name) = <<>>
    /\ LastOf(<<>>) = <<>>
<1>1. EventsOf(<<>>) = <<>>
  <2>1. DispatchPieces(<<>>) = [k \in 1 .. 0 |-> <<>>]
    BY DEF DispatchPieces
  <2>2. EventsOf(<<>>) = FlattenSeq(DispatchPieces(<<>>))
    BY DEF EventsOf, DispatchPieces
  <2>. QED
    BY <2>1, <2>2, FlattenOfNothing
<1>2. ASSUME NEW name
      PROVE  OpenFields(<<>>, name) = <<>>
  <2>1. FieldPieces(<<>>, 1, name) = [k \in 1 .. 0 |-> <<>>]
    BY DEF FieldPieces
  <2>2. OpenFields(<<>>, name) = FlattenSeq(FieldPieces(<<>>, 1, name))
    BY DEF OpenFields, Fields, FieldPieces
  <2>. QED
    BY <2>1, <2>2, FlattenOfNothing
<1>3. LastOf(<<>>) = <<>>
  BY DEF LastOf
<1>. QED
  BY <1>1, <1>2, <1>3

LEMMA NoLine == <<>> \in SseLines
BY DEF SseLines

LEMMA EmptyEnds ==
    ASSUME NEW s \in Seq(SseLines)
    PROVE  \A name : OpenFields(Append(s, <<>>), name) = <<>>
BY NoLine, FieldsAfter

LEMMA StreamPrefix ==
    ASSUME NEW s \in Seq(Bytes), NEW n \in 0 .. Len(s)
    PROVE  IsPrefix(EventsOf(LinesUpto(s, n)), StreamEvents(s))
<1>1. PICK u \in Seq(SseLines) : Lines(s) = LinesUpto(s, n) \o u
  BY LinesGrow
<1>2. LinesUpto(s, n) \in Seq(SseLines)
  BY LinesNext
<1>a. PICK ls \in Seq(SseLines) : ls = LinesUpto(s, n)
  BY <1>2
<1>b. ls \o Append(u, <<>>) = Append(ls \o u, <<>>)
  BY NoLine, ConcatAppend
<1>c. Append(u, <<>>) \in Seq(SseLines)
  BY NoLine, AppendProperties
<1>3. Append(Lines(s), <<>>) = LinesUpto(s, n) \o Append(u, <<>>) /\ Append(u, <<>>) \in Seq(SseLines)
  BY <1>1, <1>a, <1>b, <1>c
<1>4. PICK v \in Seq(SseEvents) : EventsOf(LinesUpto(s, n) \o Append(u, <<>>)) = EventsOf(LinesUpto(s, n)) \o v
  BY <1>2, <1>3, EventsGrow
<1>5. EventsOf(LinesUpto(s, n)) \in Seq(SseEvents)
  BY <1>2, NoLine, EventsAfter
<1>6. IsPrefix(EventsOf(LinesUpto(s, n)), EventsOf(LinesUpto(s, n)) \o v)
  BY <1>5, PrefixOfMore
<1>. QED
  BY <1>3, <1>4, <1>6 DEF StreamEvents

\* At the end of the stream: the line without an end, and the event without
\* its empty line.
LEMMA StreamEnd ==
    ASSUME NEW s \in Seq(Bytes), NEW ls, ls = LinesUpto(s, Len(s)), NEW l, l = LineBefore(s, Len(s) + 1)
    PROVE  StreamEvents(s) = EventsOf(ls) \o (IF l = <<>> THEN Dispatched(ls) ELSE Dispatched(Append(ls, l)))
<1>1. Len(s) \in 0 .. Len(s) /\ Len(s) + 1 \in 1 .. Len(s) + 1
  OBVIOUS
<1>2. ls \in Seq(SseLines) /\ l \in SseLines
  BY <1>1, LinesNext, LinePiecesType
<1>3. Lines(s) = ls \o <<l>>
  <2>1. Lines(s) = LinesUpto(s, Len(s) + 1)
    BY DEF Lines, LinesUpto
  <2>2. LinesUpto(s, Len(s) + 1) = LinesUpto(s, Len(s)) \o <<LineBefore(s, Len(s) + 1)>>
    BY <1>1, LinesNext
  <2>. QED
    BY <2>1, <2>2
<1>4. Lines(s) = Append(ls, l) /\ Append(ls, l) \in Seq(SseLines)
  BY <1>2, <1>3, AppendIsConcat, AppendProperties
<1>5. <<>> \in SseLines
  BY DEF SseLines
<1>6. StreamEvents(s) = EventsOf(Append(ls, l)) \o Dispatched(Append(ls, l))
  BY <1>4, <1>5, EventsAfter DEF StreamEvents
<1>7. EventsOf(Append(ls, l)) = EventsOf(ls) \o (IF l = <<>> THEN Dispatched(ls) ELSE <<>>)
  BY <1>2, EventsAfter
<1>8. CASE l = <<>>
  <2>1. Dispatched(Append(ls, l)) = <<>>
    <3>1. OpenFields(Append(ls, l), "data") = <<>>
      BY <1>2, <1>8, EmptyEnds
    <3>. QED
      BY <3>1 DEF Dispatched
  <2>2. EventsOf(ls) \o Dispatched(ls) \in Seq(SseEvents)
    BY <1>2, EventsAfter, DispatchedType, ConcatProperties
  <2>. QED
    BY <1>6, <1>7, <1>8, <2>1, <2>2, ConcatEmptySeq
<1>9. CASE l # <<>>
  <2>1. EventsOf(ls) \o <<>> = EventsOf(ls)
    BY <1>2, EventsAfter, ConcatEmptySeq
  <2>. QED
    BY <1>6, <1>7, <1>9, <2>1
<1>. QED
  BY <1>8, <1>9

-----------------------------------------------------------------------------
(* The scanner: what it has gathered is what the lines it has read make.   *)

\* The scanner after the lines ls.
After(ls) ==
    /\ delivered = EventsOf(ls)
    /\ data = OpenFields(ls, "data")
    /\ evType = LastOf(OpenFields(ls, "event"))

SseInv ==
    /\ input \in Seq(Bytes) /\ pos \in 0 .. Len(input)
    /\ scan \in {"new", "reading", "eof", "error"}
    /\ scan = "new" => pos = 0 /\ line = <<>> /\ data = <<>> /\ evType = <<>> /\ delivered = <<>>
    /\ scan = "reading" => line = LineBefore(input, pos + 1) /\ After(LinesUpto(input, pos))
    /\ ScannerTellsTheStream

LEMMA NothingRead ==
    ASSUME NEW s \in Seq(Bytes)
    PROVE  /\ LineBefore(s, 1) = <<>> /\ LinesUpto(s, 0) = <<>>
           /\ IsPrefix(<<>>, StreamEvents(s))
<1>1. LineBefore(s, 1) = <<>>
  <2>1. LinePieces(s, 1) = [q \in 1 .. 0 |-> <<>>]
    BY DEF LinePieces
  <2>2. LineBefore(s, 1) = FlattenSeq(LinePieces(s, 1))
    BY DEF LineBefore, LinePieces
  <2>. QED
    BY <2>1, <2>2, FlattenOfNothing
<1>2. LinesUpto(s, 0) = <<>>
  BY NoLines
<1>3. 0 \in 0 .. Len(s)
  OBVIOUS
<1>4. IsPrefix(EventsOf(LinesUpto(s, 0)), StreamEvents(s))
  BY <1>3, StreamPrefix
<1>. QED
  BY <1>1, <1>2, <1>4, NothingGathered

LEMMA SseInitInv == SseInit => SseInv
<1>. SUFFICES ASSUME SseInit
              PROVE  SseInv
  OBVIOUS
<1>1. input \in Seq(Bytes) /\ pos \in 0 .. Len(input)
  BY DEF SseInit
<1>2. IsPrefix(delivered, StreamEvents(input))
  BY <1>1, NothingRead DEF SseInit
<1>. QED
  BY <1>1, <1>2 DEF SseInit, SseInv, ScannerTellsTheStream

LEMMA FeedKeeps == ASSUME SseInv, Feed PROVE SseInv'
<1>1. input' \in Seq(Bytes) /\ pos' = 0 /\ 0 \in 0 .. Len(input')
  BY DEF Feed, SeqOf, SseInv
<1>2. scan' = "reading" /\ line' = <<>> /\ data' = <<>> /\ evType' = <<>> /\ delivered' = <<>>
  BY DEF Feed, SseInv
<1>3. LineBefore(input', 1) = <<>> /\ LinesUpto(input', 0) = <<>> /\ IsPrefix(<<>>, StreamEvents(input'))
  BY <1>1, NothingRead
<1>4. After(LinesUpto(input, pos))'
  BY <1>1, <1>2, <1>3, NothingGathered DEF After
<1>5. ScannerTellsTheStream'
  BY <1>2, <1>3 DEF ScannerTellsTheStream
<1>6. line' = LineBefore(input', pos' + 1)
  BY <1>1, <1>2, <1>3
<1>. QED
  BY <1>1, <1>2, <1>4, <1>5, <1>6 DEF SseInv

\* What is dispatched is the event that the lines have made.
LEMMA DispatchTells ==
    ASSUME NEW ls \in Seq(SseLines), DispatchEvent(OpenFields(ls, "data"), LastOf(OpenFields(ls, "event"))),
           delivered \in Seq(SseEvents)
    PROVE  delivered' = delivered \o Dispatched(ls) /\ data' = <<>> /\ evType' = <<>>
<1>1. CASE OpenFields(ls, "data") = <<>>
  BY <1>1, ConcatEmptySeq DEF DispatchEvent, Dispatched
<1>2. CASE OpenFields(ls, "data") # <<>>
  <2>1. <<>> \in SseLines
    BY DEF SseLines
  <2>2. EventAfter(ls) \in SseEvents
    BY <2>1, EventsAfter
  <2>3. delivered' = Append(delivered, EventAfter(ls))
    BY <1>2 DEF DispatchEvent, EventAfter
  <2>4. Dispatched(ls) = <<EventAfter(ls)>>
    BY <1>2 DEF Dispatched
  <2>. QED
    BY <2>2, <2>3, <2>4, AppendIsConcat DEF DispatchEvent
<1>. QED
  BY <1>1, <1>2

\* What a line that is not empty adds.
LEMMA FieldTells ==
    ASSUME NEW ls \in Seq(SseLines), After(ls), line \in SseLines, line # <<>>
    PROVE  /\ EventsOf(Append(ls, line)) = EventsOf(ls)
           /\ WithField(line) = OpenFields(Append(ls, line), "data")
           /\ TypeAfter(line) = LastOf(OpenFields(Append(ls, line), "event"))
<1>1. EventsOf(Append(ls, line)) = EventsOf(ls)
  BY EventsAfter, ConcatEmptySeq
<1>2. \A name : OpenFields(ls, name) \in Seq(SseLines)
  <2>1. Len(ls) + 1 \in 1 .. Len(ls) + 1
    OBVIOUS
  <2>. QED
    BY <2>1, FieldPiecesType DEF OpenFields
<1>3. \A name : OpenFields(Append(ls, line), name) =
                  IF line[1] = name THEN OpenFields(ls, name) \o <<line>> ELSE OpenFields(ls, name)
  BY FieldsAfter
<1>4. WithField(line) = OpenFields(Append(ls, line), "data")
  <2>1. Append(data, line) = data \o <<line>>
    BY <1>2, AppendIsConcat DEF After
  <2>. QED
    BY <1>3, <2>1 DEF After, WithField
<1>5. TypeAfter(line) = LastOf(OpenFields(Append(ls, line), "event"))
  BY <1>2, <1>3, LastOfOneMore DEF After, TypeAfter
<1>. QED
  BY <1>1, <1>4, <1>5

\* An end of a line: the scanner is after one line more, or it has failed and
\* has delivered nothing.
LEMMA EndOfLineTells ==
    ASSUME NEW ls \in Seq(SseLines), After(ls), line \in SseLines, scan = "reading", EndOfLine
    PROVE  /\ line' = <<>>
           /\ \/ \E rs : rs = Append(ls, line) /\ scan' = "reading" /\ After(rs)'
              \/ scan' = "error" /\ delivered' = delivered
<1>1. EventsOf(ls) \in Seq(SseEvents)
  BY EventsAfter
<1>2. line' = <<>>
  BY DEF EndOfLine
<1>3. CASE line = <<>>
  <2>1. DispatchEvent(OpenFields(ls, "data"), LastOf(OpenFields(ls, "event"))) /\ scan' = "reading"
    BY <1>3 DEF EndOfLine, After
  <2>2. delivered' = delivered \o Dispatched(ls) /\ data' = <<>> /\ evType' = <<>>
    BY <1>1, <2>1, DispatchTells DEF After
  <2>3. EventsOf(Append(ls, line)) = delivered'
    BY <1>3, <2>2, EventsAfter DEF After
  <2>4. PICK rs : rs = Append(ls, line)
    OBVIOUS
  <2>5. \A name : OpenFields(rs, name) = <<>>
    BY <1>3, <2>4, EmptyEnds
  <2>6. delivered' = EventsOf(rs) /\ data' = OpenFields(rs, "data") /\ evType' = LastOf(OpenFields(rs, "event"))
    BY <2>2, <2>3, <2>4, <2>5, NothingGathered
  <2>. QED
    BY <1>2, <2>1, <2>4, <2>6 DEF After
<1>4. CASE line # <<>> /\ Size(WithField(line)) > MaxEvent
  BY <1>2, <1>4 DEF EndOfLine
<1>5. CASE line # <<>> /\ ~(Size(WithField(line)) > MaxEvent)
  <2>1. data' = WithField(line) /\ evType' = TypeAfter(line) /\ delivered' = delivered /\ scan' = "reading"
    BY <1>5 DEF EndOfLine
  <2>2. PICK rs : rs = Append(ls, line)
    OBVIOUS
  <2>3. EventsOf(rs) = EventsOf(ls) /\ data' = OpenFields(rs, "data") /\ evType' = LastOf(OpenFields(rs, "event"))
    BY <1>5, <2>1, <2>2, FieldTells
  <2>. QED
    BY <1>2, <2>1, <2>2, <2>3 DEF After
<1>. QED
  BY <1>3, <1>4, <1>5

LEMMA ReadByteKeeps == ASSUME SseInv, ReadByte PROVE SseInv'
<1>1. /\ input \in Seq(Bytes) /\ pos \in 0 .. Len(input) /\ pos < Len(input)
      /\ scan = "reading" /\ input' = input
      /\ line = LineBefore(input, pos + 1) /\ After(LinesUpto(input, pos))
  BY DEF SseInv, ReadByte
<1>2. pos + 1 \in 1 .. Len(input) /\ pos + 1 \in 0 .. Len(input) /\ pos + 1 \in 1 .. Len(input) + 1
  BY <1>1
<1>3. LinesUpto(input, pos) \in Seq(SseLines) /\ line \in SseLines
  BY <1>1, <1>2, LinesNext, LinePiecesType
<1>4. IsPrefix(delivered, StreamEvents(input))
  BY DEF SseInv, ScannerTellsTheStream
<1>5. DOMAIN input = 1 .. Len(input)
  BY <1>1, LenProperties
\* A step that fails.
<1>6. ASSUME scan' = "error", delivered' = delivered, pos' \in 0 .. Len(input)
      PROVE  SseInv'
  BY <1>1, <1>4, <1>6 DEF SseInv, ScannerTellsTheStream
\* A step that goes on from the place it has come to.
<1>7. ASSUME scan' = "reading", pos' \in 0 .. Len(input), line' = LineBefore(input, pos' + 1),
             After(LinesUpto(input, pos))'
      PROVE  SseInv'
  <2>1. delivered' = EventsOf(LinesUpto(input, pos'))
    BY <1>1, <1>7 DEF After
  <2>2. IsPrefix(delivered', StreamEvents(input))
    BY <1>1, <1>7, <2>1, StreamPrefix
  <2>. QED
    BY <1>1, <1>7, <2>2 DEF SseInv, ScannerTellsTheStream
<1>8. CASE input[pos + 1] \in {"LF", "CR"}
  <2>1. /\ EndOfLine
        /\ \/ input[pos + 1] = "LF" /\ pos' = pos + 1
           \/ input[pos + 1] = "CR" /\ pos' = AfterReturn(pos + 1)
    BY <1>8 DEF ReadByte
  <2>2. \/ input[pos + 1] = "LF" /\ pos' = pos + 1
        \/ /\ input[pos + 1] = "CR"
           /\ pos' = IF pos + 1 < Len(input) /\ input[(pos + 1) + 1] = "LF" THEN (pos + 1) + 1 ELSE pos + 1
    BY <2>1 DEF AfterReturn
  <2>3. /\ pos' \in 0 .. Len(input)
        /\ LinesUpto(input, pos') = Append(LinesUpto(input, pos), LineBefore(input, pos + 1))
        /\ LineBefore(input, pos' + 1) = <<>>
    BY <1>1, <2>2, LineOver
  <2>4. /\ line' = <<>>
        /\ \/ \E rs : rs = Append(LinesUpto(input, pos), line) /\ scan' = "reading" /\ After(rs)'
           \/ scan' = "error" /\ delivered' = delivered
    BY <1>1, <1>3, <2>1, EndOfLineTells
  <2>5. CASE scan' = "error" /\ delivered' = delivered
    BY <1>6, <2>3, <2>5
  <2>6. ASSUME NEW rs, rs = Append(LinesUpto(input, pos), line), scan' = "reading", After(rs)'
        PROVE  SseInv'
    <3>1. rs = LinesUpto(input', pos')
      BY <1>1, <2>3, <2>6
    <3>2. After(LinesUpto(input, pos))'
      BY <2>6, <3>1 DEF After
    <3>. QED
      BY <1>7, <2>3, <2>4, <2>6, <3>2
  <2>. QED
    BY <2>4, <2>5, <2>6
<1>9. CASE input[pos + 1] \notin {"LF", "CR"}
  <2>1. /\ pos' = pos + 1 /\ data' = data /\ evType' = evType /\ delivered' = delivered
        /\ \/ scan' = "error"
           \/ line' = Append(line, input[pos + 1]) /\ scan' = scan
    BY <1>9 DEF ReadByte
  <2>2. input[pos + 1] \in Chars /\ pos + 1 \notin LineEnds(input)
    <3>1. input[pos + 1] \in Bytes
      BY <1>1, <1>2, ElementOfSeq
    <3>. QED
      BY <1>9, <3>1 DEF Chars, LineEnds
  <2>3. CASE scan' = "error"
    BY <1>2, <1>6, <2>1, <2>3
  <2>4. CASE line' = Append(line, input[pos + 1]) /\ scan' = scan
    <3>1. LineBefore(input, (pos + 1) + 1) = Append(line, input[pos + 1])
      BY <1>1, <1>2, <2>2, LineAfter
    <3>2. LinesUpto(input, pos + 1) = LinesUpto(input, pos)
      <4>1. pos + 1 # Len(input) + 1
        BY <1>1
      <4>2. LinesUpto(input, pos + 1) = LinesUpto(input, pos) \o <<>>
        BY <1>1, <2>2, <4>1, LinesNext
      <4>. QED
        BY <1>3, <4>2, ConcatEmptySeq
    <3>3. LinesUpto(input', pos') = LinesUpto(input, pos)
      BY <1>1, <2>1, <3>2
    <3>4. After(LinesUpto(input, pos))'
      BY <1>1, <2>1, <3>3 DEF After
    <3>. QED
      BY <1>1, <1>2, <1>7, <2>1, <2>4, <3>1, <3>4
  <2>. QED
    BY <2>1, <2>3, <2>4
<1>. QED
  BY <1>8, <1>9

LEMMA AtEndKeeps == ASSUME SseInv, AtEnd PROVE SseInv'
<1>1. /\ input \in Seq(Bytes) /\ pos = Len(input) /\ scan = "reading"
      /\ input' = input /\ pos' = pos /\ line' = line
      /\ line = LineBefore(input, Len(input) + 1) /\ After(LinesUpto(input, Len(input)))
  BY DEF SseInv, AtEnd
<1>2. Len(input) \in 0 .. Len(input) /\ Len(input) + 1 \in 1 .. Len(input) + 1
  BY <1>1
<1>3. PICK ls \in Seq(SseLines) : ls = LinesUpto(input, Len(input))
  BY <1>1, <1>2, LinesNext
<1>4. line \in SseLines
  BY <1>1, <1>2, LinePiecesType
<1>5. After(ls) /\ EventsOf(ls) \in Seq(SseEvents) /\ delivered = EventsOf(ls)
  BY <1>1, <1>3, NoLine, EventsAfter DEF After
<1>6. StreamEvents(input) =
        EventsOf(ls) \o (IF line = <<>> THEN Dispatched(ls) ELSE Dispatched(Append(ls, line)))
  BY <1>1, <1>3, StreamEnd
<1>7. CASE scan' = "error" /\ UNCHANGED delivered
  BY <1>1, <1>2, <1>7 DEF SseInv, ScannerTellsTheStream
<1>8. CASE scan' = "eof" /\ DispatchEvent(WithField(line), TypeAfter(line))
  <2>1. delivered' = StreamEvents(input)
    <3>1. CASE line = <<>>
      <4>1. WithField(line) = OpenFields(ls, "data") /\ TypeAfter(line) = LastOf(OpenFields(ls, "event"))
        BY <1>5, <3>1 DEF WithField, TypeAfter, After
      <4>2. delivered' = delivered \o Dispatched(ls)
        BY <1>5, <1>8, <4>1, DispatchTells
      <4>. QED
        BY <1>5, <1>6, <3>1, <4>2
    <3>2. CASE line # <<>>
      <4>1. PICK rs \in Seq(SseLines) : rs = Append(ls, line)
        BY <1>4, AppendProperties
      <4>2. WithField(line) = OpenFields(rs, "data") /\ TypeAfter(line) = LastOf(OpenFields(rs, "event"))
        BY <1>4, <1>5, <3>2, <4>1, FieldTells
      <4>3. delivered' = delivered \o Dispatched(rs)
        BY <1>5, <1>8, <4>2, DispatchTells
      <4>. QED
        BY <1>5, <1>6, <3>2, <4>1, <4>3
    <3>. QED
      BY <3>1, <3>2
  <2>2. IsPrefix(delivered', StreamEvents(input))
    <3>1. StreamEvents(input) \in Seq(SseEvents)
      <4>1. Dispatched(ls) \in Seq(SseEvents)
        BY DispatchedType
      <4>2. Append(ls, line) \in Seq(SseLines)
        BY <1>4, AppendProperties
      <4>3. Dispatched(Append(ls, line)) \in Seq(SseEvents)
        BY <4>2, DispatchedType
      <4>. QED
        BY <1>5, <1>6, <4>1, <4>3, ConcatProperties
    <3>2. StreamEvents(input) \o <<>> = StreamEvents(input) /\ <<>> \in Seq(SseEvents)
      BY <3>1, ConcatEmptySeq
    <3>3. IsPrefix(StreamEvents(input), StreamEvents(input) \o <<>>)
      BY <3>1, <3>2, PrefixOfMore
    <3>. QED
      BY <2>1, <3>2, <3>3
  <2>. QED
    BY <1>1, <1>2, <1>8, <2>1, <2>2 DEF SseInv, ScannerTellsTheStream
<1>. QED
  BY <1>7, <1>8 DEF AtEnd

LEMMA SseNextInv == SseInv /\ [SseNext]_sseVars => SseInv'
<1>. SUFFICES ASSUME SseInv, [SseNext]_sseVars
              PROVE  SseInv'
  OBVIOUS
<1>1. CASE UNCHANGED sseVars
  <2>1. After(LinesUpto(input, pos)) => After(LinesUpto(input, pos))'
    BY <1>1 DEF sseVars, After
  <2>. QED
    BY <1>1, <2>1 DEF sseVars, SseInv, ScannerTellsTheStream
<1>. QED
  BY <1>1, FeedKeeps, ReadByteKeeps, AtEndKeeps DEF SseNext

\* What the scanner has returned is the beginning of what the stream says, for
\* streams of any length and however their lines end: the events of a carriage
\* return, a line feed or both, cut anywhere; and all of it at its end.
THEOREM ScannerDelivers == SseSpec => []ScannerTellsTheStream
<1>1. SseInv => ScannerTellsTheStream
  BY DEF SseInv
<1>. QED
  BY <1>1, SseInitInv, SseNextInv, PTL DEF SseSpec
=============================================================================
